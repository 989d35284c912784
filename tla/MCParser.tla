------------------------------ MODULE MCParser ------------------------------
(***************************************************************************)
(* Every file of up to four lines over an alphabet that has each kind of   *)
(* line, and open (continued) ones of each kind that can be continued.     *)
(***************************************************************************)
EXTENDS Parser

MCAtoms == {"a", "b"}

MCLines == {Blank, Comment, Header("Container"), Header("Install"),
            Assign("Image", <<"a">>), Open(Assign("Exec", <<"a">>)),
            Open(Assign("Exec", <<>>)),
            [face |-> "text", name |-> "", val |-> <<"b">>, bs |-> FALSE],
            [face |-> "text", name |-> "", val |-> <<"b">>, bs |-> TRUE]}

MCFiles == BoundedSeq(MCLines, 4)
=============================================================================
