------------------------------- MODULE MCDiff -------------------------------
(***************************************************************************)
(* Every pair of files of up to four lines over three texts.               *)
(***************************************************************************)
EXTENDS Diff

MCTexts == {"[Container]", "Image=v", ""}
=============================================================================
