------------------------------- MODULE MCLint -------------------------------
(***************************************************************************)
(* Two containers with up to two mounts each.                              *)
(***************************************************************************)
EXTENDS Lint

MCContainers == {"db.container", "web.container"}

Unit(mounts) ==
  [mounts |-> [s \in Slots |-> mounts[s]], nets |-> {}, install |-> TRUE, pod |-> FALSE,
   bare |-> FALSE, mute |-> {}]
Bind(src, label) == [src |-> src, label |-> label, folded |-> FALSE]

MCBinds == {NoMount} \cup {Bind("/data", l) : l \in Labels} \cup
             {Bind("/etc", "Z"), Bind("/etc", "none"), Bind("/db", "none")}
MCUnits == {Unit(<<a, b>>) : a \in MCBinds, b \in {NoMount, Bind("/data", "none"), Bind("/etc", "z")}}

MCPlain == {[s \in Sources |-> "plain"]}
MCEither == MCPlain \cup {[s \in Sources |-> IF s = "/etc" THEN "nfs" ELSE "plain"]}
MCOwn == [c \in MCContainers |-> IF c = "db.container" THEN "/db" ELSE "/web"]

NoSetting == [off |-> {}, severity |-> [r \in {} |-> Note]]
Raising   == [off |-> {}, severity |-> [r \in {"QD001", "QD003"} |-> Error]]
Lowering  == [off |-> {"QD002"}, severity |-> [r \in {"QD000", "QD001"} |-> Note]]
MCSettings == {NoSetting, Raising, Lowering}

MCComments == {{}, {[rules |-> {"QD001"}, reason |-> TRUE], [rules |-> {}, reason |-> FALSE]}}
=============================================================================
