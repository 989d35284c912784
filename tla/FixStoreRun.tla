---------------------------- MODULE FixStoreRun ----------------------------
(***************************************************************************)
(* Runs of `quaddoc fix` that nobody disturbs implement FixStore: the goal *)
(* of the directory is what the writing run still has to write.            *)
(***************************************************************************)
EXTENDS FixRun

OnDisk(p) == IF p \in Containers THEN file[p] ELSE network[p]
Wanted(p) == IF p \in Containers THEN change[p].after ELSE "quaddoc"

\* Only a run that writes has announced anything.
DiskOf == [p \in Paths |-> OnDisk(p)]
GoalOf == [p \in Paths |->
             IF pc = "write" /\ p \in todo THEN Wanted(p) ELSE OnDisk(p)]

BlankOf == [p \in Paths |-> IF p \in Containers THEN Truncated ELSE "empty"]

\* A mechanical fix labels mounts that had no label, adds an [Install] section
\* and joins one network, in the place of a stack of the container's own.
Extends(old, new) ==
  /\ \A s \in Slots : \/ new.mounts[s] = old.mounts[s]
                      \/ /\ NoMount \notin {old.mounts[s], new.mounts[s]}
                         /\ old.mounts[s].label = "none"
                         /\ new.mounts[s] = [old.mounts[s] EXCEPT !.label = new.mounts[s].label]
  /\ old.nets \ {"own"} \subseteq new.nets
  /\ new.nets \ old.nets \subseteq Networks
  /\ old.install => new.install
  /\ new = [old EXCEPT !.mounts = new.mounts, !.nets = new.nets, !.install = new.install]

MayWrite(p, old, new) ==
  IF p \in Containers THEN old # Absent /\ Extends(old, new)
                      ELSE p = Shared /\ old = "absent" /\ new = "quaddoc"

Store == INSTANCE FixStore
  WITH Files <- Paths, Blank <- BlankOf, May <- MayWrite, disk <- DiskOf, goal <- GoalOf

\* fix.go: "Only rules whose remediation is provably semantics-preserving get a
\* fix". In every behaviour, with a failure or a kill anywhere, each file goes
\* from what it held to an announced content that only extends it, file by file
\* in path order, and every announcement is carried out or abandoned in the end.
ImplementsStore == Store!Spec
=============================================================================
