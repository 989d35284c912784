------------------------------ MODULE FixStore ------------------------------
(***************************************************************************)
(* What a directory may expect of `quaddoc fix`, without invocations,      *)
(* findings or phases: now and then somebody proposes another content for  *)
(* some of its files, each one allowed by what a mechanical fix may do to a*)
(* file, and the files are brought there one at a time, in the order of    *)
(* their paths. A file in progress may be seen blank. At any moment what is*)
(* left of a proposal may be given up, and no proposal stays for ever.     *)
(***************************************************************************)
EXTENDS Naturals

CONSTANTS
  Files,
  Rank,         \* the order of the files
  Blank,        \* what each file holds while it is being written
  May(_, _, _)  \* the contents a fix may put in the place of another

VARIABLES
  disk,  \* what the files hold
  goal   \* what they are to hold

vars == <<disk, goal>>

Pending == {p \in Files : disk[p] # goal[p]}

First(p) == p \in Pending /\ \A q \in Pending : Rank[p] <= Rank[q]

Init == goal = disk

Propose ==
  /\ Pending = {}
  /\ DOMAIN goal' = Files
  /\ \A p \in Files : goal'[p] = disk[p] \/ May(p, disk[p], goal'[p])
  /\ UNCHANGED disk

Empty(p) == First(p) /\ disk' = [disk EXCEPT ![p] = Blank[p]] /\ UNCHANGED goal

Fill(p)  == First(p) /\ disk' = [disk EXCEPT ![p] = goal[p]] /\ UNCHANGED goal

GiveUp   == Pending # {} /\ goal' = disk /\ UNCHANGED disk

Proceed  == GiveUp \/ \E p \in Files : Empty(p) \/ Fill(p)

Next == Propose \/ Proceed

Spec == Init /\ [][Next]_vars /\ WF_vars(Proceed)
=============================================================================
