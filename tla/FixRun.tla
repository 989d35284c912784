------------------------------- MODULE FixRun -------------------------------
(***************************************************************************)
(* `quaddoc fix` over a directory of units, from reading the files to      *)
(* writing them back: runFix and audit in cmd/quaddoc, Apply and Write in  *)
(* internal/fix.                                                           *)
(*                                                                         *)
(* One invocation reads every file (load), runs the rules (audit), decides *)
(* on a network unit (plan), reads each file AGAIN to edit it (fix), and   *)
(* writes the results file by file in path order (write). Between any two  *)
(* steps somebody may edit the directory, and a write may fail or the      *)
(* process may be killed. Invocations follow one another.                  *)
(***************************************************************************)
EXTENDS ProjectRules

CONSTANTS
  Shared,       \* the network unit fix creates: <root>/shared.network
  Rank,         \* the order of the paths as strings
  Contents,     \* what a person may save in a container file
  Invocations,  \* the command lines that are run
  NoRun,        \* no clean run to compare with
  MaxRuns, MaxEdits, MaxFaults  \* bounds: invocations, edits, failures

Paths == Containers \cup Networks

Invocation ==
  [dir : BOOLEAN, sel : SUBSET Paths, only : SUBSET RuleIDs, write : BOOLEAN]

\* A .network file: none, one cut short by a kill, a person's, or quaddoc's.
NetFiles == {"absent", "empty", "user", "quaddoc"}

SIGKILL == 137  \* the status of a process killed half way

NoChange == [before |-> Absent, after |-> Absent]
Change   == [before : Container \cup {Absent}, after : Container \cup {Absent}]

\* What O_TRUNC leaves: a file with no sections at all.
Truncated ==
  [mounts |-> [s \in Slots |-> NoMount], nets |-> {}, install |-> FALSE,
   pod |-> FALSE, bare |-> TRUE, mute |-> {}]

ASSUME SharedAssumption == Shared \in Networks /\ NoNet \notin Networks

ASSUME NamesAssumption ==
  /\ Containers \cap Networks = {}
  /\ {"own", "host", ""} \cap Networks = {}

ASSUME RankAssumption ==
  /\ Rank \in [Paths -> Nat]
  /\ \A p, q \in Paths : Rank[p] = Rank[q] => p = q

ASSUME InputsAssumption ==
  /\ Contents \subseteq Container
  /\ Invocations \subseteq Invocation
  /\ NoRun \notin Invocations

VARIABLES
  file,     \* the container files on disk
  network,  \* the network files on disk
  pc,       \* the phase of the running invocation
  args,     \* its command line
  todo,     \* the paths the current phase has still to handle
  loaded,   \* the units as first read
  nets,     \* the network units among them
  findings, unfixed,
  target,   \* the network unit to join containers to
  change,   \* the proposed change of each container file
  create,   \* whether Shared is to be created
  open,     \* the path being written, {} if none
  exit,     \* the status of the last invocation
  last,     \* the last clean --write run, until anything else touches a file
  runs, edits, faults

disk  == <<file, network>>
run   == <<args, loaded, nets, findings, unfixed, target, change, create>>
count == <<runs, edits, faults>>
vars  == <<file, network, pc, args, todo, loaded, nets, findings, unfixed,
           target, change, create, open, exit, last, runs, edits, faults>>

Nothing == [c \in Containers |-> Absent]

Present(p) ==
  IF p \in Containers THEN file[p] # Absent ELSE network[p] # "absent"

\* Mutant: the paths are taken in reverse order.
LastOf(p, P)  == p \in P /\ \A q \in P : Rank[p] >= Rank[q]
\* Mutant: the last path of a phase is never reached.
Before(p, P)  == p \in P /\ \A q \in P : Rank[p] < Rank[q]

First(p, P) == p \in P /\ \A q \in P : Rank[p] <= Rank[q]

Selected(f) == args.only = {} \/ f.rule \in args.only

FindingsOf(c) ==
  {f \in findings : f.unit = c /\ f.rule \in Fixable /\ Selected(f)}

Changed == {c \in Containers : change[c].before # change[c].after}

Stop(status) == pc' = "done" /\ exit' = status

Init ==
  /\ file \in [Containers -> Contents \cup {Absent}]
  /\ network \in [Networks -> {"absent", "user"}]
  /\ pc = "done" /\ exit = 0 /\ open = {} /\ todo = {}
  /\ args \in Invocations
  /\ loaded = Nothing /\ nets = {} /\ findings = {} /\ unfixed = {}
  /\ target = NoNet /\ create = FALSE
  /\ change = [c \in Containers |-> NoChange]
  /\ last = NoRun
  /\ runs = 0 /\ edits = 0 /\ faults = 0

-----------------------------------------------------------------------------
(* The invocation.                                                         *)

\* A directory is listed; files named one by one are taken as they are.
Start(a) ==
  /\ pc = "done" /\ runs < MaxRuns
  /\ pc' = "load" /\ args' = a /\ runs' = runs + 1
  /\ todo' = {p \in Paths : IF a.dir THEN Present(p) ELSE p \in a.sel}
  /\ loaded' = Nothing /\ nets' = {} /\ findings' = {} /\ unfixed' = {}
  /\ target' = NoNet /\ create' = FALSE /\ open' = {}
  /\ change' = [c \in Containers |-> NoChange]
  /\ UNCHANGED <<disk, exit, last, edits, faults>>

LoadUnit(p) ==
  /\ pc = "load" /\ p \in todo
  /\ todo' = todo \ {p}
  /\ \/ /\ ~Present(p)
        /\ Stop(2) /\ UNCHANGED <<loaded, nets>>
     \/ /\ Present(p) /\ p \in Containers
        /\ loaded' = [loaded EXCEPT ![p] = file[p]] /\ UNCHANGED <<pc, exit, nets>>
     \/ /\ Present(p) /\ p \in Networks
        /\ nets' = nets \cup {p} /\ UNCHANGED <<pc, exit, loaded>>
  /\ UNCHANGED <<disk, args, findings, unfixed, target, change, create, open,
                 last, count>>

\* loadProject rejects an empty project. Findings of rules without a fix, and
\* of rules --rule leaves out, are set aside at once.
RunRules ==
  /\ pc = "load" /\ todo = {}
  /\ IF Loaded(loaded) = {} /\ nets = {}
     THEN Stop(2) /\ UNCHANGED <<findings, unfixed>>
     ELSE /\ pc' = "plan" /\ UNCHANGED exit
          /\ findings' = Audit(loaded)
          /\ unfixed' = {f \in Audit(loaded) :
                           f.rule \notin Fixable \/ ~Selected(f)}
  /\ UNCHANGED <<disk, args, todo, loaded, nets, target, change, create, open,
                 last, count>>

\* One network for the whole project: the first one loaded, or a new one,
\* which must not exist on disk.
PlanNetwork ==
  /\ pc = "plan"
  /\ IF ~\E f \in findings : f.rule = "QD030" /\ Selected(f)
     THEN pc' = "fix" /\ UNCHANGED <<exit, target, create>>
     ELSE \/ /\ \E n \in nets : First(n, nets) /\ target' = n
             /\ pc' = "fix" /\ UNCHANGED <<exit, create>>
          \/ /\ nets = {} /\ network[Shared] = "absent"
             /\ pc' = "fix" /\ target' = Shared /\ create' = TRUE
             /\ UNCHANGED exit
          \/ /\ nets = {} /\ network[Shared] # "absent"
             /\ Stop(2) /\ UNCHANGED <<target, create>>
  /\ todo' = {c \in Containers : FindingsOf(c) # {}}
  /\ UNCHANGED <<disk, args, loaded, nets, findings, unfixed, change, open,
                 last, count>>

\* fixFile reads the file again: it may no longer be what was loaded.
FixFile(c) ==
  /\ pc = "fix" /\ First(c, todo)
  /\ IF file[c] = Absent
     THEN Stop(2) /\ UNCHANGED <<todo, change, unfixed>>
     ELSE /\ todo' = todo \ {c}
          /\ change' = [change EXCEPT ![c] =
                 [before |-> file[c],
                  after  |-> Fixed(file[c], FindingsOf(c), target)]]
          /\ unfixed' = unfixed \cup Declined(file[c], FindingsOf(c), target)
          /\ UNCHANGED <<pc, exit>>
  /\ UNCHANGED <<disk, args, loaded, nets, findings, target, create, open,
                 last, count>>

\* Nothing to fix, or a preview: the invocation ends without writing.
Conclude ==
  /\ pc = "fix" /\ todo = {}
  /\ IF args.write /\ (Changed # {} \/ create)
     THEN /\ pc' = "write" /\ UNCHANGED exit
          /\ todo' = Changed \cup (IF create THEN {Shared} ELSE {})
     ELSE Stop(0) /\ UNCHANGED todo
  /\ UNCHANGED <<disk, run, open, last, count>>

\* Mutant: a new file is opened without O_EXCL.
CreateAnyway(n) == TRUE

CanCreate(n) == network[n] = "absent"

\* os.WriteFile truncates first; a new file is opened with O_EXCL.
OpenFile(p) ==
  /\ pc = "write" /\ First(p, todo) /\ open = {}
  /\ \/ /\ p \in Containers
        /\ file' = [file EXCEPT ![p] = Truncated]
        /\ open' = {p} /\ UNCHANGED <<network, pc, exit, last>>
     \/ /\ p \in Networks /\ CanCreate(p)
        /\ network' = [network EXCEPT ![p] = "empty"]
        /\ open' = {p} /\ UNCHANGED <<file, pc, exit, last>>
     \/ /\ p \in Networks /\ ~CanCreate(p)
        /\ Stop(2) /\ last' = NoRun /\ UNCHANGED <<disk, open>>
  /\ UNCHANGED <<todo, run, count>>

WriteFile ==
  /\ pc = "write" /\ open # {}
  /\ file' = [c \in Containers |->
                IF c \in open THEN change[c].after ELSE file[c]]
  /\ network' = [n \in Networks |->
                IF n \in open THEN "quaddoc" ELSE network[n]]
  /\ todo' = todo \ open /\ open' = {}
  /\ UNCHANGED <<pc, run, exit, last, count>>

Finish ==
  /\ pc = "write" /\ todo = {} /\ open = {}
  /\ Stop(0) /\ last' = args
  /\ UNCHANGED <<disk, todo, run, open, count>>

Tool ==
  \/ \E p \in Paths : LoadUnit(p) \/ OpenFile(p)
  \/ \E c \in Containers : FixFile(c)
  \/ RunRules \/ PlanNetwork \/ Conclude \/ WriteFile \/ Finish

-----------------------------------------------------------------------------
(* What may go wrong, and who else is at work.                             *)

\* The file cannot be opened (nothing happened to it) or filled (it stays as
\* the truncation left it). Write stops at the first error.
WriteFails ==
  /\ pc = "write" /\ todo # {} /\ faults < MaxFaults
  /\ Stop(2) /\ open' = {} /\ last' = NoRun /\ faults' = faults + 1
  /\ UNCHANGED <<disk, todo, run, runs, edits>>

Kill ==
  /\ pc # "done" /\ faults < MaxFaults
  /\ pc' = "done" /\ exit' = SIGKILL /\ open' = {}
  /\ last' = IF pc = "write" THEN NoRun ELSE last
  /\ faults' = faults + 1
  /\ UNCHANGED <<disk, todo, run, runs, edits>>

\* A person saves or removes a file. They do not hit the instant at which
\* quaddoc has that very file open for writing.
Edit ==
  /\ edits < MaxEdits /\ edits' = edits + 1 /\ last' = NoRun
  /\ \/ /\ \E c \in Containers \ open, u \in Contents \cup {Absent} :
             file' = [file EXCEPT ![c] = u]
        /\ UNCHANGED network
     \/ /\ \E n \in Networks \ open, w \in {"absent", "user"} :
             network' = [network EXCEPT ![n] = w]
        /\ UNCHANGED file
  /\ UNCHANGED <<pc, todo, run, open, exit, runs, faults>>

Begin == \E a \in Invocations : Start(a)

Alone == Begin \/ Tool \/ WriteFails \/ Kill
Next  == Alone \/ Edit

SpecAlone == Init /\ [][Alone]_vars /\ WF_vars(Tool)
Spec      == Init /\ [][Next]_vars /\ WF_vars(Tool)
-----------------------------------------------------------------------------
(* Properties.                                                             *)

\* Every variable ranges over the values its Go counterpart can take.
TypeOK ==
  /\ file \in Projects
  /\ network \in [Networks -> NetFiles]
  /\ pc \in {"load", "plan", "fix", "write", "done"}
  /\ args \in Invocations
  /\ todo \subseteq Paths
  /\ loaded \in Projects
  /\ nets \subseteq Networks
  /\ findings \subseteq Finding /\ unfixed \subseteq Finding
  /\ target \in Networks \cup {NoNet}
  /\ change \in [Containers -> Change]
  /\ create \in BOOLEAN
  /\ open \subseteq Paths
  /\ exit \in {0, 2, SIGKILL}
  /\ last \in Invocations \cup {NoRun}
  /\ runs \in Nat /\ edits \in Nat /\ faults \in Nat

\* fix.go's promise about its labels ("That is what keeps the fix from writing
\* a :Z that QD002 would then flag"): when every invocation names the whole
\* directory, no file on disk ever puts a private label on a source that
\* another file mounts, whatever is fixed, refused, cut short or run again.
NoPrivateOnShared ==
  \A c, d \in Containers : c # d =>
    \A s \in Mounted(file[c]) :
      file[c].mounts[s].label = "Z" => file[c].mounts[s].src \notin SourcesOf(file[d])

\* What the project will be once the proposed changes are applied.
Proposed == [c \in Containers |->
               IF c \in Changed THEN change[c].after ELSE loaded[c]]

\* Nothing moved under the run: the files it read again are those it loaded.
Unmoved == \A c \in Containers : change[c] # NoChange => change[c].before = loaded[c]

\* The findings of a project that consists of the proposed files are among
\* those fix reports as unfixed: no finding is dropped without a word
\* (reportUnfixed: "so a clean fix run is not mistaken for a clean lint"), and
\* no fix, alone or together with the others, makes a new one.
NothingNewNothingForgotten ==
  pc = "fix" /\ todo = {} /\ Unmoved =>
    \A g \in Audit(Proposed) : \E f \in unfixed :
      f.rule = g.rule /\ f.unit = g.unit /\ f.slot = g.slot

\* "Applying a fix twice equals applying it once" for the command as a whole:
\* after a clean --write run that nobody has disturbed, the same command line
\* proposes no change and creates no network, however many other runs were
\* refused or only previewed in between.
Idempotent ==
  pc = "fix" /\ todo = {} /\ last = args /\ edits = 0 => Changed = {} /\ ~create

\* The paths this invocation proposes to write, and how far each one got.
Plan == Changed \cup (IF create THEN {Shared} ELSE {})
Untouched(p) == IF p \in Containers THEN file[p] = change[p].before
                                    ELSE network[p] = "absent"
Written(p)   == IF p \in Containers THEN file[p] = change[p].after
                                    ELSE network[p] = "quaddoc"

\* However the invocation ends, refused, failed or killed, what it leaves is a
\* prefix of what it announced, in path order: a file is touched only when
\* every earlier one is complete (so at most one is cut short), and a loaded
\* file outside the plan is as it was read.
WritesArePrefix ==
  /\ \A p, q \in Plan : Rank[p] < Rank[q] /\ ~Untouched(q) => Written(p)
  /\ \A c \in Loaded(loaded) \ Changed : file[c] = loaded[c]

\* "A created file is opened with O_EXCL, so a file that appeared since Apply
\* checked the disk is never truncated": quaddoc never changes a network file
\* it has not itself created in the same run, whoever else creates one when.
CreatedNeverClobbers ==
  [][\A n \in Networks : network'[n] # network[n] /\ edits' = edits
        => network[n] = "absent" \/ n \in open]_vars

\* An invocation comes to an end: it exits, unless it is killed.
Termination == pc # "done" ~> pc = "done"

\* For directories that start out without a private label on a shared source.
InitClean == Init /\ NoPrivateOnShared
SpecClean == InitClean /\ [][Alone]_vars /\ WF_vars(Tool)
=============================================================================
