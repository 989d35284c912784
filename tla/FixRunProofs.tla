---------------------------- MODULE FixRunProofs ----------------------------
(***************************************************************************)
(* Theorems about FixRun, for any number of containers, networks, sources, *)
(* mounts, invocations, edits and failures.                                *)
(***************************************************************************)
EXTENDS FixStoreRun, FiniteSetTheorems, TLAPS

-----------------------------------------------------------------------------
(* The operators of ProjectRules.                                          *)

\* The rules report findings of the type internal/fix reads.
LEMMA AuditType ==
  ASSUME NEW prj
  PROVE  Audit(prj) \subseteq Finding
BY DEF Audit, checkQD001, checkQD002, checkQD022, checkQD030

\* A finding of QD001 that fixQD001 applies carries a label.
LEMMA LabellingFix ==
  ASSUME NEW unit, NEW fs, NEW s, Labelling(unit, fs, s) # {}
  PROVE  LET f == CHOOSE g \in Labelling(unit, fs, s) : TRUE
         IN  /\ f \in fs /\ f.rule = "QD001" /\ f.slot = s
             /\ f.fix \in {"z", "Z"} /\ s \in Mounted(unit)
BY DEF Labelling, CanLabel

\* fixFile turns a unit into a unit.
LEMMA FixedType ==
  ASSUME NEW unit \in Container, NEW fs \in SUBSET Finding,
         NEW n \in Networks \cup {NoNet}
  PROVE  Fixed(unit, fs, n) \in Container
<1>1. fixQD001(unit, fs) \in [Slots -> Mount \cup {NoMount}]
  <2> SUFFICES ASSUME NEW s \in Slots
               PROVE  fixQD001(unit, fs)[s] \in Mount \cup {NoMount}
    BY DEF fixQD001
  <2>1. CASE Labelling(unit, fs, s) = {}
    BY <2>1 DEF fixQD001, Container
  <2>2. CASE Labelling(unit, fs, s) # {}
    <3> DEFINE f == CHOOSE g \in Labelling(unit, fs, s) : TRUE
    <3>1. f.fix \in Labels /\ unit.mounts[s] # NoMount
      BY <2>2, LabellingFix DEF Labels, Mounted
    <3>2. unit.mounts[s] \in Mount
      BY <3>1 DEF Container
    <3>3. fixQD001(unit, fs)[s] = [unit.mounts[s] EXCEPT !.label = f.fix]
      BY <2>2 DEF fixQD001
    <3> QED BY <3>1, <3>2, <3>3 DEF Mount
  <2> QED BY <2>1, <2>2
<1>2. fixQD022(unit, fs) \in BOOLEAN
  BY DEF fixQD022, Container
<1>3. fixQD030(unit, fs, n) \in SUBSET NetValues
  <2>1. \A f \in fs : CanJoin(unit, f, n) => n \in NetValues
    BY DEF CanJoin, NetValues
  <2>2. unit.nets \in SUBSET NetValues
    BY DEF Container
  <2> QED BY <2>1, <2>2 DEF fixQD030
<1> QED BY <1>1, <1>2, <1>3 DEF Fixed, Container

\* A truncated file is a container without any line.
LEMMA TruncatedType == Truncated \in Container
BY DEF Truncated, Container

-----------------------------------------------------------------------------
(* Type correctness.                                                       *)

\* What is not there yet has its type.
LEMMA BlankTypes ==
  /\ Nothing \in Projects
  /\ [c \in Containers |-> NoChange] \in [Containers -> Change]
<1>1. NoChange \in Change
  BY DEF NoChange, Change
<1> QED BY <1>1 DEF Nothing, Projects

\* Types hold to begin with.
LEMMA InitType == Init => TypeOK
<1> SUFFICES ASSUME Init PROVE TypeOK
  OBVIOUS
<1>1. file \in Projects
  BY InputsAssumption DEF Init, Projects
<1>2. network \in [Networks -> NetFiles]
  BY DEF Init, NetFiles
<1>3. create \in BOOLEAN
  BY DEF Init
<1> QED BY <1>1, <1>2, <1>3, BlankTypes DEF Init, TypeOK

\* One step per action: every one of them keeps the types.
LEMMA StepType == TypeOK /\ [Next]_vars => TypeOK'
<1> SUFFICES ASSUME TypeOK, [Next]_vars PROVE TypeOK'
  OBVIOUS
<1> USE DEF TypeOK, disk, run, count, Stop
<1>1. ASSUME NEW a \in Invocations, Start(a) PROVE TypeOK'
  <2>1. create' \in BOOLEAN
    BY <1>1 DEF Start
  <2> QED BY <1>1, <2>1, BlankTypes DEF Start
<1>2. ASSUME NEW p \in Paths, LoadUnit(p) PROVE TypeOK'
  BY <1>2 DEF LoadUnit, Projects
<1>3. CASE RunRules
  BY <1>3, AuditType DEF RunRules
<1>4. CASE PlanNetwork
  BY <1>4, SharedAssumption DEF PlanNetwork, Paths
<1>5. ASSUME NEW c \in Containers, FixFile(c) PROVE TypeOK'
  <2>1. CASE file[c] = Absent
    BY <1>5, <2>1 DEF FixFile
  <2>2. CASE file[c] # Absent
    <3>1. file[c] \in Container
      BY <2>2 DEF Projects
    <3>2. FindingsOf(c) \in SUBSET Finding
      BY DEF FindingsOf
    <3>3. Fixed(file[c], FindingsOf(c), target) \in Container
      BY <3>1, <3>2, FixedType
    <3>4. change' \in [Containers -> Change]
      BY <1>5, <2>2, <3>1, <3>3 DEF FixFile, Change
    <3>5. unfixed' \subseteq Finding
      BY <1>5, <2>2, <3>2 DEF FixFile, Declined
    <3> QED BY <1>5, <2>2, <3>4, <3>5 DEF FixFile
  <2> QED BY <2>1, <2>2
<1>6. CASE Conclude
  BY <1>6, SharedAssumption DEF Conclude, Changed, Paths
<1>7. ASSUME NEW p \in Paths, OpenFile(p) PROVE TypeOK'
  BY <1>7, TruncatedType DEF OpenFile, Projects, NetFiles, Paths
<1>8. CASE WriteFile
  BY <1>8 DEF WriteFile, Projects, NetFiles, Change
<1>9. CASE Finish
  BY <1>9 DEF Finish
<1>10. CASE WriteFails
  BY <1>10 DEF WriteFails
<1>11. CASE Kill
  BY <1>11 DEF Kill
<1>12. CASE Edit
  BY <1>12, InputsAssumption DEF Edit, Projects, NetFiles
<1>13. CASE UNCHANGED vars
  BY <1>13 DEF vars
<1> QED
  BY <1>1, <1>2, <1>3, <1>4, <1>5, <1>6, <1>7, <1>8, <1>9, <1>10, <1>11,
     <1>12, <1>13 DEF Next, Alone, Begin, Tool

\* Every variable keeps its type, edits and failures included.
THEOREM FixRunTypes == Spec => []TypeOK
<1>1. Init => TypeOK
  BY InitType
<1>2. TypeOK /\ [Next]_vars => TypeOK'
  BY StepType
<1> QED BY <1>1, <1>2, PTL DEF Spec

-----------------------------------------------------------------------------
(* A network file that quaddoc did not itself open is never written.       *)

\* O_EXCL, for every interleaving with a person who creates the file.
THEOREM NetworksSurvive == Spec => CreatedNeverClobbers
<1> DEFINE Kept == \A n \in Networks : network'[n] # network[n] /\ edits' = edits
                     => network[n] = "absent" \/ n \in open
<1>1. TypeOK /\ [Next]_vars => [Kept]_vars
  <2> SUFFICES ASSUME TypeOK, [Next]_vars PROVE [Kept]_vars
    OBVIOUS
  <2> USE DEF disk, run, count, Stop
  <2>1. ASSUME NEW p \in Paths, OpenFile(p) PROVE Kept
    BY <2>1 DEF OpenFile, CanCreate, TypeOK
  <2>2. CASE WriteFile
    BY <2>2 DEF WriteFile, TypeOK
  <2>3. CASE Edit
    BY <2>3 DEF Edit, TypeOK
  <2>4. CASE UNCHANGED vars
    BY <2>4
  <2>5. CASE \/ \E a \in Invocations : Start(a)
             \/ \E p \in Paths : LoadUnit(p)
             \/ \E c \in Containers : FixFile(c)
             \/ RunRules \/ PlanNetwork \/ Conclude \/ Finish
             \/ WriteFails \/ Kill
    <3>1. UNCHANGED network
      BY <2>5 DEF Start, LoadUnit, FixFile, RunRules, PlanNetwork, Conclude,
                  Finish, WriteFails, Kill
    <3> QED BY <3>1
  <2> QED
    BY <2>1, <2>2, <2>3, <2>4, <2>5 DEF Next, Alone, Begin, Tool
<1>2. Spec => []TypeOK
  BY FixRunTypes
<1> QED BY <1>1, <1>2, PTL DEF Spec, CreatedNeverClobbers

-----------------------------------------------------------------------------
(* fix never puts a private label on a source two containers mount, when it*)
(* is given the whole directory and nobody edits it meanwhile: however many*)
(* invocations, whatever they are restricted to, and wherever they are cut *)
(* short. The inductive invariant.                                         *)

\* The label on a mount of c does not clash with any other unit as loaded.
PrivateIn(c, unit, s) ==
  unit.mounts[s].label = "Z" =>
    \A d \in Containers \ {c} : unit.mounts[s].src \notin SourcesOf(loaded[d])

\* What fix may leave in file c at any moment: no source it did not have when
\* it was loaded, and no private label on a source of another loaded unit.
Safe(c, unit) ==
  /\ SourcesOf(unit) \subseteq SourcesOf(loaded[c])
  /\ \A s \in Mounted(unit) : PrivateIn(c, unit, s)

\* While the project is read, what has been read is what the disk holds; until
\* the first write the two agree, and the findings are those of the disk; from
\* then on every file, and everything still to be written, is safe.
SharingInv ==
  /\ TypeOK
  /\ NoPrivateOnShared
  /\ pc = "load" => \A c \in Containers \ todo : loaded[c] = file[c]
  /\ pc \in {"plan", "fix"} => loaded = file /\ findings \subseteq Audit(loaded)
  /\ pc \in {"load", "plan"} => change = [c \in Containers |-> NoChange]
  /\ pc \in {"fix", "write"} => \A c \in Containers : Safe(c, change[c].after)
  /\ pc = "write" => \A c \in Containers : Safe(c, file[c])

-----------------------------------------------------------------------------
(* Lemmas.                                                                 *)

\* Two units that mount a source make its usage two: the rule then says z.
LEMMA SharedUsage ==
  ASSUME NEW prj, NEW src, NEW c \in Containers, NEW d \in Containers, c # d,
         src \in SourcesOf(prj[c]), src \in SourcesOf(prj[d])
  PROVE  BindSourceUsage(prj, src) > 1
<1> DEFINE users == {e \in Containers : src \in SourcesOf(prj[e])}
<1>1. IsFiniteSet(users) /\ {c, d} \subseteq users
  BY ContainersAssumption, FS_Subset
<1>2. Cardinality({c, d}) = 2
  <2>1. Cardinality({c}) = 1 /\ IsFiniteSet({c})
    BY FS_Singleton
  <2>2. Cardinality({c} \cup {d}) = 2
    <3>1. d \notin {c}
      OBVIOUS
    <3>2. Cardinality({c} \cup {d})
            = IF d \in {c} THEN Cardinality({c}) ELSE Cardinality({c}) + 1
      BY <2>1, FS_AddElement, Zenon
    <3> QED BY <2>1, <3>1, <3>2
  <2> QED BY <2>2, {c} \cup {d} = {c, d}
<1>3. Cardinality({c, d}) <= Cardinality(users)
  BY <1>1, FS_Subset
<1>4. Cardinality(users) \in Nat
  BY <1>1, FS_CardinalityType
<1> QED BY <1>2, <1>3, <1>4 DEF BindSourceUsage

\* Z is only recommended for a source that nobody else mounts.
LEMMA PrivateAdvice ==
  ASSUME NEW prj, NEW f \in Audit(prj), f.rule = "QD001", f.fix = "Z"
  PROVE  /\ f.slot \in Mounted(prj[f.unit])
         /\ \A d \in Containers \ {f.unit} :
              prj[f.unit].mounts[f.slot].src \notin SourcesOf(prj[d])
<1> DEFINE src == prj[f.unit].mounts[f.slot].src
<1>1. /\ f \in Finding
      /\ f.slot \in Mounted(prj[f.unit])
      /\ f.fix = LabelFor(prj, src)
  BY DEF Audit, checkQD001, checkQD002, checkQD022, checkQD030, UnitFinding
<1>2. f.unit \in Containers
  BY <1>1 DEF Finding
<1>3. ~(BindSourceUsage(prj, src) > 1)
  BY <1>1 DEF LabelFor
<1>4. src \in SourcesOf(prj[f.unit])
  BY <1>1 DEF SourcesOf, Mounted
<1> QED BY <1>1, <1>2, <1>3, <1>4, SharedUsage

\* A fix touches no source, and no label it had no finding for.
LEMMA FixedMounts ==
  ASSUME NEW unit \in Container, NEW fs \in SUBSET Finding, NEW n,
         Absent # Fixed(unit, fs, n), unit # Absent
  PROVE  LET v == Fixed(unit, fs, n) IN
         /\ Mounted(v) = Mounted(unit)
         /\ SourcesOf(v) = SourcesOf(unit)
         /\ \A s \in Mounted(unit) :
              \/ v.mounts[s] = unit.mounts[s]
              \/ /\ v.mounts[s].src = unit.mounts[s].src
                 /\ \E f \in fs : /\ f.rule = "QD001" /\ f.slot = s
                                  /\ v.mounts[s].label = f.fix
<1> DEFINE v == Fixed(unit, fs, n)
<1>1. v.mounts = fixQD001(unit, fs)
  BY DEF Fixed, Container
<1>2. ASSUME NEW s \in Slots
      PROVE  \/ v.mounts[s] = unit.mounts[s]
             \/ /\ v.mounts[s] \in Mount /\ unit.mounts[s] \in Mount
                /\ v.mounts[s].src = unit.mounts[s].src
                /\ \E f \in fs : /\ f.rule = "QD001" /\ f.slot = s
                                 /\ v.mounts[s].label = f.fix
  <2>1. CASE Labelling(unit, fs, s) = {}
    BY <1>1, <2>1 DEF fixQD001
  <2>2. CASE Labelling(unit, fs, s) # {}
    <3> DEFINE f == CHOOSE g \in Labelling(unit, fs, s) : TRUE
    <3>1. /\ f \in fs /\ f.rule = "QD001" /\ f.slot = s
          /\ f.fix \in {"z", "Z"} /\ s \in Mounted(unit)
      BY <2>2, LabellingFix
    <3>2. unit.mounts[s] \in Mount
      BY <3>1 DEF Container, Mounted
    <3>3. v.mounts[s] = [unit.mounts[s] EXCEPT !.label = f.fix]
      BY <1>1, <2>2 DEF fixQD001
    <3>4. v.mounts[s].src = unit.mounts[s].src /\ v.mounts[s].label = f.fix
          /\ v.mounts[s] \in Mount
      BY <3>1, <3>2, <3>3 DEF Mount, Labels
    <3> HIDE DEF f
    <3> QED BY <3>1, <3>2, <3>4
  <2> QED BY <2>1, <2>2
<1>3. Mounted(v) = Mounted(unit)
  BY <1>2, SentinelsAssumption DEF Mounted
<1>4. SourcesOf(v) = SourcesOf(unit)
  BY <1>2, <1>3 DEF SourcesOf, Mounted
<1> QED BY <1>2, <1>3, <1>4 DEF Mounted

\* A missing or truncated file mounts nothing, so nothing privately.
LEMMA BlankIsSafe ==
  ASSUME NEW c \in Containers
  PROVE  Safe(c, Absent) /\ Safe(c, Truncated)
<1>1. Mounted(Absent) = {} /\ SourcesOf(Absent) = {}
  BY DEF Mounted, SourcesOf
<1>2. Mounted(Truncated) = {} /\ SourcesOf(Truncated) = {}
  BY TruncatedType, SentinelsAssumption DEF Mounted, SourcesOf, Truncated
<1> QED BY <1>1, <1>2 DEF Safe

-----------------------------------------------------------------------------
(* The invariant is inductive.                                             *)

\* The step that decides: editing a file that is still what was loaded.
LEMMA FixFileSafe ==
  ASSUME SharingInv, NEW c \in Containers, FixFile(c), file[c] # Absent
  PROVE  Safe(c, Fixed(file[c], FindingsOf(c), target))
<1> DEFINE v == Fixed(file[c], FindingsOf(c), target)
<1>1. loaded = file /\ findings \subseteq Audit(loaded) /\ NoPrivateOnShared
  BY DEF SharingInv, FixFile
<1>2. /\ file[c] \in Container /\ FindingsOf(c) \in SUBSET Finding
      /\ target \in Networks \cup {NoNet}
  BY DEF SharingInv, TypeOK, Projects, FindingsOf
<1>3. v # Absent
  BY <1>2, FixedType, SentinelsAssumption
<1>4. /\ Mounted(v) = Mounted(file[c]) /\ SourcesOf(v) = SourcesOf(file[c])
      /\ \A s \in Mounted(file[c]) :
           \/ v.mounts[s] = file[c].mounts[s]
           \/ /\ v.mounts[s].src = file[c].mounts[s].src
              /\ \E f \in FindingsOf(c) : /\ f.rule = "QD001" /\ f.slot = s
                                          /\ v.mounts[s].label = f.fix
  BY <1>2, <1>3, FixedMounts
<1> HIDE DEF v
<1>5. ASSUME NEW s \in Mounted(v), v.mounts[s].label = "Z"
      PROVE  \A d \in Containers \ {c} : v.mounts[s].src \notin SourcesOf(loaded[d])
  <2>1. CASE v.mounts[s] = file[c].mounts[s]
    BY <1>1, <1>4, <1>5, <2>1 DEF NoPrivateOnShared
  <2>2. CASE v.mounts[s] # file[c].mounts[s]
    <3>1. PICK f \in FindingsOf(c) : /\ f.rule = "QD001" /\ f.slot = s
                                     /\ v.mounts[s].label = f.fix
      BY <1>4, <2>2
    <3>2. f \in Audit(loaded) /\ f.unit = c /\ f.fix = "Z"
      BY <1>1, <1>5, <3>1 DEF FindingsOf
    <3>3. \A d \in Containers \ {c} :
            loaded[c].mounts[s].src \notin SourcesOf(loaded[d])
      BY <3>1, <3>2, PrivateAdvice
    <3> QED BY <1>1, <1>4, <2>2, <3>3
  <2> QED BY <2>1, <2>2
<1> QED BY <1>1, <1>4, <1>5 DEF v, Safe, PrivateIn

\* NoPrivateOnShared depends on the container files only.
LEMMA SameFiles ==
  ASSUME NoPrivateOnShared, file' = file PROVE NoPrivateOnShared'
BY DEF NoPrivateOnShared

\* Safe depends on what was loaded only.
LEMMA SameLoaded ==
  ASSUME loaded' = loaded, NEW c, NEW unit, Safe(c, unit)
  PROVE  Safe(c, unit)'
BY DEF Safe, PrivateIn

\* The strengthened invariant is preserved when every run names the directory.
LEMMA SharingStep ==
  ASSUME \A a \in Invocations : a.dir
  PROVE  SharingInv /\ [Alone]_vars => SharingInv'
<1> SUFFICES ASSUME SharingInv, [Alone]_vars PROVE SharingInv'
  OBVIOUS
<1> USE DEF disk, run, count, Stop
<1>t. TypeOK /\ TypeOK'
  BY StepType DEF SharingInv, Next
<1>n. NoPrivateOnShared
  BY DEF SharingInv
<1>1. ASSUME NEW a \in Invocations, Start(a) PROVE SharingInv'
  <2>1. /\ pc' = "load" /\ file' = file
        /\ change' = [c \in Containers |-> NoChange]
    BY <1>1 DEF Start
  <2>2. \A c \in Containers \ todo' : file[c] = Absent
    BY <1>1 DEF Start, Present, Paths
  <2>3. \A c \in Containers : loaded'[c] = Absent
    BY <1>1 DEF Start, Nothing
  <2> QED BY <1>t, <1>n, <2>1, <2>2, <2>3, SameFiles DEF SharingInv
<1>2. ASSUME NEW p \in Paths, LoadUnit(p) PROVE SharingInv'
  <2>1. /\ file' = file /\ pc' \in {"load", "done"} /\ pc = "load"
        /\ change' = change
    BY <1>2 DEF LoadUnit
  <2>2. pc' = "load" => \A c \in Containers \ todo' : loaded'[c] = file[c]
    <3>1. \A c \in Containers \ todo : loaded[c] = file[c]
      BY <2>1 DEF SharingInv
    <3>2. loaded \in [Containers -> Container \cup {Absent}] /\ todo' = todo \ {p}
      BY <1>2, <1>t DEF LoadUnit, TypeOK, Projects
    <3>3. CASE p \in Containers
      <4>1. pc' = "load" => loaded' = [loaded EXCEPT ![p] = file[p]]
        BY <1>2, <3>3, NamesAssumption DEF LoadUnit
      <4> QED BY <3>1, <3>2, <3>3, <4>1
    <3>4. CASE p \notin Containers
      <4>1. loaded' = loaded
        BY <1>2, <3>4 DEF LoadUnit
      <4> QED BY <3>1, <3>2, <3>4, <4>1
    <3> QED BY <3>3, <3>4
  <2> QED BY <1>t, <1>n, <2>1, <2>2, SameFiles DEF SharingInv
<1>3. CASE RunRules
  <2>1. /\ UNCHANGED <<file, loaded, change>> /\ pc = "load"
        /\ pc' \in {"plan", "done"}
    BY <1>3 DEF RunRules
  <2>2. loaded = file
    BY <1>3, <1>t DEF RunRules, SharingInv, TypeOK, Projects
  <2>3. pc' = "plan" => findings' = Audit(loaded)
    BY <1>3 DEF RunRules
  <2> QED BY <1>t, <1>n, <2>1, <2>2, <2>3, SameFiles DEF SharingInv
<1>4. CASE PlanNetwork
  <2>1. /\ UNCHANGED <<file, loaded, change, findings>> /\ pc = "plan"
        /\ pc' \in {"fix", "done"}
    BY <1>4 DEF PlanNetwork
  <2>2. \A c \in Containers : Safe(c, change[c].after)
    BY <2>1, BlankIsSafe DEF SharingInv, NoChange
  <2> QED BY <1>t, <1>n, <2>1, <2>2, SameFiles, SameLoaded DEF SharingInv
<1>5. ASSUME NEW c \in Containers, FixFile(c) PROVE SharingInv'
  <2>1. /\ UNCHANGED <<file, loaded, findings>> /\ pc = "fix"
        /\ pc' \in {"fix", "done"}
    BY <1>5 DEF FixFile
  <2>2. pc' = "fix" => \A d \in Containers : Safe(d, change'[d].after)
    <3>1. CASE file[c] = Absent
      BY <1>5, <3>1 DEF FixFile
    <3>2. CASE file[c] # Absent
      <4>1. Safe(c, Fixed(file[c], FindingsOf(c), target))
        BY <1>5, <3>2, FixFileSafe
      <4>2. change' = [change EXCEPT ![c] =
               [before |-> file[c],
                after  |-> Fixed(file[c], FindingsOf(c), target)]]
        BY <1>5, <3>2 DEF FixFile
      <4>3. change \in [Containers -> Change]
        BY <1>t DEF TypeOK
      <4>4. \A d \in Containers : Safe(d, change[d].after)
        BY <2>1 DEF SharingInv
      <4> QED BY <4>1, <4>2, <4>3, <4>4
    <3> QED BY <3>1, <3>2
  <2> QED BY <1>t, <1>n, <2>1, <2>2, SameFiles, SameLoaded DEF SharingInv
<1>6. CASE Conclude
  <2>1. /\ UNCHANGED <<file, loaded, change>> /\ pc = "fix"
        /\ pc' \in {"write", "done"}
    BY <1>6 DEF Conclude
  <2>2. loaded = file /\ \A c \in Containers : Safe(c, change[c].after)
    BY <2>1 DEF SharingInv
  <2>3. \A c \in Containers : Safe(c, file[c])
    BY <1>n, <2>2 DEF Safe, PrivateIn, NoPrivateOnShared
  <2> QED BY <1>t, <1>n, <2>1, <2>2, <2>3, SameFiles, SameLoaded DEF SharingInv
<1>7. ASSUME NEW p \in Paths, OpenFile(p) PROVE SharingInv'
  <2>1. /\ UNCHANGED <<loaded, change>> /\ pc = "write"
        /\ pc' \in {"write", "done"}
    BY <1>7 DEF OpenFile
  <2>2. /\ \A c \in Containers : Safe(c, change[c].after)
        /\ \A c \in Containers : Safe(c, file[c])
    BY <2>1 DEF SharingInv
  <2>3. \A c \in Containers : file'[c] \in {file[c], Truncated}
    BY <1>7, <1>t DEF OpenFile, TypeOK, Projects
  <2>4. \A c \in Containers : Safe(c, file'[c])
    BY <2>2, <2>3, BlankIsSafe
  <2>5. \A c \in Containers : Safe(c, file[c])'
    BY <2>1, <2>4 DEF Safe, PrivateIn
  <2>6. NoPrivateOnShared'
    BY <2>5 DEF Safe, PrivateIn, NoPrivateOnShared
  <2> QED BY <1>t, <2>1, <2>2, <2>5, <2>6, SameLoaded DEF SharingInv
<1>8. CASE WriteFile
  <2>1. /\ UNCHANGED <<loaded, change>> /\ pc = "write" /\ pc' = "write"
    BY <1>8 DEF WriteFile
  <2>2. /\ \A c \in Containers : Safe(c, change[c].after)
        /\ \A c \in Containers : Safe(c, file[c])
    BY <2>1 DEF SharingInv
  <2>3. \A c \in Containers : file'[c] \in {file[c], change[c].after}
    BY <1>8 DEF WriteFile
  <2>4. \A c \in Containers : Safe(c, file'[c])
    BY <2>2, <2>3
  <2>5. \A c \in Containers : Safe(c, file[c])'
    BY <2>1, <2>4 DEF Safe, PrivateIn
  <2>6. NoPrivateOnShared'
    BY <2>5 DEF Safe, PrivateIn, NoPrivateOnShared
  <2> QED BY <1>t, <2>1, <2>2, <2>5, <2>6, SameLoaded DEF SharingInv
<1>9. CASE Finish \/ WriteFails \/ Kill
  <2>1. UNCHANGED <<file, loaded, change>> /\ pc' = "done"
    BY <1>9 DEF Finish, WriteFails, Kill
  <2> QED BY <1>t, <1>n, <2>1, SameFiles DEF SharingInv
<1>10. CASE UNCHANGED vars
  BY <1>10, <1>t DEF vars, SharingInv, NoPrivateOnShared, Safe, PrivateIn
<1> QED
  BY <1>1, <1>2, <1>3, <1>4, <1>5, <1>6, <1>7, <1>8, <1>9, <1>10
     DEF Alone, Begin, Tool

\* The label fix writes is never one that QD002 would flag, provided that every
\* invocation names the directory, which a person does not edit meanwhile, and
\* that the directory had no such label to begin with.
THEOREM FixNeverMakesQD002 ==
  ASSUME \A a \in Invocations : a.dir
  PROVE  SpecClean => []NoPrivateOnShared
<1>1. InitClean => SharingInv
  <2> SUFFICES ASSUME Init, NoPrivateOnShared PROVE SharingInv
    BY DEF InitClean
  <2> QED BY InitType DEF Init, SharingInv
<1>2. SharingInv /\ [Alone]_vars => SharingInv'
  BY SharingStep
<1>3. SharingInv => NoPrivateOnShared
  BY DEF SharingInv
<1> QED BY <1>1, <1>2, <1>3, PTL DEF SpecClean

-----------------------------------------------------------------------------
(* What a run of fix leaves behind, however it ends, when nobody else is   *)
(* at work: a prefix of what it announced. From the same invariant, every  *)
(* step of such runs is a step of FixStore or none at all.                 *)

\* Before the first write, the disk is what was loaded and what is proposed
\* was proposed for it.
AsRead ==
  /\ \A p \in Plan : Untouched(p)
  /\ \A c \in Containers : loaded[c] \in {Absent, file[c]}

\* While files are written, todo is the rest of the plan in path order: what
\* is not in it is complete, what is in it untouched, but for its first file,
\* which may be open.
InWriting ==
  /\ todo \subseteq Plan
  /\ \A p \in Plan \ todo : Written(p) /\ \A q \in todo : Rank[p] < Rank[q]
  /\ \A p \in todo \ open : Untouched(p)
  /\ open = {} \/ \E p \in todo : open = {p} /\ First(p, todo)
  /\ \A c \in Loaded(loaded) \ Changed : file[c] = loaded[c]

PrefixInv ==
  /\ TypeOK
  /\ pc # "write" => open = {}
  /\ pc \in {"load", "plan", "fix"} => AsRead
  /\ pc = "write" => InWriting
  /\ pc = "done" => WritesArePrefix

-----------------------------------------------------------------------------
(* Lemmas.                                                                 *)

\* The plan names files of the directory.
LEMMA PlanType == TypeOK => Plan \subseteq Paths
BY SharedAssumption DEF TypeOK, Plan, Changed, Paths

\* An untouched plan is a prefix, the empty one.
LEMMA AsReadIsPrefix == TypeOK /\ AsRead => WritesArePrefix
BY DEF AsRead, WritesArePrefix, Loaded, TypeOK

\* During the writes, the phase invariant is the property itself.
LEMMA WritingIsPrefix == TypeOK /\ InWriting => WritesArePrefix
<1> SUFFICES ASSUME TypeOK, InWriting PROVE WritesArePrefix
  OBVIOUS
<1>1. ASSUME NEW p \in Plan, NEW q \in Plan, Rank[p] < Rank[q], ~Untouched(q)
      PROVE  Written(p)
  <2>1. Rank[p] \in Nat /\ Rank[q] \in Nat
    BY PlanType, RankAssumption
  <2>2. CASE q \notin todo
    BY <1>1, <2>1, <2>2 DEF InWriting
  <2>3. CASE q \in todo
    <3>1. q \in open /\ First(q, todo)
      BY <1>1, <2>3 DEF InWriting
    <3>2. p \notin todo
      BY <1>1, <2>1, <3>1 DEF First
    <3> QED BY <1>1, <3>2 DEF InWriting
  <2> QED BY <2>2, <2>3
<1> QED BY <1>1 DEF WritesArePrefix, InWriting

\* The plan and its completion depend on the files and the proposal only.
LEMMA SamePlan ==
  ASSUME UNCHANGED <<file, network, change, create, loaded>>
  PROVE  /\ Plan' = Plan /\ Changed' = Changed
         /\ \A p : Untouched(p)' = Untouched(p) /\ Written(p)' = Written(p)
         /\ WritesArePrefix => WritesArePrefix'
         /\ AsRead => AsRead'
BY DEF Plan, Changed, Untouched, Written, WritesArePrefix, AsRead, Loaded

-----------------------------------------------------------------------------
(* The invariant is inductive.                                             *)

\* The strengthened invariant is preserved by every undisturbed step.
LEMMA PrefixStep == PrefixInv /\ [Alone]_vars => PrefixInv'
<1> SUFFICES ASSUME PrefixInv, [Alone]_vars PROVE PrefixInv'
  OBVIOUS
<1> USE DEF disk, run, count, Stop
<1>t. TypeOK /\ TypeOK'
  BY StepType DEF PrefixInv, Next
<1>r. (TypeOK /\ AsRead => WritesArePrefix)'
  BY AsReadIsPrefix, PTL
<1>w. (TypeOK /\ InWriting => WritesArePrefix)'
  BY WritingIsPrefix, PTL
<1>1. ASSUME NEW a \in Invocations, Start(a) PROVE PrefixInv'
  <2>1. pc' = "load" /\ open' = {}
    BY <1>1 DEF Start
  <2>2. Plan' = {} /\ \A c \in Containers : loaded'[c] = Absent
    BY <1>1 DEF Start, Plan, Changed, NoChange, Nothing
  <2>3. AsRead'
    BY <2>2 DEF AsRead
  <2> QED BY <1>t, <2>1, <2>3 DEF PrefixInv
<1>2. ASSUME NEW p \in Paths, LoadUnit(p) PROVE PrefixInv'
  <2>1. /\ UNCHANGED <<file, network, change, create, open>>
        /\ pc = "load" /\ pc' \in {"load", "done"}
    BY <1>2 DEF LoadUnit
  <2>2. AsRead /\ open = {}
    BY <2>1 DEF PrefixInv
  <2>3. \A c \in Containers : loaded'[c] \in {loaded[c], file[c]}
    BY <1>2, <1>t DEF LoadUnit, TypeOK, Projects
  <2>4. AsRead'
    BY <2>1, <2>2, <2>3 DEF AsRead, Plan, Changed, Untouched
  <2>5. WritesArePrefix'
    BY <1>t, <2>4, <1>r
  <2> QED BY <1>t, <2>1, <2>2, <2>4, <2>5 DEF PrefixInv
<1>3. CASE RunRules \/ PlanNetwork
  <2>1. /\ UNCHANGED <<file, network, change, loaded, open>>
        /\ pc \in {"load", "plan"} /\ pc' \in {"plan", "fix", "done"}
    BY <1>3 DEF RunRules, PlanNetwork
  <2>2. AsRead /\ open = {}
    BY <2>1 DEF PrefixInv
  <2>3. create' # create => create' = TRUE /\ network[Shared] = "absent"
    BY <1>3 DEF RunRules, PlanNetwork
  <2>4. \A p \in Plan' : p \in Plan \/ (p = Shared /\ network[Shared] = "absent")
    <3>1. CASE create' = create
      BY <2>1, <3>1 DEF Plan, Changed
    <3>2. CASE create' # create
      BY <2>1, <2>3, <3>2 DEF Plan, Changed
    <3> QED BY <3>1, <3>2
  <2>5. AsRead'
    BY <2>1, <2>2, <2>4, SharedAssumption, NamesAssumption DEF AsRead, Untouched
  <2>6. WritesArePrefix'
    BY <1>t, <1>r, <2>5
  <2> QED BY <1>t, <2>1, <2>2, <2>5, <2>6 DEF PrefixInv
<1>4. ASSUME NEW c \in Containers, FixFile(c) PROVE PrefixInv'
  <2>1. /\ UNCHANGED <<file, network, create, loaded, open>>
        /\ pc = "fix" /\ pc' \in {"fix", "done"}
    BY <1>4 DEF FixFile
  <2>2. AsRead /\ open = {}
    BY <2>1 DEF PrefixInv
  <2>3. \A d \in Containers : change'[d] = change[d] \/ change'[d].before = file[d]
    BY <1>4, <1>t DEF FixFile, TypeOK
  <2>4. AsRead'
    <3>1. \A d \in Containers : d \in Changed' => Untouched(d)'
      BY <2>1, <2>2, <2>3 DEF AsRead, Plan, Changed, Untouched
    <3>2. create' => Untouched(Shared)'
      BY <2>1, <2>2, SharedAssumption, NamesAssumption DEF AsRead, Plan, Untouched
    <3>3. \A p \in Plan' : Untouched(p)'
      BY <3>1, <3>2 DEF Plan, Changed
    <3> QED BY <2>1, <2>2, <3>3 DEF AsRead
  <2>5. WritesArePrefix'
    BY <1>t, <1>r, <2>4
  <2> QED BY <1>t, <2>1, <2>2, <2>4, <2>5 DEF PrefixInv
<1>5. CASE Conclude
  <2>1. /\ UNCHANGED <<file, network, change, create, loaded, open>>
        /\ pc = "fix" /\ pc' \in {"write", "done"}
    BY <1>5 DEF Conclude
  <2>2. AsRead /\ open = {}
    BY <2>1 DEF PrefixInv
  <2>3. AsRead' /\ WritesArePrefix'
    BY <1>t, <1>r, <2>1, <2>2, SamePlan
  <2>4. pc' = "write" => todo' = Plan
    BY <1>5 DEF Conclude, Plan
  <2>5. pc' = "write" => InWriting'
    BY <2>1, <2>2, <2>3, <2>4, SamePlan DEF InWriting, AsRead, Loaded
  <2> QED BY <1>t, <2>1, <2>2, <2>3, <2>5 DEF PrefixInv
<1>6. ASSUME NEW p \in Paths, OpenFile(p) PROVE PrefixInv'
  <2>1. /\ UNCHANGED <<change, create, loaded, todo>> /\ open = {}
        /\ pc = "write" /\ pc' \in {"write", "done"} /\ First(p, todo)
    BY <1>6 DEF OpenFile
  <2>2. InWriting
    BY <2>1 DEF PrefixInv
  <2>3. CASE pc' = "done"
    <3>1. UNCHANGED <<file, network, open>>
      BY <1>6, <2>3, <2>1 DEF OpenFile
    <3>2. WritesArePrefix'
      BY <1>t, <2>1, <2>2, <3>1, SamePlan, WritingIsPrefix
    <3> QED BY <1>t, <2>1, <2>3, <3>1, <3>2 DEF PrefixInv
  <2>4. CASE pc' = "write"
    <3>1. /\ open' = {p}
          /\ \A c \in Containers \ {p} : file'[c] = file[c]
          /\ \A n \in Networks \ {p} : network'[n] = network[n]
      BY <1>6, <2>4, <1>t DEF OpenFile, TypeOK, Projects
    <3>2. Plan' = Plan /\ Changed' = Changed /\ Loaded(loaded)' = Loaded(loaded)
      BY <2>1 DEF Plan, Changed, Loaded
    <3>3. \A q \in Paths \ {p} : Untouched(q)' = Untouched(q) /\ Written(q)' = Written(q)
      BY <2>1, <3>1 DEF Untouched, Written, Paths
    <3>4. p \in todo /\ p \in Plan /\ Plan \subseteq Paths
      BY <2>1, <2>2, <1>t, PlanType DEF First, InWriting
    <3>5. First(p, todo)'
      BY <2>1 DEF First
    <3>6. \A c \in Loaded(loaded) \ Changed : c # p /\ c \in Containers
      BY <3>4, SharedAssumption, NamesAssumption DEF Plan, Changed, Loaded
    <3>7. InWriting'
      BY <2>1, <2>2, <3>1, <3>2, <3>3, <3>4, <3>5, <3>6 DEF InWriting
    <3> QED BY <1>t, <2>4, <3>7 DEF PrefixInv
  <2> QED BY <2>1, <2>3, <2>4
<1>7. CASE WriteFile
  <2>1. /\ UNCHANGED <<change, create, loaded, pc>> /\ open' = {}
        /\ pc = "write" /\ todo' = todo \ open /\ open # {}
    BY <1>7 DEF WriteFile
  <2>2. InWriting
    BY <2>1 DEF PrefixInv
  <2>3. PICK p \in todo : open = {p} /\ First(p, todo)
    BY <2>1, <2>2 DEF InWriting
  <2>4. p \in Plan /\ Plan \subseteq Paths
    BY <2>2, <1>t, PlanType DEF InWriting
  <2>5. Plan' = Plan /\ Changed' = Changed /\ Loaded(loaded)' = Loaded(loaded)
    BY <2>1 DEF Plan, Changed, Loaded
  <2>6. /\ \A c \in Containers \ {p} : file'[c] = file[c]
        /\ \A n \in Networks \ {p} : network'[n] = network[n]
        /\ p \in Containers => file'[p] = change[p].after
        /\ p \in Networks => network'[p] = "quaddoc"
    BY <1>7, <2>3 DEF WriteFile
  <2>7. /\ \A q \in Paths \ {p} : Untouched(q)' = Untouched(q) /\ Written(q)' = Written(q)
        /\ Written(p)'
    BY <2>1, <2>4, <2>6 DEF Untouched, Written, Paths
  <2>8. \A q \in todo' : Rank[p] < Rank[q]
    BY <2>1, <2>2, <2>3, <2>4, RankAssumption DEF First, InWriting
  <2>9. \A c \in Loaded(loaded) \ Changed : c # p /\ c \in Containers
    BY <2>4, SharedAssumption, NamesAssumption DEF Plan, Changed, Loaded
  <2>10. InWriting'
    BY <2>1, <2>2, <2>3, <2>4, <2>5, <2>6, <2>7, <2>8, <2>9 DEF InWriting
  <2> QED BY <1>t, <2>1, <2>10 DEF PrefixInv
<1>8. CASE Finish \/ WriteFails \/ Kill
  <2>1. /\ UNCHANGED <<file, network, change, create, loaded>>
        /\ pc' = "done" /\ open' = {}
    BY <1>8 DEF Finish, WriteFails, Kill
  <2>2. WritesArePrefix
    BY <1>8, <1>t, AsReadIsPrefix, WritingIsPrefix
       DEF PrefixInv, TypeOK, Finish, WriteFails, Kill
  <2> QED BY <1>t, <2>1, <2>2, SamePlan DEF PrefixInv
<1>9. CASE UNCHANGED vars
  BY <1>9, <1>t DEF vars, PrefixInv, AsRead, InWriting, WritesArePrefix, Plan,
     Changed, Loaded, Untouched, Written, First
<1> QED
  BY <1>1, <1>2, <1>3, <1>4, <1>5, <1>6, <1>7, <1>8, <1>9 DEF Alone, Begin, Tool

\* However a run that nobody disturbs ends, refused, failed or killed, a file is
\* touched only when every earlier one of the plan is complete, and the others
\* are as they were read (Write in fix.go).
THEOREM FixLeavesAPrefix == SpecAlone => []WritesArePrefix
<1>1. Init => PrefixInv
  <2> SUFFICES ASSUME Init PROVE PrefixInv
    OBVIOUS
  <2>1. Plan = {} /\ Loaded(loaded) = {}
    BY DEF Init, Plan, Changed, NoChange, Loaded, Nothing
  <2> QED BY <2>1, InitType DEF PrefixInv, Init, WritesArePrefix
<1>2. PrefixInv /\ [Alone]_vars => PrefixInv'
  BY PrefixStep
<1>3. PrefixInv => WritesArePrefix
  BY AsReadIsPrefix, WritingIsPrefix DEF PrefixInv, TypeOK
<1> QED BY <1>1, <1>2, <1>3, PTL DEF SpecAlone

-----------------------------------------------------------------------------
(* The steps of FixStore.                                                  *)

\* What the fixes need to know of the findings, and what they make of a file.
StoreInv ==
  /\ PrefixInv
  /\ \A f \in findings : f.rule = "QD030" => f.fix \in {"", "own"}
  /\ \A c \in Changed : /\ change[c].before # Absent
                        /\ Extends(change[c].before, change[c].after)

\* The only mechanical fix that QD030 is given replaces the container's own stack.
LEMMA AuditFix ==
  ASSUME NEW prj, NEW f \in Audit(prj), f.rule = "QD030"
  PROVE  f.fix \in {"", "own"}
BY DEF Audit, checkQD001, checkQD002, checkQD022, checkQD030, UnitFinding

\* A mechanical fix only extends the file it is applied to.
LEMMA FixedExtends ==
  ASSUME NEW unit \in Container, NEW fs \in SUBSET Finding,
         NEW n \in Networks \cup {NoNet},
         \A f \in fs : f.rule = "QD030" => f.fix \in {"", "own"}
  PROVE  Extends(unit, Fixed(unit, fs, n))
<1> DEFINE new == Fixed(unit, fs, n)
<1>1. /\ new.mounts = fixQD001(unit, fs)
      /\ new.install = fixQD022(unit, fs)
      /\ new.nets = fixQD030(unit, fs, n)
  BY DEF Fixed, Container
<1>2. ASSUME NEW s \in Slots
      PROVE  \/ new.mounts[s] = unit.mounts[s]
             \/ /\ NoMount \notin {unit.mounts[s], new.mounts[s]}
                /\ unit.mounts[s].label = "none"
                /\ new.mounts[s] = [unit.mounts[s] EXCEPT !.label = new.mounts[s].label]
  <2>1. CASE Labelling(unit, fs, s) = {}
    BY <1>1, <2>1 DEF fixQD001
  <2>2. CASE Labelling(unit, fs, s) # {}
    <3> DEFINE f == CHOOSE g \in Labelling(unit, fs, s) : TRUE
    <3>1. f \in Labelling(unit, fs, s) /\ f.fix \in Labels
      BY <2>2, LabellingFix DEF Labels
    <3>2. new.mounts[s] = [unit.mounts[s] EXCEPT !.label = f.fix]
      BY <1>1, <2>2 DEF fixQD001
    <3> HIDE DEF f
    <3>3. unit.mounts[s] \in Mount /\ unit.mounts[s].label = "none"
      BY <3>1 DEF Labelling, CanLabel, Mounted, Container
    <3>4. new.mounts[s] \in Mount /\ new.mounts[s].label = f.fix
      BY <3>1, <3>2, <3>3 DEF Mount
    <3> QED BY <3>2, <3>3, <3>4, SentinelsAssumption
  <2> QED BY <2>1, <2>2
<1>3. unit.nets \ {"own"} \subseteq new.nets /\ new.nets \ unit.nets \subseteq Networks
  <2>1. \A f \in fs : f.rule = "QD030" /\ CanJoin(unit, f, n) => n \in Networks
    BY DEF CanJoin
  <2>2. "" \notin unit.nets
    BY NamesAssumption DEF Container, NetValues
  <2> QED BY <1>1, <2>1, <2>2 DEF fixQD030
<1>4. unit.install => new.install
  BY <1>1 DEF fixQD022
<1>5. new = [unit EXCEPT !.mounts = new.mounts, !.nets = new.nets, !.install = new.install]
  BY <1>1 DEF Fixed, Container
<1> HIDE DEF new
<1>6. Extends(unit, new)
  BY <1>2, <1>3, <1>4, <1>5 DEF Extends
<1> QED BY <1>6 DEF new

\* What the refinement needs to know of a run is preserved too.
LEMMA StoreInvStep == StoreInv /\ [Alone]_vars => StoreInv'
<1> SUFFICES ASSUME StoreInv, [Alone]_vars PROVE StoreInv'
  OBVIOUS
<1> USE DEF disk, run, count, Stop
<1>t. PrefixInv /\ PrefixInv' /\ TypeOK
  BY PrefixStep DEF StoreInv, PrefixInv
<1>1. ASSUME NEW a \in Invocations, Start(a) PROVE StoreInv'
  BY <1>t, <1>1 DEF Start, StoreInv, Changed, NoChange
<1>2. CASE RunRules
  <2>1. UNCHANGED change /\ findings' \in {findings, Audit(loaded)}
    BY <1>2 DEF RunRules
  <2>2. \A f \in findings' : f.rule = "QD030" => f.fix \in {"", "own"}
    BY <2>1, AuditFix DEF StoreInv
  <2> QED BY <1>t, <2>1, <2>2 DEF StoreInv, Changed
<1>3. ASSUME NEW c \in Containers, FixFile(c), file[c] # Absent PROVE StoreInv'
  <2>1. /\ file[c] \in Container /\ FindingsOf(c) \in SUBSET Finding
        /\ target \in Networks \cup {NoNet}
        /\ \A f \in FindingsOf(c) : f.rule = "QD030" => f.fix \in {"", "own"}
    BY <1>t, <1>3 DEF TypeOK, Projects, FindingsOf, StoreInv
  <2>2. Extends(file[c], Fixed(file[c], FindingsOf(c), target))
    BY <2>1, FixedExtends
  <2>3. /\ change' = [change EXCEPT ![c] =
               [before |-> file[c],
                after  |-> Fixed(file[c], FindingsOf(c), target)]]
        /\ findings' = findings
    BY <1>3 DEF FixFile
  <2>4. \A d \in Changed' : /\ change'[d].before # Absent
                           /\ Extends(change'[d].before, change'[d].after)
    BY <1>t, <1>3, <2>2, <2>3 DEF TypeOK, StoreInv, Changed
  <2> QED BY <1>t, <2>3, <2>4 DEF StoreInv
<1>4. CASE UNCHANGED <<change, findings>>
  BY <1>t, <1>4 DEF StoreInv, Changed
<1>5. CASE \/ \E p \in Paths : LoadUnit(p) \/ OpenFile(p)
           \/ \E c \in Containers : FixFile(c) /\ file[c] = Absent
           \/ PlanNetwork \/ Conclude \/ WriteFile \/ Finish
           \/ WriteFails \/ Kill \/ UNCHANGED vars
  <2>1. UNCHANGED <<change, findings>>
    BY <1>5 DEF LoadUnit, OpenFile, FixFile, PlanNetwork, Conclude, WriteFile,
                Finish, WriteFails, Kill, vars
  <2> QED BY <2>1, <1>4
<1> QED
  BY <1>1, <1>2, <1>3, <1>5 DEF Alone, Begin, Tool

\* Outside the write phase nothing is announced.
LEMMA NothingAnnounced == pc # "write" => GoalOf = DiskOf
BY DEF GoalOf, DiskOf

\* What is still announced when a run ends is given up.
LEMMA GivenUp ==
  ASSUME DiskOf' = DiskOf, GoalOf' = DiskOf
  PROVE  [Store!Next]_(Store!vars)
<1>1. CASE GoalOf = DiskOf
  BY <1>1 DEF Store!vars
<1>2. CASE GoalOf # DiskOf
  <2>1. \E p \in Paths : DiskOf[p] # GoalOf[p]
    BY <1>2 DEF DiskOf, GoalOf
  <2>2. Store!GiveUp
    BY <2>1 DEF Store!GiveUp, Store!Pending
  <2> QED BY <2>2 DEF Store!Next, Store!Proceed
<1> QED BY <1>1, <1>2

\* Entering the write phase is a proposal.
LEMMA ConcludeProposes ==
  ASSUME StoreInv, Conclude, pc' = "write"
  PROVE  Store!Propose
<1> USE DEF disk, run
<1>1. /\ UNCHANGED <<file, network, change, create>> /\ pc = "fix" /\ todo' = Plan
  BY DEF Conclude, Plan, Stop
<1>2. AsRead /\ TypeOK
  BY <1>1 DEF StoreInv, PrefixInv
<1>3. Store!Pending = {} /\ DiskOf' = DiskOf
  BY <1>1 DEF Store!Pending, GoalOf, DiskOf, OnDisk
<1>4. DOMAIN GoalOf' = Paths
  BY DEF GoalOf
<1>5. ASSUME NEW p \in Paths
      PROVE  GoalOf'[p] = DiskOf[p] \/ MayWrite(p, DiskOf[p], GoalOf'[p])
  <2>1. CASE p \notin Plan
    BY <1>1, <2>1 DEF GoalOf, DiskOf, OnDisk
  <2>2. CASE p \in Changed
    <3>1. p \in Containers /\ change[p].before = file[p]
      BY <1>2, <2>2 DEF AsRead, Plan, Untouched, Changed
    <3>2. DiskOf[p] = file[p] /\ GoalOf'[p] = change[p].after
      BY <1>1, <2>2, <3>1 DEF GoalOf, DiskOf, OnDisk, Wanted, Plan
    <3> QED BY <2>2, <3>1, <3>2 DEF StoreInv, MayWrite
  <2>3. CASE p \in Plan \ Changed
    <3>1. create /\ p = Shared /\ p \notin Containers
      BY <2>3, SharedAssumption, NamesAssumption DEF Plan
    <3>2. network[p] = "absent"
      BY <1>2, <2>3, <3>1 DEF AsRead, Untouched
    <3>3. DiskOf[p] = "absent" /\ GoalOf'[p] = "quaddoc"
      BY <1>1, <2>3, <3>1, <3>2 DEF GoalOf, DiskOf, OnDisk, Wanted
    <3> QED BY <3>1, <3>3 DEF MayWrite
  <2> QED BY <2>1, <2>2, <2>3
<1> QED BY <1>3, <1>4, <1>5 DEF Store!Propose

\* Truncating the first file of what is left to write empties it.
LEMMA OpenEmpties ==
  ASSUME StoreInv, NEW p \in Paths, OpenFile(p), pc' = "write"
  PROVE  [Store!Next]_(Store!vars)
<1> USE DEF disk, run, Stop
<1>1. /\ pc = "write" /\ open = {} /\ First(p, todo)
      /\ UNCHANGED <<todo, change>>
  BY DEF OpenFile
<1>2. InWriting /\ TypeOK
  BY <1>1 DEF StoreInv, PrefixInv
<1>3. DiskOf' = [DiskOf EXCEPT ![p] = BlankOf[p]]
  <2>1. CASE p \in Containers
    <3>1. file' = [file EXCEPT ![p] = Truncated] /\ network' = network
      BY <2>1, NamesAssumption DEF OpenFile
    <3> QED BY <1>2, <2>1, <3>1 DEF DiskOf, OnDisk, BlankOf, TypeOK, Projects
  <2>2. CASE p \notin Containers
    <3>1. network' = [network EXCEPT ![p] = "empty"] /\ file' = file
      BY <2>2 DEF OpenFile
    <3> QED BY <1>2, <2>2, <3>1 DEF DiskOf, OnDisk, BlankOf, TypeOK, Paths
  <2> QED BY <2>1, <2>2
<1>4. GoalOf' = GoalOf
  <2>1. \A q \in Paths \ {p} : OnDisk(q)' = OnDisk(q)
    BY <1>3 DEF DiskOf
  <2>2. p \in todo
    BY <1>1 DEF First
  <2> QED BY <1>1, <2>1, <2>2 DEF GoalOf, Wanted, OpenFile
<1>5. CASE DiskOf[p] = GoalOf[p]
  <2>1. Untouched(p) /\ p \in Plan
    BY <1>1, <1>2 DEF InWriting, First
  <2>2. FALSE
    BY <1>1, <1>5, <2>1, SharedAssumption, NamesAssumption
       DEF First, DiskOf, GoalOf, OnDisk, Wanted, Untouched, Plan, Changed
  <2> QED BY <2>2
<1>6. CASE DiskOf[p] # GoalOf[p]
  <2>1. Store!Pending \subseteq todo
    BY <1>1 DEF Store!Pending, DiskOf, GoalOf
  <2>2. Store!First(p)
    BY <1>1, <1>6, <2>1 DEF Store!First, Store!Pending, First
  <2>3. Store!Empty(p)
    BY <1>3, <1>4, <2>2 DEF Store!Empty
  <2> QED BY <2>3 DEF Store!Next, Store!Proceed
<1> QED BY <1>5, <1>6

\* Filling it brings it to what was announced.
LEMMA WriteFills ==
  ASSUME StoreInv, WriteFile
  PROVE  [Store!Next]_(Store!vars)
<1> USE DEF run
<1>1. /\ pc = "write" /\ pc' = "write" /\ todo' = todo \ open
      /\ open # {} /\ UNCHANGED change
  BY DEF WriteFile
<1>2. InWriting /\ TypeOK
  BY <1>1 DEF StoreInv, PrefixInv
<1>3. PICK p \in todo : open = {p} /\ First(p, todo)
  BY <1>1, <1>2 DEF InWriting
<1>4. p \in Paths
  BY <1>2 DEF TypeOK
<1>5. DiskOf' = [DiskOf EXCEPT ![p] = GoalOf[p]]
  <2>1. \A q \in Paths \ {p} : OnDisk(q)' = OnDisk(q)
    BY <1>3 DEF WriteFile, OnDisk, Paths
  <2>2. OnDisk(p)' = Wanted(p)
    BY <1>3, <1>4 DEF WriteFile, OnDisk, Wanted, Paths
  <2>3. GoalOf[p] = Wanted(p)
    BY <1>1, <1>3, <1>4 DEF GoalOf
  <2> QED BY <2>1, <2>2, <2>3, <1>4 DEF DiskOf
<1>6. GoalOf' = GoalOf
  <2>1. \A q \in Paths : Wanted(q)' = Wanted(q)
    BY <1>1 DEF Wanted
  <2>2. \A q \in Paths \ {p} : OnDisk(q)' = OnDisk(q) /\ (q \in todo') = (q \in todo)
    BY <1>1, <1>3 DEF WriteFile, OnDisk, Paths
  <2>3. GoalOf'[p] = GoalOf[p]
    BY <1>1, <1>3, <1>4, <1>5 DEF GoalOf, DiskOf
  <2> QED BY <1>1, <1>4, <2>1, <2>2, <2>3 DEF GoalOf
<1>7. CASE DiskOf[p] = GoalOf[p]
  <2>1. DiskOf' = DiskOf
    BY <1>4, <1>5, <1>7 DEF DiskOf
  <2> QED BY <1>6, <2>1 DEF Store!vars
<1>8. CASE DiskOf[p] # GoalOf[p]
  <2>1. Store!Pending \subseteq todo
    BY <1>1 DEF Store!Pending, DiskOf, GoalOf
  <2>2. Store!First(p)
    BY <1>3, <1>4, <1>8, <2>1 DEF Store!First, Store!Pending, First
  <2>3. Store!Fill(p)
    BY <1>5, <1>6, <2>2 DEF Store!Fill
  <2> QED BY <1>4, <2>3 DEF Store!Next, Store!Proceed
<1> QED BY <1>7, <1>8

\* Every undisturbed step is one of the store, or changes nothing of it.
LEMMA StoreStep == StoreInv /\ [Alone]_vars => [Store!Next]_(Store!vars)
<1> SUFFICES ASSUME StoreInv, [Alone]_vars PROVE [Store!Next]_(Store!vars)
  OBVIOUS
<1> USE DEF disk, run, count, Stop
<1>q. (pc # "write" => GoalOf = DiskOf)'
  BY NothingAnnounced, PTL
<1>1. CASE pc' # "write" /\ UNCHANGED <<file, network>>
  <2>1. DiskOf' = DiskOf
    BY <1>1 DEF DiskOf, OnDisk
  <2> QED BY <1>1, <1>q, <2>1, GivenUp
<1>2. CASE Conclude /\ pc' = "write"
  BY <1>2, ConcludeProposes DEF Store!Next
<1>3. ASSUME NEW p \in Paths, OpenFile(p), pc' = "write"
      PROVE  [Store!Next]_(Store!vars)
  BY <1>3, OpenEmpties
<1>4. CASE WriteFile
  BY <1>4, WriteFills
<1>5. CASE UNCHANGED vars
  BY <1>5 DEF vars, Store!vars, DiskOf, GoalOf, OnDisk, Wanted
<1>6. CASE \/ \E a \in Invocations : Start(a)
           \/ \E p \in Paths : LoadUnit(p) \/ (OpenFile(p) /\ pc' # "write")
           \/ \E c \in Containers : FixFile(c)
           \/ RunRules \/ PlanNetwork \/ (Conclude /\ pc' # "write")
           \/ Finish \/ WriteFails \/ Kill
  <2>1. UNCHANGED <<file, network>> /\ pc' # "write"
    BY <1>6 DEF Start, LoadUnit, OpenFile, FixFile, RunRules, PlanNetwork,
                Conclude, Finish, WriteFails, Kill
  <2> QED BY <2>1, <1>1
<1> QED
  BY <1>2, <1>3, <1>4, <1>5, <1>6 DEF Alone, Begin, Tool

\* Every behaviour of fix that nobody disturbs, with a failure or a kill
\* anywhere, takes the directory from one allowed proposal to the next in the
\* steps of FixStore: the safety part of ImplementsStore, for every directory.
THEOREM FixImplementsStore ==
  SpecAlone => Store!Init /\ [][Store!Next]_(Store!vars)
<1>1. Init => StoreInv /\ Store!Init
  <2> SUFFICES ASSUME Init PROVE StoreInv /\ Store!Init
    OBVIOUS
  <2>1. Plan = {} /\ Changed = {} /\ Loaded(loaded) = {}
    BY DEF Init, Plan, Changed, NoChange, Loaded, Nothing
  <2>2. PrefixInv
    BY <2>1, InitType DEF PrefixInv, Init, WritesArePrefix
  <2> QED BY <2>1, <2>2, NothingAnnounced DEF StoreInv, Init, Store!Init
<1>2. StoreInv /\ [Alone]_vars => StoreInv'
  BY StoreInvStep
<1>3. StoreInv /\ [Alone]_vars => [Store!Next]_(Store!vars)
  BY StoreStep
<1> QED BY <1>1, <1>2, <1>3, PTL DEF SpecAlone

-----------------------------------------------------------------------------
(* What fix says of its findings and what it leaves to be done: no finding *)
(* of the files it proposes is new or goes unmentioned, and a run that was *)
(* carried through leaves nothing for the same command line to change. A   *)
(* person may edit the directory at any moment.                            *)

\* What FixFile(c) has made of the file it read, and of the findings for it.
HandedBack(c) ==
  /\ change[c].before \in Container
  /\ change[c].after = Fixed(change[c].before, FindingsOf(c), target)
  /\ Declined(change[c].before, FindingsOf(c), target) \subseteq unfixed

\* From the audit on, every finding is reported, still to be handled, or has
\* gone through FixFile. A write changes none of it.
FoundInv ==
  /\ TypeOK
  /\ pc \in {"load", "plan"} => change = [c \in Containers |-> NoChange]
  /\ pc \in {"plan", "fix", "write"} =>
       /\ findings = Audit(loaded)
       /\ {f \in findings : f.rule \notin Fixable \/ ~Selected(f)} \subseteq unfixed
  /\ pc = "fix" => \A c \in todo : FindingsOf(c) # {}
  /\ pc \in {"fix", "write"} => \A c \in Containers :
       IF FindingsOf(c) = {} \/ (pc = "fix" /\ c \in todo)
       THEN change[c] = NoChange ELSE HandedBack(c)

\* What a run of command line a would load from the directory as it is.
Visible(a, p) == a.dir \/ p \in a.sel
Seen(a)       == [c \in Containers |-> IF Visible(a, c) THEN file[c] ELSE Absent]
NetsSeen(a)   == {n \in Networks : Visible(a, n) /\ network[n] # "absent"}

\* A run of a would change no file and create none: whatever network it picks,
\* no finding it is to fix applies.
Settled(a) ==
  \A f \in Audit(Seen(a)) : f.rule \in Fixable /\ (a.only = {} \/ f.rule \in a.only) =>
    /\ \A n \in Networks \cup {NoNet} :
         n = NoNet \/ First(n, NetsSeen(a)) => ~Applies(file[f.unit], f, n)
    /\ f.rule = "QD030" => NetsSeen(a) # {} \/ network[Shared] # "absent"

Joining == \E f \in findings : f.rule = "QD030" /\ Selected(f)

TargetOK ==
  \/ Joining /\ nets # {} /\ First(target, nets) /\ ~create
  \/ Joining /\ nets = {} /\ target = Shared /\ create
  \/ ~Joining /\ target = NoNet /\ ~create

\* As long as nobody has edited the directory, a run has loaded what is there,
\* and once it is written the directory is what was proposed.
RepeatInv ==
  /\ FoundInv
  /\ edits = 0 =>
       /\ PrefixInv
       /\ pc # "write" /\ last # NoRun => Settled(last)
       /\ pc = "load" =>
            /\ \A p \in todo : Visible(args, p)
            /\ \A c \in Containers \ todo : loaded[c] = Seen(args)[c]
            /\ \A n \in Networks \ todo : n \in nets <=> n \in NetsSeen(args)
       /\ pc \in {"load", "plan"} => target = NoNet /\ ~create
       /\ pc \in {"plan", "fix"} => loaded = Seen(args) /\ nets = NetsSeen(args)
       /\ pc \in {"fix", "write"} => TargetOK /\ Unmoved
       /\ pc = "write" =>
            /\ \A c \in Containers : IF loaded[c] = Absent THEN Seen(args)[c] = Absent
                                                           ELSE Visible(args, c)
            /\ \A n \in Networks : \/ create /\ n = Shared
                                   \/ n \in nets <=> n \in NetsSeen(args)

-----------------------------------------------------------------------------
(* What the fixes of a file leave alone, and what they achieve.            *)

OwnStackFix(fs) == \A f \in fs : f.rule = "QD030" => f.fix \in {"", "own"}

\* v is what fixing fs, with the network n to join, makes of unit.
Reworked(unit, v, fs, n) ==
  /\ v \in Container
  /\ v.mute = unit.mute /\ v.pod = unit.pod /\ v.bare = unit.bare
  /\ Mounted(v) = Mounted(unit) /\ SourcesOf(v) = SourcesOf(unit)
  /\ \A s \in Mounted(unit) :
       /\ v.mounts[s].src = unit.mounts[s].src
       /\ v.mounts[s].folded = unit.mounts[s].folded
       /\ \/ Labelling(unit, fs, s) = {} /\ v.mounts[s].label = unit.mounts[s].label
          \/ \E f \in Labelling(unit, fs, s) : v.mounts[s].label = f.fix
  /\ v.install <=> unit.install \/ \E f \in fs : f.rule = "QD022"
  /\ unit.nets \cap Networks \subseteq v.nets
  /\ v.nets \subseteq unit.nets \cup Networks
  /\ "host" \in unit.nets => "host" \in v.nets
  /\ \A f \in fs : f.rule = "QD030" /\ CanJoin(unit, f, n) => n \in v.nets \cap Networks

\* Fixed does for a container what its findings ask and nothing else.
LEMMA FixedReworks ==
  ASSUME NEW unit \in Container, NEW fs \in SUBSET Finding,
         NEW n \in Networks \cup {NoNet}, OwnStackFix(fs)
  PROVE  Reworked(unit, Fixed(unit, fs, n), fs, n)
<1> DEFINE v == Fixed(unit, fs, n)
<1>1. /\ v \in Container /\ v # Absent /\ unit # Absent
      /\ v.mounts = fixQD001(unit, fs)
      /\ v.install = fixQD022(unit, fs)
      /\ v.nets = fixQD030(unit, fs, n)
      /\ v.mute = unit.mute /\ v.pod = unit.pod /\ v.bare = unit.bare
  <2>1. v \in Container
    BY FixedType
  <2>2. v # Absent /\ unit # Absent
    BY <2>1, SentinelsAssumption
  <2> QED BY <2>1, <2>2 DEF Fixed, Container
<1>2. Mounted(v) = Mounted(unit) /\ SourcesOf(v) = SourcesOf(unit)
  BY <1>1, FixedMounts
<1>3. ASSUME NEW s \in Mounted(unit)
      PROVE  /\ v.mounts[s].src = unit.mounts[s].src
             /\ v.mounts[s].folded = unit.mounts[s].folded
             /\ \/ Labelling(unit, fs, s) = {} /\ v.mounts[s].label = unit.mounts[s].label
                \/ \E f \in Labelling(unit, fs, s) : v.mounts[s].label = f.fix
  <2>1. s \in Slots /\ unit.mounts[s] \in Mount
    BY <1>1 DEF Mounted, Container
  <2>2. CASE Labelling(unit, fs, s) = {}
    BY <1>1, <2>1, <2>2 DEF fixQD001
  <2>3. CASE Labelling(unit, fs, s) # {}
    <3> DEFINE f == CHOOSE g \in Labelling(unit, fs, s) : TRUE
    <3>1. f \in Labelling(unit, fs, s)
      BY <2>3
    <3>2. v.mounts[s] = [unit.mounts[s] EXCEPT !.label = f.fix]
      BY <1>1, <2>1, <2>3 DEF fixQD001
    <3> HIDE DEF f, v
    <3> QED BY <2>1, <3>1, <3>2 DEF Mount
  <2> QED BY <2>2, <2>3
<1>4. v.install <=> unit.install \/ \E f \in fs : f.rule = "QD022"
  BY <1>1 DEF fixQD022
<1>5. /\ unit.nets \cap Networks \subseteq v.nets
      /\ v.nets \subseteq unit.nets \cup Networks
      /\ "host" \in unit.nets => "host" \in v.nets
      /\ \A f \in fs : f.rule = "QD030" /\ CanJoin(unit, f, n) => n \in v.nets \cap Networks
  <2> DEFINE joins == {f \in fs : f.rule = "QD030" /\ CanJoin(unit, f, n)}
  <2>1. v.nets = (unit.nets \cup {n : f \in joins}) \ {f.fix : f \in joins}
    BY <1>1 DEF fixQD030
  <2>2. \A f \in joins : n \in Networks /\ f.fix \in {"", "own"}
    BY DEF CanJoin, OwnStackFix
  <2>3. {"", "own"} \cap Networks = {}
    BY NamesAssumption
  <2> HIDE DEF v
  <2> QED BY <2>1, <2>2, <2>3
<1> HIDE DEF v
<1>6. Reworked(unit, v, fs, n)
  BY <1>1, <1>2, <1>3, <1>4, <1>5 DEF Reworked
<1> QED BY <1>6 DEF v

\* A file without findings is left alone.
LEMMA NothingReworks ==
  ASSUME NEW unit \in Container, NEW n PROVE Reworked(unit, unit, {}, n)
BY DEF Reworked, Labelling, Container

\* A fix that applies to nothing changes nothing.
LEMMA DeclinedChangesNothing ==
  ASSUME NEW unit \in Container, NEW fs, NEW n, \A f \in fs : ~Applies(unit, f, n)
  PROVE  Fixed(unit, fs, n) = unit
<1>1. \A s \in Slots : Labelling(unit, fs, s) = {}
  BY DEF Labelling, Applies
<1>2. fixQD001(unit, fs) = unit.mounts
  BY <1>1 DEF fixQD001, Container
<1>3. fixQD022(unit, fs) = unit.install
  BY DEF fixQD022, Applies, CanInstall, Container
<1>4. fixQD030(unit, fs, n) = unit.nets
  BY DEF fixQD030, Applies
<1> QED BY <1>2, <1>3, <1>4 DEF Fixed, Container

\* A finding is about a unit that is there.
LEMMA AuditUnit ==
  ASSUME NEW prj, NEW f \in Audit(prj)
  PROVE  f.unit \in Loaded(prj) /\ f \in Finding /\ f.unit \in Containers
BY DEF Audit, checkQD001, checkQD002, checkQD022, checkQD030, UnitFinding,
       Mounted, Loaded, Finding

-----------------------------------------------------------------------------
(* A project and what its fixes make of it.                                *)

\* Every file of new is that of prj after its findings fs[c] were handled.
Handled(prj, new, fs, n) ==
  \A c \in Containers :
    /\ fs[c] \subseteq {f \in Audit(prj) : f.unit = c}
    /\ IF prj[c] = Absent THEN new[c] = Absent
                          ELSE Reworked(prj[c], new[c], fs[c], n)

\* A fixed project mounts the same sources in the same units, so every label that
\* was recommended before is still the one recommended.
LEMMA HandledShape ==
  ASSUME NEW prj \in Projects, NEW new, NEW fs, NEW n, Handled(prj, new, fs, n)
  PROVE  /\ Loaded(new) = Loaded(prj)
         /\ \A c \in Containers : /\ Mounted(new[c]) = Mounted(prj[c])
                                  /\ SourcesOf(new[c]) = SourcesOf(prj[c])
         /\ \A src : BindSourceUsage(new, src) = BindSourceUsage(prj, src)
         /\ \A src : LabelFor(new, src) = LabelFor(prj, src)
<1>1. ASSUME NEW c \in Containers
      PROVE  /\ new[c] = Absent <=> prj[c] = Absent
             /\ Mounted(new[c]) = Mounted(prj[c]) /\ SourcesOf(new[c]) = SourcesOf(prj[c])
  BY SentinelsAssumption DEF Handled, Reworked
<1>2. Loaded(new) = Loaded(prj)
  BY <1>1 DEF Loaded
<1>3. ASSUME NEW src PROVE BindSourceUsage(new, src) = BindSourceUsage(prj, src)
  <2>1. {c \in Containers : src \in SourcesOf(new[c])}
          = {c \in Containers : src \in SourcesOf(prj[c])}
    BY <1>1
  <2> QED BY <2>1 DEF BindSourceUsage
<1> QED BY <1>1, <1>2, <1>3 DEF LabelFor

\* A finding of the fixed project was one before, and if it was handed to the
\* fixes they declined it.
LEMMA NothingNew ==
  ASSUME NEW prj \in Projects, NEW new, NEW fs, NEW n, Handled(prj, new, fs, n),
         NEW g \in Audit(new)
  PROVE  \E f \in Audit(prj) :
           /\ f.rule = g.rule /\ f.unit = g.unit /\ f.slot = g.slot
           /\ f \in fs[f.unit] => f.rule \notin Fixable \/ ~Applies(prj[f.unit], f, n)
<1> DEFINE c == g.unit
           s == g.slot
           f == [rule |-> g.rule, unit |-> c, slot |-> s,
                 fix |-> CASE g.rule = "QD001" -> LabelFor(prj, prj[c].mounts[s].src)
                           [] g.rule = "QD030" -> IF "own" \in prj[c].nets THEN "own" ELSE ""
                           [] OTHER -> ""]
<1>1. c \in Containers /\ g \in Finding /\ c \in Loaded(new) /\ c \in Loaded(prj)
  BY AuditUnit, HandledShape
<1>2. /\ prj[c] \in Container /\ prj[c] # Absent /\ new[c] # Absent
      /\ Reworked(prj[c], new[c], fs[c], n) /\ fs[c] \subseteq Audit(prj)
  BY <1>1 DEF Loaded, Projects, Handled
<1>3. g.rule \notin prj[c].mute /\ new[c].pod = prj[c].pod
  BY <1>2 DEF Audit, Reworked
<1>4. /\ f.rule = g.rule /\ f.unit = c /\ f.slot = s
      /\ LabelFor(prj, prj[c].mounts[s].src) \in {"z", "Z"}
  BY DEF LabelFor
<1>5. f \in Finding
  BY <1>1, <1>4 DEF Finding
<1>6. CASE g.rule = "QD001"
  <2>1. /\ s \in Mounted(new[c]) /\ new[c].mounts[s].label = "none"
        /\ new[c].mounts[s].src \notin SystemSources
    BY <1>6 DEF Audit, checkQD001, checkQD002, checkQD022, checkQD030, UnitFinding
  <2>2. s \in Mounted(prj[c])
    BY <1>1, <2>1, HandledShape
  <2>3. Labelling(prj[c], fs[c], s) = {} /\ prj[c].mounts[s].label = "none"
    BY <1>2, <2>1, <2>2 DEF Reworked, Labelling, CanLabel
  <2>4. prj[c].mounts[s].src \notin SystemSources
    BY <1>2, <2>1, <2>2 DEF Reworked
  <2>5. f.fix = LabelFor(prj, prj[c].mounts[s].src)
    BY <1>6
  <2> HIDE DEF f, c, s
  <2>6. f \in Audit(prj)
    BY <1>3, <1>4, <1>5, <1>6, <2>2, <2>3, <2>4, <2>5 DEF Audit, checkQD001
  <2>7. f \in fs[c] => ~Applies(prj[c], f, n)
    BY <1>4, <1>6, <2>3 DEF Applies, Labelling
  <2> QED BY <1>4, <2>6, <2>7 DEF c, s
<1>7. CASE g.rule = "QD002"
  <2>1. /\ s \in Mounted(new[c]) /\ new[c].mounts[s].label = "Z"
        /\ BindSourceUsage(new, new[c].mounts[s].src) >= 2
    BY <1>7 DEF Audit, checkQD001, checkQD002, checkQD022, checkQD030, UnitFinding
  <2>2. s \in Mounted(prj[c])
    BY <1>1, <2>1, HandledShape
  <2>3. BindSourceUsage(prj, prj[c].mounts[s].src) >= 2
    BY <1>2, <2>1, <2>2, HandledShape DEF Reworked
  <2>4. prj[c].mounts[s].label = "Z"
    <3>1. ASSUME NEW h \in Labelling(prj[c], fs[c], s), h.fix = "Z" PROVE FALSE
      <4>1. h \in Audit(prj) /\ h.rule = "QD001" /\ h.slot = s /\ h.unit = c
        BY <1>1, <1>2 DEF Labelling, Handled
      <4>2. LabelFor(prj, prj[c].mounts[s].src) = "Z"
        BY <3>1, <4>1 DEF Audit, checkQD001, checkQD002, checkQD022, checkQD030, UnitFinding
      <4>3. ~(BindSourceUsage(prj, prj[c].mounts[s].src) > 1)
        BY <4>2 DEF LabelFor
      <4>4. BindSourceUsage(prj, prj[c].mounts[s].src) \in Nat
        BY ContainersAssumption, FS_Subset, FS_CardinalityType DEF BindSourceUsage
      <4> QED BY <2>3, <4>3, <4>4
    <3> QED BY <1>2, <2>1, <2>2, <3>1 DEF Reworked
  <2>5. f.fix = ""
    BY <1>7
  <2> HIDE DEF f, c, s
  <2>6. f \in Audit(prj)
    BY <1>3, <1>4, <1>5, <1>7, <2>2, <2>3, <2>4, <2>5 DEF Audit, checkQD002
  <2> QED BY <1>4, <1>7, <2>6 DEF c, s, Fixable
<1>8. CASE g.rule = "QD022"
  <2>1. s = 0 /\ ~new[c].pod /\ ~new[c].install
    BY <1>8 DEF Audit, checkQD001, checkQD002, checkQD022, checkQD030, UnitFinding
  <2>2. f.fix = "" /\ ~prj[c].install /\ f \notin fs[c]
    BY <1>2, <1>4, <1>8, <2>1 DEF Reworked
  <2> HIDE DEF f, c, s
  <2>3. f \in Audit(prj)
    BY <1>1, <1>3, <1>4, <1>5, <1>8, <2>1, <2>2 DEF Audit, checkQD022, UnitFinding
  <2> QED BY <1>4, <2>2, <2>3 DEF c, s
<1>9. CASE g.rule = "QD030"
  <2>1. /\ s = 0 /\ ~new[c].pod /\ Cardinality(Loaded(new)) >= 2
        /\ ~HasSharedNetwork(new[c]) /\ "host" \notin new[c].nets
    BY <1>9 DEF Audit, checkQD001, checkQD002, checkQD022, checkQD030, UnitFinding
  <2>2. /\ ~HasSharedNetwork(prj[c]) /\ "host" \notin prj[c].nets
        /\ f \in fs[c] => ~CanJoin(prj[c], f, n)
    BY <1>2, <1>4, <1>9, <2>1 DEF Reworked, HasSharedNetwork
  <2>3. Cardinality(Loaded(prj)) >= 2
    BY <2>1, HandledShape
  <2>4. f.fix = IF "own" \in prj[c].nets THEN "own" ELSE ""
    BY <1>9
  <2> HIDE DEF f, c, s
  <2>5. f \in Audit(prj)
    BY <1>1, <1>3, <1>4, <1>5, <1>9, <2>1, <2>2, <2>3, <2>4
       DEF Audit, checkQD030, UnitFinding
  <2> QED BY <1>4, <1>9, <2>2, <2>5 DEF c, s, Applies
<1> QED BY <1>1, <1>6, <1>7, <1>8, <1>9 DEF Finding, RuleIDs

-----------------------------------------------------------------------------
(* No finding is new, and none is forgotten.                               *)

\* The findings of a container depend on the report and the command line.
LEMMA SameFindings ==
  ASSUME UNCHANGED <<findings, args>>
  PROVE  /\ \A c : FindingsOf(c)' = FindingsOf(c)
         /\ \A f : Selected(f)' = Selected(f)
BY DEF FindingsOf, Selected

\* While a run lasts, its findings and its proposals are about what it loaded.
LEMMA FoundStep == FoundInv /\ [Next]_vars => FoundInv'
<1> SUFFICES ASSUME FoundInv, [Next]_vars PROVE FoundInv'
  OBVIOUS
<1> USE DEF disk, run, count, Stop
<1>t. TypeOK /\ TypeOK'
  BY StepType DEF FoundInv
<1>1. ASSUME NEW a \in Invocations, Start(a) PROVE FoundInv'
  BY <1>t, <1>1 DEF Start, FoundInv
<1>2. ASSUME NEW p \in Paths, LoadUnit(p) PROVE FoundInv'
  <2>1. pc = "load" /\ pc' \in {"load", "done"} /\ change' = change
    BY <1>2 DEF LoadUnit
  <2> QED BY <1>t, <2>1 DEF FoundInv
<1>3. CASE RunRules
  <2>1. /\ pc = "load" /\ pc' \in {"plan", "done"}
        /\ UNCHANGED <<change, loaded, args>>
    BY <1>3 DEF RunRules
  <2>2. pc' = "plan" => /\ findings' = Audit(loaded)
                        /\ unfixed' = {f \in Audit(loaded) : f.rule \notin Fixable \/ ~Selected(f)}
    BY <1>3 DEF RunRules
  <2> QED BY <1>t, <2>1, <2>2 DEF FoundInv, Selected
<1>4. CASE PlanNetwork
  <2>1. /\ pc = "plan" /\ pc' \in {"fix", "done"}
        /\ UNCHANGED <<change, loaded, args, findings, unfixed>>
        /\ todo' = {c \in Containers : FindingsOf(c) # {}}
    BY <1>4 DEF PlanNetwork
  <2>2. change' = [c \in Containers |-> NoChange]
    BY <2>1 DEF FoundInv
  <2> QED BY <1>t, <2>1, <2>2, SameFindings DEF FoundInv
<1>5. ASSUME NEW c \in Containers, FixFile(c) PROVE FoundInv'
  <2>1. /\ pc = "fix" /\ pc' \in {"fix", "done"}
        /\ UNCHANGED <<loaded, args, findings, target>>
    BY <1>5 DEF FixFile
  <2>2. CASE file[c] = Absent
    BY <1>t, <1>5, <2>1, <2>2 DEF FixFile, FoundInv
  <2>3. CASE file[c] # Absent
    <3>1. /\ todo' = todo \ {c} /\ c \in todo /\ pc' = pc /\ file[c] \in Container
          /\ change' = [change EXCEPT ![c] =
               [before |-> file[c],
                after  |-> Fixed(file[c], FindingsOf(c), target)]]
          /\ unfixed' = unfixed \cup Declined(file[c], FindingsOf(c), target)
      BY <1>t, <1>5, <2>3 DEF FixFile, First, TypeOK, Projects
    <3>2. FindingsOf(c) # {}
      BY <2>1, <3>1 DEF FoundInv
    <3>3. HandedBack(c)'
      BY <1>t, <2>1, <3>1, SameFindings DEF HandedBack, TypeOK
    <3>4. ASSUME NEW d \in Containers, d # c
          PROVE  change'[d] = change[d] /\ (HandedBack(d) => HandedBack(d)')
      BY <1>t, <2>1, <3>1, <3>4, SameFindings DEF HandedBack, TypeOK
    <3>5. \A d \in Containers :
            IF FindingsOf(d)' = {} \/ d \in todo' THEN change'[d] = NoChange
                                                  ELSE HandedBack(d)'
      BY <2>1, <3>1, <3>2, <3>3, <3>4, SameFindings DEF FoundInv
    <3> QED BY <1>t, <2>1, <3>1, <3>5, SameFindings DEF FoundInv
  <2> QED BY <2>2, <2>3
<1>6. CASE Conclude
  <2>1. /\ pc = "fix" /\ pc' \in {"write", "done"} /\ todo = {}
        /\ UNCHANGED <<loaded, args, findings, target, change, unfixed>>
    BY <1>6 DEF Conclude
  <2>2. \A c : HandedBack(c)' = HandedBack(c)
    BY <2>1, SameFindings DEF HandedBack
  <2> QED BY <1>t, <2>1, <2>2, SameFindings DEF FoundInv
<1>7. CASE (\E p \in Paths : OpenFile(p)) \/ WriteFile
  <2>1. /\ pc = "write" /\ pc' \in {"write", "done"}
        /\ UNCHANGED <<loaded, args, findings, target, change, unfixed>>
    BY <1>7 DEF OpenFile, WriteFile
  <2>2. \A c : HandedBack(c)' = HandedBack(c)
    BY <2>1, SameFindings DEF HandedBack
  <2> QED BY <1>t, <2>1, <2>2, SameFindings DEF FoundInv
<1>8. CASE Finish \/ WriteFails \/ Kill
  <2>1. pc' = "done"
    BY <1>8 DEF Finish, WriteFails, Kill
  <2> QED BY <1>t, <2>1 DEF FoundInv
<1>9. CASE Edit \/ UNCHANGED vars
  <2>1. UNCHANGED <<pc, todo, loaded, args, findings, target, change, unfixed>>
    BY <1>9 DEF Edit, vars
  <2>2. \A c : HandedBack(c)' = HandedBack(c)
    BY <2>1, SameFindings DEF HandedBack
  <2> QED BY <1>t, <2>1, <2>2, SameFindings DEF FoundInv
<1> QED
  BY <1>1, <1>2, <1>3, <1>4, <1>5, <1>6, <1>7, <1>8, <1>9
     DEF Next, Alone, Begin, Tool

\* When every file has been handled and nothing moved under the run, the
\* proposal is what handling the findings makes of the loaded project.
LEMMA ProposedIsHandled ==
  ASSUME FoundInv, pc \in {"fix", "write"}, pc = "fix" => todo = {}, Unmoved
  PROVE  Handled(loaded, Proposed, [c \in Containers |-> FindingsOf(c)], target)
<1> SUFFICES ASSUME NEW c \in Containers
             PROVE  /\ FindingsOf(c) \subseteq {f \in Audit(loaded) : f.unit = c}
                    /\ IF loaded[c] = Absent THEN Proposed[c] = Absent
                       ELSE Reworked(loaded[c], Proposed[c], FindingsOf(c), target)
  BY DEF Handled
<1>1. /\ findings = Audit(loaded) /\ FindingsOf(c) \in SUBSET Finding
      /\ loaded[c] \in Container \cup {Absent} /\ target \in Networks \cup {NoNet}
  BY DEF FoundInv, TypeOK, Projects, FindingsOf
<1>2. FindingsOf(c) \subseteq {f \in Audit(loaded) : f.unit = c}
  BY <1>1 DEF FindingsOf
<1>3. CASE FindingsOf(c) = {}
  <2>1. Proposed[c] = loaded[c]
    BY <1>3 DEF FoundInv, Proposed, Changed, NoChange
  <2> QED BY <1>1, <1>2, <1>3, <2>1, NothingReworks
<1>4. CASE FindingsOf(c) # {}
  <2>1. HandedBack(c)
    BY <1>4 DEF FoundInv
  <2>2. change[c] # NoChange
    BY <2>1, SentinelsAssumption DEF HandedBack, NoChange
  <2>3. change[c].before = loaded[c] /\ loaded[c] \in Container /\ loaded[c] # Absent
    BY <2>1, <2>2, SentinelsAssumption DEF Unmoved, HandedBack
  <2>4. Proposed[c] = Fixed(loaded[c], FindingsOf(c), target)
    BY <2>1, <2>3 DEF HandedBack, Proposed, Changed
  <2>5. OwnStackFix(FindingsOf(c))
    BY <1>2, AuditFix DEF OwnStackFix
  <2> QED BY <1>1, <1>2, <2>3, <2>4, <2>5, FixedReworks
<1> QED BY <1>3, <1>4

\* So they are before the first run.
LEMMA FoundInit == Init => FoundInv
BY InitType DEF Init, FoundInv

\* The findings of the proposed files are among those fix reports as unfixed,
\* whoever edits the directory before or after it is read, for any command line.
THEOREM FixReportsWhatRemains == Spec => []NothingNewNothingForgotten
<1>1. FoundInv /\ [Next]_vars => FoundInv'
  BY FoundStep
<1>2. FoundInv => NothingNewNothingForgotten
  <2> SUFFICES ASSUME FoundInv, pc = "fix", todo = {}, Unmoved, NEW g \in Audit(Proposed)
               PROVE  \E f \in unfixed : f.rule = g.rule /\ f.unit = g.unit /\ f.slot = g.slot
    BY DEF NothingNewNothingForgotten
  <2> DEFINE fs == [c \in Containers |-> FindingsOf(c)]
  <2>1. loaded \in Projects /\ findings = Audit(loaded)
    BY DEF FoundInv, TypeOK
  <2>2. Handled(loaded, Proposed, fs, target)
    BY ProposedIsHandled
  <2> HIDE DEF fs
  <2>3. PICK f \in Audit(loaded) :
          /\ f.rule = g.rule /\ f.unit = g.unit /\ f.slot = g.slot
          /\ f \in fs[f.unit] => f.rule \notin Fixable \/ ~Applies(loaded[f.unit], f, target)
    BY <2>1, <2>2, NothingNew
  <2>4. CASE f.rule \notin Fixable \/ ~Selected(f)
    BY <2>1, <2>3, <2>4 DEF FoundInv
  <2>5. CASE f.rule \in Fixable /\ Selected(f)
    <3>1. f \in FindingsOf(f.unit) /\ f.unit \in Containers
      BY <2>1, <2>5, AuditUnit DEF FindingsOf
    <3>2. HandedBack(f.unit)
      BY <3>1 DEF FoundInv
    <3>3. change[f.unit].before = loaded[f.unit]
      BY <3>1, <3>2, SentinelsAssumption DEF Unmoved, HandedBack, NoChange
    <3>4. f \in Declined(change[f.unit].before, FindingsOf(f.unit), target)
      BY <2>3, <2>5, <3>1, <3>3 DEF fs, Declined
    <3> QED BY <2>3, <3>2, <3>4 DEF HandedBack
  <2> QED BY <2>4, <2>5
<1> QED BY <1>1, <1>2, FoundInit, PTL DEF Spec

-----------------------------------------------------------------------------
(* Applying fix twice equals applying it once.                             *)

\* Once everything is written, the command line would load what was proposed.
LEMMA WrittenIsSeen ==
  ASSUME RepeatInv, edits = 0, pc = "write", todo = {}
  PROVE  Seen(args) = Proposed
<1>1. FoundInv /\ InWriting
  BY DEF RepeatInv, PrefixInv
<1>2. ASSUME NEW c \in Containers PROVE Seen(args)[c] = Proposed[c]
  <2>1. CASE loaded[c] = Absent
    <3>1. FindingsOf(c) = {}
      BY <1>1, <2>1, AuditUnit DEF FoundInv, FindingsOf, Loaded
    <3>2. c \notin Changed
      BY <1>1, <3>1 DEF FoundInv, Changed, NoChange
    <3> QED BY <2>1, <3>2 DEF RepeatInv, Proposed
  <2>2. CASE loaded[c] # Absent
    <3>1. Seen(args)[c] = file[c]
      BY <2>2 DEF RepeatInv, Seen
    <3>2. CASE c \in Changed
      BY <1>1, <3>1, <3>2 DEF InWriting, Plan, Written, Proposed
    <3>3. CASE c \notin Changed
      BY <1>1, <2>2, <3>1, <3>3 DEF InWriting, Loaded, Proposed
    <3> QED BY <3>2, <3>3
  <2> QED BY <2>1, <2>2
<1> QED BY <1>2 DEF Seen, Proposed

\* A finding that fixFile declined is declined again, on the file it left.
LEMMA DeclinedAgain ==
  ASSUME NEW prj \in Projects, NEW new \in Projects, NEW fs,
         NEW n \in Networks \cup {NoNet}, Handled(prj, new, fs, n),
         NEW f \in Audit(prj), NEW g \in Audit(new), f.rule \in Fixable,
         f.rule = g.rule, f.unit = g.unit, f.slot = g.slot,
         ~Applies(prj[f.unit], f, n),
         NEW m \in {n, NoNet}
  PROVE  ~Applies(new[g.unit], g, m)
<1> DEFINE c == f.unit
           s == f.slot
<1>1. /\ c \in Containers /\ prj[c] \in Container /\ prj[c] # Absent
      /\ Reworked(prj[c], new[c], fs[c], n) /\ new[c] \in Container
  <2>1. c \in Containers /\ prj[c] # Absent
    BY AuditUnit DEF Loaded
  <2>2. Reworked(prj[c], new[c], fs[c], n)
    BY <2>1 DEF Handled
  <2> QED BY <2>1, <2>2 DEF Projects, Reworked
<1>2. CASE f.rule = "QD001"
  <2>1. /\ f.fix \in {"z", "Z"} /\ s \in Mounted(prj[c])
        /\ prj[c].mounts[s].label = "none"
    BY <1>2 DEF Audit, checkQD001, checkQD002, checkQD022, checkQD030, UnitFinding, LabelFor
  <2>2. prj[c].mounts[s].folded
    BY <1>2, <2>1 DEF Applies, CanLabel
  <2>3. new[c].mounts[s].folded
    BY <1>1, <2>1, <2>2 DEF Reworked
  <2> QED BY <1>2, <2>3 DEF Applies, CanLabel
<1>3. CASE f.rule = "QD022"
  <2>1. ~prj[c].install
    BY <1>3 DEF Audit, checkQD001, checkQD002, checkQD022, checkQD030, UnitFinding
  <2> QED BY <1>3, <2>1 DEF Applies, CanInstall
<1>4. CASE f.rule = "QD030"
  <2>1. /\ ~HasSharedNetwork(prj[c])
        /\ f.fix = IF "own" \in prj[c].nets THEN "own" ELSE ""
    BY <1>4 DEF Audit, checkQD001, checkQD002, checkQD022, checkQD030, UnitFinding
  <2>2. g.fix = IF "own" \in new[c].nets THEN "own" ELSE ""
    BY <1>4 DEF Audit, checkQD001, checkQD002, checkQD022, checkQD030, UnitFinding
  <2>3. ~CanJoin(prj[c], f, n)
    BY <1>4 DEF Applies
  <2>4. CASE n = NoNet
    BY <1>4, <2>4 DEF Applies, CanJoin
  <2>5. CASE n # NoNet
    <3>1. n \notin prj[c].nets
      BY <2>1, <2>5 DEF HasSharedNetwork
    <3>2. "own" \notin prj[c].nets /\ prj[c].bare
      BY <2>1, <2>3, <2>5, <3>1 DEF CanJoin
    <3>3. "own" \notin new[c].nets /\ new[c].bare
      BY <1>1, <3>2, NamesAssumption DEF Reworked
    <3> QED BY <1>4, <2>2, <3>3 DEF Applies, CanJoin
  <2> QED BY <2>4, <2>5
<1> QED BY <1>2, <1>3, <1>4 DEF Fixable

\* A run that has written everything leaves a settled directory.
LEMMA WrittenIsSettled ==
  ASSUME RepeatInv, edits = 0, pc = "write", todo = {}
  PROVE  Settled(args)
<1> DEFINE fs == [c \in Containers |-> FindingsOf(c)]
<1>1. /\ FoundInv /\ InWriting /\ TargetOK /\ Unmoved /\ TypeOK
      /\ loaded \in Projects /\ findings = Audit(loaded)
      /\ target \in Networks \cup {NoNet}
  BY DEF RepeatInv, PrefixInv, FoundInv, TypeOK
<1>2. Seen(args) = Proposed /\ Proposed \in Projects
  <2>1. Seen(args) \in Projects
    BY <1>1 DEF Seen, TypeOK, Projects
  <2> QED BY <2>1, WrittenIsSeen
<1>3. Handled(loaded, Proposed, fs, target)
  BY <1>1, ProposedIsHandled
<1> HIDE DEF fs
<1>4. ASSUME NEW g \in Audit(Seen(args)), g.rule \in Fixable,
             args.only = {} \/ g.rule \in args.only
      PROVE  /\ \A n \in Networks \cup {NoNet} :
                  n = NoNet \/ First(n, NetsSeen(args)) => ~Applies(file[g.unit], g, n)
             /\ g.rule = "QD030" => NetsSeen(args) # {} \/ network[Shared] # "absent"
  <2>1. PICK f \in Audit(loaded) :
          /\ f.rule = g.rule /\ f.unit = g.unit /\ f.slot = g.slot
          /\ f \in fs[f.unit] => f.rule \notin Fixable \/ ~Applies(loaded[f.unit], f, target)
    BY <1>1, <1>2, <1>3, NothingNew
  <2>2. Selected(f) /\ f.unit \in Containers /\ f \in fs[f.unit]
    BY <1>1, <1>4, <2>1, AuditUnit DEF Selected, fs, FindingsOf
  <2>3. ~Applies(loaded[f.unit], f, target)
    BY <1>4, <2>1, <2>2
  <2>4. Proposed[g.unit] = file[g.unit]
    <3>1. g.unit \in Loaded(Seen(args)) /\ g.unit \in Containers
      BY AuditUnit
    <3> QED BY <1>2, <3>1 DEF Loaded, Seen
  <2>5. \A m \in {target, NoNet} : ~Applies(file[g.unit], g, m)
    BY <1>1, <1>2, <1>3, <1>4, <2>1, <2>3, <2>4, DeclinedAgain
  <2>6. CASE g.rule # "QD030"
    <3>1. ~Applies(file[g.unit], g, NoNet)
      BY <2>5
    <3> QED BY <2>6, <3>1 DEF Applies
  <2>7. CASE g.rule = "QD030"
    <3>1. Joining
      BY <1>1, <2>1, <2>2, <2>7 DEF Joining
    <3>2. \A n \in NetsSeen(args) : n \in Paths /\ Rank[n] \in Nat
      BY RankAssumption DEF NetsSeen, Paths
    <3>3. CASE nets # {} /\ First(target, nets) /\ ~create
      <4>1. NetsSeen(args) = nets
        BY <1>1, <3>3 DEF RepeatInv, NetsSeen, TypeOK
      <4>2. \A n \in NetsSeen(args) : First(n, NetsSeen(args)) => n = target
        BY <3>2, <3>3, <4>1, RankAssumption DEF First
      <4> QED BY <2>5, <3>3, <4>1, <4>2 DEF First
    <3>4. CASE nets = {} /\ target = Shared /\ create
      <4>1. \A n \in NetsSeen(args) : n = Shared
        BY <3>4 DEF RepeatInv, NetsSeen
      <4>2. network[Shared] = "quaddoc"
        BY <1>1, <3>4, SharedAssumption, NamesAssumption DEF InWriting, Plan, Written
      <4> QED BY <2>5, <3>4, <4>1, <4>2 DEF First
    <3> QED BY <1>1, <3>1, <3>3, <3>4 DEF TargetOK
  <2> QED BY <2>6, <2>7
<1> QED BY <1>4 DEF Settled

\* Whether a directory is settled depends on what is in it.
LEMMA SameSettled ==
  ASSUME UNCHANGED <<file, network, last>>, Settled(last)
  PROVE  Settled(last)'
BY DEF Settled, Seen, NetsSeen, Visible

\* The last clean run leaves nothing to do, until somebody edits the directory.
LEMMA RepeatStep == RepeatInv /\ [Next]_vars => RepeatInv'
<1> SUFFICES ASSUME RepeatInv, [Next]_vars PROVE RepeatInv'
  OBVIOUS
<1> USE DEF disk, run, count, Stop
<1>t. TypeOK /\ TypeOK' /\ FoundInv /\ FoundInv'
  BY FoundStep DEF RepeatInv, FoundInv
<1>e. CASE edits' # 0
  BY <1>t, <1>e DEF RepeatInv
<1> SUFFICES ASSUME edits' = 0 PROVE RepeatInv'
  BY <1>e
<1>a. [Alone]_vars /\ edits = 0
  <2>1. ~Edit
    BY <1>t DEF Edit, TypeOK
  <2>2. [Alone]_vars
    BY <2>1 DEF Next
  <2>3. edits' = edits
    BY <2>2 DEF Alone, Begin, Tool, Start, LoadUnit, OpenFile, FixFile, RunRules,
                PlanNetwork, Conclude, WriteFile, Finish, WriteFails, Kill, vars
  <2> QED BY <2>2, <2>3
<1>p. PrefixInv /\ PrefixInv'
  BY <1>a, PrefixStep DEF RepeatInv
<1>1. ASSUME NEW a \in Invocations, Start(a) PROVE RepeatInv'
  <2>1. /\ pc = "done" /\ pc' = "load" /\ UNCHANGED <<file, network, last>>
        /\ args' = a /\ target' = NoNet /\ ~create'
        /\ todo' = {p \in Paths : IF a.dir THEN Present(p) ELSE p \in a.sel}
        /\ nets' = {} /\ loaded' = Nothing
    BY <1>1 DEF Start
  <2>2. last # NoRun => Settled(last)'
    BY <1>a, <2>1, SameSettled DEF RepeatInv
  <2>3. \A p \in todo' : Visible(args', p)
    BY <2>1 DEF Visible
  <2>4. \A c \in Containers \ todo' : loaded'[c] = Seen(args)'[c]
    BY <2>1 DEF Visible, Seen, Present, Nothing, Paths
  <2>5. \A n \in Networks \ todo' : n \notin NetsSeen(args)'
    BY <2>1, NamesAssumption DEF Visible, NetsSeen, Present, Paths
  <2> QED BY <1>t, <1>p, <2>1, <2>2, <2>3, <2>4, <2>5 DEF RepeatInv
<1>2. ASSUME NEW p \in Paths, LoadUnit(p) PROVE RepeatInv'
  <2>1. /\ pc = "load" /\ pc' \in {"load", "done"} /\ p \in todo /\ todo' = todo \ {p}
        /\ UNCHANGED <<file, network, last, args, target, create>>
    BY <1>2 DEF LoadUnit
  <2>2. last' # NoRun => Settled(last)'
    BY <1>a, <2>1, SameSettled DEF RepeatInv
  <2>3. Visible(args, p)
    BY <1>a, <2>1 DEF RepeatInv
  <2>4. Seen(args)' = Seen(args) /\ NetsSeen(args)' = NetsSeen(args)
    BY <2>1 DEF Seen, NetsSeen, Visible
  <2>5. \/ pc' = "done"
        \/ /\ p \in Containers /\ nets' = nets /\ loaded' = [loaded EXCEPT ![p] = file[p]]
        \/ /\ p \in Networks /\ p \notin Containers /\ network[p] # "absent"
           /\ nets' = nets \cup {p} /\ loaded' = loaded
    BY <1>2, NamesAssumption DEF LoadUnit, Present
  <2>6. ASSUME pc' = "load", NEW c \in Containers \ todo'
        PROVE  loaded'[c] = Seen(args)[c]
    <3>1. loaded \in [Containers -> Container \cup {Absent}]
      BY <1>t DEF TypeOK, Projects
    <3>2. CASE c = p
      <4>1. Seen(args)[c] = file[c]
        BY <2>3, <3>2 DEF Seen
      <4> QED BY <2>5, <2>6, <3>1, <3>2, <4>1
    <3>3. CASE c # p
      <4>1. loaded[c] = Seen(args)[c]
        BY <1>a, <2>1, <2>6, <3>3 DEF RepeatInv
      <4> QED BY <2>5, <2>6, <3>1, <3>3, <4>1
    <3> QED BY <3>2, <3>3
  <2>7. ASSUME pc' = "load", NEW n \in Networks \ todo'
        PROVE  n \in nets' <=> n \in NetsSeen(args)
    BY <1>a, <2>1, <2>3, <2>5, <2>7, NamesAssumption DEF RepeatInv, NetsSeen
  <2>8. \A q \in todo' : Visible(args, q)' = Visible(args, q)
    BY <2>1 DEF Visible
  <2> QED BY <1>a, <1>t, <1>p, <2>1, <2>2, <2>4, <2>6, <2>7, <2>8 DEF RepeatInv
<1>3. CASE RunRules
  <2>1. /\ pc = "load" /\ todo = {} /\ pc' \in {"plan", "done"}
        /\ UNCHANGED <<file, network, last, args, target, create, loaded, nets>>
    BY <1>3 DEF RunRules
  <2>2. last' # NoRun => Settled(last)'
    BY <1>a, <2>1, SameSettled DEF RepeatInv
  <2>3. Seen(args)' = Seen(args) /\ NetsSeen(args)' = NetsSeen(args)
    BY <2>1 DEF Seen, NetsSeen, Visible
  <2>4. loaded = Seen(args)
    BY <1>a, <1>t, <2>1 DEF RepeatInv, TypeOK, Projects, Seen
  <2>5. nets = NetsSeen(args)
    BY <1>a, <1>t, <2>1 DEF RepeatInv, TypeOK, NetsSeen
  <2> QED BY <1>a, <1>t, <1>p, <2>1, <2>2, <2>3, <2>4, <2>5 DEF RepeatInv
<1>4. CASE PlanNetwork
  <2>1. /\ pc = "plan" /\ pc' \in {"fix", "done"}
        /\ UNCHANGED <<file, network, last, args, loaded, nets, findings, change>>
    BY <1>4 DEF PlanNetwork
  <2>2. last' # NoRun => Settled(last)'
    BY <1>a, <2>1, SameSettled DEF RepeatInv
  <2>3. Seen(args)' = Seen(args) /\ NetsSeen(args)' = NetsSeen(args)
    BY <2>1 DEF Seen, NetsSeen, Visible
  <2>4. Joining' = Joining /\ target = NoNet /\ ~create
    BY <1>a, <2>1 DEF RepeatInv, Joining, Selected
  <2>5. pc' = "fix" =>
          \/ Joining /\ nets # {} /\ First(target', nets) /\ ~create'
          \/ Joining /\ nets = {} /\ target' = Shared /\ create'
          \/ ~Joining /\ target' = NoNet /\ ~create'
    BY <1>4, <2>4 DEF PlanNetwork, Joining, First
  <2>6. pc' = "fix" => TargetOK'
    BY <2>1, <2>4, <2>5 DEF TargetOK, First
  <2>7. Unmoved'
    BY <1>t, <2>1 DEF FoundInv, Unmoved
  <2> QED BY <1>a, <1>t, <1>p, <2>1, <2>2, <2>3, <2>6, <2>7 DEF RepeatInv
<1>5. ASSUME NEW c \in Containers, FixFile(c) PROVE RepeatInv'
  <2>1. /\ pc = "fix" /\ pc' \in {"fix", "done"} /\ c \in todo
        /\ UNCHANGED <<file, network, last, args, loaded, nets, findings, target, create>>
    BY <1>5 DEF FixFile, First
  <2>2. last' # NoRun => Settled(last)'
    BY <1>a, <2>1, SameSettled DEF RepeatInv
  <2>3. Seen(args)' = Seen(args) /\ NetsSeen(args)' = NetsSeen(args)
    BY <2>1 DEF Seen, NetsSeen, Visible
  <2>4. TargetOK'
    BY <1>a, <2>1 DEF RepeatInv, TargetOK, Joining, Selected, First
  <2>5. loaded[c] = file[c]
    <3>1. c \in Loaded(loaded)
      BY <1>t, <2>1, AuditUnit DEF FoundInv, FindingsOf
    <3> QED BY <1>a, <2>1, <3>1 DEF RepeatInv, Seen, Loaded
  <2>6. \A d \in Containers : change'[d] = change[d] \/ (d = c /\ change'[d].before = file[d])
    BY <1>5, <1>t DEF FixFile, TypeOK
  <2>7. Unmoved'
    BY <1>a, <2>1, <2>5, <2>6 DEF RepeatInv, Unmoved
  <2> QED BY <1>a, <1>t, <1>p, <2>1, <2>2, <2>3, <2>4, <2>7 DEF RepeatInv
<1>6. CASE Conclude
  <2>1. /\ pc = "fix" /\ pc' \in {"write", "done"}
        /\ UNCHANGED <<file, network, last, args, loaded, nets, findings, target, create, change>>
    BY <1>6 DEF Conclude
  <2>2. last' # NoRun => Settled(last)'
    BY <1>a, <2>1, SameSettled DEF RepeatInv
  <2>3. Seen(args)' = Seen(args) /\ NetsSeen(args)' = NetsSeen(args)
    BY <2>1 DEF Seen, NetsSeen, Visible
  <2>4. TargetOK' /\ Unmoved'
    BY <1>a, <2>1 DEF RepeatInv, TargetOK, Joining, Selected, First, Unmoved
  <2>5. \A d \in Containers : IF loaded[d] = Absent THEN Seen(args)[d] = Absent
                                                   ELSE Visible(args, d)
    BY <1>a, <2>1 DEF RepeatInv, Seen
  <2>6. \A d \in Containers : Visible(args, d)' = Visible(args, d)
    BY <2>1 DEF Visible
  <2> QED BY <1>a, <1>t, <1>p, <2>1, <2>2, <2>3, <2>4, <2>5, <2>6 DEF RepeatInv
<1>7. CASE pc = "write" /\ ((\E p \in Paths : OpenFile(p)) \/ WriteFile)
  <2>1. /\ pc' \in {"write", "done"}
        /\ UNCHANGED <<args, loaded, nets, findings, target, create, change>>
    BY <1>7 DEF OpenFile, WriteFile
  <2>2. pc' = "done" => last' = NoRun
    BY <1>7 DEF OpenFile, WriteFile
  <2>3. TargetOK' /\ Unmoved'
    BY <1>a, <1>7, <2>1 DEF RepeatInv, TargetOK, Joining, Selected, First, Unmoved
  <2>4. \A d \in Containers : Visible(args, d)' = Visible(args, d)
    BY <2>1 DEF Visible
  <2>5. open \subseteq Plan /\ todo \subseteq Plan
    BY <1>7, <1>p DEF PrefixInv, InWriting
  <2>6. /\ \A d \in Containers \ Changed : file'[d] = file[d]
        /\ \A n \in Networks : (create /\ n = Shared) \/ network'[n] = network[n]
    <3>1. \A d \in Containers \ Changed : d \notin Plan
      BY SharedAssumption, NamesAssumption DEF Plan
    <3>2. \A n \in Networks : n \in Plan => create /\ n = Shared
      BY NamesAssumption DEF Plan, Changed
    <3>3. CASE \E p \in Paths : OpenFile(p)
      BY <1>t, <2>5, <3>1, <3>2, <3>3 DEF OpenFile, First, TypeOK, Projects
    <3>4. CASE WriteFile
      BY <2>5, <3>1, <3>2, <3>4 DEF WriteFile
    <3> QED BY <1>7, <3>3, <3>4
  <2>7. ASSUME NEW d \in Containers, loaded[d] = Absent
        PROVE  Seen(args)'[d] = Absent
    <3>1. d \notin Changed
      BY <1>t, <1>7, <2>7, AuditUnit
         DEF FoundInv, FindingsOf, Loaded, Changed, NoChange
    <3>2. file'[d] = file[d] /\ Seen(args)[d] = Absent
      BY <1>a, <1>7, <2>6, <2>7, <3>1 DEF RepeatInv
    <3> QED BY <2>4, <3>2 DEF Seen
  <2>8. \A n \in Networks : (create /\ n = Shared) \/ (n \in nets <=> n \in NetsSeen(args)')
    BY <1>a, <1>7, <2>1, <2>6 DEF RepeatInv, NetsSeen, Visible
  <2>9. \A d \in Containers : loaded[d] # Absent => Visible(args, d)'
    BY <1>a, <1>7, <2>4 DEF RepeatInv
  <2> QED BY <1>t, <1>p, <2>1, <2>2, <2>3, <2>7, <2>8, <2>9 DEF RepeatInv
<1>8. CASE Finish
  <2>1. /\ pc = "write" /\ pc' = "done" /\ todo = {} /\ last' = args
        /\ UNCHANGED <<file, network>>
    BY <1>8 DEF Finish
  <2>2. Settled(args)
    BY <1>a, <2>1, WrittenIsSettled
  <2>3. Settled(last)'
    BY <2>1, <2>2 DEF Settled, Seen, NetsSeen, Visible
  <2> QED BY <1>t, <1>p, <2>1, <2>3 DEF RepeatInv
<1>9. CASE WriteFails \/ Kill
  <2>1. /\ pc' = "done" /\ UNCHANGED <<file, network>>
        /\ last' = NoRun \/ (pc # "write" /\ last' = last)
    BY <1>9 DEF WriteFails, Kill
  <2>2. last' # NoRun => Settled(last)'
    BY <1>a, <2>1, SameSettled DEF RepeatInv
  <2> QED BY <1>t, <1>p, <2>1, <2>2 DEF RepeatInv
<1>10. CASE UNCHANGED vars
  BY <1>a, <1>10, <1>t, <1>p DEF vars, RepeatInv, Settled, Seen, NetsSeen, Visible,
     TargetOK, Joining, Selected, First, Unmoved
<1>11. \A p \in Paths : OpenFile(p) => pc = "write"
  BY DEF OpenFile
<1>12. WriteFile => pc = "write"
  BY DEF WriteFile
<1> QED
  BY <1>a, <1>1, <1>2, <1>3, <1>4, <1>5, <1>6, <1>7, <1>8, <1>9, <1>10, <1>11, <1>12
     DEF Alone, Begin, Tool

\* "Applying a fix twice equals applying it once" for the command: whatever
\* else was run, refused, previewed or killed in between, the command line that
\* was last carried through changes nothing more, for every directory.
THEOREM FixIsIdempotent == Spec => []Idempotent
<1>1. Init => RepeatInv
  <2> SUFFICES ASSUME Init PROVE RepeatInv
    OBVIOUS
  <2>1. Plan = {} /\ Loaded(loaded) = {}
    BY DEF Init, Plan, Changed, NoChange, Loaded, Nothing
  <2>2. PrefixInv
    BY <2>1, InitType DEF PrefixInv, Init, WritesArePrefix
  <2> QED BY <2>2, FoundInit DEF RepeatInv, Init
<1>2. RepeatInv /\ [Next]_vars => RepeatInv'
  BY RepeatStep
<1>3. RepeatInv => Idempotent
  <2> SUFFICES ASSUME RepeatInv, pc = "fix", todo = {}, last = args, edits = 0
               PROVE  Changed = {} /\ ~create
    BY DEF Idempotent
  <2>1. /\ FoundInv /\ TypeOK /\ TargetOK /\ Unmoved /\ findings = Audit(loaded)
        /\ loaded = Seen(args) /\ nets = NetsSeen(args) /\ AsRead
    BY DEF RepeatInv, FoundInv, PrefixInv
  <2>2. Settled(args)
    BY <2>1, InputsAssumption DEF RepeatInv, TypeOK
  <2>3. ASSUME create PROVE FALSE
    <3>1. PICK f \in findings : f.rule = "QD030" /\ Selected(f)
      BY <2>1, <2>3 DEF TargetOK, Joining
    <3>2. NetsSeen(args) # {} \/ network[Shared] # "absent"
      BY <2>1, <2>2, <3>1 DEF Settled, Selected, Fixable
    <3>3. network[Shared] = "absent"
      BY <2>1, <2>3, SharedAssumption, NamesAssumption DEF AsRead, Plan, Untouched
    <3> QED BY <2>1, <2>3, <3>2, <3>3 DEF TargetOK
  <2>4. target = NoNet \/ First(target, NetsSeen(args))
    BY <2>1, <2>3 DEF TargetOK
  <2>5. ASSUME NEW c \in Containers PROVE c \notin Changed
    <3>1. CASE FindingsOf(c) = {}
      BY <2>1, <3>1 DEF FoundInv, Changed, NoChange
    <3>2. CASE FindingsOf(c) # {}
      <4>1. HandedBack(c)
        BY <2>1, <3>2 DEF FoundInv
      <4>2. change[c].before = loaded[c]
        BY <2>1, <4>1, SentinelsAssumption DEF Unmoved, HandedBack, NoChange
      <4>3. change[c].before = file[c]
        BY <2>1, <4>1, <4>2, SentinelsAssumption DEF Seen, HandedBack
      <4>4. \A f \in FindingsOf(c) : ~Applies(file[c], f, target)
        BY <2>1, <2>2, <2>4 DEF Settled, FindingsOf, Selected, TypeOK
      <4>5. Fixed(file[c], FindingsOf(c), target) = file[c]
        BY <4>1, <4>3, <4>4, DeclinedChangesNothing DEF HandedBack
      <4> QED BY <4>1, <4>3, <4>5 DEF HandedBack, Changed
    <3> QED BY <3>1, <3>2
  <2> QED BY <2>3, <2>5 DEF Changed
<1> QED BY <1>1, <1>2, <1>3, PTL DEF Spec
=============================================================================
