----------------------------- MODULE LintProofs -----------------------------
(***************************************************************************)
(* Where the advice of QD001 to QD004 leads, and who decides how loud it   *)
(* is, for every project, host, configuration and set of directives.       *)
(***************************************************************************)
EXTENDS Lint, FiniteSetTheorems, TLAPS

-----------------------------------------------------------------------------
(* Types, and what is found.                                               *)

TypeInv ==
  /\ project \in [Containers -> Container]
  /\ filesystem \in [Sources -> {"plain", "nfs", "context"}]
  /\ directives \in [Containers -> SUBSET Directive]
  /\ mode \in SELinuxModes /\ config \in Setting /\ mends \in Nat

\* The mounts of a project, by unit and line.
Mounts == {p \in Containers \X Slots : p[2] \in Mounted(project[p[1]])}

SrcOf(p)   == project[p[1]].mounts[p[2]].src
LabelOf(p) == project[p[1]].mounts[p[2]].label

Place(f) == <<f.unit, f.slot>>

\* A mount that is there has a source and a label.
LEMMA MountType ==
  ASSUME TypeInv, NEW p \in Mounts
  PROVE  /\ p[1] \in Containers /\ p[2] \in Slots /\ p = <<p[1], p[2]>>
         /\ project[p[1]].mounts[p[2]] \in Mount
         /\ SrcOf(p) \in Sources /\ LabelOf(p) \in Labels
<1>1. p[1] \in Containers /\ p[2] \in Slots /\ p = <<p[1], p[2]>>
  BY DEF Mounts
<1>2. project[p[1]].mounts[p[2]] \in Mount
  BY <1>1 DEF TypeInv, Container, Mounts, Mounted
<1> QED  BY <1>1, <1>2 DEF SrcOf, LabelOf, Mount

\* Two units that mount a source make its usage two, and usage two takes two.
LEMMA Usage ==
  ASSUME NEW src
  PROVE  BindSourceUsage(project, src) >= 2 <=>
           \E c, d \in Containers : /\ c # d /\ src \in SourcesOf(project[c])
                                    /\ src \in SourcesOf(project[d])
<1> DEFINE users == {e \in Containers : src \in SourcesOf(project[e])}
<1>1. IsFiniteSet(users) /\ Cardinality(users) \in Nat
  BY ContainersAssumption, FS_Subset, FS_CardinalityType
<1>2. ASSUME NEW c \in users, NEW d \in users, c # d PROVE Cardinality(users) >= 2
  <2>1. IsFiniteSet(users \ {c}) /\ Cardinality(users \ {c}) = Cardinality(users) - 1
    BY <1>1, FS_RemoveElement
  <2>2. Cardinality(users \ {c}) # 0  BY <1>2, <2>1, FS_EmptySet
  <2>3. Cardinality(users \ {c}) \in Nat  BY <2>1, FS_CardinalityType
  <2> QED  BY <1>1, <2>1, <2>2, <2>3
<1>3. ASSUME Cardinality(users) >= 2 PROVE \E c, d \in users : c # d
  <2>1. users # {}  BY <1>1, <1>3, FS_EmptySet
  <2>2. PICK c : c \in users  BY <2>1
  <2>3. users # {c}
    <3>1. Cardinality({c}) = 1  BY FS_Singleton
    <3> QED  BY <1>3, <3>1
  <2> QED  BY <2>2, <2>3
<1> QED  BY <1>2, <1>3 DEF BindSourceUsage

\* It is a number.
LEMMA UsageType ==
  ASSUME NEW src
  PROVE  BindSourceUsage(project, src) \in Nat
BY ContainersAssumption, FS_Subset, FS_CardinalityType DEF BindSourceUsage

\* Every finding of a rule is about a mount and says something true of it; a
\* QD000 is about a directive without a reason.
LEMMA FindingShape ==
  ASSUME TypeInv, NEW f \in Findings
  PROVE  \/ /\ f = At("QD000", f.unit, 0) /\ f.unit \in Containers
            /\ \E e \in directives[f.unit] : ~e.reason
         \/ /\ Place(f) \in Mounts /\ f = At(f.rule, f.unit, f.slot)
            /\ \/ /\ f.rule = "QD001" /\ LabelOf(Place(f)) = "none"
                  /\ SrcOf(Place(f)) \notin SystemSources
               \/ /\ f.rule = "QD002" /\ LabelOf(Place(f)) = "Z"
                  /\ BindSourceUsage(project, SrcOf(Place(f))) >= 2
               \/ /\ f.rule = "QD003" /\ LabelOf(Place(f)) # "none"
                  /\ filesystem[SrcOf(Place(f))] # "plain"
               \/ /\ f.rule = "QD004" /\ LabelOf(Place(f)) # "none"
                  /\ SrcOf(Place(f)) \in SystemSources
<1>1. PICK r \in Reported : f = r.finding  BY DEF Findings
<1>2. CASE r \in Run
  <2>1. f \in Raw  BY <1>1, <1>2 DEF Run
  <2>2. ASSUME NEW c \in Containers, NEW s \in Slots, s \in Mounted(project[c])
        PROVE  <<c, s>> \in Mounts
    BY <2>2 DEF Mounts
  <2>3. CASE f \in Unlabelled
    BY <2>2, <2>3 DEF Unlabelled, Where, At, MountOf, Place, SrcOf, LabelOf, HasSELinuxLabel
  <2>4. CASE f \in SharedPrivate
    BY <2>2, <2>4 DEF SharedPrivate, Where, At, MountOf, Place, SrcOf, LabelOf
  <2>5. CASE f \in Unlabellable
    BY <2>2, <2>5 DEF Unlabellable, Where, At, MountOf, Place, SrcOf, LabelOf, HasSELinuxLabel
  <2>6. CASE f \in SystemLabelled
    BY <2>2, <2>6 DEF SystemLabelled, Where, At, MountOf, Place, SrcOf, LabelOf, HasSELinuxLabel
  <2> QED  BY <2>1, <2>3, <2>4, <2>5, <2>6 DEF Raw
<1>3. CASE r \notin Run
  <2>1. PICK c \in {d \in Containers : "QD000" \notin config.off
                                         /\ \E e \in directives[d] : ~e.reason} :
          r = [finding |-> At("QD000", c, 0),
               severity |-> effectiveSeverity("QD000", Warning, FALSE)]
    BY <1>1, <1>3 DEF Reported
  <2>2. f = At("QD000", c, 0)  BY <1>1, <2>1
  <2>3. f.unit = c  BY <2>2 DEF At
  <2> QED  BY <2>1, <2>2, <2>3
<1> QED  BY <1>2, <1>3

-----------------------------------------------------------------------------
(* What following a finding's advice does.                                 *)

\* One mount is replaced and nothing else.
LEMMA Replaced ==
  ASSUME TypeInv, NEW p \in Mounts, NEW m \in Mount,
         project' = [project EXCEPT ![p[1]] = [project[p[1]] EXCEPT !.mounts =
                                                 [project[p[1]].mounts EXCEPT ![p[2]] = m]]]
  PROVE  /\ project' \in [Containers -> Container] /\ Mounts' = Mounts
         /\ SrcOf(p)' = m.src /\ LabelOf(p)' = m.label
         /\ \A q \in Mounts \ {p} : SrcOf(q)' = SrcOf(q) /\ LabelOf(q)' = LabelOf(q)
<1> DEFINE c == p[1]
           s == p[2]
           new == [project[c].mounts EXCEPT ![s] = m]
<1>1. c \in Containers /\ s \in Slots /\ p = <<c, s>>  BY MountType
<1>2. /\ project \in [Containers -> Container]
      /\ project[c] \in Container /\ project[c].mounts \in [Slots -> Mount \cup {NoMount}]
  BY <1>1 DEF TypeInv, Container
<1>3. new \in [Slots -> Mount \cup {NoMount}]  BY <1>1, <1>2
<1>4. [project[c] EXCEPT !.mounts = new] \in Container
      /\ [project[c] EXCEPT !.mounts = new].mounts = new
  BY <1>2, <1>3 DEF Container
<1>5. /\ project' \in [Containers -> Container] /\ project'[c].mounts = new
      /\ \A d \in Containers \ {c} : project'[d] = project[d]
  <2> DEFINE unit == [project[c] EXCEPT !.mounts = new]
  <2>1. project' = [project EXCEPT ![c] = unit]  OBVIOUS
  <2>2. unit \in Container /\ unit.mounts = new  BY <1>4
  <2> HIDE DEF unit, new
  <2> QED  BY <1>1, <1>2, <2>1, <2>2
<1>6. /\ project'[c].mounts[s] = m
      /\ \A t \in Slots \ {s} : project'[c].mounts[t] = project[c].mounts[t]
  BY <1>1, <1>2, <1>5
<1>7. \A d \in Containers : Mounted(project'[d]) = Mounted(project[d])
  <2>1. Mounted(project'[c]) = Mounted(project[c])
    <3>1. project'[c] # Absent /\ project[c] # Absent
      BY <1>1, <1>2, <1>5, SentinelsAssumption
    <3>2. m # NoMount /\ project[c].mounts[s] # NoMount
      BY MountType, SentinelsAssumption
    <3> QED  BY <1>6, <3>1, <3>2 DEF Mounted
  <2> QED  BY <1>5, <2>1
<1>8. Mounts' = Mounts  BY <1>7 DEF Mounts
<1>9. SrcOf(p)' = m.src /\ LabelOf(p)' = m.label  BY <1>6 DEF SrcOf, LabelOf
<1>10. ASSUME NEW q \in Mounts, q # p
       PROVE  SrcOf(q)' = SrcOf(q) /\ LabelOf(q)' = LabelOf(q)
  <2>1. q[1] \in Containers /\ q[2] \in Slots /\ q = <<q[1], q[2]>>  BY MountType
  <2>2. project'[q[1]].mounts[q[2]] = project[q[1]].mounts[q[2]]
    BY <1>1, <1>5, <1>6, <1>10, <2>1
  <2> QED  BY <2>2 DEF SrcOf, LabelOf
<1> QED  BY <1>5, <1>8, <1>9, <1>10

\* Only the mounts a finding speaks of change, and as its remediation says.
Others(p) == \A q \in Mounts \ {p} : SrcOf(q)' = SrcOf(q) /\ LabelOf(q)' = LabelOf(q)

\* QD001: the mount gets the label that was recommended.
LEMMA LabelAdvice ==
  ASSUME TypeInv, NEW f \in Findings, f.rule = "QD001", Mend(f)
  PROVE  /\ project' \in [Containers -> Container] /\ Mounts' = Mounts
         /\ SrcOf(Place(f))' = SrcOf(Place(f))
         /\ LabelOf(Place(f))' = LabelFor(project, SrcOf(Place(f)))
         /\ Others(Place(f))
<1> DEFINE p == Place(f)
           label == LabelFor(project, SrcOf(p))
           m == [project[p[1]].mounts[p[2]] EXCEPT !.label = label]
<1>1. p \in Mounts /\ p[1] = f.unit /\ p[2] = f.slot
  BY FindingShape DEF At, Place
<1>2. project[p[1]].mounts[p[2]] \in Mount  BY <1>1, MountType
<1>3. m \in Mount /\ m.label = label /\ m.src = SrcOf(p)
  BY <1>2 DEF Mount, Labels, LabelFor, SrcOf
<1>4. project' = [project EXCEPT ![p[1]] = [project[p[1]] EXCEPT !.mounts =
                                              [project[p[1]].mounts EXCEPT ![p[2]] = m]]]
  <2>1. project' = [project EXCEPT ![f.unit].mounts[f.slot].label = label]
    BY <1>1 DEF Mend, Remedied, Relabelled, MountOf, SrcOf
  <2> QED  BY <1>1, <2>1
<1> QED  BY <1>1, <1>3, <1>4, Replaced DEF Others

\* QD003: the mount loses its label.
LEMMA ContextAdvice ==
  ASSUME TypeInv, NEW f \in Findings, f.rule = "QD003", Mend(f)
  PROVE  /\ project' \in [Containers -> Container] /\ Mounts' = Mounts
         /\ SrcOf(Place(f))' = SrcOf(Place(f)) /\ LabelOf(Place(f))' = "none"
         /\ Others(Place(f))
<1> DEFINE p == Place(f)
           m == [project[p[1]].mounts[p[2]] EXCEPT !.label = "none"]
<1>1. p \in Mounts /\ p[1] = f.unit /\ p[2] = f.slot
  BY FindingShape DEF At, Place
<1>2. project[p[1]].mounts[p[2]] \in Mount  BY <1>1, MountType
<1>3. m \in Mount /\ m.label = "none" /\ m.src = SrcOf(p)
  BY <1>2 DEF Mount, Labels, SrcOf
<1>4. project' = [project EXCEPT ![p[1]] = [project[p[1]] EXCEPT !.mounts =
                                              [project[p[1]].mounts EXCEPT ![p[2]] = m]]]
  <2>1. project' = [project EXCEPT ![f.unit].mounts[f.slot].label = "none"]
    BY DEF Mend, Remedied, Relabelled
  <2> QED  BY <1>1, <2>1
<1> QED  BY <1>1, <1>3, <1>4, Replaced DEF Others

\* QD004: the mount loses its label and moves to a directory of its own.
LEMMA SystemAdvice ==
  ASSUME TypeInv, NEW f \in Findings, f.rule = "QD004", Mend(f)
  PROVE  /\ project' \in [Containers -> Container] /\ Mounts' = Mounts
         /\ SrcOf(Place(f))' \in Sources \ SystemSources /\ LabelOf(Place(f))' = "none"
         /\ Others(Place(f))
<1> DEFINE p == Place(f)
           m == [project[p[1]].mounts[p[2]] EXCEPT !.label = "none", !.src = OwnSource[f.unit]]
<1>1. p \in Mounts /\ p[1] = f.unit /\ p[2] = f.slot
  BY FindingShape DEF At, Place
<1>2. project[p[1]].mounts[p[2]] \in Mount /\ f.unit \in Containers  BY <1>1, MountType
<1>3. m \in Mount /\ m.label = "none" /\ m.src \in Sources \ SystemSources
  BY <1>2, LintAssumption DEF Mount, Labels
<1>4. project' = [project EXCEPT ![p[1]] = [project[p[1]] EXCEPT !.mounts =
                                              [project[p[1]].mounts EXCEPT ![p[2]] = m]]]
  <2>1. project' = [project EXCEPT ![f.unit].mounts[f.slot] =
                      [@ EXCEPT !.label = "none", !.src = OwnSource[f.unit]]]
    BY DEF Mend, Remedied
  <2> QED  BY <1>1, <2>1
<1> QED  BY <1>1, <1>3, <1>4, Replaced DEF Others

\* QD002: every private label of the source becomes a shared one.
LEMMA SharingAdvice ==
  ASSUME TypeInv, NEW f \in Findings, f.rule = "QD002", Mend(f)
  PROVE  /\ project' \in [Containers -> Container] /\ Mounts' = Mounts
         /\ \A q \in Mounts : SrcOf(q)' = SrcOf(q)
         /\ \A q \in Mounts : LabelOf(q)' =
              IF SrcOf(q) = SrcOf(Place(f)) /\ LabelOf(q) = "Z" THEN "z" ELSE LabelOf(q)
<1> DEFINE src == SrcOf(Place(f))
           New(c, s) == IF s \in Mounted(project[c]) /\ project[c].mounts[s].src = src
                             /\ project[c].mounts[s].label = "Z"
                        THEN [project[c].mounts[s] EXCEPT !.label = "z"]
                        ELSE project[c].mounts[s]
<1>1. src = MountOf(f).src  BY DEF SrcOf, Place, MountOf
<1>2. project' = [c \in Containers |->
                    [project[c] EXCEPT !.mounts = [s \in Slots |-> New(c, s)]]]
  BY <1>1 DEF Mend, Remedied
<1>3. ASSUME NEW c \in Containers, NEW s \in Slots
      PROVE  /\ New(c, s) \in Mount \cup {NoMount}
             /\ s \in Mounted(project[c]) <=> New(c, s) # NoMount
             /\ s \in Mounted(project[c]) =>
                  /\ New(c, s).src = project[c].mounts[s].src
                  /\ New(c, s).label = IF project[c].mounts[s].src = src
                                            /\ project[c].mounts[s].label = "Z"
                                       THEN "z" ELSE project[c].mounts[s].label
  <2>1. /\ project[c].mounts[s] \in Mount \cup {NoMount} /\ project[c] # Absent
        /\ s \in Mounted(project[c]) <=> project[c].mounts[s] # NoMount
    BY SentinelsAssumption DEF TypeInv, Container, Mounted
  <2> QED  BY <2>1, SentinelsAssumption DEF Mount, Labels
<1> HIDE DEF New
<1>4. ASSUME NEW c \in Containers
      PROVE  /\ project'[c] \in Container
             /\ \A s \in Slots : project'[c].mounts[s] = New(c, s)
             /\ Mounted(project'[c]) = Mounted(project[c])
  <2>1. project[c] \in Container  BY DEF TypeInv
  <2>2. /\ project'[c] \in Container
        /\ project'[c].mounts = [s \in Slots |-> New(c, s)]
    BY <1>2, <1>3, <2>1 DEF Container
  <2>3. project'[c] # Absent /\ project[c] # Absent
    BY <2>1, <2>2, SentinelsAssumption
  <2> QED  BY <1>3, <2>2, <2>3 DEF Mounted
<1>5. Mounts' = Mounts  BY <1>4 DEF Mounts
<1>6. project' \in [Containers -> Container]  BY <1>2, <1>4
<1>7. ASSUME NEW q \in Mounts
      PROVE  /\ SrcOf(q)' = SrcOf(q)
             /\ LabelOf(q)' = IF SrcOf(q) = src /\ LabelOf(q) = "Z" THEN "z" ELSE LabelOf(q)
  <2>1. q[1] \in Containers /\ q[2] \in Slots /\ q[2] \in Mounted(project[q[1]])
    BY MountType DEF Mounts
  <2>2. project'[q[1]].mounts[q[2]] = New(q[1], q[2])  BY <1>4, <2>1
  <2> QED  BY <1>3, <2>1, <2>2 DEF SrcOf, LabelOf
<1> QED  BY <1>5, <1>6, <1>7

\* A project keeps its mounts and its type, whatever is mended.
LEMMA TypeStep == TypeInv /\ [Next]_vars => TypeInv'
<1> SUFFICES ASSUME TypeInv, [Next]_vars PROVE TypeInv'
  OBVIOUS
<1>1. ASSUME NEW f \in Findings, Mend(f) PROVE TypeInv'
  <2>1. f.rule \in {"QD000", "QD001", "QD002", "QD003", "QD004"}
    BY FindingShape DEF At
  <2>2. project' \in [Containers -> Container]
    <3>1. CASE f.rule = "QD000"  BY <1>1, <3>1 DEF Mend, Remedied, TypeInv
    <3> QED
      BY <1>1, <2>1, <3>1, LabelAdvice, SharingAdvice, ContextAdvice, SystemAdvice
  <2>3. filesystem' \in [Sources -> {"plain", "nfs", "context"}]
    BY <1>1 DEF Mend, TypeInv
  <2>4. directives' \in [Containers -> SUBSET Directive]
    <3>1. CASE f.rule # "QD000"  BY <1>1, <3>1 DEF Mend, TypeInv
    <3>2. CASE f.rule = "QD000"
      <4>1. f.unit \in Containers  BY <3>2, FindingShape
      <4>2. \A d \in directives[f.unit] : [d EXCEPT !.reason = TRUE] \in Directive
        <5> SUFFICES ASSUME NEW d \in directives[f.unit]
                     PROVE  [d EXCEPT !.reason = TRUE] \in Directive
          OBVIOUS
        <5>1. d \in Directive  BY <4>1 DEF TypeInv
        <5> QED  BY <5>1 DEF Directive
      <4>3. {[d EXCEPT !.reason = TRUE] : d \in directives[f.unit]} \in SUBSET Directive
        BY <4>2
      <4> QED  BY <1>1, <3>2, <4>1, <4>3 DEF Mend, TypeInv
    <3> QED  BY <3>1, <3>2
  <2>5. mends' \in Nat /\ UNCHANGED <<mode, config>>  BY <1>1 DEF Mend, TypeInv
  <2> QED  BY <2>2, <2>3, <2>4, <2>5 DEF TypeInv
<1>2. CASE UNCHANGED vars  BY <1>2 DEF vars, TypeInv
<1> QED  BY <1>1, <1>2 DEF Next

\* A project is well-typed to begin with.
LEMMA InitType == Init => TypeInv
BY LintAssumption DEF Init, TypeInv

-----------------------------------------------------------------------------
(* The severities.                                                         *)

\* On a permissive host a graded rule reports notes, and without SELinux nothing,
\* whatever the configuration asks for.
LEMMA Ladder ==
  ASSUME TypeInv, NEW rule \in Graded
  PROVE  /\ mode = "disabled" => Grades(rule) = {}
         /\ mode = "permissive" => Grades(rule) \subseteq {Note}
<1>1. CASE mode = "disabled"
  <2>1. DowngradeForSELinux(DefaultSeverity[rule]) = {}
    BY <1>1 DEF DowngradeForSELinux
  <2> QED  BY <1>1, <2>1 DEF Grades
<1>2. CASE mode = "permissive"
  <2>1. DowngradeForSELinux(DefaultSeverity[rule]) = {Note}
    BY <1>2 DEF DowngradeForSELinux
  <2>2. DefaultSeverity[rule] \in {Warning, Error}
    BY DEF DefaultSeverity, Graded, ReportedRules
  <2>3. Note < DefaultSeverity[rule]
    BY <2>2 DEF Note, Warning, Error
  <2>4. Grades(rule) = {effectiveSeverity(rule, Note, TRUE)}
    BY <2>1, <2>3 DEF Grades
  <2>5. effectiveSeverity(rule, Note, TRUE) = Note
    <3>1. CASE rule \notin DOMAIN config.severity
      BY <3>1 DEF effectiveSeverity
    <3>2. CASE rule \in DOMAIN config.severity
      <4>1. config.severity[rule] \in Severity
        BY <3>2 DEF TypeInv, Setting
      <4>2. config.severity[rule] > Note \/ config.severity[rule] = Note
        BY <4>1 DEF Severity, Note, Warning, Error
      <4> QED  BY <3>2, <4>2 DEF effectiveSeverity
    <3> QED  BY <3>1, <3>2
  <2> QED  BY <1>2, <2>4, <2>5
<1> QED  BY <1>1, <1>2

\* The host has the last word over .quaddoc.toml on QD001 to QD003: silence
\* without SELinux, notes when it is permissive (ADR-0004).
THEOREM TheHostWins == Spec => []HostWins
<1>1. TypeInv => HostWins
  <2> SUFFICES ASSUME TypeInv, NEW r \in Reported, r.finding.rule \in Graded
               PROVE  mode # "disabled" /\ (mode = "permissive" => r.severity = Note)
    BY DEF HostWins
  <2>1. r \in Run
    <3>1. ASSUME r \notin Run PROVE FALSE
      <4>1. PICK c \in {d \in Containers : "QD000" \notin config.off
                                             /\ \E e \in directives[d] : ~e.reason} :
              r = [finding |-> At("QD000", c, 0),
                   severity |-> effectiveSeverity("QD000", Warning, FALSE)]
        BY <3>1 DEF Reported
      <4>2. r.finding.rule = "QD000"  BY <4>1 DEF At
      <4> QED  BY <4>2 DEF Graded
    <3> QED  BY <3>1
  <2>2. r.severity \in Grades(r.finding.rule)  BY <2>1 DEF Run
  <2> QED  BY <2>2, Ladder
<1> QED  BY <1>1, InitType, TypeStep, PTL DEF Spec

-----------------------------------------------------------------------------
(* The advice.                                                             *)

\* A mount that was given the recommended label has one, and a private one only
\* where nobody else mounts the source.
AdviceInv ==
  mended # NoFinding /\ mended.rule \in {"QD001", "QD002"} =>
    /\ Place(mended) \in Mounts
    /\ LabelOf(Place(mended)) # "none"
    /\ LabelOf(Place(mended)) = "Z" => ~(BindSourceUsage(project, SrcOf(Place(mended))) >= 2)

\* How often a source is mounted depends on where the mounts are.
LEMMA SameUsage ==
  ASSUME TypeInv, TypeInv', Mounts' = Mounts, \A q \in Mounts : SrcOf(q)' = SrcOf(q),
         NEW src
  PROVE  BindSourceUsage(project, src)' = BindSourceUsage(project, src)
<1>1. ASSUME NEW c \in Containers
      PROVE  SourcesOf(project[c])' = SourcesOf(project[c])
  <2>1. \A s \in Slots : s \in Mounted(project[c])' <=> s \in Mounted(project[c])
    <3> SUFFICES ASSUME NEW s \in Slots
                 PROVE  s \in Mounted(project[c])' <=> s \in Mounted(project[c])
      OBVIOUS
    <3>1. <<c, s>> \in Mounts <=> s \in Mounted(project[c])  BY DEF Mounts
    <3>2. (<<c, s>> \in Mounts)' <=> s \in Mounted(project[c])'  BY DEF Mounts
    <3> QED  BY <3>1, <3>2
  <2>2. Mounted(project[c]) \subseteq Slots /\ Mounted(project[c])' \subseteq Slots
    BY DEF Mounted
  <2>3. Mounted(project[c])' = Mounted(project[c])  BY <2>1, <2>2
  <2>4. ASSUME NEW s \in Mounted(project[c])
        PROVE  project'[c].mounts[s].src = project[c].mounts[s].src
    <3>1. <<c, s>> \in Mounts  BY <2>2 DEF Mounts
    <3> QED  BY <3>1 DEF SrcOf
  <2> QED  BY <2>3, <2>4 DEF SourcesOf
<1> QED  BY <1>1 DEF BindSourceUsage

\* The advice of QD001 and QD002 leaves sharing as it was.
LEMMA AdviceStep == TypeInv /\ AdviceInv /\ [Next]_vars => AdviceInv'
<1> SUFFICES ASSUME TypeInv, AdviceInv, [Next]_vars PROVE AdviceInv'
  OBVIOUS
<1>1. TypeInv'  BY TypeStep
<1>2. ASSUME NEW f \in Findings, Mend(f), f.rule = "QD001" PROVE AdviceInv'
  <2>1. mended' = f  BY <1>2 DEF Mend
  <2>2. Place(f) \in Mounts /\ Mounts' = Mounts  BY <1>2, FindingShape, LabelAdvice DEF At
  <2>3. /\ SrcOf(Place(f))' = SrcOf(Place(f)) /\ \A q \in Mounts : SrcOf(q)' = SrcOf(q)
        /\ LabelOf(Place(f))' = LabelFor(project, SrcOf(Place(f)))
    BY <1>2, LabelAdvice DEF Others
  <2>4. BindSourceUsage(project, SrcOf(Place(f)))' = BindSourceUsage(project, SrcOf(Place(f)))
    BY <1>1, <2>2, <2>3, SameUsage
  <2> DEFINE n == BindSourceUsage(project, SrcOf(Place(f)))
             label == LabelFor(project, SrcOf(Place(f)))
  <2>5. label = IF n > 1 THEN "z" ELSE "Z"  BY DEF LabelFor
  <2>6. n > 1 <=> n >= 2  BY UsageType
  <2>7. label # "none" /\ (label = "Z" => ~(n >= 2))
    <3> HIDE DEF n, label
    <3> QED  BY <2>5, <2>6
  <2>8. Place(mended)' = Place(f)  BY <2>1 DEF Place
  <2> QED  BY <2>2, <2>3, <2>4, <2>7, <2>8 DEF AdviceInv
<1>3. ASSUME NEW f \in Findings, Mend(f), f.rule = "QD002" PROVE AdviceInv'
  <2>1. mended' = f  BY <1>3 DEF Mend
  <2>2. /\ Place(f) \in Mounts /\ Mounts' = Mounts /\ LabelOf(Place(f)) = "Z"
    BY <1>3, FindingShape, SharingAdvice DEF At
  <2>3. LabelOf(Place(f))' = "z"  BY <1>3, <2>2, SharingAdvice
  <2> QED  BY <2>1, <2>2, <2>3 DEF AdviceInv
<1>4. ASSUME NEW f \in Findings, Mend(f), f.rule \notin {"QD001", "QD002"} PROVE AdviceInv'
  BY <1>4 DEF Mend, AdviceInv
<1>5. CASE UNCHANGED vars
  BY <1>5 DEF vars, AdviceInv, Mounts, LabelOf, SrcOf, BindSourceUsage
<1> QED  BY <1>2, <1>3, <1>4, <1>5 DEF Next

\* A mount that follows QD001 or QD002 is never reported by them again, whatever
\* else the project mounts, nor by QD003 where the filesystem holds labels.
THEOREM AdviceIsNotTakenBack == Spec => []AdviceHolds
<1>1. TypeInv /\ AdviceInv => AdviceHolds
  <2> SUFFICES ASSUME TypeInv, AdviceInv, mended # NoFinding, mended.rule \in {"QD001", "QD002"},
                      NEW f \in Findings, f.unit = mended.unit, f.slot = mended.slot
               PROVE  f.rule = "QD004" \/ (f.rule = "QD003" /\ filesystem[MountOf(f).src] # "plain")
    BY DEF AdviceHolds
  <2>1. Place(f) = Place(mended) /\ Place(f) \in Mounts /\ f.slot # 0
    <3>1. Place(f) = Place(mended)  BY DEF Place
    <3>2. Place(f) \in Mounts  BY <3>1 DEF AdviceInv
    <3>3. f.slot \in Slots  BY <3>2, MountType DEF Place
    <3> QED  BY <3>1, <3>2, <3>3, SlotsAssumption
  <2>2. f # At("QD000", f.unit, 0)  BY <2>1 DEF At
  <2>3. /\ LabelOf(Place(f)) # "none"
        /\ LabelOf(Place(f)) = "Z" => ~(BindSourceUsage(project, SrcOf(Place(f))) >= 2)
    BY <2>1 DEF AdviceInv
  <2>4. SrcOf(Place(f)) = MountOf(f).src  BY DEF SrcOf, Place, MountOf
  <2> QED  BY <2>2, <2>3, <2>4, FindingShape
<1>2. Init => AdviceInv  BY DEF Init, AdviceInv
<1> QED  BY <1>1, <1>2, InitType, TypeStep, AdviceStep, PTL DEF Spec

-----------------------------------------------------------------------------
(* How much advice there is left to follow. A finding of QD002 speaks of   *)
(* two mounts at least, so every mount has two credits to spend in each    *)
(* mending but one in those that a second mount pays for too.              *)

Private(x) == \E q \in Mounts : SrcOf(q) = x /\ LabelOf(q) = "Z"
Shared(x)  == \E p, q \in Mounts : p[1] # q[1] /\ SrcOf(p) = x /\ SrcOf(q) = x

\* To be moved from a system directory (QD004, or left to QD003).
ToMove == {p \in Mounts : SrcOf(p) \in SystemSources /\ LabelOf(p) # "none"}

\* To be labelled, now or once moved (QD001).
ToLabel == ToMove \cup {p \in Mounts : SrcOf(p) \notin SystemSources /\ LabelOf(p) = "none"}

\* To be shared before it is moved (QD002 on a system directory).
ToShare == {p \in Mounts : SrcOf(p) \in SystemSources /\ Private(SrcOf(p))}

\* What may still turn out to be private and shared (QD002 elsewhere).
MayShare == {p \in Mounts : SrcOf(p) \in SystemSources
                             \/ ~Shared(SrcOf(p)) \/ Private(SrcOf(p))}

\* To be given a reason (QD000).
ToExplain == {c \in Containers : \E e \in directives[c] : ~e.reason}
Explained == {c \in Containers : directives[c] # {}}

WorkLeft ==
  2 * Cardinality(ToMove) + 2 * Cardinality(ToLabel) + Cardinality(ToShare)
    + Cardinality(MayShare) + 2 * Cardinality(ToExplain)

Plain == \A s \in Sources \ SystemSources : filesystem[s] = "plain"

SettleInv == Plain => 2 * mends + WorkLeft <= 6 * Cardinality(Mounts) + 2 * Cardinality(Explained)

\* Sharing is a matter of mounts.
LEMMA SharedIsUsage ==
  ASSUME TypeInv, NEW x
  PROVE  BindSourceUsage(project, x) >= 2 <=> Shared(x)
<1>1. ASSUME NEW c \in Containers, x \in SourcesOf(project[c])
      PROVE  \E p \in Mounts : p[1] = c /\ SrcOf(p) = x
  <2>1. PICK s \in Mounted(project[c]) : project[c].mounts[s].src = x
    BY <1>1 DEF SourcesOf
  <2>2. <<c, s>> \in Mounts /\ SrcOf(<<c, s>>) = x
    BY <2>1 DEF Mounts, Mounted, SrcOf
  <2> QED  BY <2>2
<1>2. ASSUME NEW p \in Mounts, SrcOf(p) = x
      PROVE  p[1] \in Containers /\ x \in SourcesOf(project[p[1]])
  BY <1>2 DEF Mounts, SourcesOf, SrcOf
<1> QED  BY <1>1, <1>2, Usage DEF Shared

\* All of it is finite.
LEMMA Finite ==
  /\ IsFiniteSet(Mounts) /\ IsFiniteSet(ToMove) /\ IsFiniteSet(ToLabel)
  /\ IsFiniteSet(ToShare) /\ IsFiniteSet(MayShare) /\ IsFiniteSet(ToExplain)
  /\ IsFiniteSet(Explained)
<1>1. IsFiniteSet(Mounts)
  <2>1. IsFiniteSet(Containers \X Slots)
    BY ContainersAssumption, LintAssumption, FS_Product
  <2> QED  BY <2>1, FS_Subset DEF Mounts
<1>2. /\ ToMove \subseteq Mounts /\ ToLabel \subseteq Mounts /\ ToShare \subseteq Mounts
      /\ MayShare \subseteq Mounts
  BY DEF ToMove, ToLabel, ToShare, MayShare
<1>3. ToExplain \subseteq Containers /\ Explained \subseteq Containers
  BY DEF ToExplain, Explained
<1> QED  BY <1>1, <1>2, <1>3, ContainersAssumption, FS_Subset

\* A set that loses one or two of its elements is that much smaller.
LEMMA Smaller ==
  ASSUME NEW S, IsFiniteSet(S), NEW T
  PROVE  /\ T \subseteq S => Cardinality(T) <= Cardinality(S)
         /\ \A x \in S : T \subseteq S \ {x} => Cardinality(T) + 1 <= Cardinality(S)
         /\ \A x, y \in S : x # y /\ T \subseteq S \ {x, y} =>
              Cardinality(T) + 2 <= Cardinality(S)
<1>1. Cardinality(S) \in Nat  BY FS_CardinalityType
<1>2. T \subseteq S => Cardinality(T) <= Cardinality(S)  BY FS_Subset
<1>3. ASSUME NEW x \in S, T \subseteq S \ {x} PROVE Cardinality(T) + 1 <= Cardinality(S)
  <2>1. IsFiniteSet(S \ {x}) /\ Cardinality(S \ {x}) = Cardinality(S) - 1
    BY FS_RemoveElement
  <2>2. IsFiniteSet(T) /\ Cardinality(T) <= Cardinality(S \ {x})
    BY <1>3, <2>1, FS_Subset
  <2>3. Cardinality(T) \in Nat  BY <2>2, FS_CardinalityType
  <2> QED  BY <1>1, <2>1, <2>2, <2>3
<1>4. ASSUME NEW x \in S, NEW y \in S, x # y, T \subseteq S \ {x, y}
      PROVE  Cardinality(T) + 2 <= Cardinality(S)
  <2> DEFINE R == S \ {x}
  <2>1. IsFiniteSet(R) /\ Cardinality(R) = Cardinality(S) - 1 /\ y \in R
    BY <1>4, FS_RemoveElement
  <2>2. IsFiniteSet(R \ {y}) /\ Cardinality(R \ {y}) = Cardinality(R) - 1
    BY <2>1, FS_RemoveElement
  <2>3. IsFiniteSet(T) /\ Cardinality(T) <= Cardinality(R \ {y})
    BY <1>4, <2>2, FS_Subset
  <2>4. Cardinality(T) \in Nat  BY <2>3, FS_CardinalityType
  <2> QED  BY <1>1, <2>1, <2>2, <2>3, <2>4
<1> QED  BY <1>2, <1>3, <1>4

\* What a mending takes from the work that is left, by at least two credits.
Less ==
  /\ ToMove' \subseteq ToMove /\ ToLabel' \subseteq ToLabel /\ ToShare' \subseteq ToShare
  /\ MayShare' \subseteq MayShare /\ ToExplain' \subseteq ToExplain
  /\ \/ \E p \in ToMove : ToMove' \subseteq ToMove \ {p}
     \/ \E p \in ToLabel : ToLabel' \subseteq ToLabel \ {p}
     \/ \E p, q \in ToShare : p # q /\ ToShare' \subseteq ToShare \ {p, q}
     \/ \E p, q \in MayShare : p # q /\ MayShare' \subseteq MayShare \ {p, q}
     \/ \E c \in ToExplain : ToExplain' \subseteq ToExplain \ {c}

\* So it counts.
LEMMA LessIsLess ==
  ASSUME Less
  PROVE  WorkLeft' + 2 <= WorkLeft /\ WorkLeft \in Nat /\ WorkLeft' \in Nat
<1> DEFINE a == Cardinality(ToMove)   a2 == Cardinality(ToMove')
           b == Cardinality(ToLabel)  b2 == Cardinality(ToLabel')
           c == Cardinality(ToShare)  c2 == Cardinality(ToShare')
           d == Cardinality(MayShare) d2 == Cardinality(MayShare')
           e == Cardinality(ToExplain) e2 == Cardinality(ToExplain')
<1>1. /\ IsFiniteSet(ToMove') /\ IsFiniteSet(ToLabel') /\ IsFiniteSet(ToShare')
      /\ IsFiniteSet(MayShare') /\ IsFiniteSet(ToExplain')
  BY Finite, FS_Subset DEF Less
<1>2. a \in Nat /\ b \in Nat /\ c \in Nat /\ d \in Nat /\ e \in Nat
  BY Finite, FS_CardinalityType
<1>3. a2 \in Nat /\ b2 \in Nat /\ c2 \in Nat /\ d2 \in Nat /\ e2 \in Nat
  BY <1>1, FS_CardinalityType
<1>4. a2 <= a /\ b2 <= b /\ c2 <= c /\ d2 <= d /\ e2 <= e
  BY Finite, Smaller DEF Less
<1>5. \/ a2 + 1 <= a \/ b2 + 1 <= b \/ c2 + 2 <= c \/ d2 + 2 <= d \/ e2 + 1 <= e
  BY Finite, Smaller DEF Less
<1>6. WorkLeft = 2 * a + 2 * b + c + d + 2 * e  BY DEF WorkLeft
<1>7. WorkLeft' = 2 * a2 + 2 * b2 + c2 + d2 + 2 * e2  BY DEF WorkLeft
<1> HIDE DEF a, b, c, d, e, a2, b2, c2, d2, e2
<1> QED  BY <1>2, <1>3, <1>4, <1>5, <1>6, <1>7

\* A mended label is a label less to give: it is private only where nobody shares.
LEMMA LabelLess ==
  ASSUME TypeInv, NEW f \in Findings, f.rule = "QD001", Mend(f)
  PROVE  Less
<1> DEFINE p == Place(f)
<1>1. p \in Mounts /\ LabelOf(p) = "none" /\ SrcOf(p) \notin SystemSources
  BY FindingShape DEF At
<1>2. /\ Mounts' = Mounts /\ \A q \in Mounts : SrcOf(q)' = SrcOf(q)
      /\ LabelOf(p)' = LabelFor(project, SrcOf(p))
      /\ \A q \in Mounts \ {p} : LabelOf(q)' = LabelOf(q)
  BY LabelAdvice DEF Others
<1>3. LabelOf(p)' # "none" /\ (LabelOf(p)' = "Z" => ~Shared(SrcOf(p)))
  <2>1. BindSourceUsage(project, SrcOf(p)) > 1 <=> Shared(SrcOf(p))
    <3>1. BindSourceUsage(project, SrcOf(p)) \in Nat  BY UsageType
    <3>2. BindSourceUsage(project, SrcOf(p)) >= 2 <=> Shared(SrcOf(p))  BY SharedIsUsage
    <3> QED  BY <3>1, <3>2
  <2> QED  BY <1>2, <2>1 DEF LabelFor
<1> HIDE DEF p
<1>4. \A x : Shared(x)' <=> Shared(x)  BY <1>2 DEF Shared
<1>5. \A x : Private(x)' => Private(x) \/ (x = SrcOf(p) /\ ~Shared(x))
  BY <1>1, <1>2, <1>3 DEF Private
<1>6. ToMove' \subseteq ToMove  BY <1>1, <1>2 DEF ToMove
<1>7. p \in ToLabel /\ ToLabel' \subseteq ToLabel \ {p}
  BY <1>1, <1>2, <1>3 DEF ToLabel, ToMove
<1>8. ToShare' \subseteq ToShare  BY <1>1, <1>2, <1>5 DEF ToShare
<1>9. MayShare' \subseteq MayShare  BY <1>1, <1>2, <1>4, <1>5 DEF MayShare
<1>10. ToExplain' = ToExplain  BY DEF Mend, ToExplain
<1> QED  BY <1>6, <1>7, <1>8, <1>9, <1>10 DEF Less

\* A source that is shared by all is private to nobody any more: the two mounts
\* that clashed are spared the next time.
LEMMA SharingLess ==
  ASSUME TypeInv, NEW f \in Findings, f.rule = "QD002", Mend(f)
  PROVE  Less
<1> PICK x : x = SrcOf(Place(f))
  OBVIOUS
<1>1. Place(f) \in Mounts /\ LabelOf(Place(f)) = "Z" /\ BindSourceUsage(project, x) >= 2
  BY FindingShape DEF At
<1>2. /\ Mounts' = Mounts /\ \A q \in Mounts : SrcOf(q)' = SrcOf(q)
      /\ \A q \in Mounts : LabelOf(q)' =
           IF SrcOf(q) = x /\ LabelOf(q) = "Z" THEN "z" ELSE LabelOf(q)
  BY SharingAdvice
<1>3. Private(x)  BY <1>1 DEF Private
<1>4. PICK p \in Mounts, q \in Mounts : p[1] # q[1] /\ SrcOf(p) = x /\ SrcOf(q) = x
  BY <1>1, SharedIsUsage DEF Shared
<1>5. \A y : Shared(y)' <=> Shared(y)  BY <1>2 DEF Shared
<1>6. \A y : Private(y)' => Private(y) /\ y # x  BY <1>2 DEF Private
<1>7. ToMove' \subseteq ToMove /\ ToLabel' \subseteq ToLabel
  BY <1>2 DEF ToMove, ToLabel
<1>8. ToShare' \subseteq ToShare  BY <1>2, <1>6 DEF ToShare
<1>9. MayShare' \subseteq MayShare  BY <1>2, <1>5, <1>6 DEF MayShare
<1>10. ToExplain' = ToExplain  BY DEF Mend, ToExplain
<1>11. p # q  BY <1>4
<1>12. CASE x \in SystemSources
  <2>1. p \in ToShare /\ q \in ToShare  BY <1>3, <1>4, <1>12 DEF ToShare
  <2>2. p \notin ToShare' /\ q \notin ToShare'  BY <1>2, <1>4, <1>6 DEF ToShare
  <2> QED  BY <1>7, <1>8, <1>9, <1>10, <1>11, <2>1, <2>2 DEF Less
<1>13. CASE x \notin SystemSources
  <2>1. p \in MayShare /\ q \in MayShare  BY <1>3, <1>4 DEF MayShare
  <2>2. Shared(x)'
    <3>1. Shared(x)  BY <1>4 DEF Shared
    <3> QED  BY <1>5, <3>1
  <2>3. p \notin MayShare' /\ q \notin MayShare'
    BY <1>2, <1>4, <1>6, <1>13, <2>2 DEF MayShare
  <2> QED  BY <1>7, <1>8, <1>9, <1>10, <1>11, <2>1, <2>3 DEF Less
<1> QED  BY <1>12, <1>13

\* What is taken off a system directory, or loses its label there, stays away.
LEMMA MovingLess ==
  ASSUME TypeInv, NEW f \in Findings, f.rule \in {"QD003", "QD004"}, Mend(f), Plain
  PROVE  Less
<1> DEFINE p == Place(f)
<1>1. p \in Mounts /\ LabelOf(p) # "none" /\ SrcOf(p) \in SystemSources
  <2>1. p \in Mounts /\ LabelOf(p) # "none"
        /\ (filesystem[SrcOf(p)] # "plain" \/ SrcOf(p) \in SystemSources)
    BY FindingShape DEF At
  <2>2. SrcOf(p) \in Sources  BY <2>1, MountType
  <2> QED  BY <2>1, <2>2 DEF Plain
<1>2. /\ Mounts' = Mounts /\ LabelOf(p)' = "none"
      /\ SrcOf(p)' = SrcOf(p) \/ SrcOf(p)' \notin SystemSources
      /\ \A q \in Mounts \ {p} : SrcOf(q)' = SrcOf(q) /\ LabelOf(q)' = LabelOf(q)
  <2>1. CASE f.rule = "QD003"  BY <2>1, ContextAdvice DEF Others
  <2>2. CASE f.rule = "QD004"  BY <2>2, SystemAdvice DEF Others
  <2> QED  BY <2>1, <2>2
<1> HIDE DEF p
<1>3. \A x : x \notin SystemSources /\ Shared(x) => Shared(x)'
  BY <1>1, <1>2 DEF Shared
<1>4. \A x : Private(x)' => Private(x)  BY <1>2 DEF Private
<1>5. p \in ToMove /\ ToMove' \subseteq ToMove \ {p}  BY <1>1, <1>2 DEF ToMove
<1>6. ToLabel' \subseteq ToLabel  BY <1>1, <1>2, <1>5 DEF ToLabel, ToMove
<1>7. ToShare' \subseteq ToShare  BY <1>1, <1>2, <1>4 DEF ToShare
<1>8. MayShare' \subseteq MayShare  BY <1>1, <1>2, <1>3, <1>4 DEF MayShare
<1>9. ToExplain' = ToExplain  BY DEF Mend, ToExplain
<1> QED  BY <1>5, <1>6, <1>7, <1>8, <1>9 DEF Less

\* A directive is given its reason once.
LEMMA ReasonLess ==
  ASSUME TypeInv, NEW f \in Findings, f.rule = "QD000", Mend(f)
  PROVE  Less
<1>1. f.unit \in ToExplain  BY FindingShape DEF At, ToExplain
<1>2. project' = project  BY DEF Mend, Remedied
<1>3. /\ ToMove' = ToMove /\ ToLabel' = ToLabel /\ ToShare' = ToShare /\ MayShare' = MayShare
  BY <1>2 DEF ToMove, ToLabel, ToShare, MayShare, Shared, Private, Mounts, SrcOf, LabelOf
<1>4. directives' = [directives EXCEPT ![f.unit] =
                       {[d EXCEPT !.reason = TRUE] : d \in directives[f.unit]}]
  BY DEF Mend
<1>5. f.unit \in Containers /\ directives \in [Containers -> SUBSET Directive]
  BY <1>1 DEF ToExplain, TypeInv
<1>6. \A e \in directives'[f.unit] : e.reason
  <2> SUFFICES ASSUME NEW d \in directives[f.unit] PROVE [d EXCEPT !.reason = TRUE].reason
    BY <1>4, <1>5
  <2>1. d \in Directive  BY <1>5
  <2> QED  BY <2>1 DEF Directive
<1>7. \A c \in Containers \ {f.unit} : directives'[c] = directives[c]
  BY <1>4, <1>5
<1>8. ToExplain' \subseteq ToExplain \ {f.unit}  BY <1>6, <1>7 DEF ToExplain
<1> QED  BY <1>1, <1>3, <1>8 DEF Less

\* The sum that is bounded.
LEMMA Spent ==
  ASSUME NEW m \in Nat, NEW w \in Nat, NEW v \in Nat, NEW b \in Nat, NEW e \in Nat,
         v + 2 <= w, 2 * m + w <= 6 * b + 2 * e
  PROVE  2 * (m + 1) + v <= 6 * b + 2 * e
OBVIOUS

\* Every mending spends two of the credits, and earns none.
LEMMA SettleStep == TypeInv /\ SettleInv /\ [Next]_vars => SettleInv'
<1> SUFFICES ASSUME TypeInv, SettleInv, [Next]_vars, Plain' PROVE SettleInv'
  BY DEF SettleInv
<1>1. ASSUME NEW f \in Findings, Mend(f) PROVE SettleInv'
  <2>1. f.rule \in {"QD000", "QD001", "QD002", "QD003", "QD004"}
    BY FindingShape DEF At
  <2>2. Plain
    <3> SUFFICES ASSUME NEW s \in Sources \ SystemSources, filesystem[s] # "plain"
                 PROVE  FALSE
      BY DEF Plain
    <3>1. filesystem'[s] # "plain"  BY <1>1 DEF Mend, TypeInv
    <3> QED  BY <3>1 DEF Plain
  <2>3. Less
    BY <1>1, <2>1, <2>2, LabelLess, SharingLess, MovingLess, ReasonLess
  <2>4. Mounts' = Mounts
    <3>1. CASE f.rule = "QD000"
      BY <1>1, <3>1 DEF Mend, Remedied, Mounts
    <3> QED
      BY <1>1, <2>1, <3>1, LabelAdvice, SharingAdvice, ContextAdvice, SystemAdvice
  <2>5. Explained' = Explained
    <3>1. \A c \in Containers : directives'[c] = {} <=> directives[c] = {}
      <4>1. CASE f.rule # "QD000"  BY <1>1, <4>1 DEF Mend
      <4>2. CASE f.rule = "QD000"
        <5>1. f.unit \in Containers  BY <4>2, FindingShape
        <5>2. directives' = [directives EXCEPT ![f.unit] =
                               {[d EXCEPT !.reason = TRUE] : d \in directives[f.unit]}]
          BY <1>1, <4>2 DEF Mend
        <5>3. directives \in [Containers -> SUBSET Directive]  BY DEF TypeInv
        <5>4. directives'[f.unit] = {[d EXCEPT !.reason = TRUE] : d \in directives[f.unit]}
              /\ \A c \in Containers \ {f.unit} : directives'[c] = directives[c]
          BY <5>1, <5>2, <5>3
        <5>5. directives'[f.unit] = {} <=> directives[f.unit] = {}  BY <5>4
        <5> QED  BY <5>4, <5>5
      <4> QED  BY <4>1, <4>2
    <3> QED  BY <3>1 DEF Explained
  <2>6. WorkLeft' + 2 <= WorkLeft /\ WorkLeft \in Nat /\ WorkLeft' \in Nat
    BY <2>3, LessIsLess
  <2>7. mends' = mends + 1 /\ mends \in Nat  BY <1>1 DEF Mend, TypeInv
  <2>8. Cardinality(Mounts) \in Nat /\ Cardinality(Explained) \in Nat
    BY Finite, FS_CardinalityType
  <2>9. 2 * mends + WorkLeft <= 6 * Cardinality(Mounts) + 2 * Cardinality(Explained)
    BY <2>2 DEF SettleInv
  <2>10. 2 * mends' + WorkLeft' <= 6 * Cardinality(Mounts) + 2 * Cardinality(Explained)
    BY <2>6, <2>7, <2>8, <2>9, Spent
  <2> QED  BY <2>4, <2>5, <2>10 DEF SettleInv
<1>2. CASE UNCHANGED vars
  <2>1. mends' = mends /\ project' = project /\ filesystem' = filesystem
        /\ directives' = directives
    BY <1>2 DEF vars
  <2>2. Mounts' = Mounts /\ Explained' = Explained /\ ToExplain' = ToExplain
        /\ (Plain' <=> Plain)
    BY <2>1 DEF Mounts, Explained, ToExplain, Plain
  <2>3. ToMove' = ToMove /\ ToLabel' = ToLabel /\ ToShare' = ToShare /\ MayShare' = MayShare
    <3>1. \A x : SrcOf(x)' = SrcOf(x) /\ LabelOf(x)' = LabelOf(x)
      BY <2>1 DEF SrcOf, LabelOf
    <3>2. \A x : Shared(x)' <=> Shared(x)  BY <2>1 DEF Shared, Mounts, SrcOf
    <3> QED  BY <2>2, <3>1, <3>2 DEF ToMove, ToLabel, ToShare, MayShare, Private
  <2>4. WorkLeft' = WorkLeft  BY <2>2, <2>3 DEF WorkLeft
  <2> QED  BY <2>1, <2>2, <2>4 DEF SettleInv
<1> QED  BY <1>1, <1>2 DEF Next

\* Nothing is mended yet, and a mount has six credits.
LEMMA SettleInit == Init => SettleInv
<1> SUFFICES ASSUME Init PROVE SettleInv
  OBVIOUS
<1> DEFINE m == Cardinality(Mounts)
           e == Cardinality(Explained)
<1>1. /\ ToMove \subseteq Mounts /\ ToLabel \subseteq Mounts /\ ToShare \subseteq Mounts
      /\ MayShare \subseteq Mounts /\ ToExplain \subseteq Explained
  BY DEF ToMove, ToLabel, ToShare, MayShare, ToExplain, Explained
<1>2. /\ Cardinality(ToMove) <= m /\ Cardinality(ToLabel) <= m /\ Cardinality(ToShare) <= m
      /\ Cardinality(MayShare) <= m /\ Cardinality(ToExplain) <= e
  BY <1>1, Finite, FS_Subset
<1>3. /\ m \in Nat /\ e \in Nat /\ Cardinality(ToMove) \in Nat /\ Cardinality(ToLabel) \in Nat
      /\ Cardinality(ToShare) \in Nat /\ Cardinality(MayShare) \in Nat
      /\ Cardinality(ToExplain) \in Nat
  BY Finite, FS_CardinalityType
<1>4. mends = 0  BY DEF Init
<1> HIDE DEF m, e
<1>5. 2 * mends + WorkLeft <= 6 * m + 2 * e
  BY ONLY <1>2, <1>3, <1>4 DEF WorkLeft
<1> QED  BY <1>5 DEF SettleInv, m, e

\* Following the advice ends, after three mendings of every mount and one of every
\* file with directives, for every project and in every order.
THEOREM AdviceEnds == Spec => []Settles
<1>1. TypeInv /\ SettleInv => Settles
  <2> SUFFICES ASSUME TypeInv, SettleInv, Plain
               PROVE  mends <= Cardinality(Mounts) * 3 + Cardinality(Explained)
    BY DEF Settles, Plain, Mounts, Explained
  <2>1. Cardinality(Mounts) \in Nat /\ Cardinality(Explained) \in Nat /\ mends \in Nat
    BY Finite, FS_CardinalityType DEF TypeInv
  <2>2. WorkLeft \in Nat
    <3>1. /\ Cardinality(ToMove) \in Nat /\ Cardinality(ToLabel) \in Nat
          /\ Cardinality(ToShare) \in Nat /\ Cardinality(MayShare) \in Nat
          /\ Cardinality(ToExplain) \in Nat
      BY Finite, FS_CardinalityType
    <3> QED  BY ONLY <3>1 DEF WorkLeft
  <2>3. 2 * mends + WorkLeft <= 6 * Cardinality(Mounts) + 2 * Cardinality(Explained)
    BY DEF SettleInv
  <2> QED  BY ONLY <2>1, <2>2, <2>3
<1> QED  BY <1>1, InitType, TypeStep, SettleInit, SettleStep, PTL DEF Spec
=============================================================================
