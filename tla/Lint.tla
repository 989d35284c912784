-------------------------------- MODULE Lint --------------------------------
(***************************************************************************)
(* What `quaddoc lint` reports of a project's bind mounts, and a person    *)
(* who follows its advice, one finding after another. The SELinux rules    *)
(* QD001 to QD004 are run by the engine, graded by the host's SELinux mode *)
(* and .quaddoc.toml, and silenced by directives in the unit files, which  *)
(* must give a reason (QD000).                                             *)
(***************************************************************************)
EXTENDS ProjectRules

CONSTANTS
  Units,        \* what a container file may hold at first
  Modes,        \* SELinux modes of the host; "unknown" without a host context
  Filesystems,  \* what the sources may be on at first
  OwnSource,    \* the dedicated directory a container could mount instead
  Settings,     \* what .quaddoc.toml may say
  Comments,     \* the directives a unit file may carry
  NoFinding,    \* nothing mended yet
  MaxMends      \* bound: mended findings

Note == 0
Warning == 1
Error == 2
Severity == {Note, Warning, Error}

ReportedRules == {"QD000", "QD001", "QD002", "QD003", "QD004"}
Graded        == {"QD001", "QD002", "QD003"}  \* by the host's SELinux mode

DefaultSeverity == [r \in ReportedRules |-> IF r \in {"QD000", "QD003"} THEN Warning ELSE Error]

SELinuxModes == {"unknown", "disabled", "permissive", "enforcing"}

\* A rule set to "off" is in off; of the rest, severity has the configured ones.
Setting == [off : SUBSET ReportedRules,
            severity : UNION {[D -> Severity] : D \in SUBSET ReportedRules}]

\* A directive names rules, or none for all of them. A malformed one counts as
\* one without a reason.
Directive == [rules : SUBSET ReportedRules, reason : BOOLEAN]

ASSUME LintAssumption ==
  /\ Units \subseteq Container /\ IsFiniteSet(Slots)
  /\ Modes \subseteq SELinuxModes
  /\ Filesystems \subseteq [Sources -> {"plain", "nfs", "context"}]
  /\ OwnSource \in [Containers -> Sources \ SystemSources]
  /\ Settings \subseteq Setting
  /\ Comments \subseteq SUBSET Directive

VARIABLES
  project,     \* the container files
  filesystem,  \* what each source is on: nfs holds no labels, context= has one
  directives,  \* the directives in each of them
  mode, config,
  mended,      \* the finding that was mended last
  mends

vars == <<project, filesystem, directives, mode, config, mended, mends>>

-----------------------------------------------------------------------------
(* The rules.                                                              *)

At(rule, c, s) == [rule |-> rule, unit |-> c, slot |-> s]

MountOf(f) == project[f.unit].mounts[f.slot]

\* Mutant: the shared label is not recognised.
OnlyPrivate(m) == m.label = "Z"

HasSELinuxLabel(m) == m.label # "none"

\* Every mount of the project that satisfies a condition.
Where(rule, Holds(_)) ==
  {At(rule, c, s) : c \in Containers, s \in Slots} \cap
    {f \in [rule : {rule}, unit : Containers, slot : Slots] :
       f.slot \in Mounted(project[f.unit]) /\ Holds(MountOf(f))}

Unlabelled == Where("QD001", LAMBDA m : ~HasSELinuxLabel(m) /\ m.src \notin SystemSources)

SharedPrivate == Where("QD002", LAMBDA m : m.label = "Z" /\ BindSourceUsage(project, m.src) >= 2)

\* Without a host context no filesystem is known.
Unlabellable ==
  Where("QD003", LAMBDA m : HasSELinuxLabel(m) /\ mode # "unknown" /\ filesystem[m.src] # "plain")

SystemLabelled == Where("QD004", LAMBDA m : HasSELinuxLabel(m) /\ m.src \in SystemSources)

Raw == Unlabelled \cup SharedPrivate \cup Unlabellable \cup SystemLabelled

-----------------------------------------------------------------------------
(* The engine.                                                             *)

\* The severities at which a rule that depends on SELinux reports: none on a
\* kernel without it.
DowngradeForSELinux(def) ==
  CASE mode \in {"enforcing", "unknown"} -> {def}
    [] mode = "permissive" -> {Note}
    [] mode = "disabled"   -> {}

\* Mutant: configuration raises what the host lowered.
ConfigurationWins(rule, reported, downgraded) ==
  IF rule \in DOMAIN config.severity THEN config.severity[rule] ELSE reported

\* Configuration does not raise what the host has lowered.
effectiveSeverity(rule, reported, downgraded) ==
  IF rule \notin DOMAIN config.severity THEN reported
  ELSE IF downgraded /\ config.severity[rule] > reported THEN reported
  ELSE config.severity[rule]

Grades(rule) ==
  LET def == DefaultSeverity[rule] IN
  {effectiveSeverity(rule, s, s < def) :
     s \in IF rule \in Graded THEN DowngradeForSELinux(def) ELSE {def}}

\* Engine.Run: the enabled rules' findings with their severity.
Run == {[finding |-> f, severity |-> s] :
          f \in {g \in Raw : g.rule \notin config.off}, s \in Severity} \cap
       {r \in [finding : Raw, severity : Severity] : r.severity \in Grades(r.finding.rule)}

Covers(d, rule) == d.rules = {} \/ rule \in d.rules

Suppressed(f) == \E d \in directives[f.unit] : d.reason /\ Covers(d, f.rule)

\* ApplySuppressions: QD000 is raised here, and no directive silences it.
Reported ==
  {r \in Run : ~Suppressed(r.finding)} \cup
    {[finding |-> At("QD000", c, 0), severity |-> effectiveSeverity("QD000", Warning, FALSE)] :
       c \in {d \in Containers : "QD000" \notin config.off
                                   /\ \E e \in directives[d] : ~e.reason}}

Findings == {r.finding : r \in Reported}

-----------------------------------------------------------------------------
(* What each finding's remediation tells its reader to do.                 *)

Relabelled(f, label) == [project EXCEPT ![f.unit].mounts[f.slot].label = label]

Remedied(f) ==
  CASE f.rule = "QD001" -> Relabelled(f, LabelFor(project, MountOf(f).src))
    [] f.rule = "QD002" ->   \* the shared label, in every unit that mounts it
         [c \in Containers |->
            [project[c] EXCEPT !.mounts = [s \in Slots |->
               IF s \in Mounted(project[c]) /\ @[s].src = MountOf(f).src /\ @[s].label = "Z"
               THEN [@[s] EXCEPT !.label = "z"] ELSE @[s]]]]
    [] f.rule = "QD003" -> Relabelled(f, "none")  \* and context= at mount time
    [] f.rule = "QD004" ->   \* no label, and a directory of the container's own
         [project EXCEPT ![f.unit].mounts[f.slot] =
            [@ EXCEPT !.label = "none", !.src = OwnSource[f.unit]]]
    [] f.rule = "QD000" -> project

Mend(f) ==
  /\ mends < MaxMends /\ mends' = mends + 1
  /\ mended' = f
  /\ project' = Remedied(f)
  /\ filesystem' = IF f.rule = "QD003" THEN [filesystem EXCEPT ![MountOf(f).src] = "context"]
                   ELSE filesystem
  /\ directives' = IF f.rule = "QD000"
                   THEN [directives EXCEPT ![f.unit] = {[d EXCEPT !.reason = TRUE] : d \in @}]
                   ELSE directives
  /\ UNCHANGED <<mode, config>>

Init ==
  /\ project \in [Containers -> Units] /\ directives \in [Containers -> Comments]
  /\ filesystem \in Filesystems /\ mode \in Modes /\ config \in Settings
  /\ mended = NoFinding /\ mends = 0

Next == \E f \in Findings : Mend(f)

Spec == Init /\ [][Next]_vars
-----------------------------------------------------------------------------
(* Properties.                                                             *)

\* "They become mutually exclusive by construction": a mount that was given the
\* label QD001 or QD002 asked for is not reported again by them, whatever else
\* the project mounts, nor by QD003 where the filesystem can hold labels.
AdviceHolds ==
  mended # NoFinding /\ mended.rule \in {"QD001", "QD002"} =>
    \A f \in Findings : f.unit = mended.unit /\ f.slot = mended.slot =>
      f.rule = "QD004" \/ (f.rule = "QD003" /\ filesystem[MountOf(f).src] # "plain")

\* Following the advice ends: a mount is touched three times at most (given the
\* shared label, moved from a system directory, labelled there) and a file's
\* directives once, in whatever order the findings are mended (where every
\* filesystem but the system's own can hold labels).
Settles ==
  (\A s \in Sources \ SystemSources : filesystem[s] = "plain") =>
    mends <= Cardinality({p \in Containers \X Slots : p[2] \in Mounted(project[p[1]])}) * 3
               + Cardinality({c \in Containers : directives[c] # {}})

\* The ladder of ADR-0004 whatever .quaddoc.toml says: notes on a permissive
\* host, silence without SELinux, and only QD004 keeps the severity it was
\* given.
HostWins ==
  \A r \in Reported : r.finding.rule \in Graded =>
    /\ mode # "disabled"
    /\ mode = "permissive" => r.severity = Note
=============================================================================
