---------------------------- MODULE ProjectRules ----------------------------
(***************************************************************************)
(* The rules that reason about a whole project and the mechanical fixes of *)
(* their findings, as operators on a loaded project: QD001, QD002, QD022   *)
(* and QD030 of internal/rules, and what internal/fix does to the file a   *)
(* finding names.                                                          *)
(*                                                                         *)
(* A container unit is reduced to what these rules tell apart: its bind    *)
(* mounts by source and label, the kinds of Network= values it has, whether*)
(* [Install] has a key, whether it belongs to a pod, whether it lacks a    *)
(* [Container] section, and which rules a directive with a reason mutes.   *)
(* A slot is the line of a Volume= or Mount= entry.                        *)
(***************************************************************************)
EXTENDS Naturals, FiniteSets

CONSTANTS
  Containers,     \* the .container files of the project directory
  Networks,       \* the .network files, existing or not
  Sources,        \* host paths a container may bind
  SystemSources,  \* those under a system path, which QD004 owns
  Slots,          \* the lines at which a container may have a mount
  Absent,         \* what a file that does not exist, or was not loaded, holds
  NoMount,        \* what a slot without a mount holds
  NoNet           \* no network unit is planned

Labels    == {"none", "z", "Z"}
Mount     == [src : Sources, label : Labels, folded : BOOLEAN]
RuleIDs   == {"QD001", "QD002", "QD022", "QD030"}
Fixable   == {"QD001", "QD022", "QD030"}
NetValues == {"own", "host"} \cup Networks

Container ==
  [mounts  : [Slots -> Mount \cup {NoMount}],
   nets    : SUBSET NetValues,
   install : BOOLEAN,
   pod     : BOOLEAN,
   bare    : BOOLEAN,
   mute    : SUBSET RuleIDs]

Projects == [Containers -> Container \cup {Absent}]

\* Finding.Line is the slot (0: the unit as a whole), Finding.Fix the option or
\* the own-stack value to replace.
Finding ==
  [rule : RuleIDs, unit : Containers, slot : Slots \cup {0},
   fix : {"", "z", "Z", "own"}]

ASSUME SlotsAssumption == Slots \subseteq Nat \ {0}

ASSUME SentinelsAssumption ==
  /\ Absent \notin Container
  /\ NoMount \notin Mount

ASSUME ContainersAssumption == IsFiniteSet(Containers)

-----------------------------------------------------------------------------
(* What the rules see.                                                     *)

Loaded(prj) == {c \in Containers : prj[c] # Absent}

Mounted(unit) ==
  IF unit = Absent THEN {} ELSE {s \in Slots : unit.mounts[s] # NoMount}

SourcesOf(unit) == {unit.mounts[s].src : s \in Mounted(unit)}

\* How many units mount each source, a unit counted once however often.
BindSourceUsage(prj, src) ==
  Cardinality({c \in Containers : src \in SourcesOf(prj[c])})

\* Mutant: sharing by a pair goes unnoticed.
LabelForPairs(prj, src) ==
  IF BindSourceUsage(prj, src) > 2 THEN "z" ELSE "Z"

\* The label QD001 recommends, decided on the sharing of the whole project.
LabelFor(prj, src) == IF BindSourceUsage(prj, src) > 1 THEN "z" ELSE "Z"

checkQD001(prj) ==
  {f \in Finding :
     /\ f.rule = "QD001" /\ f.slot \in Mounted(prj[f.unit])
     /\ LET m == prj[f.unit].mounts[f.slot] IN
        /\ m.label = "none" /\ m.src \notin SystemSources
        /\ f.fix = LabelFor(prj, m.src)}

checkQD002(prj) ==
  {f \in Finding :
     /\ f.rule = "QD002" /\ f.slot \in Mounted(prj[f.unit]) /\ f.fix = ""
     /\ LET m == prj[f.unit].mounts[f.slot] IN
        m.label = "Z" /\ BindSourceUsage(prj, m.src) >= 2}

\* A finding about the unit as a whole.
UnitFinding(f, rule, prj) ==
  f.rule = rule /\ f.slot = 0 /\ f.unit \in Loaded(prj) /\ ~prj[f.unit].pod

checkQD022(prj) ==
  {f \in Finding :
     UnitFinding(f, "QD022", prj) /\ f.fix = "" /\ ~prj[f.unit].install}

\* A reference to any .network unit, loaded or not, counts as joining one.
HasSharedNetwork(unit) == unit.nets \cap Networks # {}

checkQD030(prj) ==
  {f \in Finding :
     /\ UnitFinding(f, "QD030", prj)
     /\ Cardinality(Loaded(prj)) >= 2
     /\ ~HasSharedNetwork(prj[f.unit]) /\ "host" \notin prj[f.unit].nets
     /\ f.fix = IF "own" \in prj[f.unit].nets THEN "own" ELSE ""}

\* Engine.Run and ApplySuppressions, for these rules.
Audit(prj) ==
  {f \in checkQD001(prj) \cup checkQD002(prj) \cup checkQD022(prj)
          \cup checkQD030(prj) : f.rule \notin prj[f.unit].mute}

-----------------------------------------------------------------------------
(* What fixFile does to a unit, finding by finding. The findings come from *)
(* the loaded project, the unit is the file as read again.                 *)

CanLabel(unit, f) ==
  /\ f.fix \in {"z", "Z"}
  /\ f.slot \in Mounted(unit)
  /\ ~unit.mounts[f.slot].folded
  /\ unit.mounts[f.slot].label = "none"

CanInstall(unit) == ~unit.install

CanJoin(unit, f, network) ==
  /\ network # NoNet
  /\ network \notin unit.nets
  /\ IF f.fix = "own" THEN "own" \in unit.nets ELSE ~unit.bare

Applies(unit, f, network) ==
  \/ f.rule = "QD001" /\ CanLabel(unit, f)
  \/ f.rule = "QD022" /\ CanInstall(unit)
  \/ f.rule = "QD030" /\ CanJoin(unit, f, network)

Labelling(unit, fs, s) ==
  {f \in fs : f.rule = "QD001" /\ f.slot = s /\ CanLabel(unit, f)}

\* Mutant: a finding labels every mount of its unit.
LabelEveryMount(unit, fs) ==
  [s \in Slots |->
     IF s \notin Mounted(unit) \/ \A t \in Slots : Labelling(unit, fs, t) = {} THEN unit.mounts[s]
     ELSE [unit.mounts[s] EXCEPT
             !.label = (CHOOSE f \in fs : \E t \in Slots : f \in Labelling(unit, fs, t)).fix]]

fixQD001(unit, fs) ==
  [s \in Slots |->
     IF Labelling(unit, fs, s) = {} THEN unit.mounts[s]
     ELSE [unit.mounts[s] EXCEPT
             !.label = (CHOOSE f \in Labelling(unit, fs, s) : TRUE).fix]]

\* Mutant: an [Install] that is there already is forgotten.
InstallByFinding(unit, fs) == \E f \in fs : f.rule = "QD022"

fixQD022(unit, fs) ==
  unit.install \/ \E f \in fs : f.rule = "QD022"

\* Mutant: the replaced value is joined, not the planned network.
JoinWhatItReplaces(unit, fs, network) ==
  unit.nets \cup {f.fix : f \in {g \in fs : g.rule = "QD030" /\ CanJoin(unit, g, network)}}

fixQD030(unit, fs, network) ==
  LET joins == {f \in fs : f.rule = "QD030" /\ CanJoin(unit, f, network)}
  IN  (unit.nets \cup {network : f \in joins})
        \ {f.fix : f \in joins}  \* the own-stack line is replaced

\* The file after every finding for it has been applied or declined.
Fixed(unit, fs, network) ==
  [unit EXCEPT !.mounts  = fixQD001(unit, fs),
               !.install = fixQD022(unit, fs),
               !.nets    = fixQD030(unit, fs, network)]

\* Mutant: a declined finding is not handed back.
DeclinedSilently(unit, fs, network) == {}

Declined(unit, fs, network) == {f \in fs : ~Applies(unit, f, network)}
=============================================================================
