------------------------------ MODULE FixEdits ------------------------------
(***************************************************************************)
(* fixFile on one unit file: read and parse it, apply the findings one by  *)
(* one to its logical lines, render it back; then the same once more. The  *)
(* findings are those of the file as audited, which is the file itself     *)
(* unless somebody saved it between the audit and the fix.                 *)
(***************************************************************************)
EXTENDS UnitModel

CONSTANTS
  Files,          \* the files that may be audited
  Saved(_),       \* what an audited file may have become when it is read again
  SharedSources,  \* the sources another unit of the project mounts too
  NetworkUnit     \* the network the project's containers are to join

VARIABLES
  audited, physical, lines, findings, declined, applied, pc, round,
  stale           \* whether the first findings are those of an older file

vars == <<audited, physical, lines, findings, declined, applied, pc, round, stale>>

-----------------------------------------------------------------------------
(* The findings of a unit that has a sibling, in the order of Engine.Run.  *)
(* Rule 1 is QD001, 2 is QD022 and 3 is QD030.                             *)

QD001(unit) ==
  {[line |-> m.line, rule |-> 1,
    fix  |-> IF m.src \in SharedSources THEN <<"z">> ELSE <<"Z">>] :
     m \in {n \in unit.mounts : n.bind /\ ~HasSELinuxLabel(n)}}

QD022(unit) ==
  IF unit.pod # <<>> \/ unit.install THEN {}
  ELSE {[line |-> 0, rule |-> 2, fix |-> <<>>]}

QD030(unit) ==
  IF unit.pod # <<>> \/ HasSharedNetwork(unit) \/ Isolated(unit) THEN {}
  ELSE {[line |-> unit.networkLine, rule |-> 3, fix |-> OwnStack(unit)]}

Findings(unit) ==
  SetToSortSeq(QD001(unit) \cup QD022(unit) \cup QD030(unit),
               LAMBDA f, g : f.line < g.line \/ (f.line = g.line /\ f.rule < g.rule))

-----------------------------------------------------------------------------
(* The edits: each returns the new lines, unchanged when it declines.      *)

\* A new logical line. It has no number, so no finding can cite it.
entry(section, key, value) ==
  [kind |-> "LineEntry", raw |-> <<Assign(key, value)>>, number |-> 0,
   section |-> section, key |-> key, value |-> value]

hasLabelOption(value) ==
  LET parts == Split(value, ":") IN
  Len(parts) >= 3 /\ {<<"z">>, <<"Z">>} \cap ToSet(Split(Last(parts), ",")) # {}

\* Mutant: a value without options gets a comma too.
AlwaysComma(value, option) == value \o <<",">> \o option

appendOption(value, option) ==
  value \o (IF Len(Split(value, ":")) >= 3 THEN <<",">> ELSE <<":">>) \o option

\* Mutant: the line is not checked for a label.
LabelAgain(ls, f) ==
  {i \in DOMAIN ls : /\ ls[i].kind = "LineEntry" /\ ls[i].number = f.line
                     /\ Len(ls[i].raw) = 1 /\ ls[i].key \in {"Volume", "Mount"}}

\* The line a finding cites, if it is an entry on a single physical line: an
\* option is never put inside a continued value.
Labellable(ls, f) ==
  {i \in DOMAIN ls :
     /\ ls[i].kind = "LineEntry" /\ ls[i].number = f.line /\ Len(ls[i].raw) = 1
     /\ \/ ls[i].key = "Volume" /\ ~hasLabelOption(ls[i].value)
        \/ ls[i].key = "Mount" /\ \E m \in ParseMountKey(ls[i].value, f.line) :
                                     ~HasSELinuxLabel(m)}

WithLabel(l, option) ==
  IF l.key = "Volume" THEN appendOption(l.value, option)
  ELSE l.value \o <<",", "relabel=", OptionOf[option[1]]>>

fixQD001(ls, f) ==
  [i \in DOMAIN ls |->
     IF i \notin Labellable(ls, f) THEN ls[i]
     ELSE LET value == WithLabel(ls[i], f.fix) IN
          [ls[i] EXCEPT !.value = value, !.raw = <<Assign(ls[i].key, value)>>]]

WantedBy == entry("Install", "WantedBy", <<"default.target">>)

\* A blank line before the header, unless the file is empty or ends with one.
Separator(ls) ==
  IF ls # <<>> => Last(ls).kind = "LineBlank" THEN <<>>
  ELSE <<Line(<<Blank>>, 0, "")>>

\* Mutant: off by one at the header.
InstallBeforeHeader(ls) ==
  LET headers == {i \in DOMAIN ls : ls[i].kind = "LineSection" /\ ls[i].section = "Install"}
  IN  IF Section(ls, "Install") # <<>> THEN ls
      ELSE IF headers # {}
           THEN InsertAt(ls, CHOOSE i \in headers : \A j \in headers : i <= j, WantedBy)
           ELSE ls \o Separator(ls) \o <<Line(<<Header("Install")>>, 0, ""), WantedBy>>

fixQD022(ls) ==
  LET headers == {i \in DOMAIN ls : ls[i].kind = "LineSection" /\ ls[i].section = "Install"}
  IN  IF Section(ls, "Install") # <<>> THEN ls
      ELSE IF headers # {}
           THEN InsertAt(ls, (CHOOSE i \in headers : \A j \in headers : i <= j) + 1, WantedBy)
           ELSE ls \o Separator(ls) \o <<Line(<<Header("Install")>>, 0, ""), WantedBy>>

NetworkLines(ls, value) ==
  {i \in DOMAIN ls : /\ ls[i].kind = "LineEntry" /\ ls[i].section = "Container"
                     /\ ls[i].key = "Network" /\ ls[i].value = value}

\* Mutant: the first own-stack line is replaced, where [Container] sections repeat the last counts.
ReplaceFirst(ls, replace) ==
  LET want == entry("Container", "Network", NetworkUnit)
      own  == NetworkLines(ls, replace)
      home == {i \in DOMAIN ls : ls[i].section = "Container"}
      firstOf(S) == CHOOSE i \in S : \A j \in S : i <= j
      lastOf(S)  == CHOOSE i \in S : \A j \in S : j <= i
  IN  IF NetworkLines(ls, NetworkUnit) # {} THEN ls
      ELSE IF replace # <<>>
           THEN IF own = {} THEN ls
                ELSE [ls EXCEPT ![firstOf(own)] = [want EXCEPT !.number = ls[firstOf(own)].number]]
           ELSE IF home = {} THEN ls ELSE InsertAt(ls, lastOf(home) + 1, want)

\* Replace the last line with the own-stack value, or insert after the last
\* header or entry of [Container].
fixQD030(ls, replace) ==
  LET want == entry("Container", "Network", NetworkUnit)
      own  == NetworkLines(ls, replace)
      home == {i \in DOMAIN ls : ls[i].section = "Container"}
      lastOf(S) == CHOOSE i \in S : \A j \in S : j <= i
  IN  IF NetworkLines(ls, NetworkUnit) # {} THEN ls
      ELSE IF replace # <<>>
           THEN IF own = {} THEN ls
                ELSE [ls EXCEPT ![lastOf(own)] = [want EXCEPT !.number = ls[lastOf(own)].number]]
           ELSE IF home = {} THEN ls ELSE InsertAt(ls, lastOf(home) + 1, want)

Edited(ls, f) ==
  CASE f.rule = 1 -> fixQD001(ls, f)
    [] f.rule = 2 -> fixQD022(ls)
    [] f.rule = 3 -> fixQD030(ls, f.fix)

-----------------------------------------------------------------------------
\* engine.Run over the file: the findings of its unit.
Audit(phys) == Findings(FromParsed(Parse(phys)))

Init ==
  /\ audited \in Files /\ physical \in Saved(audited)
  /\ lines = <<>> /\ findings = <<>> /\ declined = {} /\ applied = {}
  /\ pc = "read" /\ round = 1 /\ stale = (physical # audited)

ReadFile ==
  /\ pc = "read" /\ pc' = "apply"
  /\ lines' = Parse(physical)
  /\ findings' = Audit(IF round = 1 THEN audited ELSE physical)
  /\ declined' = {} /\ applied' = {}
  /\ UNCHANGED <<audited, physical, round, stale>>

Apply ==
  /\ pc = "apply" /\ findings # <<>>
  /\ LET f == Head(findings) IN
     /\ lines' = Edited(lines, f)
     /\ IF lines' = lines THEN declined' = declined \cup {f} /\ UNCHANGED applied
                          ELSE applied' = applied \cup {f} /\ UNCHANGED declined
  /\ findings' = Tail(findings)
  /\ UNCHANGED <<audited, physical, pc, round, stale>>

WriteBack ==
  /\ pc = "apply" /\ findings = <<>> /\ pc' = "written"
  /\ physical' = Render(lines)
  /\ UNCHANGED <<audited, lines, findings, declined, applied, round, stale>>

Again ==
  /\ pc = "written" /\ round = 1
  /\ round' = 2 /\ pc' = "read"
  /\ UNCHANGED <<audited, physical, lines, findings, declined, applied, stale>>

Next == ReadFile \/ Apply \/ WriteBack \/ Again

Spec == Init /\ [][Next]_vars
-----------------------------------------------------------------------------
(* Properties.                                                             *)

\* A mount line that already says how its source is to be labelled.
Labelled(l) ==
  \E m \in IF l.key = "Volume" THEN {ParseMount(l.value, l.number)}
                               ELSE ParseMountKey(l.value, l.number) : HasSELinuxLabel(m)

\* Locality, "bytes outside the region a fix touches are unchanged": the lines
\* of the file as read are all still there, in order, the same but for the mounts
\* without a label that an applied finding labels and the own-stack network it
\* replaces, even where the findings are those of an older file.
LinesKept ==
  pc = "apply" =>
    LET kept == SelectSeq(lines, LAMBDA l : l.number # 0)
        read == Parse(physical)
    IN  /\ Len(kept) = Len(read)
        /\ \A i \in DOMAIN read :
             \/ kept[i] = read[i]
             \/ \E f \in applied :
                  \/ /\ f.rule = 1 /\ f.line = read[i].number
                     /\ IsPrefix(read[i].value, kept[i].value)
                     /\ read[i].key \in {"Volume", "Mount"}
                     /\ ~Labelled(read[i])
                  \/ f.rule = 3 /\ f.fix # <<>> /\ f.fix = read[i].value

View(ls) ==
  [i \in DOMAIN ls |-> <<ls[i].kind, ls[i].section, ls[i].key, ls[i].value, ls[i].raw>>]

\* What is written is read back as the lines that were edited: no insertion
\* falls inside a continued entry, or into another section than it was meant
\* for, and a rewritten line means what was intended.
ReadsBackAsEdited == pc = "written" => View(Parse(physical)) = View(lines)

\* "Applying a fix twice equals applying it once", when the first one knew the file.
Idempotent == round = 2 /\ pc # "read" /\ ~stale => applied = {}

Count(fs, rule) == Cardinality({f \in fs : f.rule = rule})

\* A finding is resolved or handed back as unfixed: linting the fixed file
\* finds, rule by rule, no more than what was declined (of findings of this file).
FixedOrReported ==
  pc = "written" /\ (stale => round = 2) =>
    \A rule \in 1..3 : Count(ToSet(Audit(physical)), rule) <= Count(declined, rule)
=============================================================================
