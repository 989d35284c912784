------------------------------- MODULE Audit --------------------------------
(***************************************************************************)
(* One `quaddoc lint` from its arguments to its exit status: parseArgs and *)
(* the flag package, .quaddoc.toml, the engine's settings, and the inline  *)
(* `# quaddoc: disable` directives (cmd/quaddoc/main.go, internal/config). *)
(* What the rules raise is an input.                                       *)
(*                                                                         *)
(* A directive's text is what follows the word disable, as a sequence of   *)
(* rule IDs, words, "=", ",", ":" and " "; ":" stands for any other        *)
(* punctuation.                                                            *)
(***************************************************************************)
EXTENDS Integers, Sequences, FiniteSets, SequencesExt

CONSTANTS
  Rules,      \* the registered rule IDs, QD000 among them
  Unknown,    \* a key that is no rule's ID
  Units, Paths,
  Inputs      \* records of args, config lines, directive texts and findings

BoolFlags  == {"--json"}
ValueFlags == {"--disable"}
Joined     == [disable |-> "--disable=QD001", value |-> "QD001"]
Dashed     == BoolFlags \cup ValueFlags \cup {Joined.disable, "-", "--", "--what"}

Off        == {"off", "false"}
Severities == {"note", "warning", "error"}
Line       == [kind : {"blank", "junk"}]
         \cup [kind : {"section"}, name : {"rules", "other"}]
         \cup [kind : {"pair"}, key : Rules \cup {Unknown}, value : Severities \cup Off \cup {"loud"}]
Finding    == [rule : Rules, unit : Units, severity : Severities]

ASSUME RulesAssumption ==
  "QD000" \in Rules /\ Rules \cap {Unknown, "why", "=", ",", ":", " ", ""} = {}

\* QD000 is no rule's finding: ApplySuppressions raises it, for a directive that
\* gives no reason.
ASSUME InputsAssumption ==
  \A i \in Inputs :
    /\ i.args \in Seq(STRING) /\ i.config \in Seq(Line)
    /\ i.raised \subseteq Finding /\ \A f \in i.raised : f.rule # "QD000"
    /\ \A u \in Units : i.texts[u] \subseteq Seq(STRING)

VARIABLES
  input,
  phase,                       \* args, flags, config, rules, suppress, done
  todo,                        \* the arguments or lines not read yet
  flags, positional,           \* of parseArgs
  json, disable,               \* the options
  section, disabled, severity, \* of the configuration
  engine,                      \* the engine's own copy of what is disabled
  report, exit

vars == <<input, phase, todo, flags, positional, json, disable,
          section, disabled, severity, engine, report, exit>>
args     == <<flags, positional>>
options  == <<json, disable>>
settings == <<section, disabled, severity>>

Init ==
  /\ input \in Inputs
  /\ phase = "args" /\ todo = input.args
  /\ flags = <<>> /\ positional = <<>>
  /\ json = FALSE /\ disable = ""
  /\ section = "" /\ disabled = {} /\ severity = << >>
  /\ engine = {}
  /\ report = {} /\ exit = 0

Fail ==
  /\ phase' = "done"
  /\ exit' = 2
  /\ UNCHANGED <<input, todo, args, options, settings, engine, report>>
-----------------------------------------------------------------------------
(* The command line.                                                       *)

\* Mutant: the argument after a flag is never its value.
NeverTakes(a) == FALSE

takesValue(a) == a \in ValueFlags

\* One turn of parseArgs's loop.
ReadArg ==
  /\ phase = "args" /\ todo # <<>>
  /\ LET a == Head(todo)  rest == Tail(todo)
         takes == takesValue(a) /\ rest # <<>>
     IN  \/ /\ a = "--"
            /\ positional' = positional \o rest
            /\ todo' = <<>> /\ flags' = flags
         \/ /\ a \in Dashed \ {"--"}
            /\ flags' = flags \o IF takes THEN <<a, Head(rest)>> ELSE <<a>>
            /\ todo' = IF takes THEN Tail(rest) ELSE rest
            /\ positional' = positional
         \/ /\ a \notin Dashed
            /\ positional' = Append(positional, a)
            /\ todo' = rest /\ flags' = flags
  /\ UNCHANGED <<input, phase, options, settings, engine, report, exit>>

ArgsRead ==
  /\ phase = "args" /\ todo = <<>>
  /\ phase' = "flags" /\ todo' = flags
  /\ UNCHANGED <<input, args, options, settings, engine, report, exit>>

\* One turn of flag.Parse, which stops at the first argument that is no flag.
Stops(list) == ~(list # <<>> /\ Head(list) \in Dashed \ {"-", "--"})
Wrong(list) ==
  ~Stops(list) /\ \/ Head(list) = "--what"
                  \/ Head(list) \in ValueFlags /\ Len(list) = 1

ReadFlag ==
  /\ phase = "flags" /\ ~Stops(todo) /\ ~Wrong(todo)
  /\ LET a == Head(todo)
         takes == a \in ValueFlags
     IN  /\ json' = (json \/ a \in BoolFlags)
         /\ disable' = IF takes THEN todo[2] ELSE IF a = Joined.disable THEN Joined.value ELSE disable
         /\ todo' = IF takes THEN Tail(Tail(todo)) ELSE Tail(todo)
  /\ UNCHANGED <<input, phase, args, settings, engine, report, exit>>

FlagsRefused == phase = "flags" /\ Wrong(todo) /\ Fail

NoPaths == phase = "flags" /\ Stops(todo) /\ positional = <<>> /\ Fail

FlagsRead ==
  /\ phase = "flags" /\ Stops(todo) /\ positional # <<>>
  /\ phase' = "config" /\ todo' = input.config
  /\ UNCHANGED <<input, args, options, settings, engine, report, exit>>
-----------------------------------------------------------------------------
(* The configuration: one turn of parse's loop, or its error.              *)

Refused(line) ==
  \/ line.kind = "junk"
  \/ line.kind = "pair" /\ \/ section # "rules"
                           \/ line.key \notin Rules
                           \/ line.value \notin Off \cup Severities

ReadLine ==
  /\ phase = "config" /\ todo # <<>> /\ ~Refused(Head(todo))
  /\ LET line == Head(todo) IN
       \/ /\ line.kind = "blank"
          /\ UNCHANGED settings
       \/ /\ line.kind = "section"
          /\ section' = line.name
          /\ UNCHANGED <<disabled, severity>>
       \/ /\ line.kind = "pair" /\ line.value \in Off
          /\ disabled' = disabled \cup {line.key}
          /\ UNCHANGED <<section, severity>>
       \/ /\ line.kind = "pair" /\ line.value \in Severities
          /\ severity' = [r \in DOMAIN severity \cup {line.key} |->
               IF r = line.key THEN line.value ELSE severity[r]]
          /\ UNCHANGED <<section, disabled>>
  /\ todo' = Tail(todo)
  /\ UNCHANGED <<input, phase, args, options, engine, report, exit>>

LineRefused == phase = "config" /\ todo # <<>> /\ Refused(Head(todo)) /\ Fail

\* Mutant: RuleConfig gives the engine a map of its own.
OwnMap(off) == disabled

\* RuleConfig hands the engine the configuration's map itself, so what audit
\* adds for --disable is disabled for the directives as well.
SharedMap(off) == disabled \cup off

\* audit: --disable, then the project is loaded.
ConfigRead ==
  /\ phase = "config" /\ todo = <<>>
  /\ phase' = "rules"
  /\ LET off == {disable} \cap Rules
     IN  engine' = disabled \cup off /\ disabled' = SharedMap(off)
  /\ UNCHANGED <<input, todo, args, options, section, severity, report, exit>>

PathMissing == phase = "rules" /\ ToSet(positional) \ Paths # {} /\ Fail

\* Engine.Run drops what is disabled and applies the configured severity.
Configured(rule, default) == IF rule \in DOMAIN severity THEN severity[rule] ELSE default

RunRules ==
  /\ phase = "rules" /\ ToSet(positional) \subseteq Paths
  /\ phase' = "suppress"
  /\ report' = {[f EXCEPT !.severity = Configured(f.rule, @)] :
                  f \in {g \in input.raised : g.rule \notin engine}}
  /\ UNCHANGED <<input, todo, args, options, settings, engine, exit>>
-----------------------------------------------------------------------------
(* The directives.                                                         *)

Trim(text) ==
  LET kept == {i \in DOMAIN text : text[i] # " "}
  IN  IF kept = {} THEN <<>> ELSE SubSeq(text, Min(kept), Max(kept))

\* What comes before the first space, and what comes after it.
Space(text)       == Min({i \in DOMAIN text : text[i] = " "} \cup {Len(text) + 1})
BeforeSpace(text) == SubSeq(text, 1, Space(text) - 1)
AfterSpace(text)  == SubSeq(text, Space(text) + 1, Len(text))

\* The IDs that are items of a comma-separated list.
Listed(list) ==
  {list[i] : i \in {j \in DOMAIN list :
     /\ list[j] \in Rules
     /\ j = 1 \/ list[j - 1] = ","
     /\ j = Len(list) \/ list[j + 1] = ","}}

\* Mutant: without the check for `disable QD001`.
NeverMalformed(body) == FALSE

malformedDisable(body) ==
  /\ body # <<>> /\ body[1] \in Rules
  /\ Len(body) = 1 \/ body[2] \in {" ", ","}

\* all: a directive whose list has no item covers every rule.
ParseSuppression(text) ==
  LET body == Trim(text)
      list == BeforeSpace(Tail(body))
  IN  IF body # <<>> /\ body[1] = "="
      THEN [rules |-> Listed(list), all |-> ToSet(list) \subseteq {","},
            reason |-> Trim(AfterSpace(Tail(body))) # <<>>]
      ELSE [rules |-> {}, all |-> TRUE,
            reason |-> body # <<>> /\ ~malformedDisable(body)]

Suppressions(u) == {ParseSuppression(text) : text \in input.texts[u]}

Covers(s, rule) == s.all \/ rule \in s.rules

\* Mutant: the finding ignores the configuration.
FixedSeverity == "warning"

\* QD000 is raised here, so its settings are applied here.
QD000Severity == Configured("QD000", "warning")

Unreasoned ==
  IF "QD000" \in disabled THEN {}
  ELSE {[rule |-> "QD000", unit |-> u, severity |-> QD000Severity] :
          u \in {v \in Units : \E s \in Suppressions(v) : ~s.reason}}

\* Mutant: the status is the number of findings.
CountFindings(findings) == Cardinality(findings)

ExitCode(findings) ==
  LET shown == {f.severity : f \in findings}
  IN  IF "error" \in shown THEN 2 ELSE IF "warning" \in shown THEN 1 ELSE 0

ApplySuppressions ==
  /\ phase = "suppress"
  /\ phase' = "done"
  /\ report' = {f \in report : ~\E s \in Suppressions(f.unit) : s.reason /\ Covers(s, f.rule)}
               \cup Unreasoned
  /\ exit' = ExitCode(report')
  /\ UNCHANGED <<input, todo, args, options, settings, engine>>

Next ==
  \/ ReadArg \/ ArgsRead \/ ReadFlag \/ FlagsRefused \/ NoPaths \/ FlagsRead
  \/ ReadLine \/ LineRefused \/ ConfigRead \/ PathMissing \/ RunRules \/ ApplySuppressions

Spec == Init /\ [][Next]_vars
-----------------------------------------------------------------------------
TypeOK ==
  /\ phase \in {"args", "flags", "config", "rules", "suppress", "done"}
  /\ json \in BOOLEAN
  /\ section \in {"", "rules", "other"}
  /\ disabled \subseteq Rules /\ engine \subseteq Rules
  /\ DOMAIN severity \subseteq Rules /\ Range(severity) \subseteq Severities
  /\ report \subseteq Finding
  /\ exit \in 0..2

\* What each argument is, from left to right: a flag, one that takes the next
\* argument, its value, the end of the flags, a path after it, or any other path.
Roles(list) ==
  LET role[k \in 0..Len(list)] ==
        IF k = 0 THEN "path"
        ELSE IF role[k - 1] \in {"end", "rest"} THEN "rest"
        ELSE IF role[k - 1] = "takes" THEN "value"
        ELSE IF list[k] = "--" THEN "end"
        ELSE IF list[k] \in ValueFlags /\ k < Len(list) THEN "takes"
        ELSE IF list[k] \in Dashed THEN "flag"
        ELSE "path"
  IN  role

At(roles) == {k \in 1..Len(input.args) : Roles(input.args)[k] \in roles}

\* The list holds the arguments at these positions, in order, and no other.
Holds(list, positions) ==
  \E pos \in [1..Len(list) -> positions] :
    /\ \A i, j \in 1..Len(list) : i < j => pos[i] < pos[j]
    /\ \A k \in positions : \E i \in 1..Len(list) : pos[i] = k
    /\ \A i \in 1..Len(list) : list[i] = input.args[pos[i]]

\* What a command line means: --disable counts where it is given last.
Valued     == At({"value"}) \cup {k \in At({"flag"}) : input.args[k] = Joined.disable}
ValueAt(k) == IF Roles(input.args)[k] = "value" THEN input.args[k] ELSE Joined.value
Meant ==
  [ok      |-> \A k \in At({"flag"}) : input.args[k] \in BoolFlags \cup {Joined.disable},
   json    |-> \E k \in At({"flag"}) : input.args[k] \in BoolFlags,
   disable |-> IF Valued = {} THEN "" ELSE ValueAt(Max(Valued)),
   paths   |-> At({"path", "rest"})]

\* parseArgs and the flag package agree on which argument is a flag, which a
\* flag's value and which a path, wherever the flags stand: "so that `quaddoc
\* convert file.yaml --out dir` works as well as `--out dir file.yaml`"
\* (main.go:110-113). A lone "-" is left out: parseArgs hands it to the flag
\* package, which stops there and drops the flags after it.
FlagsCountAnywhere ==
  "-" \notin ToSet(input.args) =>
    /\ phase \in {"config", "rules", "suppress"} =>
         /\ Meant.ok /\ json = Meant.json /\ disable = Meant.disable
         /\ Holds(positional, Meant.paths)
    /\ phase = "done" => (exit = 2 \/ (Meant.ok /\ Meant.paths # {}))

\* The lint got as far as its report.
Audited ==
  /\ phase = "done" /\ todo = <<>>
  /\ positional # <<>> /\ ToSet(positional) \subseteq Paths

OffInConfig == {l.key : l \in {k \in ToSet(input.config) : k.kind = "pair" /\ k.value \in Off}}

\* A rule that any line of the configuration or --disable switches off is not
\* reported, whatever severity another line gives it and wherever its findings
\* are raised: by the engine, or, for QD000, by the directives
\* (config.go:127, 283-286, main.go:489-494).
SwitchedOffIsSilent ==
  \A f \in report : phase = "done" => f.rule \notin OffInConfig \cup {disable}

\* A text names its rules in a list right after "=", or right after disable as
\* in `disable QD001 reason`, or not at all; and only words come after that.
IDs(text) == ToSet(text) \cap Rules
WellPut(text) ==
  LET body == Trim(text) IN
    \/ ToSet(body) \subseteq {"why", " "}
    \/ body[1] \in Rules /\ (Len(body) > 1 => body[2] \in {" ", ","})
    \/ /\ body[1] = "=" /\ Len(body) > 1 /\ body[2] \in Rules
       /\ ToSet(AfterSpace(body)) \subseteq {"why", " "}

\* A text that gives a reason, and names the rule or no rule at all.
Excuses(text, rule) == "why" \in ToSet(text) /\ (IDs(text) = {} \/ rule \in IDs(text))

\* A finding is hidden only by a directive of its own file that gives a reason
\* and names its rule or no rule: `disable QD001 reason` hides nothing, and
\* neither does a directive without a reason, which is reported instead
\* (config.go:162-197, 258-288). Texts that put IDs anywhere else are left out.
HiddenIsExplained ==
  (Audited /\ \A u \in Units : \A text \in input.texts[u] : WellPut(text)) =>
    /\ \A f \in input.raised :
         \/ f.rule \in OffInConfig \cup {disable}
         \/ \E g \in report : g.rule = f.rule /\ g.unit = f.unit
         \/ \E text \in input.texts[f.unit] : Excuses(text, f.rule)
    /\ \A u \in Units : \A text \in input.texts[u] :
         \/ "why" \in ToSet(text)
         \/ "QD000" \in OffInConfig \cup {disable}
         \/ \E g \in report : g.rule = "QD000" /\ g.unit = u

\* The severity the last line for a rule asks for.
Asked(rule, default) ==
  LET lines == {i \in DOMAIN input.config : /\ input.config[i].kind = "pair"
                                            /\ input.config[i].key = rule
                                            /\ input.config[i].value \in Severities}
  IN  IF lines = {} THEN default ELSE input.config[Max(lines)].value

\* The exit status tells what is reported at the severities that were asked
\* for, QD000 included: 2 with an error among it, 1 with a warning, and 0 only
\* with notes or nothing (rules.go:344-365, config.go:288-293).
StatusIsEarned ==
  Audited =>
    LET asked == {Asked(f.rule, "warning") : f \in {g \in report : g.rule = "QD000"}}
           \cup {Asked(f.rule, f.severity) : f \in
                   {g \in input.raised : \E h \in report : h.rule = g.rule /\ h.unit = g.unit}}
    IN  /\ exit = 2 <=> "error" \in asked
        /\ exit = 0 <=> asked \subseteq {"note"}
=============================================================================
