------------------------------ MODULE MCAudit -------------------------------
(***************************************************************************)
(* Every command line of up to four arguments, every configuration of up to*)
(* two lines, or two below a [rules] header, and every directive text of up*)
(* to four tokens and some longer ones, each with a few choices of the     *)
(* rest.                                                                   *)
(***************************************************************************)
EXTENDS Audit, TLC

Tokens == {"--json", "--disable", "--disable=QD001", "-", "--", "--what", "units", "QD002"}
MCArgs == UNION {[1..n -> Tokens] : n \in 0..4}

Lines ==
  {[kind |-> "blank"], [kind |-> "junk"]}
  \cup {[kind |-> "section", name |-> n] : n \in {"rules", "other"}}
  \cup {[kind |-> "pair", key |-> "QD001", value |-> v] : v \in {"off", "false", "error", "note", "loud"}}
  \cup {[kind |-> "pair", key |-> "QD000", value |-> v] : v \in {"off", "error", "note"}}
  \cup {[kind |-> "pair", key |-> Unknown, value |-> "off"]}
InRules    == [kind |-> "section", name |-> "rules"]
MCConfigs  == UNION {[1..n -> Lines] : n \in 0..2}
FewConfigs ==
  {<<>>} \cup {<<InRules, [kind |-> "pair", key |-> "QD000", value |-> v]>> : v \in {"off", "error", "note"}}

Words   == {"QD001", "QD002", "why"}
MCTexts ==
  {text \in UNION {[1..n -> Words \cup {"=", ",", ":", " "}] : n \in 0..4} :
     \A i \in 1..Len(text) - 1 : ~(text[i] \in Words /\ text[i + 1] \in Words)}
  \cup {<<"=", "QD001", ",", "QD002", " ", "why">>, <<"=", "QD002", ",", "QD001">>,
        <<"QD001", ",", "QD002", " ", "why">>, <<"=", "QD001", ",", " ", "QD002", " ", "why">>}

F(rule, u, sev) == [rule |-> rule, unit |-> u, severity |-> sev]
Few == {F("QD001", "a", "warning"), F("QD002", "a", "error"), F("QD002", "b", "warning")}

With(line, config, text, raised) ==
  [args |-> line, config |-> config, raised |-> raised,
   texts |-> [u \in Units |-> IF u = "a" THEN {text} ELSE {}]]

MCInputs ==
  {With(x, <<>>, <<"=">>, Few) : x \in MCArgs}
  \cup {With(<<"units", "--disable", v>>, c, <<"=", "QD001">>, Few) :
          v \in {"QD000", "QD002"}, c \in MCConfigs}
  \cup {With(<<"units">>, <<InRules>> \o c, <<"=", "QD001">>, {F("QD001", "b", "note")}) :
          c \in MCConfigs}
  \cup {With(<<"units">>, c, t, Few) : c \in FewConfigs, t \in MCTexts}
=============================================================================
