------------------------------- MODULE Ports --------------------------------
(***************************************************************************)
(* PublishPort= values: how the loader of internal/ir takes one apart, how *)
(* QD031 suggests another in its place, and what Podman publishes for it   *)
(* by the grammar `[[ip:][hostPort]:]containerPort[/protocol]`.            *)
(*                                                                         *)
(* A value is a sequence of tokens. A number is itself, so that an IPv6    *)
(* address is colons and numbers; an IPv4 address is one token.            *)
(***************************************************************************)
EXTENDS Integers, Sequences, FiniteSets, SequencesExt

CONSTANTS Colon, Dash, Slash, Open, Close, V4, Tcp, Udp

\* The tokens that are no numbers.
Marks == {Colon, Dash, Slash, Open, Close, V4, Tcp, Udp}

ASSUME TokenAssumption == Marks \cap Nat = {} /\ Cardinality(Marks) = 8

Text == Seq(Nat \cup Marks)

FirstAt(text, t) == SelectInSeq(text, LAMBDA x : x = t)
LastAt(text, t)  == SelectLastInSeq(text, LAMBDA x : x = t)
Before(text, i)  == SubSeq(text, 1, i - 1)
After(text, i)   == SubSeq(text, i + 1, Len(text))

\* The pieces between the separators, empty ones too.
Split(text, t) ==
  LET ends   == {i \in 1..Len(text) + 1 : i > Len(text) \/ text[i] = t}
      Nth(k) == IF k = 0 THEN 0 ELSE CHOOSE i \in ends : Cardinality({j \in ends : j <= i}) = k
  IN  [k \in 1..Cardinality(ends) |-> SubSeq(text, Nth(k - 1) + 1, Nth(k) - 1)]

\* The protocol follows the last slash.
CutAt(text, slash) ==
  IF slash = 0 THEN [spec |-> text, protocol |-> <<Tcp>>]
  ELSE [spec |-> Before(text, slash), protocol |-> After(text, slash)]
Cut(text) == CutAt(text, LastAt(text, Slash))

\* A bracketed address, which ends at a Close, and the fields after it.
AddressEnd(spec) == IF spec # <<>> /\ spec[1] = Open THEN FirstAt(spec, Close) ELSE 0
Unprefixed(rest) == IF rest # <<>> /\ rest[1] = Colon THEN Tail(rest) ELSE rest
FieldsAfter(spec, end) ==
  [address |-> IF end = 0 THEN <<>> ELSE SubSeq(spec, 2, end - 1),
   fields  |-> Split(IF end = 0 THEN spec ELSE Unprefixed(After(spec, end)), Colon)]
Fields(spec) == FieldsAfter(spec, AddressEnd(spec))

\* The field before the last one.
HostField(fields) == IF Len(fields) = 1 THEN <<>> ELSE fields[Len(fields) - 1]

NotANumber == -1

\* The low bound of a range.
Bound(low) == IF Len(low) = 1 /\ low[1] \in Nat THEN low[1] ELSE NotANumber
portNumber(field) == Bound(Before(field, FirstAt(Append(field, Dash), Dash)))

PortOf(address, fields, host, container, protocol) ==
  [ok        |-> Len(fields) <= 3 /\ container # NotANumber,
   address   |-> IF address # <<>> THEN address
                 ELSE IF Len(fields) = 3 THEN fields[1]
                 ELSE IF host = NotANumber THEN HostField(fields) ELSE <<>>,
   host      |-> IF host = NotANumber THEN 0 ELSE host,
   container |-> container,
   protocol  |-> protocol]

ParsedFrom(cut, protocol) ==
  PortOf(cut.address, cut.fields, portNumber(HostField(cut.fields)),
         portNumber(Last(cut.fields)), protocol)

ParsePort(text) == ParsedFrom(Fields(Cut(text).spec), Cut(text).protocol)

\* FromParsed drops a value that cannot be parsed; 0 leaves the port to Podman.
HostOf(port)   == IF port.ok THEN port.host ELSE 0
HostPort(text) == HostOf(ParsePort(text))

\* The parts of a value with a host port: the last two fields are the ports.
PartsAt(text, head, colon) ==
  [address |-> SubSeq(head, 1, colon), host |-> After(head, colon), rest |-> After(text, Len(head))]
HeadOf(spec) == Before(spec, LastAt(spec, Colon))
Parts(text)  == PartsAt(text, HeadOf(Cut(text).spec), LastAt(HeadOf(Cut(text).spec), Colon))

Raised(bounds, offset) ==
  [i \in DOMAIN bounds |-> IF bounds[i] \in Nat THEN bounds[i] + offset ELSE bounds[i]]

\* Mutant: only the high bound of a range moves.
ShiftHigh(text, offset) ==
  LET p == Parts(text) IN p.address \o Append(Front(p.host), Last(p.host) + offset) \o p.rest

\* Mutant: the offset is taken away.
ShiftDown(text, offset) == LET p == Parts(text) IN p.address \o Raised(p.host, -offset) \o p.rest

\* Mutant: the address is dropped.
ShiftAnywhere(text, offset) == LET p == Parts(text) IN Raised(p.host, offset) \o p.rest

shiftedPublish(text, offset) == LET p == Parts(text) IN p.address \o Raised(p.host, offset) \o p.rest
-----------------------------------------------------------------------------
(* What Podman makes of a value.                                           *)

IsRange(field) ==
  \/ Len(field) = 1 /\ field[1] \in Nat
  \/ Len(field) = 3 /\ field[1] \in Nat /\ field[2] = Dash /\ field[3] \in Nat

PortsOf(field) == IF IsRange(field) THEN field[1]..Last(field) ELSE {}

\* No ports on the host: Podman picks them.
Publication(address, hosts, containers, protocol) ==
  [address |-> address, hosts |-> hosts, containers |-> containers, protocol |-> protocol]

PublicationOf(cut, protocol) ==
  Publication(IF Len(cut.fields) = 3 THEN cut.fields[1] ELSE cut.address,
              PortsOf(HostField(cut.fields)), PortsOf(Last(cut.fields)), protocol)

Published(text) == PublicationOf(Fields(Cut(text).spec), Cut(text).protocol)

MaxPort == 65535

Accepted(address, fields, hosts, containers) ==
  /\ Len(fields) <= IF address = <<>> THEN 3 ELSE 2
  /\ containers # {}
  /\ HostField(fields) # <<>> =>
       hosts \subseteq 1..MaxPort /\ Cardinality(hosts) = Cardinality(containers)
AcceptedFrom(cut) ==
  Accepted(cut.address, cut.fields, PortsOf(HostField(cut.fields)), PortsOf(Last(cut.fields)))

\* A bracketed address ends at a colon.
Closed(spec) ==
  AddressEnd(spec) # 0 => AddressEnd(spec) < Len(spec) /\ spec[AddressEnd(spec) + 1] = Colon

Publishable(text) == AcceptedFrom(Fields(Cut(text).spec)) /\ Closed(Cut(text).spec)
=============================================================================
