----------------------------- MODULE UnitModel -----------------------------
(***************************************************************************)
(* ir.FromParsed for the keys the mechanical fixes depend on: from the     *)
(* entries of a file to a unit's mounts, networks, pod and [Install] keys. *)
(* The loader keeps only what is in force: an empty assignment resets a    *)
(* list, and Volume= and Mount= each reset only their own entries.         *)
(***************************************************************************)
EXTENDS UnitFile

CONSTANT HostPaths  \* the atoms that start a host path: absolute, ., ~, %

\* strings.Split on an atom.
Split(s, sep) ==
  LET cuts == SetToSortSeq({0, Len(s) + 1} \cup {i \in DOMAIN s : s[i] = sep}, <)
  IN  [k \in 1..(Len(cuts) - 1) |-> SubSeq(s, cuts[k] + 1, cuts[k + 1] - 1)]

OptionOf == [z |-> "shared", Z |-> "private"]

\* [SOURCE:]DEST[:OPTIONS] of a Volume= value.
ParseMount(value, line) ==
  LET parts == Split(value, ":")
      src   == IF Len(parts) = 1 THEN <<>> ELSE parts[1]
  IN  [key     |-> "Volume",
       line    |-> line,
       bind    |-> src # <<>> /\ src[1] \in HostPaths,
       src     |-> src,
       options |-> IF Len(parts) <= 2 THEN {} ELSE ToSet(Split(Last(parts), ","))]

\* type=bind,source=SOURCE,target=DEST,... of a Mount= value, {} unless it is a
\* bind mount that Podman accepts. relabel= is read as the option it stands for.
ParseMountKey(value, line) ==
  LET fields == Split(value, ",")
      has(k) == \E i \in DOMAIN fields : Len(fields[i]) = 2 /\ fields[i][1] = k
      get(k) == (CHOOSE f \in ToSet(fields) : Len(f) = 2 /\ f[1] = k)[2]
      relabels == {f[2] : f \in {g \in ToSet(fields) : Len(g) = 2 /\ g[1] = "relabel="}}
  IN  IF ~(has("type=") /\ has("source=") /\ has("target="))
           \/ get("type=") # "bind" \/ ~(relabels \subseteq {"private", "shared"})
      THEN {}
      ELSE {[key     |-> "Mount",
             line    |-> line,
             bind    |-> TRUE,
             src     |-> <<get("source=")>>,
             options |-> {<<o>> : o \in {p \in DOMAIN OptionOf : OptionOf[p] \in relabels}}]}

HasSELinuxLabel(m) == <<"z">> \in m.options \/ <<"Z">> \in m.options

\* One entry of the unit's own section. Networks are kept in file order.
SetKey(unit, e) ==
  CASE e.key \in {"Volume", "Mount"} /\ e.value = <<>> ->
         [unit EXCEPT !.mounts = {m \in @ : m.key # e.key}]
    [] e.key = "Volume" /\ e.value # <<>> ->
         [unit EXCEPT !.mounts = @ \cup {ParseMount(e.value, e.number)}]
    [] e.key = "Mount" /\ e.value # <<>> ->
         [unit EXCEPT !.mounts = @ \cup ParseMountKey(e.value, e.number)]
    [] e.key = "Network" ->
         [unit EXCEPT !.networks = IF e.value = <<>> THEN <<>> ELSE Append(@, e.value),
                      !.networkLine = e.number]
    [] e.key = "Pod" -> [unit EXCEPT !.pod = e.value]
    [] OTHER -> unit

FromParsed(lines) ==
  FoldLeft(SetKey,
           [mounts |-> {}, networks |-> <<>>, networkLine |-> 0, pod |-> <<>>,
            install |-> Section(lines, "Install") # <<>>],
           Section(lines, "Container"))

-----------------------------------------------------------------------------
(* What QD030 makes of the networks in force.                              *)

\* The mode precedes the options.
Mode(value) == Split(value, ":")[1]

networkIsolating(value) == value \in {<<"host">>, <<"none">>}
DefaultNetworkModes == {<<"bridge">>, <<"podman">>}
OwnStackModes == {<<"pasta">>, <<"slirp4netns">>, <<"private">>}

HasSharedNetwork(unit) ==
  \E i \in DOMAIN unit.networks :
    LET n == unit.networks[i] IN
    /\ ~networkIsolating(n)
    /\ Mode(n) \notin {<<>>} \cup DefaultNetworkModes \cup OwnStackModes

\* The first Network= value that is a stack of the container's own, or none.
OwnStack(unit) ==
  LET at == {i \in DOMAIN unit.networks : Mode(unit.networks[i]) \in OwnStackModes}
  IN  IF at = {} THEN <<>> ELSE unit.networks[CHOOSE i \in at : \A j \in at : i <= j]

Isolated(unit) == \E i \in DOMAIN unit.networks : networkIsolating(unit.networks[i])
=============================================================================
