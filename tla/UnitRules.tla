------------------------------ MODULE UnitRules ------------------------------
(***************************************************************************)
(* The rules of internal/rules that judge how a container unit will fare on*)
(* a host, and what their remediations tell the reader to do: users and    *)
(* ownership (QD010 to QD013), ordering, restart and installation (QD020 to*)
(* QD023), ports (QD031), images (QD040, QD043) and keys (QD042). All are  *)
(* operators on a loaded project of containers outside pods and on the     *)
(* facts the host context knows.                                           *)
(*                                                                         *)
(* A finding is cited by rule, unit and the key or line it is about.       *)
(***************************************************************************)
EXTENDS Ports

CONSTANTS
  Containers,
  Target,      \* a unit that is none of them, as network-online.target
  Lines,       \* the lines at which a container may have a mount
  LateLine,    \* the line a misspelt Volumes= becomes once it is renamed
  Sources,     \* how mounts spell host paths and named volumes
  HostPaths,   \* the spellings that are host paths
  Devices,     \* the spellings of .volume units that bind a host directory
  NoMount, NoImage,
  NoID,        \* no User=, no Group=: the image's own applies
  NamedID      \* a user or group that is not a number

ID      == Nat \cup {NoID, NamedID}
Mount   == [kind : {"bind"}, src : HostPaths, ro : BOOLEAN, chown : BOOLEAN]
             \cup [kind : {"named"}, src : Sources \ HostPaths, ro : BOOLEAN, chown : BOOLEAN]
Image   == [registry : BOOLEAN, tag : {"", "latest", "1.27"}, digest : BOOLEAN]

\* WantedBy= stands for RequiredBy= and UpheldBy= as well, Also= for any key that
\* Quadlet discards. Alias= is honoured, and starts nothing.
InstallKeys == {"WantedBy", "Alias", "Also"}

\* Mutant: the table does not have the keys in the case the unit has them.
HonouredKeys == {"wantedby", "alias"}

installKeysHonoured == {"WantedBy", "Alias"}

\* User= is user[:group]. after has one element for each After=, the units that
\* value names. volumes is the mount of a line that says Volumes=, imageKey how
\* Image= is spelt.
Unit ==
  [user : ID, userGroup : ID, group : ID, keepId : BOOLEAN,
   groupAdd : SUBSET {"name", "1001", "keep-groups"},
   mounts : [Lines -> Mount \cup {NoMount}], port : Text,
   after : SUBSET SUBSET (Containers \cup {Target}), notify : BOOLEAN, health : BOOLEAN,
   restart : {"", "no", "on-failure", "always", "unless-stopped"}, install : SUBSET InstallKeys,
   image : Image \cup {NoImage}, imageKey : {"Image", "image"}, rootfs : BOOLEAN,
   autoUpdate : BOOLEAN, volumes : Mount \cup {NoMount}, remap : BOOLEAN]

\* The subordinate ranges are the counts of the lines of subuid and subgid.
Host  == [rootless : BOOLEAN, subuid : Seq(Nat), subgid : Seq(Nat), threshold : Nat]
Facts == {"rootless", "subuid", "subgid", "threshold"}

ASSUME TargetAssumption == Target \notin Containers
ASSUME LinesAssumption == LateLine \in Lines
ASSUME SourcesAssumption == HostPaths \cup Devices \subseteq Sources
ASSUME NoneAssumption  == NoMount \notin Mount /\ NoImage \notin Image
ASSUME IDAssumption == NoID \notin Nat /\ NamedID \notin Nat /\ NoID # NamedID

At(rule, c, at) == [rule |-> rule, unit |-> c, at |-> at]
-----------------------------------------------------------------------------
(* Users and ownership.                                                    *)

runsAsNonRoot(u) == u.user \in Nat \ {0}

\* userIDs: Group= is the group part when it is set.
groupID(u) == IF u.group = NoID THEN u.userGroup ELSE u.group

\* The mounts of a project, as unit and line.
Mounts(prj) == {q \in Containers \X Lines : prj[q[1]].mounts[q[2]] # NoMount}

checkQD010(prj) ==
  {At("QD010", q[1], q[2]) : q \in
     {p \in Mounts(prj) :
        LET u == prj[p[1]]  m == u.mounts[p[2]]
        IN  runsAsNonRoot(u) /\ ~u.keepId /\ m.kind = "bind" /\ ~m.ro /\ ~m.chown}}

checkQD011(prj) == {At("QD011", c, "GroupAdd") : c \in {d \in Containers : "name" \in prj[d].groupAdd}}

NamedVolumeUsers(prj, src) ==
  {c \in Containers : \E l \in Lines : LET m == prj[c].mounts[l] IN
                        m # NoMount /\ m.kind = "named" /\ m.src = src}

\* Mutant: only a container without User= is taken for a rival.
RootRivals(prj, c, m) ==
  m.src \in Devices \/ \E d \in NamedVolumeUsers(prj, m.src) \ {c} : prj[d].user = NoID

\* Who else may claim the volume first, or a volume that is a bind in disguise.
autoChownDefeated(prj, c, m) ==
  \/ m.src \in Devices
  \/ \E d \in NamedVolumeUsers(prj, m.src) \ {c} :
       \/ prj[d].user = NoID
       \/ runsAsNonRoot(prj[d]) /\ prj[d].user # prj[c].user

checkQD012(prj) ==
  {At("QD012", q[1], q[2]) : q \in
     {p \in Mounts(prj) :
        LET u == prj[p[1]]  m == u.mounts[p[2]]
        IN  /\ runsAsNonRoot(u) /\ m.kind = "named" /\ ~m.chown
            /\ autoChownDefeated(prj, p[1], m)}}

Total(counts) == SumFunction(counts)

\* ID 0 is the host user, IDs from 1 upwards fill the ranges.
outsideRange(id, counts) == id # 0 /\ id > Total(counts)

checkQD013(prj, host, known) ==
  IF "rootless" \in known /\ ~host.rootless THEN {}
  ELSE {At("QD013", c, "uid") : c \in {d \in Containers :
          "subuid" \in known /\ prj[d].user \in Nat /\ outsideRange(prj[d].user, host.subuid)}}
       \cup
       {At("QD013", c, "gid") : c \in {d \in Containers :
          "subgid" \in known /\ groupID(prj[d]) \in Nat /\ outsideRange(groupID(prj[d]), host.subgid)}}

-----------------------------------------------------------------------------
(* Ordering, restart, installation and ports.                              *)

\* A value is looked up whole: one that names several units is no unit's name.
checkQD020(prj) ==
  {At("QD020", p[1], p[2]) : p \in
     {q \in Containers \X Containers : {q[2]} \in prj[q[1]].after /\ ~prj[q[2]].notify}}

checkQD021(prj) ==
  {At("QD021", c, "Restart") : c \in {d \in Containers : prj[d].restart = "unless-stopped"}}

checkQD022(prj) == {At("QD022", c, "Install") : c \in {d \in Containers : prj[d].install = {}}}

checkQD023(prj) ==
  {At("QD023", p[1], p[2]) : p \in
     {q \in Containers \X InstallKeys : q[2] \in prj[q[1]].install \ installKeysHonoured}}

\* The rule's threshold: the kernel's default unless the host is known.
Threshold(host, known) == IF "threshold" \in known THEN host.threshold ELSE 1024

checkQD031(prj, host, known) ==
  IF "rootless" \in known /\ ~host.rootless THEN {}
  ELSE {At("QD031", c, "PublishPort") : c \in {d \in Containers :
          HostPort(prj[d].port) \in 1..Threshold(host, known) - 1}}

-----------------------------------------------------------------------------
(* Images and keys.                                                        *)

HasImage(u) == u.image # NoImage /\ u.imageKey = "Image"

\* An untagged reference means latest.
Floating(image) == ~image.digest /\ image.tag \in {"", "latest"}

checkQD040(prj) ==
  {At("QD040", c, "registry") : c \in {d \in Containers : HasImage(prj[d]) /\ ~prj[d].image.registry}}
  \cup
  {At("QD040", c, "digest") : c \in {d \in Containers :
     HasImage(prj[d]) /\ prj[d].autoUpdate /\ prj[d].image.registry /\ prj[d].image.digest}}
  \cup
  {At("QD040", c, "tag") : c \in {d \in Containers :
     HasImage(prj[d]) /\ prj[d].autoUpdate /\ prj[d].image.registry /\ Floating(prj[d].image)}}

\* Keys the generator does not accept, and RemapUsers=, which it still honours.
checkQD042(prj) ==
  {At("QD042", c, "Volumes") : c \in {d \in Containers : prj[d].volumes # NoMount}}
  \cup
  {At("QD042", c, "image") : c \in {d \in Containers : prj[d].image # NoImage /\ prj[d].imageKey = "image"}}
  \cup
  {At("QD042", c, "RemapUsers") : c \in {d \in Containers : prj[d].remap}}

checkQD043(prj) ==
  {At("QD043", c, "Image") : c \in {d \in Containers : ~HasImage(prj[d]) /\ ~prj[d].rootfs}}

Findings(prj, host, known) ==
  checkQD010(prj) \cup checkQD011(prj) \cup checkQD012(prj) \cup checkQD013(prj, host, known)
    \cup checkQD020(prj) \cup checkQD021(prj) \cup checkQD022(prj) \cup checkQD023(prj)
    \cup checkQD031(prj, host, known) \cup checkQD040(prj) \cup checkQD042(prj) \cup checkQD043(prj)

-----------------------------------------------------------------------------
(* What the remediations say. Each gives the units the reader may write in *)
(* the place of the one at fault; for QD013 and QD031 the host may be      *)
(* changed instead, for QD020 it is the other unit that changes.           *)

Chowned(u, l) == [u EXCEPT !.mounts[l].chown = TRUE]

\* An ID within the range: the model offers the largest.
WithinRange(u, at, host) ==
  IF at = "uid" THEN [u EXCEPT !.user = Total(host.subuid)]
  ELSE IF u.group = NoID THEN [u EXCEPT !.userGroup = Total(host.subgid)]
  ELSE [u EXCEPT !.group = Total(host.subgid)]

Qualified(image) == [image EXCEPT !.registry = TRUE]
Pinned(image)    == [image EXCEPT !.tag = "1.27", !.digest = FALSE]
AnImage          == [registry |-> TRUE, tag |-> "1.27", digest |-> FALSE]

\* The key a misspelt one is renamed to counts from then on.
Renamed(u, at) ==
  CASE at = "Volumes"    -> [u EXCEPT !.volumes = NoMount, !.mounts[LateLine] = u.volumes]
    [] at = "image"      -> [u EXCEPT !.imageKey = "Image"]
    [] at = "RemapUsers" -> [u EXCEPT !.remap = FALSE]

Remedies(u, f, host) ==
  CASE f.rule = "QD010" -> {[u EXCEPT !.keepId = TRUE], Chowned(u, f.at)}
    [] f.rule = "QD011" -> {[u EXCEPT !.groupAdd = (@ \ {"name"}) \cup {g}] : g \in {"keep-groups", "1001"}}
    [] f.rule = "QD012" -> {Chowned(u, f.at)}
    [] f.rule = "QD013" -> {WithinRange(u, f.at, host)}
    [] f.rule = "QD021" -> {[u EXCEPT !.restart = "always", !.install = @ \cup {"WantedBy"}]}
    [] f.rule = "QD022" -> {[u EXCEPT !.install = {"WantedBy"}]}
    [] f.rule = "QD023" -> {[u EXCEPT !.install = @ \ {f.at}]}
    [] f.rule = "QD031" -> {[u EXCEPT !.port = shiftedPublish(@, 8000)]}
    [] f.rule = "QD040" -> (CASE f.at = "registry" -> {[u EXCEPT !.image = Qualified(@)]}
                              [] f.at = "digest"   -> {[u EXCEPT !.image = Pinned(@)],
                                                       [u EXCEPT !.autoUpdate = FALSE]}
                              [] f.at = "tag"      -> {[u EXCEPT !.image = Pinned(@)]})
    [] f.rule = "QD042" -> {Renamed(u, f.at)}
    [] f.rule = "QD043" -> {[u EXCEPT !.image = AnImage, !.imageKey = "Image"], [u EXCEPT !.rootfs = TRUE]}
    [] OTHER            -> {u}

\* Notify=healthy for the unit others wait for, which needs a health check.
Notifying(u) == [u EXCEPT !.notify = TRUE, !.health = TRUE]

\* usermod adds a range of 65536; the sysctl admits the port.
Extended(host, f) ==
  IF f.at = "uid" THEN [host EXCEPT !.subuid = Append(@, 65536)]
                  ELSE [host EXCEPT !.subgid = Append(@, 65536)]
Admitting(host, u) == [host EXCEPT !.threshold = HostPort(u.port)]
=============================================================================
