------------------------------ MODULE Migrate -------------------------------
(***************************************************************************)
(* From compose to a running machine: what `quaddoc convert` makes of the  *)
(* services of a compose project (internal/parse/compose, internal/        *)
(* generate), as the loader of internal/ir reads it back, on the machine of*)
(* Boot. Networks, and the units and notes around them, are in Convert.    *)
(***************************************************************************)
EXTENDS Boot

CONSTANTS
  ComposeProjects,  \* the services of each project, one per container
  Volumes,          \* the declared volumes: external ones and their objects
  VolumeUnit        \* how a mount refers to a declared volume's unit

Conditions == {"", "service_started", "service_healthy", "service_completed_successfully"}
Policies   == {"", "no", "always", "on-failure", "on-failure:3", "unless-stopped", "sometimes"}

ComposeMount ==
  [type : {"volume"}, source : DOMAIN Volumes, ro : BOOLEAN]
    \cup [type : {"bind"}, source : HostPaths, ro : BOOLEAN]

\* published is 0 where compose leaves the port of the host open.
ComposePort ==
  [address : {<<>>, <<V4>>, <<Colon, Colon, 1>>}, published : Nat, target : Nat, protocol : {Tcp, Udp}]

\* user is user[:group]; needs is depends_on; check is the healthcheck's test.
Service ==
  [image : Image \cup {NoImage}, build : BOOLEAN, user : ID, userGroup : ID,
   keepId : BOOLEAN, groupAdd : SUBSET {"name", "1001", "keep-groups"},
   mounts : [Lines -> ComposeMount \cup {NoMount}], port : ComposePort,
   needs : [Containers -> Conditions], check : {"absent", "NONE", "CMD"},
   restart : Policies]

ASSUME ComposeAssumption ==
  \A p \in ComposeProjects : \A c \in Containers :
    /\ p[c] \in Service
    /\ p[c].needs[c] = ""
    /\ p[c].image = NoImage => p[c].build  \* the loader rejects a service with neither

\* A volume is named, after its unit or after the object it stands for.
ASSUME VolumesAssumption ==
  \A v \in DOMAIN Volumes :
    IF Volumes[v].external THEN Volumes[v].object \in Sources \ HostPaths
                           ELSE VolumeUnit[v] \in Sources \ HostPaths
-----------------------------------------------------------------------------
(* The translation.                                                        *)

\* Mutant: unless-stopped is written as it stands, as no and on-failure are.
SamePolicy(policy) ==
  CASE policy \in {"", "no"}                     -> "no"
    [] policy \in {"on-failure", "on-failure:3"} -> "on-failure"
    [] policy = "unless-stopped"                 -> policy
    [] OTHER                                     -> "always"

renderRestart(policy) ==
  CASE policy \in {"", "no"}                     -> "no"
    [] policy \in {"on-failure", "on-failure:3"} -> "on-failure"
    [] OTHER                                     -> "always"

renderMount(m) ==
  IF m = NoMount THEN NoMount
  ELSE [kind |-> IF m.type = "volume" THEN "named" ELSE "bind",
        src |-> IF m.type = "bind" THEN m.source
                ELSE IF Volumes[m.source].external THEN Volumes[m.source].object
                ELSE VolumeUnit[m.source],
        ro |-> m.ro, chown |-> FALSE]

PublishedPort(p) ==
  (IF p.address = <<>> THEN <<>> ELSE Append(p.address, Colon))
    \o (IF p.published = 0 THEN <<>> ELSE <<p.published, Colon>>)
    \o <<p.target>> \o (IF p.protocol = Tcp THEN <<>> ELSE <<Slash, p.protocol>>)

DependsOn(s) == {d \in Containers : s.needs[d] # ""}

\* No unit is made to notify, whatever others wait for, an After= each. The group part of user
\* becomes Group=, and the loader takes HealthCmd=none for no health check.
generateContainer(s) ==
  [user |-> s.user, userGroup |-> NoID, group |-> s.userGroup, keepId |-> s.keepId,
   groupAdd |-> s.groupAdd, mounts |-> [l \in Lines |-> renderMount(s.mounts[l])],
   port |-> PublishedPort(s.port), after |-> {{d} : d \in DependsOn(s)}, notify |-> FALSE, health |-> s.check = "CMD",
   restart |-> renderRestart(s.restart), install |-> {"WantedBy"},
   image |-> s.image, imageKey |-> "Image", rootfs |-> FALSE, autoUpdate |-> FALSE,
   volumes |-> NoMount, remap |-> FALSE]

Converted(p) == [c \in Containers |-> generateContainer(p[c])]

\* Every project and what becomes of it.
Conversions == {<<p, Converted(p)>> : p \in ComposeProjects}

\* What a note or a comment in the unit says of it.
Noted(s) ==
  {"build" : b \in {s.build} \cap {TRUE}}
    \cup {d \in Containers :
            s.needs[d] \in {"service_healthy", "service_completed_successfully"}}
-----------------------------------------------------------------------------
(* Properties.                                                             *)

\* What systemd takes at its word and a converter had to get right.
SystemdRules == {"QD021", "QD022", "QD023", "QD042"}

\* PublishedPort writes no brackets around an IPv6 address, and leaves out the
\* empty field between an address and the container's port.
Expressible(port) == port.address \in {<<>>, <<V4>>} /\ (port.address # <<>> => port.published # 0)
AsPublished(port) ==
  Publication(port.address, {port.published} \ {0}, {port.target}, <<port.protocol>>)

Kept(p, m) ==
  CASE m.what \in {"idle", "down", "conflict"} -> FALSE
    [] m.what = "rejected" -> "build" \in Noted(p[m.unit])
    [] m.what = "raced"    -> p[m.unit].needs[m.at] = "service_started" \/ m.at \in Noted(p[m.unit])
    [] m.what = "unpublishable" -> ~Expressible(p[m.unit].port) \/ p[m.unit].port.published > MaxPort
    [] OTHER               -> TRUE

\* The projects that what is linted and booted was converted from.
Origins == IF mends > 0 THEN {} ELSE {c[1] : c \in {d \in Conversions : d[2] = prj}}

KeptSoFar(p) ==
  /\ \A m \in mishaps : Kept(p, m)
  /\ \A f \in Found : f.rule \notin SystemdRules
  /\ \A c \in Containers : Expressible(p[c].port) => Published(prj[c].port) = AsPublished(p[c].port)

\* What compose does when a service's process has ended.
ComeBack(policy)  == policy \in {"always", "unless-stopped"}
StayAway(policy)  == policy \in {"", "no"}
EndsAsAgreed(p) ==
  \A c \in Containers : state[c] \in {"up", "ready"} /\ state'[c] \in {"off", "waiting"} =>
    /\ ComeBack(p[c].restart) => state'[c] = "waiting"
    /\ StayAway(p[c].restart) => state'[c] = "off"

\* The units of a converted project start at boot, and one that compose keeps
\* running comes back however it ends, as one it does not restart stays away; a
\* container that is not generated, or that starts before a dependency is as far
\* as compose would have waited, was noted; its port is published on the address
\* and the port compose publishes it on; and lint finds none of systemd's
\* traps in convert's own output (generate.go:3-7, 683-714,
\* compose.go:600-617, generate_test.go:168-171).
MigrationKept ==
  /\ [](\A p \in Origins : KeptSoFar(p))
  /\ [][\A p \in Origins : EndsAsAgreed(p)]_vars
=============================================================================
