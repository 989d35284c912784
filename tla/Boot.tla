-------------------------------- MODULE Boot --------------------------------
(***************************************************************************)
(* A reader who mends findings of UnitRules the way the remediations say,  *)
(* and the machine that then boots the project.  The machine (the Quadlet  *)
(* generator, systemd and rootless Podman) is not part of the repository:  *)
(* it is modelled from what the rules' Rationale and Citation texts say of *)
(* it.  What goes wrong at boot is recorded as mishaps, to be compared     *)
(* with what the linter had said.                                          *)
(***************************************************************************)
EXTENDS UnitRules

CONSTANTS
  Situations,  \* projects, with acyclic After=, on hosts of which facts are known
  PlaceOf,     \* the place on the host that a spelling of a source means
  HostPlaces,  \* the places that are host directories
  Fresh,       \* the owner of a volume nothing has used yet
  ImageUser,   \* the user of an image that does not run as root
  MaxMends

ASSUME PlaceAssumption ==
  /\ DOMAIN PlaceOf = Sources /\ HostPlaces \subseteq Range(PlaceOf)
  /\ \A src \in Sources : PlaceOf[src] \in HostPlaces <=> src \in HostPaths \cup Devices
ASSUME UserAssumption  == ImageUser \in Nat \ {0} /\ Fresh \notin Nat
ASSUME BoundAssumption == MaxMends \in Nat

\* A line that says Volumes= is not a mount as well.
ASSUME SituationsAssumption ==
  \A s \in Situations :
    /\ s.prj \in [Containers -> Unit] /\ s.host \in Host /\ s.known \subseteq Facts
    /\ \A c \in Containers :
         s.prj[c].volumes # NoMount => s.prj[c].mounts[LateLine] = NoMount

VARIABLES
  prj, host, known,
  mends, mended,   \* how many findings were mended, and which
  phase,
  runsAs,          \* the user each container's process has
  state,           \* "ready" is serving: started, for a unit with Notify=healthy
  owner,           \* who owns each place, as an ID inside the containers
  mishaps

vars == <<prj, host, known, mends, mended, phase, runsAs, state, owner, mishaps>>

Places == Range(PlaceOf)
States == {"off", "waiting", "up", "ready", "failed"}
Mishap(what, c, at) == [what |-> what, unit |-> c, at |-> at]
Found  == Findings(prj, host, known)

Init ==
  /\ \E s \in Situations : prj = s.prj /\ host = s.host /\ known = s.known
  /\ mends = 0
  /\ mended = {}
  /\ phase = "lint"
  /\ runsAs = [c \in Containers |-> 0]
  /\ state = [c \in Containers |-> "off"]
  /\ owner = [p \in Places |-> IF p \in HostPlaces THEN 0 ELSE Fresh]
  /\ mishaps = {}
-----------------------------------------------------------------------------
(* The reader follows one remediation of one finding.                      *)

Mend(f) ==
  /\ phase = "lint" /\ mends < MaxMends
  /\ \/ /\ f.rule # "QD020"
        /\ \E u \in Remedies(prj[f.unit], f, host) : prj' = [prj EXCEPT ![f.unit] = u]
        /\ host' = host
     \/ /\ f.rule = "QD020"
        /\ prj' = [prj EXCEPT ![f.at] = Notifying(@)]
        /\ host' = host
     \/ /\ f.rule = "QD013"
        /\ host' = Extended(host, f)
        /\ prj' = prj
     \/ /\ f.rule = "QD031"
        /\ host' = Admitting(host, prj[f.unit])
        /\ prj' = prj
  /\ mends' = mends + 1
  /\ mended' = mended \cup {f}
  /\ UNCHANGED <<known, phase, runsAs, state, owner, mishaps>>
-----------------------------------------------------------------------------
(* The machine.                                                            *)

\* checkForUnknownKeys, and nothing, or too much, to make a container from.
Rejected(u) ==
  \/ u.volumes # NoMount
  \/ u.image # NoImage /\ u.imageKey = "image"
  \/ ~HasImage(u) /\ ~u.rootfs
Conflicting(u) == HasImage(u) /\ u.rootfs
Generated(u)   == ~Rejected(u) /\ ~Conflicting(u)
Wanted(u)      == u.install \cap {"WantedBy"} # {}

\* The ranges are mapped one after the other, from container ID 1 upwards.
Mapped(id, counts) ==
  \/ id = 0
  \/ \E i \in DOMAIN counts :
       LET start == 1 + SumFunctionOnSet(counts, 1..(i - 1))
       IN  id \in start..(start + counts[i] - 1)

Unmapped(c) ==
  {Mishap("unmapped", c, at) : at \in
     {a \in {"uid", "gid"} :
        LET id == IF a = "uid" THEN prj[c].user ELSE groupID(prj[c])
        IN  id \in Nat /\ ~Mapped(id, IF a = "uid" THEN host.subuid ELSE host.subgid)}}

Unbindable(c) ==
  {Mishap("unbindable", c, "PublishPort") : p \in
     {q \in Published(prj[c].port).hosts : q < host.threshold}}

Unpublishable(c) ==
  {Mishap("unpublishable", d, "PublishPort") : d \in {e \in {c} : ~Publishable(prj[e].port)}}

Boot ==
  /\ phase = "lint"
  /\ phase' = "booted"
  /\ runsAs' \in {r \in [Containers -> Nat \cap ({0, ImageUser} \cup {prj[c].user : c \in Containers})] :
       \A c \in Containers : IF prj[c].user \in Nat THEN r[c] = prj[c].user
                             ELSE r[c] \in {0, ImageUser}}
  /\ state' = [c \in Containers |->
       IF Generated(prj[c]) /\ Wanted(prj[c]) THEN "waiting" ELSE "off"]
  /\ mishaps' = {Mishap("rejected", c, "unit") : c \in {d \in Containers : Rejected(prj[d])}}
           \cup {Mishap("conflict", c, "unit") : c \in {d \in Containers : Conflicting(prj[d])}}
           \cup {Mishap("idle", c, "unit") : c \in {d \in Containers : ~Wanted(prj[d])}}
  /\ UNCHANGED <<prj, host, known, mends, mended, owner>>

\* systemd splits After= into the units it names.
Awaited(u) == Containers \cap UNION u.after

\* After= waits for a unit that is being started, until it has notified.
Held(c) ==
  \E d \in Awaited(prj[c]) :
    \/ state[d] = "waiting"
    \/ state[d] = "up" /\ prj[d].notify

Raced(c) == {Mishap("raced", c, d) : d \in {e \in Awaited(prj[c]) : state[e] = "up"}}

Used(c) == {l \in Lines : prj[c].mounts[l] # NoMount}
Of(c, p) == {prj[c].mounts[l] : l \in {k \in Used(c) : PlaceOf[prj[c].mounts[k].src] = p}}

\* Who the process is to a mount: keep-id makes it the host user, as far as bind
\* mounts go.
As(c, m) == IF prj[c].keepId /\ m.kind = "bind" THEN 0 ELSE runsAs[c]

\* Podman chowns where :U asks for it, and a fresh volume on its first use.
Owners(c) ==
  [p \in Places |->
     IF \E m \in Of(c, p) : m.chown THEN As(c, CHOOSE m \in Of(c, p) : m.chown)
     ELSE IF Of(c, p) # {} /\ owner[p] = Fresh THEN runsAs[c] ELSE owner[p]]

\* Root may write anywhere it has mapped.
Denied(c, owners) ==
  {Mishap("denied", c, l) : l \in
     {k \in Used(c) :
        LET m == prj[c].mounts[k] IN
        /\ ~m.ro
        /\ owners[PlaceOf[m.src]] # As(c, m)
        /\ runsAs[c] # 0}}

Launch(c) ==
  /\ phase = "booted"
  /\ state[c] = "waiting"
  /\ ~Held(c)
  /\ LET stops == IF Unpublishable(c) # {} THEN Unpublishable(c)
                ELSE IF host.rootless THEN Unmapped(c) \cup Unbindable(c) ELSE {}
     IN  IF stops # {}
         THEN /\ state' = [state EXCEPT ![c] = "failed"]
              /\ mishaps' = mishaps \cup stops
              /\ owner' = owner
         ELSE /\ state' = [state EXCEPT ![c] = "up"]
              /\ owner' = Owners(c)
              /\ mishaps' = mishaps \cup Raced(c) \cup Denied(c, Owners(c))
                   \cup {Mishap("ungrouped", c, "unit") : g \in prj[c].groupAdd \cap {"name"}}
  /\ UNCHANGED <<prj, host, known, mends, mended, phase, runsAs>>

StartByHand(c) ==
  /\ phase = "booted"
  /\ state[c] = "off" /\ Generated(prj[c])
  /\ state' = [state EXCEPT ![c] = "waiting"]
  /\ UNCHANGED <<prj, host, known, mends, mended, phase, runsAs, owner, mishaps>>

BecomeReady(c) ==
  /\ state[c] = "up"
  /\ prj[c].notify => prj[c].health
  /\ state' = [state EXCEPT ![c] = "ready"]
  /\ UNCHANGED <<prj, host, known, mends, mended, phase, runsAs, owner, mishaps>>

\* systemd gives up on a unit that does not notify.
TimeOut(c) ==
  /\ state[c] = "up" /\ prj[c].notify
  /\ state' = [state EXCEPT ![c] = "failed"]
  /\ UNCHANGED <<prj, host, known, mends, mended, phase, runsAs, owner, mishaps>>

\* The process ends, well or badly. unless-stopped is no policy of systemd's.
Restarts(u, badly) == u.restart = "always" \/ (badly /\ u.restart = "on-failure")

Exit(c) ==
  /\ state[c] \in {"up", "ready"}
  /\ \E badly \in BOOLEAN :
       state' = [state EXCEPT ![c] = IF Restarts(prj[c], badly) THEN "waiting" ELSE "off"]
  /\ mishaps' = mishaps \cup
       {Mishap("down", c, "unit") : r \in {prj[c].restart} \cap {"unless-stopped"}}
  /\ UNCHANGED <<prj, host, known, mends, mended, phase, runsAs, owner>>

Next ==
  \/ \E f \in Found : Mend(f)
  \/ Boot
  \/ \E c \in Containers :
       Launch(c) \/ StartByHand(c) \/ BecomeReady(c) \/ TimeOut(c) \/ Exit(c)

Spec == Init /\ [][Next]_vars
-----------------------------------------------------------------------------
TypeOK ==
  /\ prj \in [Containers -> Unit]
  /\ host \in Host
  /\ known \subseteq Facts
  /\ mends \in 0..MaxMends
  /\ \A f \in mended : f.unit \in Containers
  /\ phase \in {"lint", "booted"}
  /\ runsAs \in [Containers -> Nat]
  /\ state \in [Containers -> States]
  /\ owner \in [Places -> Nat \cup {Fresh}]
  /\ \A m \in mishaps : m.unit \in Containers

\* Which rules are about which mishap.
Foretells ==
  [rejected   |-> {"QD042", "QD043"}, idle      |-> {"QD022", "QD023"},
   unmapped   |-> {"QD013"},          unbindable |-> {"QD031"},
   ungrouped  |-> {"QD011"},          denied    |-> {"QD010", "QD012"},
   raced      |-> {"QD020"},          down      |-> {"QD021"}]

Foretold(m) ==
  \E f \in Found :
    /\ f.unit = m.unit
    /\ f.rule \in Foretells[m.what]
    /\ m.what \in {"denied", "raced", "unmapped"} => f.at = m.at

MountOf(m) == prj[m.unit].mounts[m.at]
SharedBy(d, m) == Of(d, PlaceOf[MountOf(m).src])

\* What the ownership rules do not look at: an image's own user, a sharer whose
\* User= is root or a name, a place spelt in two ways, and another container's
\* :U on a host directory that keep-id relies on.
Overlooked(m) ==
  \/ prj[m.unit].user \notin Nat
  \/ \E d \in Containers : \E n \in SharedBy(d, m) : n.src # MountOf(m).src
  \/ \E d \in Containers \ {m.unit} :
       /\ SharedBy(d, m) # {}
       /\ \/ prj[d].user \in {0, NamedID}
          \/ \E n \in SharedBy(d, m) : n.kind = "bind" /\ n.chown

\* What the host context has to say before a rule can know, and what the rules
\* do not see: a dependency on a line of After= that names other units too, which
\* QD020 takes for one name (network.go:343-346); an [Install] with Alias= and
\* nothing else, which satisfies QD022 and QD023 and starts nothing (install.go:53-60,
\* 93); two keys of which one is too much; and a PublishPort= value that Podman
\* refuses.
Answerable(m) ==
  CASE m.what = "unmapped"   -> (IF m.at = "uid" THEN "subuid" ELSE "subgid") \in known
    [] m.what = "unbindable" -> "threshold" \in known \/ host.threshold <= 1024
    [] m.what = "denied"     -> ~Overlooked(m)
    [] m.what = "raced"      -> {m.at} \in prj[m.unit].after
    [] m.what = "idle"       -> prj[m.unit].install # {"Alias"}
    [] m.what \in {"conflict", "unpublishable"} -> FALSE
    [] OTHER                 -> TRUE

\* Whatever the order in which the containers start, become ready, end and
\* start again, and whatever the reader has mended: a unit that is not
\* generated, does not start, starts too early, is denied its files or stays
\* down was reported for it, at that mount, ID or dependency, except for the
\* classes of failures that Answerable and Overlooked name, which are not foretold
\* (rootless.go:127-352, network.go:258-302, 340-411, keys.go:112, image.go:25).
FailuresAreForetold == \A m \in mishaps : Answerable(m) => Foretold(m)

\* A remedy can be short of what is missing: a threshold more than 8000 above
\* the port, an ID more than a range above the total, and a threshold that the
\* rule cannot read.
Enough(f) ==
  CASE f.rule = "QD031" -> "threshold" \in known /\ host.threshold <= 8001
    [] f.rule = "QD013" -> LET id == IF f.at = "uid" THEN prj[f.unit].user ELSE groupID(prj[f.unit])
                           IN  id \in Nat /\ id <= 65536
    [] OTHER            -> TRUE

\* What was mended as a finding's remediation says is not reported again,
\* whatever else is mended after it and in whatever order.
MendedStaysMended == \A f \in mended \cap Found : ~Enough(f)

\* The findings a remedy may bring to light: a renamed key counts from then
\* on, another ID owns other files, without the keys Quadlet ignores there may
\* be none left, and QD040 names one fault of an image at a time.
Reveals(rule) ==
  CASE rule = "QD042" -> {"QD010", "QD012", "QD040"}
    [] rule = "QD013" -> {"QD012"}
    [] rule = "QD023" -> {"QD022"}
    [] rule = "QD040" -> {"QD040"}
    [] OTHER          -> {}

\* Following a remediation raises no finding that was not there, in that unit
\* or in another, but for those the remedied line had hidden.
RemediesRaiseNothing ==
  [][\A f \in mended' \ mended : \A g \in Findings(prj', host', known') \ Found :
        g.rule \in Reveals(f.rule)]_vars

\* However often a port is moved for QD031, it stays published on the same
\* address, for the same ports and protocol of the container, and on as many
\* ports of the host, unless it is moved above the highest port there is
\* (network.go:262-267).
TooHigh(text) == \E port \in Published(text).hosts : port > MaxPort
SameReach(old, new) ==
  /\ Publishable(new) \/ TooHigh(new)
  /\ Cardinality(Published(new).hosts) = Cardinality(Published(old).hosts)
  /\ Published(new) = [Published(old) EXCEPT !.hosts = Published(new).hosts]
ExposureKept ==
  [][\A c \in Containers :
        prj'[c].port # prj[c].port /\ Publishable(prj[c].port) => SameReach(prj[c].port, prj'[c].port)]_vars
=============================================================================
