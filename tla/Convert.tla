------------------------------- MODULE Convert -------------------------------
(***************************************************************************)
(* `quaddoc convert`: compose projects are turned into Quadlet units, one  *)
(* invocation after another, in one directory they share (units/ or the    *)
(* Quadlet search path). An invocation writes its units file by file, by   *)
(* name, over whatever is there, and removes nothing. The compose files    *)
(* are edited meanwhile, and a run may fail or be killed half way.         *)
(*                                                                         *)
(* Every name is a sequence of words, what "-" and "_" separate, the "_"  *)
(* being a word too. A compose file is what compose-go makes of it: an     *)
(* object has the name compose gives it, `name:` or <project>_<key>. It is *)
(* reduced to its services' networks, volumes, network_mode, dependencies, *)
(* whether they are active or healthy-gated, and what other keys they use. *)
(***************************************************************************)
EXTENDS Naturals, Sequences, FiniteSets

CONSTANTS
  Projects,      \* the names of the compose projects
  ComposeFiles,  \* what the compose file of each may hold, as loaded
  Invalid,       \* a compose file the loader rejects
  NoRun,         \* a project that has not been converted to the end
  Rank(_),       \* the order of unit names as strings
  PodFlags,      \* whether --pod may be given, {FALSE} if it may not
  MaxRuns, MaxEdits, MaxFaults

\* The service another one's network_mode names ("service:NAME").
ServiceMode(name) == <<"service", name>>

Unit(base, ext) == [base |-> base, ext |-> ext]

\* A unit's content: the project it was made for, the Podman object it defines,
\* the units it uses, the objects it uses by real name, and the units its service
\* requires. An object is told by its kind and its name.
Content(p, object, refs, real, needs) ==
  [project |-> p, object |-> object, refs |-> refs, real |-> real, needs |-> needs]

Truncated == Content(<<>>, <<>>, {}, {}, {})

Empty == [u \in {} |-> Truncated]

SIGKILL == 137  \* the status of a process killed half way

Active(c) == {s \in DOMAIN c.services : c.services[s].active}

\* What the compose loader guarantees of a file it accepts.
Consistent(c) ==
  \A s \in Active(c) : LET svc == c.services[s] IN
    /\ svc.nets \subseteq DOMAIN c.networks /\ svc.volumes \subseteq DOMAIN c.volumes
    /\ svc.needs \subseteq Active(c)
    /\ svc.mode # <<>> => svc.nets = {}
    /\ Len(svc.mode) = 2 => svc.mode = ServiceMode(svc.mode[2]) /\ svc.mode[2] \in Active(c)

ASSUME ComposeAssumption ==
  \A p \in Projects : \A c \in ComposeFiles[p] \ {Invalid} : Consistent(c)

\* A project has a name (sanitiseName falls back on one), and names are words.
ASSUME NamesAssumption ==
  /\ Projects \subseteq Seq(STRING) \ {<<>>}
  /\ \A p \in Projects : \A c \in ComposeFiles[p] \ {Invalid} :
       DOMAIN c.networks \cup DOMAIN c.volumes \subseteq Seq(STRING)

ASSUME PodFlagsAssumption == PodFlags \subseteq BOOLEAN

ASSUME SentinelsAssumption ==
  \A p \in Projects : \A c \in ComposeFiles[p] \ {Invalid}, flag \in PodFlags :
    [compose |-> c, pod |-> flag] # NoRun

VARIABLES
  compose,   \* the compose file of each project
  unit,      \* the unit files of the directory
  pc,
  project,   \* the project being converted
  pod, dry,  \* whether --pod and --dry-run are given
  loaded,    \* the project as normalised
  result,    \* the units to write
  notes,     \* the translation notes
  todo,      \* the units not written yet
  open,      \* the file being written, {} if none
  exit,
  source,    \* history: the compose file this run has read
  before,    \* history: the directory when it began
  made,      \* history: each project's last conversion, if that ran to the end
  runs, edits, faults

run     == <<project, pod, dry, loaded, result, notes>>
history == <<source, before, made>>
count   == <<runs, edits, faults>>
vars    == <<compose, unit, pc, project, pod, dry, loaded, result, notes, todo, open,
             exit, source, before, made, runs, edits, faults>>

-----------------------------------------------------------------------------
(* Reading.                                                                *)

\* The keys unsupportedFor looks for, with the values it reports.
Untranslated ==
  {"build", "extends", "deploy.replicas", "deploy.mode", "scale", "configs", "secrets",
   "network_mode", "environment", "pid", "ipc", "security_opt", "cgroup_parent",
   "pull_policy", "healthcheck.start_interval"}

\* Keys with a unit key of their own, but whose translation is worth a note: a
\* warning, or a remark on a stop_grace_period of 90s or more, on a restart policy.
Warned   == {"privileged"}
Remarked == {"stop_grace_period", "restart"}

Note(about, what, severity) == [about |-> about, what |-> what, severity |-> severity]

NotesOn(services, keys, severity) ==
  {Note(x[1], x[2], severity) :
     x \in {y \in (DOMAIN services) \X keys : y[2] \in services[y[1]].keys}}

\* unsupportedFor on every service, and one more note on those that normalise leaves
\* out. Keys it does not look for and normalise does not keep (tty, stdin_open,
\* cpus, domainname, platform, ...) go without a note.
Unsupported(c) ==
  NotesOn(c.services, Untranslated, "warning")
    \cup {Note(s, "profiles", "warning") : s \in DOMAIN c.services \ Active(c)}

DefaultName(p, key) == p \o <<"_">> \o key

\* The name of a volume: compose's, but its default <project>_<key> gives way to
\* the bare key, whether it was written as `name:` or not.
ObjectName(p, key, v) ==
  IF ~v.external /\ v.name = DefaultName(p, key) THEN key ELSE v.name

\* The services under the default profile, without the keys conversion has no use for.
normalise(p, c) ==
  [services    |-> [s \in Active(c) |-> LET svc == c.services[s] IN
                      [name |-> svc.name, nets |-> svc.nets, volumes |-> svc.volumes,
                       needs |-> svc.needs, mode |-> svc.mode, healthy |-> svc.healthy,
                       keys |-> svc.keys \cap (Warned \cup Remarked)]],
   networks    |-> c.networks,
   volumes     |-> [v \in DOMAIN c.volumes |->
                      [external |-> c.volumes[v].external,
                       name |-> ObjectName(p, v, c.volumes[v])]],
   unsupported |-> Unsupported(c)]
-----------------------------------------------------------------------------
(* The translation of a project p, with `prj` what was read of it.         *)

networkUnit(p, key) == Unit(p \o key, "network")

External(objects) == {k \in DOMAIN objects : objects[k].external}
Owned(objects)    == DOMAIN objects \ External(objects)

generateNetwork(p, n) == Content(p, <<"network", n.name>>, {}, {}, {})

generateVolume(p, v) == Content(p, <<"volume", v.name>>, {}, {}, {})

generatePod(p) == Content(p, <<"pod", p>>, {}, {}, {})

\* Mutant: one network for the project, as conversion once had it.
OneNetwork(p, prj, svc) ==
  [refs |-> {networkUnit(p, n) : n \in IF svc.nets = {} THEN {} ELSE Owned(prj.networks)},
   real |-> {<<"network", prj.networks[n].name>> : n \in svc.nets \cap External(prj.networks)}]

\* The networks a service joins, by unit, or by name where they are external.
networkRef(p, prj, svc) ==
  [refs |-> {networkUnit(p, n) : n \in svc.nets \cap Owned(prj.networks)},
   real |-> {<<"network", prj.networks[n].name>> : n \in svc.nets \cap External(prj.networks)}]

\* network_mode replaces the networks; "service:" names a sibling's container.
Network(p, prj, svc) ==
  CASE svc.mode = <<>>      -> networkRef(p, prj, svc)
    [] Len(svc.mode) = 2    -> [refs |-> {Unit(svc.mode[2], "container")}, real |-> {}]
    [] OTHER                -> [refs |-> {}, real |-> {<<"mode", svc.mode[1]>>}]

\* Mutant: every named volume is taken for one with a unit.
AllByUnit(prj, svc) == [refs |-> {Unit(v, "volume") : v \in svc.volumes}, real |-> {}]

renderMount(prj, svc) ==
  [refs |-> {Unit(v, "volume") : v \in svc.volumes \cap Owned(prj.volumes)},
   real |-> {<<"volume", prj.volumes[v].name>> : v \in svc.volumes \cap External(prj.volumes)}]

\* Pod members join no network; their Pod= refers to the pod unit.
generateContainer(p, prj, svc, inPod) ==
  LET net == IF inPod THEN [refs |-> {Unit(p, "pod")}, real |-> {}] ELSE Network(p, prj, svc)
      mnt == renderMount(prj, svc)
  IN  Content(p, <<"container", svc.name>>, net.refs \cup mnt.refs, net.real \cup mnt.real,
              {Unit(d, "container") : d \in svc.needs})

Nets(p, prj) == {networkUnit(p, n) : n \in Owned(prj.networks)}

Generated(p, prj, inPod) ==
  (IF inPod THEN {Unit(p, "pod")} ELSE Nets(p, prj))
    \cup {Unit(v, "volume") : v \in Owned(prj.volumes)}
    \cup {Unit(s, "container") : s \in DOMAIN prj.services}

Units(p, prj, inPod) ==
  [u \in Generated(p, prj, inPod) |->
     CASE u.ext = "network"   -> generateNetwork(p, prj.networks[CHOOSE n \in DOMAIN prj.networks :
                                                                  networkUnit(p, n) = u])
       [] u.ext = "volume"    -> generateVolume(p, prj.volumes[u.base])
       [] u.ext = "pod"       -> generatePod(p)
       [] u.ext = "container" -> generateContainer(p, prj, prj.services[u.base], inPod)]

Notes(prj, inPod) ==
  prj.unsupported
    \cup {Note(n, "external", "note") : n \in IF inPod THEN {} ELSE External(prj.networks)}
    \cup {Note(v, "external", "note") : v \in External(prj.volumes)}
    \cup {Note(s, "healthy", "warning") : s \in {t \in DOMAIN prj.services :
                                                  prj.services[t].healthy}}
    \cup NotesOn(prj.services, Warned, "warning") \cup NotesOn(prj.services, Remarked, "note")

Worst(ns) == IF \E n \in ns : n.severity = "warning" THEN 1 ELSE 0

\* Two units of one conversion never have the same name.
ASSUME RankAssumption ==
  \A p \in Projects : \A c \in ComposeFiles[p] \ {Invalid}, flag \in PodFlags :
    LET G == Generated(p, normalise(p, c), flag) IN
      \A u, v \in G : Rank(u) \in Nat /\ (Rank(u) = Rank(v) => u = v)
-----------------------------------------------------------------------------
(* The command.                                                            *)

Stop(status) == pc' = "done" /\ exit' = status

Init ==
  /\ compose \in {f \in [Projects -> UNION {ComposeFiles[p] : p \in Projects}] :
                    \A p \in Projects : f[p] \in ComposeFiles[p]}
  /\ unit = Empty
  /\ pc = "done" /\ exit = 0 /\ project \in Projects /\ pod = FALSE /\ dry = FALSE
  /\ loaded = Invalid /\ result = Empty /\ notes = {} /\ todo = {} /\ open = {}
  /\ source = Invalid /\ before = Empty /\ made = [p \in Projects |-> NoRun]
  /\ runs = 0 /\ edits = 0 /\ faults = 0

\* A new process.
Start(p, flag, dryRun) ==
  /\ pc = "done" /\ runs < MaxRuns /\ runs' = runs + 1
  /\ pc' = "load" /\ project' = p /\ pod' = flag /\ dry' = dryRun
  /\ loaded' = Invalid /\ result' = Empty /\ notes' = {} /\ todo' = {}
  /\ source' = Invalid /\ before' = unit
  /\ UNCHANGED <<compose, unit, open, made, exit, edits, faults>>

Load ==
  /\ pc = "load"
  /\ source' = compose[project]
  /\ IF source' = Invalid THEN Stop(2) /\ UNCHANGED loaded
     ELSE pc' = "convert" /\ loaded' = normalise(project, source') /\ UNCHANGED exit
  /\ UNCHANGED <<compose, unit, project, pod, dry, result, notes, todo, open, before, made, count>>

\* With --dry-run the units are printed, and nothing is written.
Convert ==
  /\ pc = "convert"
  /\ result' = Units(project, loaded, pod) /\ notes' = Notes(loaded, pod)
  /\ IF dry THEN Stop(Worst(notes')) /\ todo' = {}
     ELSE pc' = "write" /\ todo' = DOMAIN result' /\ UNCHANGED exit
  /\ UNCHANGED <<compose, unit, project, pod, dry, loaded, open, history, count>>

\* Mutant: the units are written in the order they were generated in.
AnyUnit(u) == u \in todo

\* Units are written in the order of their names.
First(u) == u \in todo /\ \A v \in todo : Rank(u) <= Rank(v)

Put(name, content) ==
  unit' = [u \in DOMAIN unit \cup {name} |-> IF u = name THEN content ELSE unit[u]]

\* os.WriteFile truncates what is there, whoever's it is.
OpenUnit(u) ==
  /\ pc = "write" /\ First(u) /\ open = {}
  /\ open' = {u} /\ Put(u, Truncated)
  /\ made' = [made EXCEPT ![project] = NoRun]
  /\ UNCHANGED <<compose, pc, run, todo, exit, source, before, count>>

WriteUnit(u) ==
  /\ pc = "write" /\ u \in open
  /\ Put(u, result[u]) /\ open' = {} /\ todo' = todo \ {u}
  /\ UNCHANGED <<compose, pc, run, exit, history, count>>

Finish ==
  /\ pc = "write" /\ todo = {}
  /\ Stop(Worst(notes)) /\ made' = [made EXCEPT ![project] = [compose |-> source, pod |-> pod]]
  /\ UNCHANGED <<compose, unit, run, todo, open, source, before, count>>

\* Mutant: a unit that cannot be written is skipped.
SkipUnit ==
  /\ pc = "write" /\ todo # {} /\ faults < MaxFaults /\ faults' = faults + 1
  /\ open' = {} /\ \E u \in todo : First(u) /\ todo' = todo \ {u}
  /\ UNCHANGED <<compose, unit, pc, run, history, exit, runs, edits>>

\* A write fails, which ends the run, or the process is killed.
WriteFails ==
  /\ pc = "write" /\ todo # {} /\ faults < MaxFaults /\ faults' = faults + 1
  /\ Stop(2) /\ open' = {}
  /\ UNCHANGED <<compose, unit, run, todo, history, runs, edits>>

Kill ==
  /\ pc # "done" /\ faults < MaxFaults /\ faults' = faults + 1
  /\ Stop(SIGKILL) /\ open' = {}
  /\ UNCHANGED <<compose, unit, run, todo, history, runs, edits>>

\* A person saves a compose file; the run that has loaded it does not notice.
Edit(p) ==
  /\ edits < MaxEdits /\ edits' = edits + 1
  /\ \E c \in ComposeFiles[p] : compose' = [compose EXCEPT ![p] = c]
  /\ UNCHANGED <<unit, pc, run, todo, open, history, exit, runs, faults>>

Next ==
  \/ \E p \in Projects : Edit(p) \/ \E flag \in PodFlags, dryRun \in BOOLEAN : Start(p, flag, dryRun)
  \/ Load \/ Convert \/ Finish \/ WriteFails \/ Kill
  \/ \E u \in todo : OpenUnit(u) \/ WriteUnit(u)

Spec == Init /\ [][Next]_vars
-----------------------------------------------------------------------------
(* Properties.                                                             *)

TypeOK ==
  /\ \A p \in Projects : compose[p] \in ComposeFiles[p]
  /\ pc \in {"load", "convert", "write", "done"} /\ exit \in {0, 1, 2, SIGKILL}
  /\ todo \subseteq DOMAIN result /\ open \subseteq todo /\ Cardinality(open) <= 1
  /\ pc = "write" => DOMAIN result \ todo \subseteq DOMAIN unit
  /\ \A u \in DOMAIN unit : unit[u] # Truncated => unit[u].project \in Projects

\* What a directory holds after a run that wrote some units whole and left one torn.
LeftBy(whole, torn) ==
  unit = [u \in DOMAIN before \cup whole \cup torn |->
            IF u \in whole THEN result[u] ELSE IF u \in torn THEN Truncated ELSE before[u]]

Ahead(u) == {v \in DOMAIN result : Rank(v) < Rank(u)}

\* runConvert writes the units in the order of their names and stops at the first
\* that fails: at every moment, and after every failure or kill, the directory is
\* what it was, with a beginning of the units written over it and at most the next
\* one torn. An exit status of 0 or 1 means that all of them are there (with
\* --dry-run, that nothing was touched), and 0 that every service of the compose
\* file, profiles included, has got its unit.
EndsAsItSays ==
  /\ \/ LeftBy(DOMAIN result, {})
     \/ \E u \in DOMAIN result : LeftBy(Ahead(u), {}) \/ LeftBy(Ahead(u), {u})
  /\ pc = "done" /\ exit \in {0, 1} => IF dry THEN unit = before ELSE LeftBy(DOMAIN result, {})
  /\ pc = "done" /\ exit = 0 /\ source # Invalid =>
       \A s \in DOMAIN source.services : Unit(s, "container") \in DOMAIN result

\* A project that was converted to the end, and those of its services whose
\* unit no other project has since written over or truncated.
Converted == {p \in Projects : made[p] # NoRun}
Kept(p) == {s \in Active(made[p].compose) : unit[Unit(s, "container")].project = p}

ContainerOf(s) == unit[Unit(s, "container")]

\* The units it uses that another project has written over or truncated, as it can
\* where names meet: volumes and containers have no project in theirs, and networks
\* one that a hyphen ends.
Lost(p, u) == {r \in u.refs : r \notin DOMAIN unit \/ unit[r].project # p}

Intact(p) == {s \in Kept(p) : Lost(p, ContainerOf(s)) = {}}

\* What a unit gets, its references followed through the directory.
Gets(u, refs) == u.real \cup {unit[r].object : r \in refs}

\* What it is to get: the networks and network stacks of the compose file, by
\* compose's names, and its volumes by the names conversion gives them.
Given(p, c, svc) ==
  {<<"network", c.networks[n].name>> : n \in svc.nets}
    \cup {<<"volume", ObjectName(p, v, c.volumes[v])>> : v \in svc.volumes}
    \cup (CASE svc.mode = <<>>   -> {}
            [] Len(svc.mode) = 2 -> {<<"container", c.services[svc.mode[2]].name>>}
            [] OTHER             -> {<<"mode", svc.mode[1]>>})

\* Which services share a volume, in compose and by their units.
Together(c, s, t) ==
  \E v \in c.services[s].volumes, w \in c.services[t].volumes :
    c.volumes[v].name = c.volumes[w].name
ShareVolume(s, t) ==
  \E o \in Gets(ContainerOf(s), ContainerOf(s).refs) \cap Gets(ContainerOf(t), ContainerOf(t).refs) :
    o[1] = "volume"

\* No volume is called what another one is called by default, before or after the
\* project's name is cut off.
Distinct(p, c) ==
  \A v \in Owned(c.volumes) : c.volumes[v].name = DefaultName(p, v) =>
    \A w \in DOMAIN c.volumes \ {v} : c.volumes[w].name \notin {v, DefaultName(p, v)}

\* ADR-0001: each container gets "one Network= per compose network it joins [...] so
\* a service keeps exactly the isolation and addresses compose gave it". Once a
\* conversion without --pod has ended well, its services use the very networks and
\* network stacks of the compose file, whatever was in the directory, was cut short
\* before or has been converted since. A service some of whose units another
\* project has written over gets nothing through the others that is not its own.
\*
\* Volumes keep less. A volume named by default loses its project's name on purpose
\* (compose.go:422-425), so two projects that compose isolates share `data`; and an
\* explicit `name: shop_data` loses it too. What is left, and stated here, is that
\* each service gets the volumes under those names, and that within a project two
\* services share a volume exactly if compose lets them, unless names meet
\* (Distinct).
KeepsIsolation ==
  \A p \in Converted : ~made[p].pod => LET c == made[p].compose IN
    /\ \A s \in Kept(p) : LET u == ContainerOf(s) IN
         Gets(u, u.refs \ Lost(p, u)) \subseteq Given(p, c, c.services[s])
    /\ \A s \in Intact(p) : LET u == ContainerOf(s) IN
         Gets(u, u.refs) = Given(p, c, c.services[s])
    /\ Distinct(p, c) => \A s, t \in Intact(p) : ShareVolume(s, t) <=> Together(c, s, t)

\* "Generated units must pass" Podman's generator, which rejects references to
\* units that are not there: a container of a finished conversion refers to and
\* requires only units of the directory, with --pod or without.
Resolves ==
  \A p \in Converted : \A s \in Kept(p) :
    LET u == ContainerOf(s) IN u.refs \cup u.needs \subseteq DOMAIN unit

\* ADR-0001: "Each .network unit is called <project>-<network>.network, so
\* projects sharing a Quadlet search path do not collide": the networks of a
\* converted project are its own.
ProjectsDoNotCollide ==
  \A p \in Converted : ~made[p].pod =>
    \A n \in Nets(p, made[p].compose) : unit[n].project \in {p, <<>>}
=============================================================================
