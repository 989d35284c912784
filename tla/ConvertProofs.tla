--------------------------- MODULE ConvertProofs ----------------------------
(***************************************************************************)
(* What a shared directory holds of a project that was converted to the    *)
(* end, for any number of projects, compose files, runs, edits and faults. *)
(***************************************************************************)
EXTENDS Convert, SequenceTheorems, FiniteSetTheorems, WellFoundedInduction, TLAPS

-----------------------------------------------------------------------------
(* The inductive invariant.                                                *)

Accepted(p) == ComposeFiles[p] \ {Invalid}

\* What a conversion of p with the compose file c writes.
Output(p, c, flag) == Units(p, normalise(p, c), flag)

\* A conversion of p may leave this in the file u.
Writes(p, u, content) ==
  \E c \in Accepted(p), flag \in PodFlags :
    u \in DOMAIN Output(p, c, flag) /\ content = Output(p, c, flag)[u]

Statuses == {0, 1, 2, SIGKILL}

TypeInv ==
  /\ compose \in [Projects -> UNION {ComposeFiles[p] : p \in Projects}]
  /\ \A p \in Projects : compose[p] \in ComposeFiles[p]
  /\ pc \in {"load", "convert", "write", "done"} /\ exit \in Statuses
  /\ todo \subseteq DOMAIN result
  /\ open = {} \/ (pc = "write" /\ \E u \in todo : open = {u})
  /\ pc = "write" => DOMAIN result \ todo \subseteq DOMAIN unit
  /\ \A u \in DOMAIN unit : unit[u] # Truncated => unit[u].project \in Projects

\* A run converts the compose file as it was loaded, has written what is not to
\* be done, and forgets the project's last conversion before it writes over it.
RunInv ==
  /\ project \in Projects
  /\ pc # "done" => pod \in PodFlags
  /\ pc \in {"convert", "write"} =>
       source \in Accepted(project) /\ loaded = normalise(project, source)
  /\ pc = "write" =>
       /\ result = Output(project, source, pod) /\ notes = Notes(loaded, pod)
       /\ \A u \in DOMAIN result \ todo : unit[u] = result[u]
       /\ open # {} => made[project] = NoRun

MadeInv ==
  /\ made = [p \in Projects |-> made[p]]
  /\ \A p \in Converted : \E c \in Accepted(p), flag \in PodFlags :
       made[p] = [compose |-> c, pod |-> flag]

\* Every unit of a finished conversion is there, as it was written, cut short by
\* another project's run, or written over by one.
Holds(p, c, flag) ==
  \A u \in DOMAIN Output(p, c, flag) :
    /\ u \in DOMAIN unit
    /\ \/ unit[u] = Output(p, c, flag)[u]
       \/ unit[u] = Truncated
       \/ \E q \in Projects \ {p} : Writes(q, u, unit[u])

DirInv == \A p \in Converted : Holds(p, made[p].compose, made[p].pod)

Inv == TypeInv /\ RunInv /\ MadeInv /\ DirInv

-----------------------------------------------------------------------------
(* What a conversion writes.                                               *)

\* A unit is told by its name: networks of one project never share a file.
LEMMA NetworksApart ==
  ASSUME NEW p \in Projects, NEW c \in Accepted(p),
         NEW m \in DOMAIN c.networks, NEW n \in DOMAIN c.networks,
         networkUnit(p, m) = networkUnit(p, n)
  PROVE  m = n
<1>1. p \in Seq(STRING) /\ m \in Seq(STRING) /\ n \in Seq(STRING)
  BY NamesAssumption DEF Accepted
<1>2. p \o m = p \o n
  <2>1. networkUnit(p, m).base = p \o m /\ networkUnit(p, n).base = p \o n
    BY DEF networkUnit, Unit
  <2> QED  BY <2>1
<1> QED  BY <1>1, <1>2, ConcatSimplifications

\* What normalise keeps of a compose file.
LEMMA Normalised ==
  ASSUME NEW p, NEW c
  PROVE  LET prj == normalise(p, c) IN
         /\ DOMAIN prj.services = Active(c) /\ prj.networks = c.networks
         /\ DOMAIN prj.volumes = DOMAIN c.volumes /\ prj.unsupported = Unsupported(c)
         /\ Owned(prj.volumes) = Owned(c.volumes) /\ External(prj.volumes) = External(c.volumes)
         /\ \A v \in DOMAIN c.volumes : prj.volumes[v].name = ObjectName(p, v, c.volumes[v])
         /\ \A s \in Active(c) : LET svc == prj.services[s] IN
              /\ svc.name = c.services[s].name /\ svc.nets = c.services[s].nets
              /\ svc.volumes = c.services[s].volumes /\ svc.needs = c.services[s].needs
              /\ svc.mode = c.services[s].mode
<1> DEFINE prj == normalise(p, c)
<1>1. /\ DOMAIN prj.services = Active(c) /\ prj.networks = c.networks
      /\ DOMAIN prj.volumes = DOMAIN c.volumes /\ prj.unsupported = Unsupported(c)
  BY DEF normalise
<1>2. \A v \in DOMAIN c.volumes :
        /\ prj.volumes[v].name = ObjectName(p, v, c.volumes[v])
        /\ prj.volumes[v].external = c.volumes[v].external
  BY DEF normalise
<1>3. External(prj.volumes) = External(c.volumes)  BY <1>1, <1>2 DEF External
<1>4. \A s \in Active(c) : LET svc == prj.services[s] IN
        /\ svc.name = c.services[s].name /\ svc.nets = c.services[s].nets
        /\ svc.volumes = c.services[s].volumes /\ svc.needs = c.services[s].needs
        /\ svc.mode = c.services[s].mode
  BY DEF normalise
<1> QED  BY <1>1, <1>2, <1>3, <1>4 DEF Owned

\* What Units gives a name, by its extension.
LEMMA UnitsOf ==
  ASSUME NEW p \in Projects, NEW c \in Accepted(p), NEW flag
  PROVE  LET prj == normalise(p, c)
             out == Output(p, c, flag)
         IN  /\ DOMAIN out = Generated(p, prj, flag)
             /\ \A s \in Active(c) :
                  /\ Unit(s, "container") \in DOMAIN out
                  /\ out[Unit(s, "container")] = generateContainer(p, prj, prj.services[s], flag)
             /\ \A v \in Owned(c.volumes) :
                  /\ Unit(v, "volume") \in DOMAIN out
                  /\ out[Unit(v, "volume")] = generateVolume(p, prj.volumes[v])
             /\ ~flag => \A n \in Owned(c.networks) :
                  /\ networkUnit(p, n) \in DOMAIN out
                  /\ out[networkUnit(p, n)] = generateNetwork(p, c.networks[n])
             /\ flag => Unit(p, "pod") \in DOMAIN out
<1> DEFINE prj == normalise(p, c)
           out == Output(p, c, flag)
<1>1. DOMAIN out = Generated(p, prj, flag)  BY DEF Output, Units
<1>2. /\ DOMAIN prj.services = Active(c) /\ prj.networks = c.networks
      /\ Owned(prj.volumes) = Owned(c.volumes)
  BY Normalised
<1>3. ASSUME NEW s \in Active(c)
      PROVE  /\ Unit(s, "container") \in DOMAIN out
             /\ out[Unit(s, "container")] = generateContainer(p, prj, prj.services[s], flag)
  <2>1. Unit(s, "container") \in Generated(p, prj, flag)  BY <1>2 DEF Generated
  <2>2. Unit(s, "container").ext = "container" /\ Unit(s, "container").base = s  BY DEF Unit
  <2> QED  BY <1>1, <2>1, <2>2 DEF Output, Units
<1>4. ASSUME NEW v \in Owned(c.volumes)
      PROVE  /\ Unit(v, "volume") \in DOMAIN out
             /\ out[Unit(v, "volume")] = generateVolume(p, prj.volumes[v])
  <2>1. Unit(v, "volume") \in Generated(p, prj, flag)  BY <1>2 DEF Generated
  <2>2. Unit(v, "volume").ext = "volume" /\ Unit(v, "volume").base = v  BY DEF Unit
  <2> QED  BY <1>1, <2>1, <2>2 DEF Output, Units
<1>5. ASSUME ~flag, NEW n \in Owned(c.networks)
      PROVE  /\ networkUnit(p, n) \in DOMAIN out
             /\ out[networkUnit(p, n)] = generateNetwork(p, c.networks[n])
  <2>1. networkUnit(p, n) \in Generated(p, prj, flag)  BY <1>2, <1>5 DEF Generated, Nets
  <2>2. networkUnit(p, n).ext = "network"  BY DEF networkUnit, Unit
  <2>3. (CHOOSE m \in DOMAIN c.networks : networkUnit(p, m) = networkUnit(p, n)) = n
    BY NetworksApart DEF Owned
  <2> QED  BY <1>1, <1>2, <2>1, <2>2, <2>3 DEF Output, Units
<1>6. flag => Unit(p, "pod") \in DOMAIN out  BY <1>1 DEF Generated
<1> QED  BY <1>1, <1>3, <1>4, <1>5, <1>6

\* Every unit carries its project.
LEMMA UnitsAreOnes ==
  ASSUME NEW p \in Projects, NEW c, NEW flag, NEW u \in DOMAIN Output(p, c, flag)
  PROVE  Output(p, c, flag)[u].project = p
<1> DEFINE prj == normalise(p, c)
<1>0. u \in Generated(p, prj, flag)  BY DEF Output, Units
<1>1. CASE u.ext = "network"  BY <1>0, <1>1 DEF Output, Units, generateNetwork, Content
<1>2. CASE u.ext = "volume"  BY <1>0, <1>2 DEF Output, Units, generateVolume, Content
<1>3. CASE u.ext = "pod"  BY <1>0, <1>3 DEF Output, Units, generatePod, Content
<1>4. CASE u.ext = "container"  BY <1>0, <1>4 DEF Output, Units, generateContainer, Content
<1>5. u.ext \in {"network", "volume", "pod", "container"}
  BY <1>0 DEF Generated, Nets, networkUnit, Unit
<1> QED  BY <1>1, <1>2, <1>3, <1>4, <1>5

\* Nobody else's conversion is in a file that carries the project, and a truncated
\* file carries none.
LEMMA OwnStands ==
  ASSUME Inv, NEW p \in Converted, NEW u, unit[u].project = p,
         u \in DOMAIN Output(p, made[p].compose, made[p].pod)
  PROVE  u \in DOMAIN unit /\ unit[u] = Output(p, made[p].compose, made[p].pod)[u]
<1>1. p \in Projects  BY DEF Converted
<1>2. unit[u] # Truncated
  <2>1. Truncated.project = <<>>  BY DEF Truncated, Content
  <2> QED  BY <1>1, <2>1, NamesAssumption
<1>3. \A q \in Projects \ {p} : ~Writes(q, u, unit[u])
  BY UnitsAreOnes DEF Writes
<1> QED  BY <1>2, <1>3 DEF Inv, DirInv, Holds

\* So a container of a conversion is as it was written.
LEMMA KeptIsOwn ==
  ASSUME Inv, NEW p \in Converted, NEW s \in Kept(p)
  PROVE  LET prj == normalise(p, made[p].compose) IN
         /\ p \in Projects /\ made[p].compose \in Accepted(p) /\ made[p].pod \in PodFlags
         /\ s \in Active(made[p].compose)
         /\ Unit(s, "container") \in DOMAIN unit
         /\ ContainerOf(s) = generateContainer(p, prj, prj.services[s], made[p].pod)
<1>1. p \in Projects /\ made[p].compose \in Accepted(p) /\ made[p].pod \in PodFlags
  BY DEF Inv, MadeInv, Converted
<1>2. s \in Active(made[p].compose) /\ unit[Unit(s, "container")].project = p  BY DEF Kept
<1>3. /\ Unit(s, "container") \in DOMAIN unit
      /\ unit[Unit(s, "container")]
           = Output(p, made[p].compose, made[p].pod)[Unit(s, "container")]
  BY <1>1, <1>2, UnitsOf, OwnStands
<1> QED  BY <1>1, <1>2, <1>3, UnitsOf DEF ContainerOf

-----------------------------------------------------------------------------
(* The invariant is inductive.                                             *)

\* What the directory holds does not depend on the run.
LEMMA SameDirectory ==
  ASSUME DirInv, UNCHANGED <<unit, made>>
  PROVE  DirInv'
BY DEF DirInv, Holds, Converted

\* The bookkeeping of finished conversions does not depend on it either.
LEMMA SameMade ==
  ASSUME MadeInv, made' = made
  PROVE  MadeInv'
BY DEF MadeInv, Converted

\* What a run may exit with.
LEMMA StatusesAre ==
  /\ 0 \in Statuses /\ 2 \in Statuses /\ SIGKILL \in Statuses
  /\ \A ns : Worst(ns) \in Statuses
BY DEF Statuses, Worst

\* Nothing has been converted to begin with.
LEMMA InitInv == Init => Inv
<1> SUFFICES ASSUME Init PROVE Inv
  OBVIOUS
<1> USE DEF Init
<1>1. DOMAIN Empty = {}  BY DEF Empty
<1>2. TypeInv
  <2>1. compose \in [Projects -> UNION {ComposeFiles[p] : p \in Projects}]
        /\ \A p \in Projects : compose[p] \in ComposeFiles[p]
    OBVIOUS
  <2>2. DOMAIN unit = {}  BY <1>1
  <2>3. exit \in Statuses  BY StatusesAre
  <2> QED  BY <2>1, <2>2, <2>3 DEF TypeInv
<1>3. RunInv  BY DEF RunInv
<1>4. Converted = {}  BY DEF Converted
<1>5. MadeInv  BY <1>4 DEF MadeInv
<1>6. DirInv  BY <1>4 DEF DirInv
<1> QED  BY <1>2, <1>3, <1>5, <1>6 DEF Inv

\* A step that writes nothing disturbs only its own run.
LEMMA QuietSteps ==
  ASSUME Inv,
         \/ \E p \in Projects : Edit(p)
         \/ \E p \in Projects, flag \in PodFlags, dryRun \in BOOLEAN : Start(p, flag, dryRun)
         \/ Load \/ Convert \/ WriteFails \/ Kill \/ UNCHANGED vars
  PROVE  Inv'
<1> USE DEF run, history, count, Stop
<1>1. UNCHANGED <<unit, made>>
  BY DEF Edit, Start, Load, Convert, WriteFails, Kill, vars
<1>2. DirInv' /\ MadeInv'
  BY <1>1, SameDirectory, SameMade DEF Inv
<1>3. TypeInv'
  <2>1. ASSUME NEW p \in Projects, Edit(p) PROVE TypeInv'
    BY <2>1 DEF Edit, Inv, TypeInv
  <2>2. ASSUME NEW p \in Projects, NEW flag \in PodFlags, NEW dryRun \in BOOLEAN,
                Start(p, flag, dryRun)
         PROVE  TypeInv'
    BY <2>2 DEF Start, Inv, TypeInv
  <2>3. CASE Load  BY <2>3, StatusesAre DEF Load, Inv, TypeInv
  <2>4. CASE Convert
    <3>1. Worst(notes') \in Statuses  BY StatusesAre
    <3> QED  BY <2>4, <3>1 DEF Convert, Inv, TypeInv
  <2>5. CASE WriteFails
    <3>1. exit' \in Statuses  BY <2>5, StatusesAre DEF WriteFails
    <3>2. pc' = "done" /\ open' = {} /\ UNCHANGED <<compose, unit, result, todo>>
      BY <2>5 DEF WriteFails
    <3> QED  BY <3>1, <3>2 DEF Inv, TypeInv
  <2>6. CASE Kill
    <3>1. exit' \in Statuses  BY <2>6, StatusesAre DEF Kill
    <3>2. pc' = "done" /\ open' = {} /\ UNCHANGED <<compose, unit, result, todo>>
      BY <2>6 DEF Kill
    <3> QED  BY <3>1, <3>2 DEF Inv, TypeInv
  <2>7. CASE UNCHANGED vars  BY <2>7 DEF vars, Inv, TypeInv
  <2> QED  BY <2>1, <2>2, <2>3, <2>4, <2>5, <2>6, <2>7
<1>4. RunInv'
  <2>1. ASSUME NEW p \in Projects, Edit(p) PROVE RunInv'
    BY <2>1 DEF Edit, Inv, RunInv
  <2>2. ASSUME NEW p \in Projects, NEW flag \in PodFlags, NEW dryRun \in BOOLEAN,
                Start(p, flag, dryRun)
         PROVE  RunInv'
    BY <2>2 DEF Start, Inv, RunInv
  <2>3. CASE Load  BY <2>3 DEF Load, Inv, TypeInv, RunInv, Accepted
  <2>4. CASE Convert  BY <2>4 DEF Convert, Inv, TypeInv, RunInv, Output
  <2>5. CASE WriteFails  BY <2>5 DEF WriteFails, Inv, RunInv
  <2>6. CASE Kill  BY <2>6 DEF Kill, Inv, RunInv
  <2>7. CASE UNCHANGED vars  BY <2>7 DEF vars, Inv, RunInv
  <2> QED  BY <2>1, <2>2, <2>3, <2>4, <2>5, <2>6, <2>7
<1> QED  BY <1>2, <1>3, <1>4 DEF Inv

\* Truncating a file forgets the project's own conversion and cuts at most one
\* unit of every other.
LEMMA OpenStep ==
  ASSUME Inv, NEW u \in todo, OpenUnit(u)
  PROVE  Inv'
<1> USE DEF run, history, count
<1>1. /\ unit' = [v \in DOMAIN unit \cup {u} |-> IF v = u THEN Truncated ELSE unit[v]]
      /\ made' = [made EXCEPT ![project] = NoRun] /\ pc = "write" /\ pc' = "write"
      /\ UNCHANGED <<compose, project, pod, loaded, result, notes, todo, exit, source>>
      /\ open' = {u} /\ project \in Projects
  BY DEF OpenUnit, Put, Inv, RunInv
<1>2. TypeInv'  BY <1>1 DEF Inv, TypeInv
<1>3. made'[project] = NoRun  BY <1>1 DEF Inv, MadeInv
<1>4. RunInv'  BY <1>1, <1>3 DEF Inv, RunInv, TypeInv
<1>5. Converted' = Converted \ {project}
  BY <1>1, <1>3 DEF Inv, MadeInv, Converted
<1>6. \A p \in Converted' : made'[p] = made[p]
  BY <1>1, <1>5 DEF Inv, MadeInv, Converted
<1>7. MadeInv'
  <2>1. made' = [p \in Projects |-> made'[p]]  BY <1>1 DEF Inv, MadeInv
  <2> QED  BY <2>1, <1>5, <1>6, SMTT(30) DEF Inv, MadeInv
<1>8. DirInv'
  BY <1>1, <1>5, <1>6 DEF Inv, DirInv, Holds
<1> QED  BY <1>2, <1>4, <1>7, <1>8 DEF Inv

\* Filling it leaves what that project's conversions write there.
LEMMA WriteStep ==
  ASSUME Inv, NEW u \in todo, WriteUnit(u)
  PROVE  Inv'
<1> USE DEF run, history, count
<1>1. /\ unit' = [v \in DOMAIN unit \cup {u} |-> IF v = u THEN result[u] ELSE unit[v]]
      /\ UNCHANGED <<compose, project, pod, loaded, result, notes, made, pc, exit, source>>
      /\ pc = "write" /\ todo' = todo \ {u} /\ open' = {} /\ u \in open
      /\ project \in Projects /\ source \in Accepted(project) /\ pod \in PodFlags
      /\ result = Output(project, source, pod) /\ made[project] = NoRun
      /\ u \in DOMAIN result
  BY DEF WriteUnit, Put, Inv, RunInv, TypeInv
<1>2. result[u].project = project  BY <1>1, UnitsAreOnes
<1>3. TypeInv'
  <2>1. \A v \in DOMAIN unit' : unit'[v] # Truncated => unit'[v].project \in Projects
    BY <1>1, <1>2 DEF Inv, TypeInv
  <2>2. DOMAIN result' \ todo' \subseteq DOMAIN unit'
    BY <1>1 DEF Inv, TypeInv
  <2> QED  BY <1>1, <2>1, <2>2 DEF Inv, TypeInv
<1>4. RunInv'  BY <1>1 DEF Inv, RunInv, TypeInv
<1>5. MadeInv'  BY <1>1, SameMade DEF Inv
<1>6. Writes(project, u, result[u])  BY <1>1 DEF Writes
<1>7. project \notin Converted  BY <1>1 DEF Converted
<1>8. Converted' = Converted  BY <1>1 DEF Converted
<1>9. DirInv'
  <2> SUFFICES ASSUME NEW p \in Converted, NEW v \in DOMAIN Output(p, made[p].compose, made[p].pod)
               PROVE  /\ v \in DOMAIN unit'
                      /\ \/ unit'[v] = Output(p, made[p].compose, made[p].pod)[v]
                         \/ unit'[v] = Truncated
                         \/ \E q \in Projects \ {p} : Writes(q, v, unit'[v])
    <3>1. \A p \in Converted : Holds(p, made[p].compose, made[p].pod)'
      BY <1>1 DEF Holds
    <3> QED  BY <1>1, <1>8, <3>1 DEF DirInv
  <2>1. CASE v = u  BY <1>1, <1>6, <1>7, <2>1
  <2>2. CASE v # u  BY <1>1, <2>2 DEF Inv, DirInv, Holds
  <2> QED  BY <2>1, <2>2
<1> QED  BY <1>3, <1>4, <1>5, <1>9 DEF Inv

\* A run that ends well has written every unit of its conversion.
LEMMA FinishStep ==
  ASSUME Inv, Finish
  PROVE  Inv'
<1> USE DEF run, history, count, Stop
<1>1. /\ UNCHANGED <<compose, unit, project, pod, loaded, result, notes, todo, open, source>>
      /\ made' = [made EXCEPT ![project] = [compose |-> source, pod |-> pod]]
      /\ pc = "write" /\ pc' = "done" /\ exit' = Worst(notes) /\ todo = {}
      /\ project \in Projects /\ source \in Accepted(project) /\ pod \in PodFlags
      /\ result = Output(project, source, pod)
      /\ \A u \in DOMAIN result : u \in DOMAIN unit /\ unit[u] = result[u]
  BY DEF Finish, Inv, RunInv, TypeInv
<1>2. Worst(notes) \in Statuses  BY StatusesAre
<1>3. TypeInv'  BY <1>1, <1>2 DEF Inv, TypeInv
<1>4. RunInv'  BY <1>1 DEF Inv, RunInv
<1>5. /\ made'[project] = [compose |-> source, pod |-> pod]
      /\ \A p \in Projects \ {project} : made'[p] = made[p]
      /\ made' = [p \in Projects |-> made'[p]]
  BY <1>1 DEF Inv, MadeInv
<1>6. Converted' \subseteq Converted \cup {project}
  BY <1>5 DEF Converted
<1>7. MadeInv'  BY <1>1, <1>5, <1>6 DEF Inv, MadeInv
<1>8. Holds(project, source, pod)'
  BY <1>1 DEF Holds
<1>9. DirInv'
  <2> SUFFICES ASSUME NEW p \in Converted'
               PROVE  Holds(p, made[p].compose, made[p].pod)'
    BY DEF DirInv
  <2>1. CASE p = project  BY <1>5, <1>8, <1>1, <2>1
  <2>2. CASE p # project
    <3>1. p \in Converted /\ made'[p] = made[p]  BY <1>5, <1>6, <2>2 DEF Converted
    <3>2. Holds(p, made[p].compose, made[p].pod)  BY <3>1 DEF Inv, DirInv
    <3> QED  BY <1>1, <3>1, <3>2 DEF Holds
  <2> QED  BY <2>1, <2>2
<1> QED  BY <1>3, <1>4, <1>7, <1>9 DEF Inv

\* Every step preserves the invariant.
LEMMA InvStep == Inv /\ [Next]_vars => Inv'
BY QuietSteps, OpenStep, WriteStep, FinishStep DEF Next

\* It holds throughout.
LEMMA InvHolds == Spec => []Inv
BY InitInv, InvStep, PTL DEF Spec

-----------------------------------------------------------------------------
(* The theorems.                                                           *)

\* Every unit in the directory is truncated or some project's, and a run writes
\* one file at a time, whoever edits the compose files meanwhile.
THEOREM ConvertTyped == Spec => []TypeOK
<1>1. Inv => TypeOK
  <2> SUFFICES ASSUME Inv PROVE TypeOK
    OBVIOUS
  <2>1. exit \in {0, 1, 2, SIGKILL}  BY DEF Inv, TypeInv, Statuses
  <2>2. open \subseteq todo  BY DEF Inv, TypeInv
  <2>3. Cardinality(open) <= 1
    <3>1. open = {} \/ \E u : open = {u}  BY DEF Inv, TypeInv
    <3>2. Cardinality(open) = 0 \/ Cardinality(open) = 1
      BY <3>1, FS_EmptySet, FS_Singleton
    <3> QED  BY <3>2
  <2>4. pc \in {"load", "convert", "write", "done"}  BY DEF Inv, TypeInv
  <2> QED  BY <2>1, <2>2, <2>3, <2>4 DEF Inv, TypeInv, TypeOK
<1> QED  BY <1>1, InvHolds, PTL

\* A service loses nothing that its networks and volumes are translated from.
LEMMA KeepsTheService ==
  ASSUME NEW p, NEW c, NEW s \in Active(c)
  PROVE  /\ normalise(p, c).services[s].name = c.services[s].name
         /\ normalise(p, c).services[s].needs = c.services[s].needs
         /\ Network(p, normalise(p, c), normalise(p, c).services[s])
              = Network(p, normalise(p, c), c.services[s])
         /\ renderMount(normalise(p, c), normalise(p, c).services[s])
              = renderMount(normalise(p, c), c.services[s])
<1> DEFINE prj == normalise(p, c)
           svc == c.services[s]
           had == prj.services[s]
<1>1. /\ had.name = svc.name /\ had.nets = svc.nets /\ had.volumes = svc.volumes
      /\ had.needs = svc.needs /\ had.mode = svc.mode
  BY Normalised
<1>2. networkRef(p, prj, had) = networkRef(p, prj, svc)  BY <1>1 DEF networkRef
<1>3. Network(p, prj, had) = Network(p, prj, svc)  BY <1>1, <1>2 DEF Network
<1>4. renderMount(prj, had) = renderMount(prj, svc)  BY <1>1 DEF renderMount
<1> QED  BY <1>1, <1>3, <1>4

\* A service's container, told from its compose file: without --pod and with it.
Alone(p, c, s) ==
  Content(p, <<"container", c.services[s].name>>,
          Network(p, normalise(p, c), c.services[s]).refs
            \cup renderMount(normalise(p, c), c.services[s]).refs,
          Network(p, normalise(p, c), c.services[s]).real
            \cup renderMount(normalise(p, c), c.services[s]).real,
          {Unit(d, "container") : d \in c.services[s].needs})

Member(p, c, s) ==
  Content(p, <<"container", c.services[s].name>>,
          {Unit(p, "pod")} \cup renderMount(normalise(p, c), c.services[s]).refs,
          renderMount(normalise(p, c), c.services[s]).real,
          {Unit(d, "container") : d \in c.services[s].needs})

\* Which is what conversion makes of it.
LEMMA ContainerIs ==
  ASSUME NEW p, NEW c, NEW s \in Active(c)
  PROVE  /\ generateContainer(p, normalise(p, c), normalise(p, c).services[s], FALSE)
              = Alone(p, c, s)
         /\ generateContainer(p, normalise(p, c), normalise(p, c).services[s], TRUE)
              = Member(p, c, s)
<1> DEFINE prj == normalise(p, c)
           svc == c.services[s]
           had == prj.services[s]
<1>1. /\ had.name = svc.name /\ had.needs = svc.needs
      /\ Network(p, prj, had) = Network(p, prj, svc)
      /\ renderMount(prj, had) = renderMount(prj, svc)
  BY KeepsTheService
<1>2. generateContainer(p, prj, had, FALSE)
        = Content(p, <<"container", had.name>>,
                  Network(p, prj, had).refs \cup renderMount(prj, had).refs,
                  Network(p, prj, had).real \cup renderMount(prj, had).real,
                  {Unit(d, "container") : d \in had.needs})
  BY DEF generateContainer
<1>3. generateContainer(p, prj, had, TRUE)
        = Content(p, <<"container", had.name>>, {Unit(p, "pod")} \cup renderMount(prj, had).refs,
                  {} \cup renderMount(prj, had).real, {Unit(d, "container") : d \in had.needs})
  BY DEF generateContainer
<1>4. {} \cup renderMount(prj, had).real = renderMount(prj, had).real  OBVIOUS
<1>5. generateContainer(p, prj, had, FALSE) = Alone(p, c, s)  BY <1>1, <1>2 DEF Alone
<1>6. generateContainer(p, prj, had, TRUE) = Member(p, c, s)  BY <1>1, <1>3, <1>4 DEF Member
<1> QED  BY <1>5, <1>6

\* A container refers to units of its own conversion, and requires such.
LEMMA RefersToOutput ==
  ASSUME NEW p \in Projects, NEW c \in Accepted(p), NEW flag \in BOOLEAN, NEW s \in Active(c)
  PROVE  LET k == Output(p, c, flag)[Unit(s, "container")] IN
         k.refs \cup k.needs \subseteq DOMAIN Output(p, c, flag)
<1> DEFINE prj == normalise(p, c)
           svc == c.services[s]
           out == Output(p, c, flag)
           k   == out[Unit(s, "container")]
<1>1. k = generateContainer(p, prj, prj.services[s], flag)  BY UnitsOf
<1>2. Consistent(c)  BY ComposeAssumption DEF Accepted
<1>3. {Unit(d, "container") : d \in svc.needs} \subseteq DOMAIN out
  <2>1. svc.needs \subseteq Active(c)  BY <1>2 DEF Consistent
  <2>2. \A d \in Active(c) : Unit(d, "container") \in DOMAIN out  BY UnitsOf
  <2> QED  BY <2>1, <2>2
<1>4. renderMount(prj, svc).refs \subseteq DOMAIN out
  <2>1. Owned(prj.volumes) = Owned(c.volumes)  BY Normalised
  <2>2. \A v \in Owned(c.volumes) : Unit(v, "volume") \in DOMAIN out  BY UnitsOf
  <2> QED  BY <2>1, <2>2 DEF renderMount
<1>5. CASE flag = FALSE
  <2>1. networkRef(p, prj, svc).refs \subseteq DOMAIN out
    <3>1. prj.networks = c.networks  BY Normalised
    <3>2. \A n \in Owned(c.networks) : networkUnit(p, n) \in DOMAIN out  BY <1>5, UnitsOf
    <3> QED  BY <3>1, <3>2 DEF networkRef
  <2>2. Len(svc.mode) = 2 => Unit(svc.mode[2], "container") \in DOMAIN out
    <3>1. Len(svc.mode) = 2 => svc.mode[2] \in Active(c)  BY <1>2 DEF Consistent
    <3> QED  BY <3>1, UnitsOf
  <2>3. Network(p, prj, svc).refs \subseteq DOMAIN out  BY <2>1, <2>2 DEF Network
  <2>4. k = Alone(p, c, s)  BY <1>1, <1>5, ContainerIs
  <2> HIDE DEF out, k
  <2>5. /\ k.refs = Network(p, prj, svc).refs \cup renderMount(prj, svc).refs
        /\ k.needs = {Unit(d, "container") : d \in svc.needs}
    BY <2>4 DEF Alone, Content
  <2>6. k.refs \cup k.needs \subseteq DOMAIN out  BY <1>3, <1>4, <2>3, <2>5
  <2> QED  BY <2>6 DEF out, k
<1>6. CASE flag = TRUE
  <2>1. Unit(p, "pod") \in DOMAIN out  BY <1>6, UnitsOf
  <2>2. k = Member(p, c, s)  BY <1>1, <1>6, ContainerIs
  <2> HIDE DEF out, k
  <2>3. /\ k.refs = {Unit(p, "pod")} \cup renderMount(prj, svc).refs
        /\ k.needs = {Unit(d, "container") : d \in svc.needs}
    BY <2>2 DEF Member, Content
  <2>4. k.refs \cup k.needs \subseteq DOMAIN out  BY <1>3, <1>4, <2>1, <2>3
  <2> QED  BY <2>4 DEF out, k
<1> QED  BY <1>5, <1>6

\* The containers of a finished conversion refer to and require only units of
\* the directory, whatever other projects, later runs and failures have done.
THEOREM ReferencesResolve == Spec => []Resolves
<1>1. Inv => Resolves
  <2> SUFFICES ASSUME Inv, NEW p \in Converted, NEW s \in Kept(p)
               PROVE  ContainerOf(s).refs \cup ContainerOf(s).needs \subseteq DOMAIN unit
    BY DEF Resolves
  <2> DEFINE c == made[p].compose
             flag == made[p].pod
  <2>1. /\ p \in Projects /\ c \in Accepted(p) /\ s \in Active(c) /\ flag \in BOOLEAN
        /\ ContainerOf(s) = Output(p, c, flag)[Unit(s, "container")]
    BY KeptIsOwn, UnitsOf, PodFlagsAssumption
  <2>2. DOMAIN Output(p, c, flag) \subseteq DOMAIN unit  BY DEF Inv, DirInv, Holds
  <2> QED  BY <2>1, <2>2, RefersToOutput
<1> QED  BY <1>1, InvHolds, PTL

-----------------------------------------------------------------------------
(* What a run leaves behind.                                               *)

LeftAsSaid ==
  \/ LeftBy(DOMAIN result, {})
  \/ \E u \in DOMAIN result : LeftBy(Ahead(u), {}) \/ LeftBy(Ahead(u), {u})

Complete == source # Invalid =>
  \A s \in DOMAIN source.services : Unit(s, "container") \in DOMAIN result

\* The units that are written come before those that are not, and the open one is
\* the next.
InOrder ==
  /\ \A u \in DOMAIN result \ todo, v \in todo : Rank(u) < Rank(v)
  /\ \A u \in open : First(u)

OutcomeInv ==
  /\ unit = [u \in DOMAIN unit |-> unit[u]] /\ before = [u \in DOMAIN before |-> before[u]]
  /\ pc \in {"load", "convert"} => result = Empty /\ unit = before
  /\ pc = "write" => ~dry /\ LeftBy(DOMAIN result \ todo, open) /\ InOrder
  /\ pc = "done" =>
       /\ LeftAsSaid
       /\ exit \in {0, 1} => IF dry THEN unit = before ELSE LeftBy(DOMAIN result, {})
       /\ exit = 0 => Complete

\* A conversion's units have an order.
LEMMA Ranked ==
  ASSUME NEW p \in Projects, NEW c \in Accepted(p), NEW flag \in PodFlags
  PROVE  \A u, v \in DOMAIN Output(p, c, flag) :
           Rank(u) \in Nat /\ (Rank(u) = Rank(v) => u = v)
BY RankAssumption DEF Accepted, Output, Units

\* One of the units to be written is the first of them.
LEMMA OneIsFirst ==
  ASSUME NEW p \in Projects, NEW c \in Accepted(p), NEW flag \in PodFlags,
         NEW S \in SUBSET DOMAIN Output(p, c, flag), S # {}
  PROVE  \E u \in S : \A v \in S : Rank(u) <= Rank(v)
<1> DEFINE R == {Rank(u) : u \in S}
<1>1. \A u \in S : Rank(u) \in Nat  BY Ranked
<1>2. R \subseteq Nat /\ R # {}  BY <1>1
<1> HIDE DEF R
<1>3. PICK x \in R : \A y \in R : ~(<<y, x>> \in OpToRel(<, Nat))
  BY <1>2, NatLessThanWellFounded, WFMin
<1>4. \A y \in R : ~(y < x)  BY <1>2, <1>3 DEF OpToRel
<1>5. PICK u \in S : x = Rank(u)  BY DEF R
<1>6. \A v \in S : ~(Rank(v) < Rank(u))  BY <1>4, <1>5 DEF R
<1> QED  BY <1>1, <1>6

\* A run that stops half way has written a beginning of its units.
LEMMA HalfWay ==
  ASSUME Inv, pc = "write", LeftBy(DOMAIN result \ todo, open), InOrder
  PROVE  LeftAsSaid
<1>1. /\ project \in Projects /\ source \in Accepted(project) /\ pod \in PodFlags
      /\ result = Output(project, source, pod) /\ todo \subseteq DOMAIN result
      /\ open = {} \/ \E u \in todo : open = {u}
  BY DEF Inv, RunInv, TypeInv
<1>2. CASE todo = {}
  <2>1. DOMAIN result \ todo = DOMAIN result /\ open = {}  BY <1>1, <1>2
  <2> QED  BY <2>1 DEF LeftAsSaid
<1>3. CASE todo # {}
  <2>1. PICK u \in todo : \A v \in todo : Rank(u) <= Rank(v)  BY <1>1, <1>3, OneIsFirst
  <2>2. \A v, w \in DOMAIN result :
          Rank(v) \in Nat /\ Rank(w) \in Nat /\ (Rank(v) = Rank(w) => v = w)
    BY <1>1, Ranked
  <2>3. Ahead(u) = DOMAIN result \ todo
    BY <1>1, <2>1, <2>2 DEF Ahead, InOrder
  <2>4. open = {} \/ open = {u}
    <3> SUFFICES ASSUME NEW w \in todo, open = {w} PROVE w = u
      BY <1>1
    <3>1. First(w)  BY DEF InOrder
    <3> QED  BY <1>1, <2>1, <2>2, <3>1 DEF First
  <2> QED  BY <1>1, <2>3, <2>4 DEF LeftAsSaid
<1> QED  BY <1>2, <1>3

\* No unit comes before the first one.
LEMMA NoneAhead ==
  ASSUME NEW p \in Projects, NEW c \in Accepted(p), NEW flag \in PodFlags,
         DOMAIN Output(p, c, flag) # {}
  PROVE  \E u \in DOMAIN Output(p, c, flag) :
           {v \in DOMAIN Output(p, c, flag) : Rank(v) < Rank(u)} = {}
<1>1. PICK u \in DOMAIN Output(p, c, flag) :
        \A v \in DOMAIN Output(p, c, flag) : Rank(u) <= Rank(v)
  BY OneIsFirst
<1> QED  BY <1>1, Ranked

\* An exit status of 0 means that no service was left out.
LEMMA CleanIsComplete ==
  ASSUME NEW p \in Projects, NEW c \in Accepted(p), NEW flag,
         Worst(Notes(normalise(p, c), flag)) = 0
  PROVE  \A s \in DOMAIN c.services : Unit(s, "container") \in DOMAIN Output(p, c, flag)
<1> SUFFICES ASSUME NEW s \in DOMAIN c.services
             PROVE  Unit(s, "container") \in DOMAIN Output(p, c, flag)
  OBVIOUS
<1>1. s \in Active(c)
  <2> SUFFICES ASSUME s \notin Active(c) PROVE FALSE
    OBVIOUS
  <2>1. Note(s, "profiles", "warning") \in Unsupported(c)  BY DEF Unsupported
  <2>2. normalise(p, c).unsupported = Unsupported(c)  BY Normalised
  <2>3. Note(s, "profiles", "warning") \in Notes(normalise(p, c), flag)
    BY <2>1, <2>2 DEF Notes
  <2>4. Note(s, "profiles", "warning").severity = "warning"  BY DEF Note
  <2> QED  BY <2>3, <2>4 DEF Worst
<1> QED  BY <1>1, UnitsOf

\* Initially there is nothing.
LEMMA InitOutcome == Init => OutcomeInv
<1> SUFFICES ASSUME Init PROVE OutcomeInv
  OBVIOUS
<1>1. DOMAIN Empty = {} /\ Empty = [u \in DOMAIN Empty |-> Empty[u]]  BY DEF Empty
<1>2. unit = Empty /\ before = Empty /\ result = Empty /\ pc = "done" /\ source = Invalid
  BY DEF Init
<1>3. LeftBy(DOMAIN result, {})
  <2>1. Empty = [u \in DOMAIN Empty \cup DOMAIN Empty \cup {} |->
                   IF u \in DOMAIN Empty THEN Empty[u] ELSE IF u \in {} THEN Truncated ELSE Empty[u]]
    BY <1>1 DEF Empty
  <2> QED  BY <1>2, <2>1 DEF LeftBy
<1> QED  BY <1>1, <1>2, <1>3 DEF OutcomeInv, LeftAsSaid, Complete

\* Nothing but a unit's file changes what the directory holds.
LEMMA SameOutcome ==
  ASSUME UNCHANGED <<unit, before, result>>
  PROVE  /\ \A W, T : LeftBy(W, T)' <=> LeftBy(W, T)
         /\ LeftAsSaid' <=> LeftAsSaid
BY DEF LeftAsSaid, LeftBy, Ahead

\* Every step keeps its promise.
LEMMA OutcomeStep == Inv /\ OutcomeInv /\ [Next]_vars => OutcomeInv'
<1> SUFFICES ASSUME Inv, OutcomeInv, [Next]_vars PROVE OutcomeInv'
  OBVIOUS
<1> USE DEF run, history, count, Stop
<1>1. ASSUME NEW p \in Projects, Edit(p) PROVE OutcomeInv'
  <2>1. UNCHANGED <<unit, before, result, pc, todo, open, exit, dry, source>>
    BY <1>1 DEF Edit
  <2>2. InOrder' <=> InOrder  BY <2>1 DEF InOrder, First
  <2> QED  BY <2>1, <2>2, SameOutcome DEF OutcomeInv, Complete
<1>2. ASSUME NEW p \in Projects, NEW flag \in PodFlags, NEW dryRun \in BOOLEAN,
             Start(p, flag, dryRun)
      PROVE  OutcomeInv'
  BY <1>2 DEF Start, OutcomeInv
<1>3. CASE Load
  <2>1. UNCHANGED <<unit, before, result, todo, open, dry>> /\ pc = "load"  BY <1>3 DEF Load
  <2>2. unit = before /\ result = Empty /\ DOMAIN result = {}
    BY <2>1 DEF OutcomeInv, Empty
  <2>3. LeftBy(DOMAIN result, {})  BY <2>2 DEF LeftBy, OutcomeInv
  <2>4. LeftAsSaid  BY <2>3 DEF LeftAsSaid
  <2>5. pc' = "convert" \/ (pc' = "done" /\ exit' = 2)  BY <1>3 DEF Load
  <2> QED  BY <2>1, <2>2, <2>4, <2>5, SameOutcome DEF OutcomeInv
<1>4. CASE Convert
  <2>1. /\ UNCHANGED <<unit, before, open, dry, source>> /\ pc = "convert"
        /\ result' = Units(project, loaded, pod)
        /\ UNCHANGED <<project, pod>>
    BY <1>4 DEF Convert
  <2>2. /\ unit = before /\ before = [u \in DOMAIN before |-> before[u]]
        /\ unit' = before' /\ before' = [u \in DOMAIN before' |-> before'[u]]
    BY <2>1 DEF OutcomeInv
  <2>3. /\ project \in Projects /\ source \in Accepted(project) /\ pod \in PodFlags
        /\ loaded = normalise(project, source) /\ open = {}
        /\ result' = Output(project, source, pod)
    BY <2>1 DEF Inv, RunInv, TypeInv, Output
  <2>4. CASE dry
    <3>1. pc' = "done" /\ exit' = Worst(Notes(loaded, pod))  BY <1>4, <2>4 DEF Convert
    <3>2. LeftAsSaid'
      <4>1. LeftBy({}, {})'  BY <2>2 DEF LeftBy
      <4>2. CASE DOMAIN result' = {}  BY <4>1, <4>2 DEF LeftAsSaid
      <4>3. CASE DOMAIN result' # {}
        <5>1. \E u \in DOMAIN result' : {v \in DOMAIN result' : Rank(v) < Rank(u)} = {}
          BY <2>3, <4>3, NoneAhead
        <5> QED  BY <4>1, <5>1 DEF LeftAsSaid, Ahead
      <4> QED  BY <4>2, <4>3
    <3>3. exit' = 0 => Complete'
      BY <2>1, <2>3, <3>1, CleanIsComplete DEF Complete
    <3> QED  BY <2>1, <2>2, <2>4, <3>1, <3>2, <3>3 DEF OutcomeInv
  <2>5. CASE ~dry
    <3>1. pc' = "write" /\ todo' = DOMAIN result' /\ open' = {} /\ ~dry'
      BY <1>4, <2>1, <2>3, <2>5 DEF Convert
    <3>2. LeftBy(DOMAIN result \ todo, open)'  BY <2>2, <3>1 DEF LeftBy
    <3>3. InOrder'  BY <3>1 DEF InOrder
    <3> QED  BY <2>2, <3>1, <3>2, <3>3 DEF OutcomeInv
  <2> QED  BY <2>4, <2>5
<1>5. ASSUME NEW u \in todo, OpenUnit(u) PROVE OutcomeInv'
  <2>1. /\ unit' = [v \in DOMAIN unit \cup {u} |-> IF v = u THEN Truncated ELSE unit[v]]
        /\ UNCHANGED <<before, result, todo, dry>> /\ open = {} /\ open' = {u} /\ First(u)
        /\ pc = "write" /\ pc' = "write"
    BY <1>5 DEF OpenUnit, Put
  <2>2. LeftBy(DOMAIN result \ todo, {}) /\ InOrder  BY <2>1 DEF OutcomeInv
  <2>3. LeftBy(DOMAIN result \ todo, {u})'  BY <2>1, <2>2 DEF LeftBy
  <2>4. InOrder'  BY <2>1, <2>2 DEF InOrder, First
  <2>5. unit' = [v \in DOMAIN unit' |-> unit'[v]]  BY <2>1
  <2>6. before' = [v \in DOMAIN before' |-> before'[v]]  BY <2>1 DEF OutcomeInv
  <2> QED  BY <2>1, <2>3, <2>4, <2>5, <2>6 DEF OutcomeInv, LeftBy
<1>6. ASSUME NEW u \in todo, WriteUnit(u) PROVE OutcomeInv'
  <2>1. /\ unit' = [v \in DOMAIN unit \cup {u} |-> IF v = u THEN result[u] ELSE unit[v]]
        /\ UNCHANGED <<before, result, dry>> /\ todo' = todo \ {u} /\ open' = {}
        /\ pc = "write" /\ pc' = "write" /\ u \in open
    BY <1>6 DEF WriteUnit, Put
  <2>2. /\ open = {u} /\ u \in DOMAIN result /\ todo \subseteq DOMAIN result
        /\ project \in Projects /\ source \in Accepted(project) /\ pod \in PodFlags
        /\ result = Output(project, source, pod)
    BY <2>1 DEF Inv, TypeInv, RunInv
  <2>3. LeftBy(DOMAIN result \ todo, {u}) /\ InOrder /\ First(u)
    BY <2>1, <2>2 DEF OutcomeInv, InOrder
  <2>4. DOMAIN result \ todo' = (DOMAIN result \ todo) \cup {u}  BY <2>1, <2>2
  <2>5. LeftBy(DOMAIN result \ todo, open)'
    BY <2>1, <2>3, <2>4 DEF LeftBy
  <2>6. \A v, w \in DOMAIN result :
          Rank(v) \in Nat /\ Rank(w) \in Nat /\ (Rank(v) = Rank(w) => v = w)
    BY <2>2, Ranked
  <2>7. \A w \in todo' : Rank(u) < Rank(w)
    BY <2>1, <2>2, <2>3, <2>6 DEF First
  <2>8. InOrder'
    BY <2>1, <2>3, <2>4, <2>7 DEF InOrder
  <2>9. unit' = [v \in DOMAIN unit' |-> unit'[v]]  BY <2>1
  <2>10. before' = [v \in DOMAIN before' |-> before'[v]]  BY <2>1 DEF OutcomeInv
  <2> QED  BY <2>1, <2>5, <2>8, <2>9, <2>10 DEF OutcomeInv
<1>7. CASE Finish
  <2>1. /\ UNCHANGED <<unit, before, result, todo, open, dry, source>> /\ todo = {}
        /\ pc = "write" /\ pc' = "done" /\ exit' = Worst(notes)
    BY <1>7 DEF Finish
  <2>2. /\ open = {} /\ project \in Projects /\ source \in Accepted(project)
        /\ result = Output(project, source, pod) /\ notes = Notes(normalise(project, source), pod)
    BY <2>1 DEF Inv, TypeInv, RunInv
  <2>3. DOMAIN result \ todo = DOMAIN result  BY <2>1
  <2>4. LeftBy(DOMAIN result, {})  BY <2>1, <2>2, <2>3 DEF OutcomeInv
  <2>5. LeftAsSaid  BY <2>4 DEF LeftAsSaid
  <2>6. exit' = 0 => Complete'  BY <2>1, <2>2, CleanIsComplete DEF Complete
  <2>7. ~dry'  BY <2>1 DEF OutcomeInv
  <2> QED  BY <2>1, <2>4, <2>5, <2>6, <2>7, SameOutcome DEF OutcomeInv
<1>8. CASE WriteFails \/ Kill
  <2>1. /\ UNCHANGED <<unit, before, result>> /\ pc' = "done" /\ exit' \notin {0, 1}
        /\ pc # "done"
    BY <1>8 DEF WriteFails, Kill, SIGKILL
  <2>2. LeftAsSaid
    <3>1. CASE pc = "write"  BY <3>1, HalfWay DEF OutcomeInv
    <3>2. CASE pc \in {"load", "convert"}
      <4>1. unit = before /\ result = Empty /\ DOMAIN result = {}  BY <3>2 DEF OutcomeInv, Empty
      <4>2. LeftBy(DOMAIN result, {})  BY <4>1 DEF LeftBy, OutcomeInv
      <4> QED  BY <4>2 DEF LeftAsSaid
    <3> QED  BY <2>1, <3>1, <3>2 DEF Inv, TypeInv
  <2> QED  BY <2>1, <2>2, SameOutcome DEF OutcomeInv
<1>9. CASE UNCHANGED vars
  <2>1. UNCHANGED <<unit, before, result, pc, todo, open, exit, dry, source>>
    BY <1>9 DEF vars
  <2>2. InOrder' <=> InOrder  BY <2>1 DEF InOrder, First
  <2> QED  BY <2>1, <2>2, SameOutcome DEF OutcomeInv, Complete
<1> QED  BY <1>1, <1>2, <1>3, <1>4, <1>5, <1>6, <1>7, <1>8, <1>9 DEF Next

\* A directory holds what it held and a beginning of the units, at most the next
\* one torn, whenever a run is stopped; the whole conversion after an exit status
\* of 0 or 1, or nothing new with --dry-run; and after 0 a unit for every service.
THEOREM RunEndsAsItSays == Spec => []EndsAsItSays
<1>1. Inv /\ OutcomeInv => EndsAsItSays
  <2> SUFFICES ASSUME Inv, OutcomeInv PROVE EndsAsItSays
    OBVIOUS
  <2>1. LeftAsSaid
    <3>1. CASE pc = "write"  BY <3>1, HalfWay DEF OutcomeInv
    <3>2. CASE pc \in {"load", "convert"}
      <4>1. unit = before /\ result = Empty /\ DOMAIN result = {}  BY <3>2 DEF OutcomeInv, Empty
      <4>2. LeftBy(DOMAIN result, {})  BY <4>1 DEF LeftBy, OutcomeInv
      <4> QED  BY <4>2 DEF LeftAsSaid
    <3>3. CASE pc = "done"  BY <3>3 DEF OutcomeInv
    <3> QED  BY <3>1, <3>2, <3>3 DEF Inv, TypeInv
  <2> QED  BY <2>1 DEF OutcomeInv, LeftAsSaid, Complete, EndsAsItSays
<1>2. Inv /\ OutcomeInv /\ [Next]_vars => OutcomeInv'  BY OutcomeStep
<1> QED  BY <1>1, <1>2, InitOutcome, InvHolds, PTL DEF Spec

-----------------------------------------------------------------------------
(* Isolation.                                                              *)

\* What networks and volumes define.
LEMMA ObjectsOf ==
  /\ \A p, n : generateNetwork(p, n).object = <<"network", n.name>>
  /\ \A p, v : generateVolume(p, v).object = <<"volume", v.name>>
BY DEF generateNetwork, generateVolume, Content

\* A conversion without --pod gives a service what it is to get, its references
\* followed through what the conversion writes.
LEMMA GivesWhatIsMeant ==
  ASSUME NEW p \in Projects, NEW c \in Accepted(p), NEW s \in Active(c)
  PROVE  LET out == Output(p, c, FALSE)
             k   == out[Unit(s, "container")]
         IN  k.real \cup {out[r].object : r \in k.refs} = Given(p, c, c.services[s])
<1> DEFINE prj == normalise(p, c)
           svc == c.services[s]
           out == Output(p, c, FALSE)
           k   == out[Unit(s, "container")]
           net == Network(p, prj, svc)
           mnt == renderMount(prj, svc)
           nets == {<<"network", c.networks[n].name>> : n \in svc.nets}
           vols == {<<"volume", ObjectName(p, v, c.volumes[v])>> : v \in svc.volumes}
           Through(x) == x.real \cup {out[r].object : r \in x.refs}
<1>1. k.refs = net.refs \cup mnt.refs /\ k.real = net.real \cup mnt.real
  <2>1. k = Alone(p, c, s)  BY UnitsOf, ContainerIs
  <2> HIDE DEF out, k
  <2> QED  BY <2>1 DEF Alone, Content
<1>2. /\ svc.nets \subseteq DOMAIN c.networks /\ svc.volumes \subseteq DOMAIN c.volumes
      /\ svc.mode # <<>> => svc.nets = {}
      /\ Len(svc.mode) = 2 => svc.mode[2] \in Active(c)
  BY ComposeAssumption DEF Consistent, Accepted
<1>3. Through(mnt) = vols
  <2>1. \A v \in svc.volumes \cap Owned(c.volumes) :
          out[Unit(v, "volume")].object = <<"volume", ObjectName(p, v, c.volumes[v])>>
    <3> SUFFICES ASSUME NEW v \in svc.volumes \cap Owned(c.volumes)
                 PROVE  out[Unit(v, "volume")].object
                          = <<"volume", ObjectName(p, v, c.volumes[v])>>
      OBVIOUS
    <3>1. out[Unit(v, "volume")] = generateVolume(p, prj.volumes[v])  BY UnitsOf
    <3>2. prj.volumes[v].name = ObjectName(p, v, c.volumes[v])  BY <1>2, Normalised
    <3> HIDE DEF out
    <3> QED  BY <3>1, <3>2, ObjectsOf
  <2>2. \A v \in svc.volumes : prj.volumes[v].name = ObjectName(p, v, c.volumes[v])
    BY <1>2, Normalised
  <2>3. Owned(prj.volumes) = Owned(c.volumes) /\ External(prj.volumes) = External(c.volumes)
    BY Normalised
  <2>4. mnt.refs = {Unit(v, "volume") : v \in svc.volumes \cap Owned(c.volumes)}
        /\ mnt.real = {<<"volume", ObjectName(p, v, c.volumes[v])>> :
                         v \in svc.volumes \cap External(c.volumes)}
    BY <2>2, <2>3 DEF renderMount
  <2>5. svc.volumes = (svc.volumes \cap Owned(c.volumes)) \cup (svc.volumes \cap External(c.volumes))
    BY <1>2 DEF Owned, External
  <2>6. {out[r].object : r \in mnt.refs}
          = {<<"volume", ObjectName(p, v, c.volumes[v])>> : v \in svc.volumes \cap Owned(c.volumes)}
    <3> DEFINE S == svc.volumes \cap Owned(c.volumes)
               Ref(v) == Unit(v, "volume")
               At(r)  == out[r].object
               Obj(v) == <<"volume", ObjectName(p, v, c.volumes[v])>>
    <3>1. mnt.refs = {Ref(v) : v \in S} /\ \A v \in S : At(Ref(v)) = Obj(v)  BY <2>1, <2>4
    <3> HIDE DEF mnt, S, Ref, At, Obj
    <3>2. {At(r) : r \in mnt.refs} = {Obj(v) : v \in S}  BY <3>1
    <3> QED  BY <3>2 DEF S, At, Obj
  <2> HIDE DEF mnt, out, svc
  <2> QED  BY <2>4, <2>5, <2>6
<1>4. Through(networkRef(p, prj, svc)) = nets
  <2>1. \A n \in svc.nets \cap Owned(c.networks) :
          out[networkUnit(p, n)].object = <<"network", c.networks[n].name>>
    <3> SUFFICES ASSUME NEW n \in svc.nets \cap Owned(c.networks)
                 PROVE  out[networkUnit(p, n)].object = <<"network", c.networks[n].name>>
      OBVIOUS
    <3>1. out[networkUnit(p, n)] = generateNetwork(p, c.networks[n])  BY UnitsOf
    <3> HIDE DEF out
    <3> QED  BY <3>1, ObjectsOf
  <2>2. prj.networks = c.networks  BY Normalised
  <2>3. /\ networkRef(p, prj, svc).refs = {networkUnit(p, n) : n \in svc.nets \cap Owned(c.networks)}
        /\ networkRef(p, prj, svc).real = {<<"network", c.networks[n].name>> :
                                             n \in svc.nets \cap External(c.networks)}
    BY <2>2 DEF networkRef
  <2>4. svc.nets = (svc.nets \cap Owned(c.networks)) \cup (svc.nets \cap External(c.networks))
    BY <1>2 DEF Owned, External
  <2> DEFINE ref == networkRef(p, prj, svc)
  <2>5. {out[r].object : r \in ref.refs}
          = {<<"network", c.networks[n].name>> : n \in svc.nets \cap Owned(c.networks)}
    <3> DEFINE S == svc.nets \cap Owned(c.networks)
               Ref(n) == networkUnit(p, n)
               At(r)  == out[r].object
               Obj(n) == <<"network", c.networks[n].name>>
    <3>1. ref.refs = {Ref(n) : n \in S} /\ \A n \in S : At(Ref(n)) = Obj(n)  BY <2>1, <2>3
    <3> HIDE DEF ref, S, Ref, At, Obj
    <3>2. {At(r) : r \in ref.refs} = {Obj(n) : n \in S}  BY <3>1
    <3> QED  BY <3>2 DEF S, At, Obj
  <2> HIDE DEF ref, out, svc
  <2> QED  BY <2>3, <2>4, <2>5 DEF ref
<1>5. k.real \cup {out[r].object : r \in k.refs} = Through(net) \cup vols
  <2>1. {out[r].object : r \in k.refs}
          = {out[r].object : r \in net.refs} \cup {out[r].object : r \in mnt.refs}
    <3> HIDE DEF k, out, net, mnt
    <3> QED  BY <1>1
  <2> HIDE DEF k, out, net, mnt, vols
  <2> QED  BY <1>1, <1>3, <2>1
<1>6. CASE svc.mode = <<>>
  <2>1. net = networkRef(p, prj, svc)  BY <1>6 DEF Network
  <2>2. Given(p, c, svc) = nets \cup vols  BY <1>6 DEF Given
  <2>3. Through(net) = nets  BY <1>4, <2>1
  <2> QED  BY ONLY <1>5, <2>2, <2>3
<1>7. CASE svc.mode # <<>> /\ Len(svc.mode) = 2
  <2> DEFINE t == svc.mode[2]
  <2>1. net.refs = {Unit(t, "container")} /\ net.real = {}  BY <1>7 DEF Network
  <2>2. out[Unit(t, "container")].object = <<"container", c.services[t].name>>
    <3>1. t \in Active(c)  BY <1>2, <1>7
    <3> HIDE DEF t
    <3>2. out[Unit(t, "container")] = Alone(p, c, t)  BY <3>1, UnitsOf, ContainerIs
    <3> HIDE DEF out
    <3> QED  BY <3>2 DEF Alone, Content
  <2>3. Through(net) = {<<"container", c.services[t].name>>}
    <3> HIDE DEF t, out, net
    <3> QED  BY <2>1, <2>2
  <2>4. Given(p, c, svc) = vols \cup {<<"container", c.services[t].name>>}
    <3>1. nets = {}  BY <1>2, <1>7
    <3>2. Given(p, c, svc) = nets \cup vols \cup {<<"container", c.services[t].name>>}
      BY <1>7 DEF Given
    <3> QED  BY ONLY <3>1, <3>2
  <2> QED  BY ONLY <1>5, <2>3, <2>4
<1>8. CASE svc.mode # <<>> /\ Len(svc.mode) # 2
  <2>1. net.refs = {} /\ net.real = {<<"mode", svc.mode[1]>>}  BY <1>8 DEF Network
  <2>2. Through(net) = {<<"mode", svc.mode[1]>>}
    <3> HIDE DEF out, net
    <3> QED  BY <2>1
  <2>3. Given(p, c, svc) = vols \cup {<<"mode", svc.mode[1]>>}
    <3>1. nets = {}  BY <1>2, <1>8
    <3>2. Given(p, c, svc) = nets \cup vols \cup {<<"mode", svc.mode[1]>>}
      BY <1>8 DEF Given
    <3> QED  BY ONLY <3>1, <3>2
  <2> QED  BY ONLY <1>5, <2>2, <2>3
<1> QED  BY <1>6, <1>7, <1>8

\* Where no names meet, the names that conversion gives volumes tell apart what
\* compose's tell apart.
LEMMA NamesKeepApart ==
  ASSUME NEW p \in Projects, NEW c \in Accepted(p), Distinct(p, c),
         NEW v \in DOMAIN c.volumes, NEW w \in DOMAIN c.volumes
  PROVE  ObjectName(p, v, c.volumes[v]) = ObjectName(p, w, c.volumes[w])
           <=> c.volumes[v].name = c.volumes[w].name
<1> DEFINE Default(x) == ~c.volumes[x].external /\ c.volumes[x].name = DefaultName(p, x)
<1>1. \A x \in DOMAIN c.volumes :
        ObjectName(p, x, c.volumes[x]) = IF Default(x) THEN x ELSE c.volumes[x].name
  BY DEF ObjectName
<1>2. \A x \in DOMAIN c.volumes : Default(x) =>
        \A y \in DOMAIN c.volumes \ {x} : c.volumes[y].name \notin {x, DefaultName(p, x)}
  BY DEF Distinct, Owned, External
<1>3. CASE v = w  BY <1>3
<1>4. CASE v # w
  <2>1. CASE Default(v) /\ Default(w)
    <3>1. c.volumes[w].name # DefaultName(p, v)  BY <1>2, <1>4, <2>1
    <3> QED  BY <1>1, <1>4, <2>1, <3>1
  <2>2. CASE Default(v) /\ ~Default(w)
    <3>1. c.volumes[w].name # v /\ c.volumes[w].name # DefaultName(p, v)  BY <1>2, <1>4, <2>2
    <3> QED  BY <1>1, <2>2, <3>1
  <2>3. CASE ~Default(v) /\ Default(w)
    <3>1. c.volumes[v].name # w /\ c.volumes[v].name # DefaultName(p, w)  BY <1>2, <1>4, <2>3
    <3> QED  BY <1>1, <2>3, <3>1
  <2>4. CASE ~Default(v) /\ ~Default(w)  BY <1>1, <2>4
  <2> QED  BY <2>1, <2>2, <2>3, <2>4
<1> QED  BY <1>3, <1>4

\* What a service is given of kind "volume" are its volumes.
LEMMA VolumesGiven ==
  ASSUME NEW p, NEW c, NEW svc, NEW o
  PROVE  o \in Given(p, c, svc) /\ o[1] = "volume" <=>
           \E v \in svc.volumes : o = <<"volume", ObjectName(p, v, c.volumes[v])>>
<1> DEFINE nets == {<<"network", c.networks[n].name>> : n \in svc.nets}
           vols == {<<"volume", ObjectName(p, v, c.volumes[v])>> : v \in svc.volumes}
           mode == CASE svc.mode = <<>>   -> {}
                     [] Len(svc.mode) = 2 -> {<<"container", c.services[svc.mode[2]].name>>}
                     [] OTHER             -> {<<"mode", svc.mode[1]>>}
<1>1. Given(p, c, svc) = nets \cup vols \cup mode  BY DEF Given
<1>2. ASSUME o \in nets PROVE o[1] # "volume"
  <2>1. PICK n \in svc.nets : o = <<"network", c.networks[n].name>>  BY <1>2
  <2> QED  BY <2>1
<1>3. ASSUME o \in mode PROVE o[1] # "volume"
  <2>1. CASE svc.mode = <<>>  BY <1>3, <2>1
  <2>2. CASE svc.mode # <<>> /\ Len(svc.mode) = 2
    <3>1. o = <<"container", c.services[svc.mode[2]].name>>  BY <1>3, <2>2
    <3> QED  BY <3>1
  <2>3. CASE svc.mode # <<>> /\ Len(svc.mode) # 2
    <3>1. o = <<"mode", svc.mode[1]>>  BY <1>3, <2>3
    <3> QED  BY <3>1
  <2> QED  BY <2>1, <2>2, <2>3
<1>4. o \in vols => o[1] = "volume"  OBVIOUS
<1> HIDE DEF nets, mode
<1> QED  BY <1>1, <1>2, <1>3, <1>4

\* The services of a conversion without --pod that ended well use the networks
\* and network stacks compose gave them, by compose's names, and their volumes by
\* conversion's; where other projects have written over some of their units they
\* get nothing else through the others. Within the project they share volumes as in
\* compose, unless the names of its volumes meet.
THEOREM ConversionKeepsIsolation == Spec => []KeepsIsolation
<1>1. Inv => KeepsIsolation
  <2> SUFFICES ASSUME Inv, NEW p \in Converted, ~made[p].pod
               PROVE  LET c == made[p].compose IN
                 /\ \A s \in Kept(p) : LET u == ContainerOf(s) IN
                      Gets(u, u.refs \ Lost(p, u)) \subseteq Given(p, c, c.services[s])
                 /\ \A s \in Intact(p) : LET u == ContainerOf(s) IN
                      Gets(u, u.refs) = Given(p, c, c.services[s])
                 /\ Distinct(p, c) => \A s, t \in Intact(p) :
                      ShareVolume(s, t) <=> Together(c, s, t)
    BY DEF KeepsIsolation
  <2> DEFINE c == made[p].compose
             out == Output(p, c, FALSE)
  <2>1. p \in Projects /\ c \in Accepted(p) /\ made[p].pod = FALSE
    <3>1. PICK d \in Accepted(p), flag \in PodFlags : made[p] = [compose |-> d, pod |-> flag]
      BY DEF Inv, MadeInv
    <3>2. flag \in BOOLEAN  BY PodFlagsAssumption
    <3> QED  BY <3>1, <3>2 DEF Converted
  <2>2. ASSUME NEW s \in Kept(p)
        PROVE  LET u == ContainerOf(s) IN
               /\ s \in Active(c) /\ u = out[Unit(s, "container")]
               /\ \A r \in u.refs \ Lost(p, u) : unit[r].object = out[r].object
               /\ u.real \cup {out[r].object : r \in u.refs} = Given(p, c, c.services[s])
    <3> DEFINE u == ContainerOf(s)
    <3>1. s \in Active(c) /\ u = out[Unit(s, "container")]
      <4>1. s \in Active(c) /\ u = generateContainer(p, normalise(p, c), normalise(p, c).services[s], FALSE)
        BY <2>1, KeptIsOwn
      <4>2. out[Unit(s, "container")]
              = generateContainer(p, normalise(p, c), normalise(p, c).services[s], FALSE)
        BY <2>1, <4>1, UnitsOf
      <4> HIDE DEF u, out, c
      <4> QED  BY <4>1, <4>2
    <3>2. u.refs \subseteq DOMAIN out  BY <2>1, <3>1, RefersToOutput
    <3>3. \A r \in u.refs \ Lost(p, u) : unit[r] = out[r]
      BY <2>1, <3>2, OwnStands DEF Lost
    <3>4. u.real \cup {out[r].object : r \in u.refs} = Given(p, c, c.services[s])
      BY <2>1, <3>1, GivesWhatIsMeant
    <3> QED  BY <3>1, <3>3, <3>4
  <2>3. ASSUME NEW s \in Kept(p)
        PROVE  LET u == ContainerOf(s) IN
               Gets(u, u.refs \ Lost(p, u)) \subseteq Given(p, c, c.services[s])
    <3> DEFINE u == ContainerOf(s)
    <3> HIDE DEF u, out
    <3> QED  BY <2>2 DEF Gets, u
  <2>4. ASSUME NEW s \in Intact(p)
        PROVE  s \in Kept(p) /\ LET u == ContainerOf(s) IN
                 Gets(u, u.refs) = Given(p, c, c.services[s])
    <3> DEFINE u == ContainerOf(s)
    <3>1. s \in Kept(p) /\ u.refs \ Lost(p, u) = u.refs  BY DEF Intact
    <3>2. {unit[r].object : r \in u.refs} = {out[r].object : r \in u.refs}
      BY <2>2, <3>1
    <3> QED  BY <2>2, <3>1, <3>2 DEF Gets
  <2>5. ASSUME Distinct(p, c), NEW s \in Intact(p), NEW t \in Intact(p)
        PROVE  ShareVolume(s, t) <=> Together(c, s, t)
    <3> DEFINE Object(v) == ObjectName(p, v, c.volumes[v])
               vs == c.services[s].volumes
               vt == c.services[t].volumes
    <3>1. vs \subseteq DOMAIN c.volumes /\ vt \subseteq DOMAIN c.volumes
      BY <2>1, <2>2, <2>4, ComposeAssumption DEF Consistent, Accepted
    <3>2. ShareVolume(s, t) <=>
            \E o \in Given(p, c, c.services[s]) \cap Given(p, c, c.services[t]) : o[1] = "volume"
      BY <2>4 DEF ShareVolume
    <3>3. ShareVolume(s, t) <=> \E v \in vs, w \in vt : Object(v) = Object(w)
      <4>1. ASSUME NEW o, o \in Given(p, c, c.services[s]), o \in Given(p, c, c.services[t]),
                   o[1] = "volume"
            PROVE  \E v \in vs, w \in vt : Object(v) = Object(w)
        <5>1. PICK v \in vs : o = <<"volume", Object(v)>>  BY <4>1, VolumesGiven
        <5>2. PICK w \in vt : o = <<"volume", Object(w)>>  BY <4>1, VolumesGiven
        <5>3. Object(v) = Object(w)
          <6> HIDE DEF Object
          <6> QED  BY <5>1, <5>2
        <5> QED  BY <5>3
      <4>2. ASSUME NEW v \in vs, NEW w \in vt, Object(v) = Object(w)
            PROVE  \E o \in Given(p, c, c.services[s]) \cap Given(p, c, c.services[t]) :
                     o[1] = "volume"
        <5> DEFINE o == <<"volume", Object(v)>>
        <5>1. o \in Given(p, c, c.services[s]) /\ o[1] = "volume"  BY VolumesGiven
        <5>2. o = <<"volume", Object(w)>>  BY <4>2
        <5>3. o \in Given(p, c, c.services[t])  BY <5>2, VolumesGiven
        <5> QED  BY <5>1, <5>3
      <4> QED  BY <3>2, <4>1, <4>2
    <3>4. \A v \in vs, w \in vt : Object(v) = Object(w) <=> c.volumes[v].name = c.volumes[w].name
      BY <2>1, <2>5, <3>1, NamesKeepApart
    <3> QED  BY <3>3, <3>4 DEF Together
  <2> QED  BY <2>3, <2>4, <2>5
<1> QED  BY <1>1, InvHolds, PTL
=============================================================================
