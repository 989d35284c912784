----------------------------- MODULE HostContext -----------------------------
(***************************************************************************)
(* internal/hostctx: what quaddoc knows of a host. `capture-context`       *)
(* writes the facts one file after another into a directory; a lint run    *)
(* asks for them, of the running system or of such a directory, and caches *)
(* the answers. The host changes meanwhile, a capture may be killed, and   *)
(* one directory may be captured into again and again.                     *)
(*                                                                         *)
(* A file is reduced to what is made of it: the mount table is opaque, a   *)
(* subordinate ID file is a set of lines, the installed units a set of     *)
(* paths. A file that cannot be read is Missing.                           *)
(***************************************************************************)
EXTENDS Naturals, Sequences, FiniteSets

CONSTANTS
  Tables, Ports, Ranges, UnitPaths,  \* what the host's files may say
  Missing,                           \* a file that cannot be read
  Unknown,                           \* the answer "not known"
  Unread,                            \* a fact that is not cached yet
  Hosts,                             \* hosts to start from
  Asked,                             \* the facts the rules of a run ask for
  OldDirs,                           \* what the capture directory may hold at first
  MaxChanges, MaxCaptures, MaxReaders

\* The facts in the order Capture records them.
Order == <<"enforce", "mountinfo", "portstart", "subuid", "subgid", "units", "rootless">>
Facts == {Order[i] : i \in DOMAIN Order}
SubIDs == {"subuid", "subgid"}

Line == [name : {"me", "other", "captured"}, range : Ranges]

\* What each file of a running host may hold. portstart may fail to parse; who
\* asks is always known.
HostValues ==
  [enforce |-> {"0", "1", Missing}, mountinfo |-> Tables \cup {Missing},
   portstart |-> Ports \cup {"junk", Missing},
   subuid |-> (SUBSET [name : {"me", "other"}, range : Ranges]) \cup {Missing},
   subgid |-> (SUBSET [name : {"me", "other"}, range : Ranges]) \cup {Missing},
   units |-> (SUBSET UnitPaths) \cup {Missing}, rootless |-> {"true", "false"}]

\* What O_TRUNC leaves in a file of a capture.
Truncated(f) == IF f \in SubIDs \cup {"units"} THEN {} ELSE ""

\* Captures made by older versions recorded the units below the search path,
\* which is another one for a rootless user than for root.
Legacy == [rootless : {"true", "false"}, units : SUBSET UnitPaths]

DirValues(f) ==
  CASE f = "legacy"   -> Legacy \cup {Missing}
    [] f \in SubIDs   -> (SUBSET Line) \cup {Missing}
    [] OTHER          -> HostValues[f] \cup {Truncated(f), Missing}

EmptyDir == [f \in Facts \cup {"legacy"} |-> Missing]

\* The three words for "no file", "not known" and "not asked yet" are told apart
\* from each other and from what a file holds and what is answered.
ASSUME SentinelsAssumption ==
  /\ Missing # Unknown /\ Unread # Unknown /\ Unread # Missing
  /\ \A v \in {Missing, Unread} :
       /\ v \notin {"", "0", "1", "junk", "true", "false", "disabled", "enforcing", "permissive"}
       /\ v \notin Tables \cup Ports
       /\ \A s \in (SUBSET Line) \cup (SUBSET UnitPaths) \cup (SUBSET Ranges) : s # v

ASSUME InputsAssumption ==
  /\ Asked \subseteq Facts
  /\ \A h \in Hosts : DOMAIN h = Facts /\ \A f \in Facts : h[f] \in HostValues[f]
  /\ \A d \in OldDirs : /\ DOMAIN d = Facts \cup {"legacy"}
                        /\ \A f \in DOMAIN d : d[f] \in DirValues(f)

VARIABLES
  host,      \* the host's files
  dir,       \* the capture directory
  step,      \* the fact the running capture records next, 0 when none runs
  data,      \* what is being written to its truncated file, Unread if nothing
  complete,  \* whether the directory's last capture ended well
  fresh,     \* whether that capture started in an empty directory
  during,    \* what each file of the host held in the course of that capture
  root,      \* what the running lint run reads: "none", "live" or "dir"
  cache,     \* its cache
  seen,      \* the answers it has been given
  changes, captures, readers

hostvars    == <<host, changes>>
capturevars == <<dir, step, data, complete, fresh, during, captures>>
readervars  == <<root, cache, seen, readers>>
vars == <<host, changes, dir, step, data, complete, fresh, during, captures,
          root, cache, seen, readers>>

-----------------------------------------------------------------------------
(* Reading.                                                                *)

\* The subordinate ranges a file grants: one's own lines on a live host, every
\* line of a capture, which has only those.
parseSubIDs(lines, at) ==
  {l.range : l \in {m \in lines : at = "dir" \/ m.name = "me"}}

\* What the getters make of a file.
Answer(f, v, at) ==
  CASE f = "enforce"   -> IF v = Missing THEN "disabled"
                          ELSE IF v = "1" THEN "enforcing" ELSE "permissive"
    [] f = "mountinfo" -> IF v = Missing THEN "" ELSE v
    [] f = "portstart" -> IF v \in Ports THEN v ELSE Unknown
    [] f \in SubIDs    -> IF v = Missing THEN Unknown ELSE parseSubIDs(v, at)
    [] f = "units"     -> IF v = Missing THEN Unknown ELSE v
    [] f = "rootless"  -> IF v = Missing THEN Unknown
                          ELSE IF v = "true" THEN "true" ELSE "false"

\* Without a list of its own a capture is searched like a host. An unknown
\* mode means the rootful search path.
ScanLegacy(mode) ==
  LET searched == IF mode = "true" THEN "true" ELSE "false" IN
  IF dir.legacy # Missing /\ dir.legacy.rootless = searched
  THEN dir.legacy.units ELSE Unknown

Rootless == IF cache["rootless"] # Unread THEN cache["rootless"]
            ELSE Answer("rootless", dir["rootless"], "dir")

Now(f) ==
  IF root = "live" THEN Answer(f, host[f], "live")
  ELSE IF f = "units" /\ dir["units"] = Missing THEN ScanLegacy(Rootless)
  ELSE Answer(f, dir[f], "dir")

\* Mutant: an unknown answer is asked for again.
RememberKnown(f, answer) == answer # Unknown

\* An answer is remembered even when it is "unknown", except for the mode.
Remember(f, answer) == f # "rootless" \/ answer # Unknown

\* A getter called by a rule. Looking up the search path asks for the mode.
Ask(f) ==
  /\ root # "none"
  /\ LET answer == IF cache[f] # Unread THEN cache[f] ELSE Now(f)
         mode   == IF root = "live" THEN Answer("rootless", host["rootless"], "live")
                                    ELSE Rootless
         alsoMode == /\ f = "units" /\ cache[f] = Unread
                     /\ root = "live" \/ dir["units"] = Missing
     IN  /\ seen' = [seen EXCEPT ![f] = @ \cup {answer}]
         /\ cache' = [g \in Facts |->
               IF g = f /\ Remember(f, answer) THEN answer
               ELSE IF g = "rootless" /\ alsoMode /\ Remember(g, mode) THEN mode
               ELSE cache[g]]
  /\ UNCHANGED <<hostvars, capturevars, root, readers>>

\* resolveHostContext: any directory is taken for a capture.
StartReader(at) ==
  /\ root = "none" /\ readers < MaxReaders
  /\ root' = at /\ readers' = readers + 1
  /\ cache' = [f \in Facts |-> Unread] /\ seen' = [f \in Facts |-> {}]
  /\ UNCHANGED <<hostvars, capturevars>>

EndReader ==
  /\ root # "none" /\ root' = "none"
  /\ UNCHANGED <<hostvars, capturevars, cache, seen, readers>>

-----------------------------------------------------------------------------
(* Capturing.                                                              *)

StartCapture ==
  /\ step = 0 /\ captures < MaxCaptures
  /\ step' = 1 /\ captures' = captures + 1 /\ complete' = FALSE
  /\ fresh' = (dir = EmptyDir)
  /\ during' = [f \in Facts |-> {host[f]}]
  /\ UNCHANGED <<hostvars, dir, data, readervars>>

\* Mutant: subordinate ID files are copied whole.
RecordCopy(f) == host[f]

\* Only the caller's subordinate ranges are recorded, under another name.
Record(f) ==
  IF f \in SubIDs THEN {[name |-> "captured", range |-> r] : r \in parseSubIDs(host[f], "live")}
  ELSE host[f]

\* Mutant: the capture does not stop after its last fact.
StepPastEnd == step' = step + 1

NextStep == step' = IF step = Len(Order) THEN 0 ELSE step + 1

\* A file that cannot be read is left out, whatever the directory holds.
Skip ==
  /\ step # 0 /\ data = Unread /\ host[Order[step]] = Missing
  /\ NextStep /\ complete' = (step = Len(Order))
  /\ UNCHANGED <<hostvars, dir, data, fresh, during, captures, readervars>>

Truncate ==
  /\ step # 0 /\ data = Unread /\ host[Order[step]] # Missing
  /\ data' = Record(Order[step])
  /\ dir' = [dir EXCEPT ![Order[step]] = Truncated(Order[step])]
  /\ UNCHANGED <<hostvars, step, complete, fresh, during, captures, readervars>>

Write ==
  /\ data # Unread /\ data' = Unread
  /\ dir' = [dir EXCEPT ![Order[step]] = data]
  /\ NextStep /\ complete' = (step = Len(Order))
  /\ UNCHANGED <<hostvars, fresh, during, captures, readervars>>

\* Mutant: a failed write is skipped over.
AbortCarriesOn ==
  /\ step # 0 /\ NextStep /\ data' = Unread /\ complete' = (step = Len(Order))
  /\ UNCHANGED <<hostvars, dir, fresh, during, captures, readervars>>

\* A write fails, or the process is killed.
Abort ==
  /\ step # 0 /\ step' = 0 /\ data' = Unread
  /\ UNCHANGED <<hostvars, dir, complete, fresh, during, captures, readervars>>

\* The mode is that of the user who runs quaddoc and does not change.
HostChanges ==
  /\ changes < MaxChanges /\ changes' = changes + 1
  /\ \E f \in Facts \ {"rootless"} : \E v \in HostValues[f] \ {host[f]} :
       /\ host' = [host EXCEPT ![f] = v]
       /\ during' = IF step = 0 THEN during ELSE [during EXCEPT ![f] = @ \cup {v}]
  /\ UNCHANGED <<dir, step, data, complete, fresh, captures, readervars>>

-----------------------------------------------------------------------------
Init ==
  /\ host \in Hosts /\ dir \in OldDirs
  /\ step = 0 /\ data = Unread /\ complete = FALSE /\ fresh = FALSE
  /\ during = [f \in Facts |-> {}]
  /\ root = "none" /\ cache = [f \in Facts |-> Unread] /\ seen = [f \in Facts |-> {}]
  /\ changes = 0 /\ captures = 0 /\ readers = 0

Capture == StartCapture \/ Skip \/ Truncate \/ Write \/ Abort
Reader  == (\E at \in {"live", "dir"} : StartReader(at)) \/ (\E f \in Asked : Ask(f)) \/ EndReader

Next == Capture \/ Reader \/ HostChanges

Spec == Init /\ [][Next]_vars

-----------------------------------------------------------------------------
(* Properties.                                                             *)

\* What a replay that starts now would answer, and what the host itself would
\* have answered in the course of the last capture.
Replayed(f) ==
  IF f = "units" /\ dir["units"] = Missing
  THEN ScanLegacy(Answer("rootless", dir["rootless"], "dir"))
  ELSE Answer(f, dir[f], "dir")

Observed(f) == {Answer(f, v, "live") : v \in during[f]}

TypeOK ==
  /\ DOMAIN host = Facts
  /\ \A f \in Facts : host[f] \in HostValues[f] /\ during[f] \subseteq HostValues[f]
  /\ \A f \in Facts \cup {"legacy"} : dir[f] \in DirValues(f)
  /\ step \in 0..Len(Order) /\ (step = 0 => data = Unread)
  /\ \A f \in Facts : cache[f] # Unread => cache[f] \in seen[f] \/ f = "rootless"

\* "The findings it produces are identical to those from the machine it was
\* captured on": every fact of a capture that ended well in an empty directory
\* is replayed as the host answered it at some moment of the capture, "none" as
\* none and "not known" as not known.
ReplayAgrees ==
  complete /\ fresh => \A f \in Facts : Replayed(f) \in Observed(f)

\* A capture that is cut short has recorded the first facts truthfully and
\* nothing of the later ones: at most one file is torn.
CaptureIsPrefix ==
  fresh => \E k \in 1..(Len(Order) + 1) : \A i \in DOMAIN Order :
    /\ i < k => Replayed(Order[i]) \in Observed(Order[i])
    /\ i > k => dir[Order[i]] = Missing

\* One lint run gets one answer to each question, however often its rules ask
\* and whatever happens to the host or the directory meanwhile, so that no two
\* findings contradict each other. Only a mode that was not known may become so.
OneAnswer ==
  \A f \in Facts : \A a, b \in seen[f] :
    a = b \/ (f = "rootless" /\ Unknown \in {a, b})

\* copyInto: a file's "absence is itself a fact, and replay will read the same
\* absence": a capture that ended well replays as the host, whatever the
\* directory held before.
SameAbsence ==
  complete => \A f \in Facts : Replayed(f) \in Observed(f)
=============================================================================
