------------------------- MODULE HostContextProofs -------------------------
(***************************************************************************)
(* What a capture directory and a lint run promise, for every host, every  *)
(* directory and any number of changes, captures and runs.                 *)
(***************************************************************************)
EXTENDS HostContext, TLAPS

\* What is recorded of a fact is replayed as the host answered it meanwhile.
Good(f) == Replayed(f) \in Observed(f)

\* A run has been given no answer but the one it remembers.
Remembered(f) == IF cache[f] = Unread THEN {} ELSE {cache[f]}

ReaderInv ==
  /\ root \in {"none", "live", "dir"}
  /\ DOMAIN cache = Facts /\ DOMAIN seen = Facts
  /\ \A f \in Facts \ {"rootless"} : seen[f] \subseteq Remembered(f)
  /\ seen["rootless"] \subseteq {Unknown} \cup Remembered("rootless")
  /\ root = "live" /\ cache["rootless"] # Unread
       => cache["rootless"] = Answer("rootless", host["rootless"], "live")

\* The typing the other parts rest on.
FilesInv ==
  /\ DOMAIN dir = Facts \cup {"legacy"} /\ DOMAIN during = Facts
  /\ data # Unread => step # 0 /\ data \in DirValues(Order[step])
  /\ step # 0 => \A f \in Facts : host[f] \in during[f]

\* A capture that started in an empty directory and is still running: what it
\* has been through is recorded, what is to come is absent.
Underway ==
  /\ ~complete
  /\ \A i \in DOMAIN Order : /\ i < step => Good(Order[i])
                             /\ i > step => dir[Order[i]] = Missing
  /\ data = Unread => dir[Order[step]] = Missing
  /\ data # Unread => Answer(Order[step], data, "dir") \in Observed(Order[step])

Prefix ==
  \E k \in 1..(Len(Order) + 1) : \A i \in DOMAIN Order :
    /\ i < k => Good(Order[i])
    /\ i > k => dir[Order[i]] = Missing

CaptureInv ==
  fresh => /\ dir["legacy"] = Missing
           /\ step # 0 => Underway
           /\ step = 0 => Prefix /\ (complete => \A f \in Facts : Good(f))

Inv == TypeOK /\ FilesInv /\ ReaderInv /\ CaptureInv

-----------------------------------------------------------------------------
(* Lemmas.                                                                 *)

\* Capture records seven different facts, and all of them.
LEMMA OrderFacts ==
  /\ Len(Order) = 7 /\ DOMAIN Order = 1..7
  /\ \A i \in 1..7 : Order[i] \in Facts
  /\ \A i, j \in 1..7 : Order[i] = Order[j] => i = j
  /\ \A f \in Facts : \E i \in 1..7 : Order[i] = f
  /\ Facts = {"enforce", "mountinfo", "portstart", "subuid", "subgid", "units", "rootless"}
<1>1. Len(Order) = 7 /\ DOMAIN Order = 1..7  BY DEF Order
<1>2. \A i \in 1..7 : Order[i] \in Facts  BY <1>1 DEF Facts
<1>3. \A i, j \in 1..7 : Order[i] = Order[j] => i = j  BY DEF Order
<1>4. \A f \in Facts : \E i \in 1..7 : Order[i] = f  BY <1>1 DEF Facts
<1>5. Facts = {"enforce", "mountinfo", "portstart", "subuid", "subgid", "units", "rootless"}
  <2>1. \A i \in 1..7 : Order[i] \in
          {"enforce", "mountinfo", "portstart", "subuid", "subgid", "units", "rootless"}
    BY DEF Order
  <2>2. /\ Order[1] = "enforce" /\ Order[2] = "mountinfo" /\ Order[3] = "portstart"
        /\ Order[4] = "subuid" /\ Order[5] = "subgid" /\ Order[6] = "units"
        /\ Order[7] = "rootless"
    BY DEF Order
  <2> QED  BY <1>1, <2>1, <2>2 DEF Facts
<1> QED  BY <1>1, <1>2, <1>3, <1>4, <1>5

\* What a host holds may stand in a directory, and is none of the sentinels but
\* "missing".
LEMMA HostFileInDir ==
  ASSUME NEW f \in Facts, NEW v \in HostValues[f]
  PROVE  v \in DirValues(f) /\ v # Unread
<1> USE SentinelsAssumption DEF HostValues, DirValues, SubIDs, Line
<1>1. CASE f = "enforce"    BY <1>1
<1>2. CASE f = "mountinfo"  BY <1>2
<1>3. CASE f = "portstart"  BY <1>3
<1>4. CASE f \in SubIDs
  <2>1. HostValues[f] = (SUBSET [name : {"me", "other"}, range : Ranges]) \cup {Missing}
    <3>1. CASE f = "subuid"  BY <3>1
    <3>2. CASE f = "subgid"  BY <3>2
    <3> QED  BY <1>4, <3>1, <3>2
  <2>2. [name : {"me", "other"}, range : Ranges] \subseteq Line  OBVIOUS
  <2>3. v = Missing \/ v \in SUBSET Line  BY <2>1, <2>2
  <2> QED  BY <1>4, <2>3
<1>5. CASE f = "units"      BY <1>5
<1>6. CASE f = "rootless"   BY <1>6
<1> QED  BY <1>1, <1>2, <1>3, <1>4, <1>5, <1>6, OrderFacts

\* No getter answers with the mark of a fact that was not asked for.
LEMMA AnswerIsKnown ==
  ASSUME NEW f \in Facts, NEW v \in DirValues(f), NEW at \in {"live", "dir"}
  PROVE  Answer(f, v, at) # Unread
<1> USE SentinelsAssumption DEF Answer, HostValues, DirValues, SubIDs, Truncated
<1>1. CASE f = "enforce"    BY <1>1
<1>2. CASE f = "mountinfo"  BY <1>2
<1>3. CASE f = "portstart"  BY <1>3
<1>4. CASE f \in SubIDs
  <2>1. CASE v = Missing  BY <1>4, <2>1
  <2>2. CASE v \in SUBSET Line
    <3>1. \A l \in v : l.range \in Ranges  BY <2>2 DEF Line
    <3>2. parseSubIDs(v, at) \in SUBSET Ranges  BY <3>1 DEF parseSubIDs
    <3> QED  BY <1>4, <2>2, <3>2
  <2> QED  BY <1>4, <2>1, <2>2
<1>5. CASE f = "units"
  <2>1. v = Missing \/ v \in SUBSET UnitPaths  BY <1>5
  <2>2. Answer(f, v, at) = IF v = Missing THEN Unknown ELSE v  BY <1>5
  <2> QED  BY <2>1, <2>2
<1>6. CASE f = "rootless"   BY <1>6
<1> QED  BY <1>1, <1>2, <1>3, <1>4, <1>5, <1>6, OrderFacts

\* Capture's filter loses nothing a replay asks for: what is recorded of a
\* readable file fits the file and is answered as the host answers.
LEMMA RecordIsFaithful ==
  ASSUME NEW f \in Facts, host[f] \in HostValues[f], host[f] # Missing
  PROVE  /\ Record(f) \in DirValues(f) /\ Record(f) # Unread
         /\ Answer(f, Record(f), "dir") = Answer(f, host[f], "live")
<1>1. CASE f \in SubIDs
  <2>1. host[f] \in SUBSET [name : {"me", "other"}, range : Ranges]
    BY <1>1 DEF HostValues, SubIDs
  <2>2. parseSubIDs(host[f], "live") \subseteq Ranges  BY <2>1 DEF parseSubIDs
  <2>3. Record(f) = {[name |-> "captured", range |-> r] : r \in parseSubIDs(host[f], "live")}
    BY <1>1 DEF Record
  <2>4. Record(f) \in SUBSET Line  BY <2>2, <2>3 DEF Line
  <2>5. parseSubIDs(Record(f), "dir") = parseSubIDs(host[f], "live")
    <3>1. parseSubIDs(Record(f), "dir") = {l.range : l \in Record(f)}  BY DEF parseSubIDs
    <3>2. {l.range : l \in Record(f)} = parseSubIDs(host[f], "live")
      <4> DEFINE R == parseSubIDs(host[f], "live")
      <4>1. \A r : [name |-> "captured", range |-> r].range = r  OBVIOUS
      <4>2. \A l \in Record(f) : l.range \in R  BY <2>3, <4>1
      <4>3. \A r \in R : \E l \in Record(f) : l.range = r  BY <2>3, <4>1
      <4> QED  BY <4>2, <4>3
    <3> QED  BY <3>1, <3>2
  <2>6. Record(f) # Missing /\ Record(f) # Unread  BY <2>4, SentinelsAssumption
  <2> QED  BY <1>1, <2>4, <2>5, <2>6 DEF Answer, DirValues, SubIDs
<1>2. CASE f \notin SubIDs
  <2>1. Record(f) = host[f]  BY <1>2 DEF Record
  <2> QED  BY <1>2, <2>1, HostFileInDir DEF Answer
<1> QED  BY <1>1, <1>2

\* A file that is absent is answered alike of the host and of the directory.
LEMMA AbsenceIsFaithful ==
  ASSUME NEW f \in Facts
  PROVE  Answer(f, Missing, "dir") = Answer(f, Missing, "live")
BY DEF Answer

\* Without an old record of units, replaying is reading the file.
LEMMA NoLegacyReplay ==
  ASSUME NEW f
  PROVE  /\ dir["legacy"] = Missing => Replayed(f) = Answer(f, dir[f], "dir")
         /\ dir'["legacy"] = Missing => Replayed(f)' = Answer(f, dir'[f], "dir")
BY DEF Replayed, ScanLegacy, Answer, SubIDs

-----------------------------------------------------------------------------
(* The invariant.                                                          *)

\* What is known of the files alone, and of the cache alone.
FileTypes ==
  /\ DOMAIN host = Facts
  /\ \A f \in Facts : host[f] \in HostValues[f] /\ during[f] \subseteq HostValues[f]
  /\ \A f \in Facts \cup {"legacy"} : dir[f] \in DirValues(f)
  /\ step \in 0..Len(Order) /\ (step = 0 => data = Unread)

CacheType == \A f \in Facts : cache[f] # Unread => cache[f] \in seen[f] \/ f = "rootless"

\* The type invariant is these two.
LEMMA TypeParts ==
  /\ TypeOK <=> FileTypes /\ CacheType
  /\ TypeOK' <=> FileTypes' /\ CacheType'
BY DEF TypeOK, FileTypes, CacheType

\* It holds at the start.
LEMMA InitInv == Init => Inv
<1> SUFFICES ASSUME Init PROVE Inv  OBVIOUS
<1> USE InputsAssumption
<1>1. FileTypes  BY OrderFacts DEF Init, FileTypes
<1>2. CacheType  BY DEF Init, CacheType
<1>3. FilesInv   BY <1>1 DEF Init, FilesInv
<1>4. ReaderInv  BY OrderFacts DEF Init, ReaderInv, Remembered
<1>5. CaptureInv BY DEF Init, CaptureInv
<1> QED  BY <1>1, <1>2, <1>3, <1>4, <1>5, TypeParts DEF Inv

\* Nothing but the directory and the host's values in the meantime decide
\* whether a fact is recorded well.
LEMMA GoodStays ==
  ASSUME UNCHANGED <<dir, during>>
  PROVE  \A f : Good(f)' <=> Good(f)
BY DEF Good, Replayed, Observed, ScanLegacy

\* A lint run changes nothing of the files.
LEMMA FilesStay ==
  ASSUME FileTypes, FilesInv, CaptureInv, UNCHANGED <<hostvars, capturevars>>
  PROVE  FileTypes' /\ FilesInv' /\ CaptureInv'
<1> USE DEF hostvars, capturevars
<1>1. FileTypes'  BY DEF FileTypes
<1>2. FilesInv'   BY DEF FilesInv
<1>3. \A f : Good(f)' <=> Good(f)  BY GoodStays
<1>4. \A f : Observed(f)' = Observed(f)  BY DEF Observed
<1>5. Underway' <=> Underway  BY <1>3, <1>4 DEF Underway
<1>6. Prefix' <=> Prefix      BY <1>3 DEF Prefix
<1>7. CaptureInv' BY <1>3, <1>5, <1>6 DEF CaptureInv
<1> QED  BY <1>1, <1>2, <1>7

\* A question is answered from the cache, or the answer is remembered. A mode
\* that was looked up on the way is the one already remembered, if any is.
LEMMA AskKeeps ==
  ASSUME Inv, NEW f \in Facts, Ask(f)
  PROVE  ReaderInv' /\ CacheType'
<1> DEFINE answer   == IF cache[f] # Unread THEN cache[f] ELSE Now(f)
           mode     == IF root = "live" THEN Answer("rootless", host["rootless"], "live")
                       ELSE Rootless
           alsoMode == /\ f = "units" /\ cache[f] = Unread
                       /\ root = "live" \/ dir["units"] = Missing
<1>1. /\ seen' = [seen EXCEPT ![f] = @ \cup {answer}]
      /\ cache' = [g \in Facts |->
               IF g = f /\ Remember(f, answer) THEN answer
               ELSE IF g = "rootless" /\ alsoMode /\ Remember(g, mode) THEN mode
               ELSE cache[g]]
      /\ root' = root /\ host' = host /\ root \in {"live", "dir"}
  BY DEF Ask, Inv, ReaderInv, hostvars
<1>2. /\ "rootless" \in Facts /\ "units" \in Facts
      /\ \A g \in Facts : host[g] \in DirValues(g) /\ dir[g] \in DirValues(g)
  BY OrderFacts, HostFileInDir, TypeParts DEF Inv, FileTypes
<1>3. Rootless # Unread  BY <1>2, AnswerIsKnown DEF Rootless
<1>4. mode # Unread /\ (cache["rootless"] # Unread => mode = cache["rootless"])
  BY <1>1, <1>2, <1>3, AnswerIsKnown DEF Rootless, Inv, ReaderInv
<1>5. answer # Unread
  <2>1. ScanLegacy(Rootless) # Unread
    <3>1. dir["legacy"] \in DirValues("legacy")  BY TypeParts DEF Inv, FileTypes
    <3>2. dir["legacy"] # Missing => dir["legacy"].units \in SUBSET UnitPaths
      <4>1. DirValues("legacy") = Legacy \cup {Missing}  BY DEF DirValues, SubIDs
      <4>2. dir["legacy"] = Missing \/ dir["legacy"] \in Legacy  BY <3>1, <4>1
      <4> QED  BY <4>2 DEF Legacy
    <3> QED  BY <3>2, SentinelsAssumption DEF ScanLegacy
  <2>2. Now(f) # Unread  BY <1>2, <2>1, AnswerIsKnown DEF Now
  <2> QED  BY <2>2
<1> HIDE DEF answer, mode, alsoMode
<1>6. DOMAIN cache = Facts /\ DOMAIN seen = Facts  BY DEF Inv, ReaderInv
<1>7. ASSUME NEW g \in Facts \ {"rootless"}
      PROVE  seen'[g] \subseteq Remembered(g)' /\ (cache'[g] # Unread => cache'[g] \in seen'[g])
  <2>1. seen[g] \subseteq Remembered(g) /\ (cache[g] # Unread => cache[g] \in seen[g])
    BY TypeParts DEF Inv, ReaderInv, CacheType
  <2>2. CASE g = f
    <3>1. cache'[g] = answer /\ seen'[g] = seen[g] \cup {answer}
      BY <1>1, <1>6, <2>2 DEF Remember
    <3>2. cache[g] # Unread => answer = cache[g]  BY <2>2 DEF answer
    <3> QED  BY <1>5, <2>1, <3>1, <3>2 DEF Remembered
  <2>3. CASE g # f
    <3>1. cache'[g] = cache[g] /\ seen'[g] = seen[g]  BY <1>1, <1>6, <2>3
    <3> QED  BY <2>1, <3>1 DEF Remembered
  <2> QED  BY <2>2, <2>3
<1>8. /\ seen'["rootless"] \subseteq {Unknown} \cup Remembered("rootless")'
      /\ cache["rootless"] # Unread => cache'["rootless"] = cache["rootless"]
      /\ root = "live" /\ cache'["rootless"] # Unread
           => cache'["rootless"] = Answer("rootless", host["rootless"], "live")
  <2>0. /\ seen["rootless"] \subseteq {Unknown} \cup Remembered("rootless")
        /\ root = "live" /\ cache["rootless"] # Unread
             => cache["rootless"] = Answer("rootless", host["rootless"], "live")
    BY DEF Inv, ReaderInv
  <2>1. CASE f = "rootless"
    <3>1. seen'["rootless"] = seen["rootless"] \cup {answer}  BY <1>1, <1>6, <2>1
    <3>2. cache'["rootless"] = IF answer # Unknown THEN answer ELSE cache["rootless"]
      BY <1>1, <1>2, <2>1 DEF Remember, alsoMode
    <3>3. cache["rootless"] # Unread => answer = cache["rootless"]  BY <2>1 DEF answer
    <3>4. root = "live" /\ cache["rootless"] = Unread
            => answer = Answer("rootless", host["rootless"], "live")
      BY <2>1 DEF answer, Now
    <3> QED  BY <1>5, <2>0, <3>1, <3>2, <3>3, <3>4 DEF Remembered
  <2>2. CASE f # "rootless"
    <3>1. seen'["rootless"] = seen["rootless"]  BY <1>1, <1>6, <1>2, <2>2
    <3>2. \/ cache'["rootless"] = mode \/ cache'["rootless"] = cache["rootless"]
      BY <1>1, <1>2, <2>2
    <3>3. root = "live" => mode = Answer("rootless", host["rootless"], "live")  BY DEF mode
    <3> QED  BY <1>4, <2>0, <3>1, <3>2, <3>3 DEF Remembered
  <2> QED  BY <2>1, <2>2
<1>9. DOMAIN cache' = Facts /\ DOMAIN seen' = Facts  BY <1>1, <1>6
<1>10. ReaderInv'  BY <1>1, <1>7, <1>8, <1>9 DEF ReaderInv
<1>11. CacheType'  BY <1>7 DEF CacheType
<1> QED  BY <1>10, <1>11

\* Nor does a lint run forget or contradict an answer.
LEMMA ReaderKeeps == ASSUME Inv, Reader PROVE Inv'
<1> USE DEF Inv
<1>1. ASSUME NEW at \in {"live", "dir"}, StartReader(at) PROVE Inv'
  <2>1. FileTypes' /\ FilesInv' /\ CaptureInv'
    BY <1>1, FilesStay, TypeParts DEF StartReader
  <2>2. ReaderInv'  BY <1>1, OrderFacts DEF StartReader, ReaderInv, Remembered
  <2>3. CacheType'  BY <1>1 DEF StartReader, CacheType
  <2> QED  BY <2>1, <2>2, <2>3, TypeParts
<1>2. ASSUME NEW f \in Asked, Ask(f) PROVE Inv'
  <2>1. FileTypes' /\ FilesInv' /\ CaptureInv'  BY <1>2, FilesStay, TypeParts DEF Ask
  <2> QED  BY <1>2, <2>1, AskKeeps, TypeParts, InputsAssumption
<1>3. ASSUME EndReader PROVE Inv'
  <2>1. FileTypes' /\ FilesInv' /\ CaptureInv'  BY <1>3, FilesStay, TypeParts DEF EndReader
  <2>2. ReaderInv'  BY <1>3 DEF EndReader, ReaderInv, Remembered
  <2>3. CacheType'  BY <1>3, TypeParts DEF EndReader, CacheType
  <2> QED  BY <2>1, <2>2, <2>3, TypeParts
<1> QED  BY <1>1, <1>2, <1>3 DEF Reader

-----------------------------------------------------------------------------
(* Capturing.                                                              *)

\* A step that leaves the lint run and the user alone.
LEMMA ReaderStays ==
  ASSUME ReaderInv, CacheType, UNCHANGED readervars, host'["rootless"] = host["rootless"]
  PROVE  ReaderInv' /\ CacheType'
BY DEF readervars, ReaderInv, CacheType, Remembered

\* Where a step writes no other file, what was recorded well stays so.
LEMMA OthersStayGood ==
  ASSUME NEW f \in Facts, dir["legacy"] = Missing, dir'["legacy"] = Missing,
         dir'[f] = dir[f], during[f] \subseteq during'[f], Good(f)
  PROVE  Good(f)'
<1>1. Replayed(f)' = Replayed(f)  BY NoLegacyReplay
<1>2. Observed(f) \subseteq Observed(f)'  BY DEF Observed
<1> QED  BY <1>1, <1>2 DEF Good

\* A capture passes on to the next fact, or ends well, only when the fact it has
\* dealt with is recorded well.
LEMMA Advance ==
  ASSUME NEW s \in 1..7, step = s, fresh, dir["legacy"] = Missing, Underway,
         NextStep, complete' <=> step = Len(Order), data' = Unread, during' = during,
         \A i \in 1..7 : i # s => dir'[Order[i]] = dir[Order[i]],
         dir'["legacy"] = Missing, Good(Order[s])'
  PROVE  CaptureInv'
<1>1. \A i \in 1..7 : i <= s => Good(Order[i])'
  <2> SUFFICES ASSUME NEW i \in 1..7, i <= s PROVE Good(Order[i])'  OBVIOUS
  <2>1. CASE i = s  BY <2>1
  <2>2. CASE i < s
    <3>1. Order[i] \in Facts /\ Good(Order[i])  BY <2>2, OrderFacts DEF Underway
    <3>2. dir'[Order[i]] = dir[Order[i]]  BY <2>2
    <3> QED  BY <3>1, <3>2, OthersStayGood
  <2> QED  BY <2>1, <2>2
<1>2. \A i \in 1..7 : i > s => dir'[Order[i]] = Missing
  BY OrderFacts DEF Underway
<1>3. CASE s < 7
  <2>1. step' = step + 1 /\ step' # 0 /\ ~complete'  BY <1>3, OrderFacts DEF NextStep
  <2>2. dir'[Order[step']] = Missing  BY <1>2, <1>3, <2>1
  <2>3. \A i \in 1..7 : i < step' => Good(Order[i])'  BY <1>1, <2>1
  <2>4. \A i \in 1..7 : i > step' => dir'[Order[i]] = Missing  BY <1>2, <2>1
  <2>5. Underway'  BY <2>1, <2>2, <2>3, <2>4, OrderFacts DEF Underway
  <2> QED  BY <2>1, <2>5 DEF CaptureInv
<1>4. CASE s = 7
  <2>1. step' = 0  BY <1>4, OrderFacts DEF NextStep
  <2>2. \A i \in 1..7 : Good(Order[i])'  BY <1>1, <1>4
  <2>3. Prefix'
    <3>1. \A i \in 1..7 : (i < 8 => Good(Order[i])') /\ ~(i > 8)  BY <2>2
    <3> QED  BY <3>1, OrderFacts, 8 \in 1..(7 + 1) DEF Prefix
  <2>4. \A f \in Facts : Good(f)'
    <3> TAKE f \in Facts
    <3>1. PICK i \in 1..7 : Order[i] = f  BY OrderFacts
    <3> QED  BY <2>2, <3>1
  <2> QED  BY <2>1, <2>3, <2>4 DEF CaptureInv
<1> QED  BY <1>3, <1>4

\* Every step of a capture keeps the invariant.
LEMMA CaptureKeeps == ASSUME Inv, Capture PROVE Inv'
<1> USE DEF Inv
<1>0. /\ UNCHANGED hostvars /\ UNCHANGED readervars
      /\ FileTypes /\ CacheType /\ \A f \in Facts : host[f] \in HostValues[f]
  BY TypeParts DEF Capture, StartCapture, Skip, Truncate, Write, Abort, FileTypes
<1>1. ReaderInv' /\ CacheType'  BY <1>0, ReaderStays DEF hostvars
<1>2. step \in 0..7 /\ (step # 0 => step \in 1..7 /\ Order[step] \in Facts)
  BY <1>0, OrderFacts DEF FileTypes
<1>3. ASSUME StartCapture PROVE FileTypes' /\ FilesInv' /\ CaptureInv'
  <2>1. FileTypes'  BY <1>0, <1>3, OrderFacts DEF StartCapture, hostvars, FileTypes
  <2>2. FilesInv'   BY <1>0, <1>3 DEF StartCapture, hostvars, FilesInv, FileTypes
  <2>3. ASSUME fresh' PROVE dir'["legacy"] = Missing /\ Underway'
    <3>1. dir' = EmptyDir /\ step' = 1 /\ ~complete'
      BY <1>3, <2>3 DEF StartCapture
    <3>2. \A i \in 1..7 : dir'[Order[i]] = Missing  BY <3>1, OrderFacts DEF EmptyDir
    <3>3. data' = Unread  BY <1>0, <1>3 DEF StartCapture, FileTypes
    <3>4. \A i \in 1..7 : ~(i < 1)  OBVIOUS
    <3>5. dir'["legacy"] = Missing  BY <3>1 DEF EmptyDir
    <3> QED  BY <3>1, <3>2, <3>3, <3>4, <3>5, OrderFacts DEF Underway
  <2>4. step' = 1  BY <1>3 DEF StartCapture
  <2>5. CaptureInv'  BY <2>3, <2>4 DEF CaptureInv
  <2> QED  BY <2>1, <2>2, <2>5
<1>4. ASSUME Skip PROVE FileTypes' /\ FilesInv' /\ CaptureInv'
  <2>0. /\ step # 0 /\ data = Unread /\ host[Order[step]] = Missing /\ NextStep
        /\ complete' <=> step = Len(Order)
        /\ UNCHANGED <<host, dir, data, fresh, during>>
    BY <1>4 DEF Skip, hostvars
  <2>1. FileTypes'  BY <1>0, <1>2, <2>0, OrderFacts DEF FileTypes, NextStep
  <2>2. FilesInv'   BY <2>0 DEF FilesInv
  <2>3. ASSUME fresh PROVE CaptureInv'
    <3>1. dir["legacy"] = Missing /\ Underway  BY <2>0, <2>3 DEF CaptureInv
    <3>2. PICK s \in 1..7 : s = step  BY <1>2, <2>0
    <3> DEFINE f == Order[s]
    <3>3. f \in Facts /\ dir'[f] = Missing /\ dir'["legacy"] = Missing
      BY <1>2, <2>0, <3>1, <3>2 DEF Underway
    <3>4. Missing \in during'[f]  BY <2>0, <3>2, <3>3 DEF FilesInv
    <3>5. Answer(f, Missing, "dir") \in Observed(f)'
      BY <3>3, <3>4, AbsenceIsFaithful DEF Observed
    <3>6. Good(f)'
      <4> HIDE DEF f
      <4> QED  BY <3>3, <3>5, NoLegacyReplay DEF Good
    <3> QED  BY <2>0, <2>3, <3>1, <3>2, <3>3, <3>6, Advance
  <2>4. ~fresh => CaptureInv'  BY <2>0 DEF CaptureInv
  <2> QED  BY <2>1, <2>2, <2>3, <2>4
<1>5. ASSUME Truncate PROVE FileTypes' /\ FilesInv' /\ CaptureInv'
  <2>0. /\ step # 0 /\ data = Unread /\ host[Order[step]] # Missing
        /\ data' = Record(Order[step])
        /\ dir' = [dir EXCEPT ![Order[step]] = Truncated(Order[step])]
        /\ UNCHANGED <<host, step, complete, fresh, during>>
    BY <1>5 DEF Truncate, hostvars
  <2> PICK s \in 1..7 : s = step  BY <1>2, <2>0
  <2> DEFINE f == Order[s]
  <2>1. f \in Facts /\ f # "legacy" /\ Truncated(f) \in DirValues(f)
    <3>1. f \in Facts /\ f # "legacy"  BY OrderFacts
    <3> QED  BY <3>1 DEF Truncated, DirValues, SubIDs
  <2>2. /\ Record(f) \in DirValues(f) /\ Record(f) # Unread
        /\ Answer(f, Record(f), "dir") = Answer(f, host[f], "live")
    BY <1>0, <2>0, <2>1, RecordIsFaithful
  <2>3. \A g \in Facts \cup {"legacy"} : dir'[g] = IF g = f THEN Truncated(f) ELSE dir[g]
    BY <2>0 DEF FilesInv
  <2> HIDE DEF f
  <2>4. step = s /\ Order[step] = f /\ data' = Record(f) /\ step' = s  BY <2>0 DEF f
  <2>5. FileTypes'  BY <1>0, <2>0, <2>1, <2>3 DEF FileTypes
  <2>6. DOMAIN dir' = Facts \cup {"legacy"}  BY <2>0 DEF FilesInv
  <2>7. FilesInv'   BY <2>0, <2>2, <2>4, <2>6 DEF FilesInv, f
  <2>8. ASSUME fresh PROVE CaptureInv'
    <3>1. dir["legacy"] = Missing /\ Underway  BY <2>0, <2>8 DEF CaptureInv
    <3>2. dir'["legacy"] = Missing  BY <2>1, <2>3, <3>1
    <3>3. \A i \in 1..7 : i # s => Order[i] \in Facts /\ dir'[Order[i]] = dir[Order[i]]
      BY <2>3, OrderFacts DEF f
    <3>4. ASSUME NEW i \in 1..7, i < s PROVE Good(Order[i])'
      <4>1. Good(Order[i])  BY <2>4, <3>1, <3>4, OrderFacts DEF Underway
      <4> QED  BY <2>0, <3>2, <3>1, <3>3, <3>4, <4>1, OthersStayGood
    <3>5. \A i \in 1..7 : i > s => dir'[Order[i]] = Missing
      BY <2>4, <3>1, <3>3, OrderFacts DEF Underway
    <3>6. Answer(f, data', "dir") \in Observed(f)'
      <4>1. host[f] \in during'[f]  BY <2>0, <2>1 DEF FilesInv
      <4> QED  BY <2>2, <2>4, <4>1 DEF Observed
    <3>7. Underway'
      <4>1. ~complete' /\ data' # Unread  BY <2>0, <2>2, <2>4, <3>1 DEF Underway
      <4> QED  BY <2>4, <3>4, <3>5, <3>6, <4>1, OrderFacts DEF Underway, f, Observed
    <3> QED  BY <2>4, <3>2, <3>7 DEF CaptureInv
  <2>9. ~fresh => CaptureInv'  BY <2>0 DEF CaptureInv
  <2> QED  BY <2>5, <2>7, <2>8, <2>9
<1>6. ASSUME Write PROVE FileTypes' /\ FilesInv' /\ CaptureInv'
  <2>0. /\ data # Unread /\ data' = Unread
        /\ dir' = [dir EXCEPT ![Order[step]] = data]
        /\ NextStep
        /\ complete' <=> step = Len(Order)
        /\ UNCHANGED <<host, fresh, during>>
    BY <1>6 DEF Write, hostvars
  <2> step # 0  BY <2>0 DEF FilesInv
  <2> PICK s \in 1..7 : s = step  BY <1>2
  <2> DEFINE f == Order[s]
  <2>1. f \in Facts /\ f # "legacy" /\ data \in DirValues(f)
    BY <2>0, OrderFacts DEF FilesInv
  <2>3. \A g \in Facts \cup {"legacy"} : dir'[g] = IF g = f THEN data ELSE dir[g]
    BY <2>0 DEF FilesInv
  <2>4. step' \in 0..7
    <3>1. step' = IF s = 7 THEN 0 ELSE s + 1  BY <2>0, OrderFacts DEF NextStep
    <3> QED  BY <3>1
  <2>5. FileTypes'
    <3> HIDE DEF f
    <3> QED  BY <1>0, <2>0, <2>1, <2>3, <2>4, OrderFacts DEF FileTypes
  <2>6. DOMAIN dir' = Facts \cup {"legacy"}  BY <2>0 DEF FilesInv
  <2>7. FilesInv'   BY <2>0, <2>6 DEF FilesInv
  <2>8. ASSUME fresh PROVE CaptureInv'
    <3>1. dir["legacy"] = Missing /\ Underway  BY <2>8 DEF CaptureInv
    <3>2. dir'["legacy"] = Missing  BY <2>1, <2>3, <3>1
    <3>3. \A i \in 1..7 : i # s => dir'[Order[i]] = dir[Order[i]]
      BY <2>3, OrderFacts
    <3>4. Answer(f, data, "dir") \in Observed(f)'
      BY <2>0, <3>1 DEF Underway, Observed
    <3>5. Good(f)'
      <4>1. dir'[f] = data  BY <2>1, <2>3
      <4> HIDE DEF f
      <4> QED  BY <3>2, <3>4, <4>1, NoLegacyReplay DEF Good
    <3> QED  BY <2>0, <2>8, <3>1, <3>2, <3>3, <3>5, Advance
  <2>9. ~fresh => CaptureInv'  BY <2>0 DEF CaptureInv
  <2> QED  BY <2>5, <2>7, <2>8, <2>9
<1>7. ASSUME Abort PROVE FileTypes' /\ FilesInv' /\ CaptureInv'
  <2>0. /\ step # 0 /\ step' = 0 /\ data' = Unread
        /\ UNCHANGED <<host, dir, complete, fresh, during>>
    BY <1>7 DEF Abort, hostvars
  <2>1. FileTypes'  BY <1>0, <2>0, OrderFacts DEF FileTypes
  <2>2. FilesInv'   BY <2>0 DEF FilesInv
  <2>3. ASSUME fresh PROVE CaptureInv'
    <3>1. dir["legacy"] = Missing /\ Underway  BY <2>0, <2>3 DEF CaptureInv
    <3>2. PICK s \in 1..7 : s = step  BY <1>2, <2>0
    <3>3. \A i \in 1..7 : (i < s => Good(Order[i])) /\ (i > s => dir[Order[i]] = Missing)
      BY <3>1, <3>2, OrderFacts DEF Underway
    <3>4. s \in 1..(Len(Order) + 1)  BY OrderFacts
    <3>5. Prefix  BY <3>3, <3>4, OrderFacts DEF Prefix
    <3>6. Prefix'
      <4>1. \A g : Good(g)' <=> Good(g)  BY <2>0, GoodStays
      <4> QED  BY <2>0, <3>5, <4>1 DEF Prefix
    <3>7. ~complete'  BY <2>0, <3>1 DEF Underway
    <3> QED  BY <2>0, <3>1, <3>6, <3>7 DEF CaptureInv
  <2>4. ~fresh => CaptureInv'  BY <2>0 DEF CaptureInv
  <2> QED  BY <2>1, <2>2, <2>3, <2>4
<1> QED  BY <1>1, <1>3, <1>4, <1>5, <1>6, <1>7, TypeParts DEF Capture

-----------------------------------------------------------------------------
(* The host, and the theorems.                                             *)

\* A change of the host is one more value it may be recorded with.
LEMMA HostKeeps == ASSUME Inv, HostChanges PROVE Inv'
<1> USE DEF Inv
<1>a. PICK f \in Facts \ {"rootless"} : \E v \in HostValues[f] \ {host[f]} :
        /\ host' = [host EXCEPT ![f] = v]
        /\ during' = IF step = 0 THEN during ELSE [during EXCEPT ![f] = @ \cup {v}]
  BY DEF HostChanges
<1>0. PICK v \in HostValues[f] :
        /\ host' = [host EXCEPT ![f] = v]
        /\ during' = IF step = 0 THEN during ELSE [during EXCEPT ![f] = @ \cup {v}]
  BY <1>a
<1>1. UNCHANGED <<dir, step, data, complete, fresh, captures, readervars>>
  BY DEF HostChanges
<1>2. FileTypes /\ CacheType  BY TypeParts
<1>3. FileTypes'
  <2>1. DOMAIN host' = Facts /\ \A g \in Facts : host'[g] \in HostValues[g]
    BY <1>0, <1>2 DEF FileTypes
  <2>2. \A g \in Facts : during'[g] \subseteq HostValues[g]
    BY <1>0, <1>2 DEF FileTypes, FilesInv
  <2> QED  BY <1>1, <1>2, <2>1, <2>2 DEF FileTypes
<1>4. DOMAIN during' = Facts /\ \A g \in Facts : during[g] \subseteq during'[g]
  BY <1>0 DEF FilesInv
<1>5. FilesInv'
  <2>1. step # 0 => \A g \in Facts : host'[g] \in during'[g]
    BY <1>0, <1>2 DEF FileTypes, FilesInv
  <2> QED  BY <1>1, <1>4, <2>1 DEF FilesInv
<1>6. ReaderInv' /\ CacheType'  BY <1>0, <1>1, <1>2, ReaderStays DEF FileTypes
<1>7. ASSUME fresh PROVE CaptureInv'
  <2>1. dir["legacy"] = Missing  BY <1>7 DEF CaptureInv
  <2>2. \A g \in Facts : Good(g) => Good(g)'  BY <1>1, <1>4, <2>1, OthersStayGood
  <2>3. \A g \in Facts : Observed(g) \subseteq Observed(g)'  BY <1>4 DEF Observed
  <2>4. CASE step # 0
    <3>1. Underway  BY <1>7, <2>4 DEF CaptureInv
    <3>2. PICK s \in 1..7 : s = step /\ Order[s] \in Facts
      BY <1>2, <2>4, OrderFacts DEF FileTypes
    <3>3. \A i \in DOMAIN Order : /\ i < step' => Good(Order[i])'
                                  /\ i > step' => dir'[Order[i]] = Missing
      BY <1>1, <2>2, <3>1, OrderFacts DEF Underway
    <3>4. data' # Unread => Answer(Order[s], data', "dir") \in Observed(Order[s])'
      BY <1>1, <2>3, <3>1, <3>2 DEF Underway
    <3>5. Underway'
      BY <1>1, <3>1, <3>2, <3>3, <3>4 DEF Underway, Observed
    <3> QED  BY <1>1, <2>1, <2>4, <3>5 DEF CaptureInv
  <2>5. CASE step = 0
    <3>1. during' = during  BY <1>0, <2>5
    <3>2. \A g : Good(g)' <=> Good(g)  BY <1>1, <3>1, GoodStays
    <3>3. Prefix' <=> Prefix  BY <1>1, <3>2 DEF Prefix
    <3> QED  BY <1>1, <1>7, <2>5, <3>2, <3>3 DEF CaptureInv
  <2> QED  BY <2>4, <2>5
<1>8. ~fresh => CaptureInv'  BY <1>1 DEF CaptureInv
<1> QED  BY <1>3, <1>5, <1>6, <1>7, <1>8, TypeParts

\* The invariant is inductive.
LEMMA InvStep == Inv /\ [Next]_vars => Inv'
<1> SUFFICES ASSUME Inv, [Next]_vars PROVE Inv'  OBVIOUS
<1>1. CASE UNCHANGED vars
  <2>1. UNCHANGED <<hostvars, capturevars, readervars>>
    BY <1>1 DEF vars, hostvars, capturevars, readervars
  <2>2. FileTypes' /\ FilesInv' /\ CaptureInv'  BY <2>1, FilesStay, TypeParts DEF Inv
  <2>3. ReaderInv' /\ CacheType'
    BY <2>1, ReaderStays, TypeParts DEF Inv, hostvars
  <2> QED  BY <2>2, <2>3, TypeParts DEF Inv
<1> QED  BY <1>1, CaptureKeeps, ReaderKeeps, HostKeeps DEF Next

\* It holds throughout.
LEMMA InvHolds == Spec => []Inv
BY InitInv, InvStep, PTL DEF Spec

\* Every fact of the host, of the directory and of the cache is one the code
\* can have read or written, at every moment.
THEOREM HostContextTyped == Spec => []TypeOK
<1>1. Inv => TypeOK  BY DEF Inv
<1> QED  BY <1>1, InvHolds, PTL

\* A capture that ended well in an empty directory is replayed as the host
\* answered in its course, however the host changed meanwhile.
THEOREM CaptureReplays == Spec => []ReplayAgrees
<1>1. Inv => ReplayAgrees
  BY DEF Inv, CaptureInv, Underway, Good, ReplayAgrees
<1> QED  BY <1>1, InvHolds, PTL

\* A capture that is running, was cut short or ended well has recorded the
\* first facts truthfully and nothing of those behind the one in progress.
THEOREM CaptureLeavesAPrefix == Spec => []CaptureIsPrefix
<1>1. ASSUME Inv, fresh PROVE Prefix
  <2>1. CASE step = 0  BY <1>1, <2>1 DEF Inv, CaptureInv
  <2>2. CASE step # 0
    <3>1. step \in 1..(Len(Order) + 1)
      BY <1>1, <2>2, OrderFacts DEF Inv, TypeOK
    <3>2. Underway  BY <1>1, <2>2 DEF Inv, CaptureInv
    <3> QED  BY <3>1, <3>2 DEF Prefix, Underway
  <2> QED  BY <2>1, <2>2
<1>2. Inv => CaptureIsPrefix  BY <1>1 DEF Prefix, Good, CaptureIsPrefix
<1> QED  BY <1>2, InvHolds, PTL

\* A lint run gets one answer to each question, whatever changes under it.
THEOREM OneRunOneAnswer == Spec => []OneAnswer
<1>1. ASSUME Inv, NEW f \in Facts, NEW a \in seen[f], NEW b \in seen[f]
      PROVE  a = b \/ (f = "rootless" /\ Unknown \in {a, b})
  <2>1. CASE f = "rootless"  BY <1>1, <2>1 DEF Inv, ReaderInv, Remembered
  <2>2. CASE f # "rootless"  BY <1>1, <2>2 DEF Inv, ReaderInv, Remembered
  <2> QED  BY <2>1, <2>2
<1>2. Inv => OneAnswer  BY <1>1 DEF OneAnswer
<1> QED  BY <1>2, InvHolds, PTL
=============================================================================
