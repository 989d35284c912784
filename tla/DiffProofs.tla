---------------------------- MODULE DiffProofs -----------------------------
(***************************************************************************)
(* The preview of fix is true, and there is no shorter one, for files of   *)
(* any length over any texts.                                              *)
(***************************************************************************)
EXTENDS Diff, SequenceTheorems, WellFoundedInduction, TLAPS

-----------------------------------------------------------------------------
(* Induction over the naturals, with the property given as a set.          *)

\* A set of naturals that is not empty has a least element.
LEMMA LeastNumber ==
  ASSUME NEW T, T \subseteq Nat, T # {}
  PROVE  \E n \in T : \A m \in T : n <= m
<1>1. PICK n \in T : \A m \in T : ~(<<m, n>> \in OpToRel(<, Nat))
  BY NatLessThanWellFounded, WFMin
<1>2. \A m \in T : ~(m < n)  BY <1>1 DEF OpToRel
<1> QED  BY <1>2

\* A set that holds 0 and with every number the next one holds them all.
LEMMA SetInduction ==
  ASSUME NEW T, 0 \in T, \A n \in Nat : n \in T => n + 1 \in T
  PROVE  Nat \subseteq T
<1> SUFFICES ASSUME Nat \ T # {} PROVE FALSE  OBVIOUS
<1>1. PICK n \in Nat \ T : \A m \in Nat \ T : n <= m  BY LeastNumber
<1>2. n # 0 /\ n - 1 \in Nat /\ n - 1 \notin Nat \ T  BY <1>1
<1> QED  BY <1>2

-----------------------------------------------------------------------------
(* Flattening a sequence of sequences.                                     *)

\* The function FlattenSeq reads its result from.
Flattens(f, s, n) == f = [r \in 1..n |-> IF r = 1 THEN s[r] ELSE f[r - 1] \o s[r]]

\* It exists, whatever the sequences.
LEMMA FlattenExists ==
  ASSUME NEW s, NEW n \in Nat
  PROVE  \E f : Flattens(f, s, n)
<1> DEFINE T == {k \in Nat : \E f : Flattens(f, s, k)}
<1>1. 0 \in T
  <2>1. Flattens([r \in 1..0 |-> s[r]], s, 0)  BY DEF Flattens
  <2> QED  BY <2>1
<1>2. ASSUME NEW k \in Nat, k \in T PROVE k + 1 \in T
  <2>1. PICK f : Flattens(f, s, k)  BY <1>2
  <2> DEFINE g == [r \in 1..(k + 1) |->
                     IF r <= k THEN f[r] ELSE IF r = 1 THEN s[r] ELSE f[r - 1] \o s[r]]
  <2>2. \A r \in 1..k : g[r] = f[r]  OBVIOUS
  <2>3. \A r \in 1..(k + 1) : g[r] = IF r = 1 THEN s[r] ELSE g[r - 1] \o s[r]
    <3> TAKE r \in 1..(k + 1)
    <3>1. CASE r <= k
      <4>1. r \in 1..k /\ (r # 1 => r - 1 \in 1..k)  BY <3>1
      <4>2. f[r] = IF r = 1 THEN s[r] ELSE f[r - 1] \o s[r]  BY <2>1, <4>1 DEF Flattens
      <4> HIDE DEF g
      <4> QED  BY <2>2, <4>1, <4>2
    <3>2. CASE r = k + 1
      <4>1. g[r] = IF r = 1 THEN s[r] ELSE f[r - 1] \o s[r]  BY <3>2
      <4>2. r # 1 => r - 1 \in 1..k  BY <3>2
      <4> HIDE DEF g
      <4> QED  BY <2>2, <4>1, <4>2
    <3> QED  BY <3>1, <3>2
  <2>4. g = [r \in 1..(k + 1) |-> IF r = 1 THEN s[r] ELSE g[r - 1] \o s[r]]
    <3>1. g = [r \in 1..(k + 1) |-> g[r]]  OBVIOUS
    <3> HIDE DEF g
    <3> QED  BY <2>3, <3>1
  <2> HIDE DEF g
  <2>5. Flattens(g, s, k + 1)  BY <2>4 DEF Flattens
  <2> QED  BY <2>5
<1> HIDE DEF T
<1>3. n \in T  BY <1>1, <1>2, SetInduction
<1> QED  BY <1>3 DEF T

\* What FlattenSeq is read from.
LEMMA FlattenByFunction ==
  ASSUME NEW X, NEW s \in Seq(Seq(X)), s # <<>>
  PROVE  \E f : Flattens(f, s, Len(s)) /\ FlattenSeq(s) = f[Len(s)]
<1> DEFINE f == CHOOSE g : g = [r \in 1..Len(s) |-> IF r = 1 THEN s[r] ELSE g[r - 1] \o s[r]]
<1>1. Len(s) \in Nat /\ Len(s) # 0  BY EmptySeq
<1>2. FlattenSeq(s) = f[Len(s)]  BY <1>1 DEF FlattenSeq
<1>3. Flattens(f, s, Len(s))  BY <1>1, FlattenExists DEF Flattens
<1> HIDE DEF f
<1> QED  BY <1>2, <1>3

\* Every prefix is flattened alike, and to a sequence.
LEMMA FlattenPrefix ==
  ASSUME NEW X, NEW s \in Seq(Seq(X)), NEW t \in Seq(Seq(X)), NEW f, NEW g,
         Len(s) <= Len(t), \A r \in 1..Len(s) : s[r] = t[r],
         Flattens(f, s, Len(s)), Flattens(g, t, Len(t))
  PROVE  \A r \in 1..Len(s) : f[r] = g[r] /\ f[r] \in Seq(X)
<1> DEFINE T == {k \in Nat : k \in 1..Len(s) => f[k] = g[k] /\ f[k] \in Seq(X)}
<1>0. Len(s) \in Nat /\ Len(t) \in Nat /\ \A r \in 1..Len(s) : s[r] \in Seq(X)
  BY LenProperties, ElementOfSeq
<1>1. 0 \in T  OBVIOUS
<1>2. ASSUME NEW k \in Nat, k \in T PROVE k + 1 \in T
  <2> SUFFICES ASSUME k + 1 \in 1..Len(s)
               PROVE  f[k + 1] = g[k + 1] /\ f[k + 1] \in Seq(X)
    OBVIOUS
  <2>1. /\ f[k + 1] = IF k + 1 = 1 THEN s[k + 1] ELSE f[k] \o s[k + 1]
        /\ g[k + 1] = IF k + 1 = 1 THEN t[k + 1] ELSE g[k] \o t[k + 1]
    <3>1. k + 1 \in 1..Len(t) /\ (k + 1) - 1 = k  BY <1>0
    <3> QED  BY <3>1 DEF Flattens
  <2>2. k # 0 => f[k] = g[k] /\ f[k] \in Seq(X)  BY <1>0, <1>2
  <2>3. s[k + 1] = t[k + 1] /\ s[k + 1] \in Seq(X)  BY <1>0
  <2> QED  BY <2>1, <2>2, <2>3, ConcatProperties
<1> HIDE DEF T
<1>3. Nat \subseteq T  BY <1>1, <1>2, SetInduction
<1> QED  BY <1>0, <1>3 DEF T

\* What is appended is flattened behind the rest.
LEMMA FlattenAppend ==
  ASSUME NEW X, NEW s \in Seq(Seq(X)), NEW e \in Seq(X)
  PROVE  FlattenSeq(Append(s, e)) = FlattenSeq(s) \o e /\ FlattenSeq(s) \in Seq(X)
<1> DEFINE t == Append(s, e)
<1>1. /\ t \in Seq(Seq(X)) /\ t # <<>> /\ Len(t) = Len(s) + 1 /\ Len(s) \in Nat
      /\ t[Len(s) + 1] = e /\ \A r \in 1..Len(s) : t[r] = s[r]
  BY AppendProperties, LenProperties
<1> HIDE DEF t
<1>2. PICK g : Flattens(g, t, Len(t)) /\ FlattenSeq(t) = g[Len(t)]
  BY <1>1, FlattenByFunction
<1>3. g[Len(t)] = IF Len(t) = 1 THEN e ELSE g[Len(s)] \o e
  <2>1. Len(t) \in 1..Len(t) /\ Len(t) - 1 = Len(s)  BY <1>1
  <2> QED  BY <1>1, <1>2, <2>1 DEF Flattens
<1>4. CASE s = <<>>
  <2>1. FlattenSeq(s) = <<>> /\ Len(s) = 0  BY <1>4, EmptySeq DEF FlattenSeq
  <2> QED  BY <1>1, <1>2, <1>3, <2>1, EmptySeq, ConcatEmptySeq DEF t
<1>5. CASE s # <<>>
  <2>1. Len(s) \in 1..Len(s)  BY <1>5, EmptySeq
  <2>2. PICK f : Flattens(f, s, Len(s)) /\ FlattenSeq(s) = f[Len(s)]
    BY <1>5, FlattenByFunction
  <2>3. f[Len(s)] = g[Len(s)] /\ f[Len(s)] \in Seq(X)
    <3>1. Len(s) <= Len(t) /\ \A r \in 1..Len(s) : s[r] = t[r]  BY <1>1
    <3> QED  BY <1>1, <1>2, <2>1, <2>2, <3>1, FlattenPrefix
  <2> QED  BY <1>1, <1>2, <1>3, <2>1, <2>2, <2>3 DEF t
<1> QED  BY <1>4, <1>5

-----------------------------------------------------------------------------
(* Positions in order.                                                     *)

\* A rising sequence never falls below its first position.
LEMMA RisingFromFirst ==
  ASSUME NEW n \in Nat, NEW p \in Int, NEW m \in Int, NEW f \in Rising(n, p, m)
  PROVE  \A k \in 1..n : f[1] <= f[k]
<1> DEFINE T == {k \in Nat : k \in 1..n => f[1] <= f[k]}
<1>1. 0 \in T  OBVIOUS
<1>2. ASSUME NEW k \in Nat, k \in T PROVE k + 1 \in T
  <2> SUFFICES ASSUME k + 1 \in 1..n PROVE f[1] <= f[k + 1]  OBVIOUS
  <2>1. CASE k = 0
    <3>1. f[1] \in p..m  BY <2>1 DEF Rising
    <3> QED  BY <2>1, <3>1
  <2>2. CASE k # 0
    <3>1. k \in 1..n /\ 1 \in 1..n /\ (k + 1) - 1 = k /\ k + 1 > 1  BY <2>2
    <3>2. f[k] < f[k + 1]  BY <3>1 DEF Rising
    <3>3. f[1] \in Int /\ f[k] \in Int /\ f[k + 1] \in Int  BY <3>1 DEF Rising
    <3> QED  BY <1>2, <3>1, <3>2, <3>3
  <2> QED  BY <2>1, <2>2
<1> HIDE DEF T
<1>3. Nat \subseteq T  BY <1>1, <1>2, SetInduction
<1> QED  BY <1>3 DEF T

\* It may be said to start later, if it does.
LEMMA RisingLater ==
  ASSUME NEW n \in Nat, NEW p \in Int, NEW m \in Int, NEW f \in Rising(n, p, m),
         NEW q \in Int, n # 0 => q <= f[1]
  PROVE  f \in Rising(n, q, m)
<1>0. \A k \in 1..n : f[1] <= f[k]  BY RisingFromFirst
<1>1. \A k \in 1..n : f[k] \in p..m /\ f[1] <= f[k] /\ 1 \in 1..n
  BY <1>0 DEF Rising
<1>2. \A k \in 1..n : f[k] \in q..m  BY <1>1
<1>3. f \in [1..n -> p..m] /\ \A k \in 1..n : k > 1 => f[k - 1] < f[k]  BY DEF Rising
<1>4. f \in [1..n -> q..m]  BY <1>2, <1>3
<1> QED  BY <1>3, <1>4 DEF Rising

\* Or to end later.
LEMMA RisingWider ==
  ASSUME NEW n \in Nat, NEW p \in Int, NEW m \in Int, NEW f \in Rising(n, p, m),
         NEW l \in Int, m <= l
  PROVE  f \in Rising(n, p, l)
<1>1. f \in [1..n -> p..m] /\ \A k \in 1..n : k > 1 => f[k - 1] < f[k]  BY DEF Rising
<1>2. f \in [1..n -> p..l]  BY <1>1
<1> QED  BY <1>1, <1>2 DEF Rising

\* All positions but the first come after the first.
LEMMA RisingTail ==
  ASSUME NEW n \in Nat, n # 0, NEW p \in Int, NEW m \in Int, NEW f \in Rising(n, p, m)
  PROVE  [k \in 1..(n - 1) |-> f[k + 1]] \in Rising(n - 1, p + 1, m)
<1> DEFINE g == [k \in 1..(n - 1) |-> f[k + 1]]
<1>1. /\ \A k \in 1..n : f[k] \in p..m /\ f[1] <= f[k]
      /\ \A k \in 1..n : k > 1 => f[k - 1] < f[k]
      /\ 1 \in 1..n
  <2>1. \A k \in 1..n : f[1] <= f[k]  BY RisingFromFirst
  <2> QED  BY <2>1 DEF Rising
<1>2. ASSUME NEW k \in 1..(n - 1)
      PROVE  g[k] \in (p + 1)..m /\ (k > 1 => g[k - 1] < g[k])
  <2>1. k + 1 \in 1..n /\ k \in 1..n /\ (k + 1) - 1 = k /\ k + 1 > 1  OBVIOUS
  <2>2. f[k] < f[k + 1] /\ f[k + 1] \in p..m /\ f[k] \in p..m  BY <1>1, <2>1
  <2>3. g[k] = f[k + 1]  OBVIOUS
  <2>4. k > 1 => g[k - 1] = f[k]
    <3> SUFFICES ASSUME k > 1 PROVE g[k - 1] = f[k]  OBVIOUS
    <3>1. k - 1 \in 1..(n - 1) /\ (k - 1) + 1 = k  OBVIOUS
    <3>2. g[k - 1] = f[(k - 1) + 1]  BY <3>1
    <3> QED  BY <3>1, <3>2
  <2> HIDE DEF g
  <2> QED  BY <2>2, <2>3, <2>4
<1>3. g \in [1..(n - 1) -> (p + 1)..m]  BY <1>2
<1> HIDE DEF g
<1>4. g \in Rising(n - 1, p + 1, m)  BY <1>2, <1>3 DEF Rising
<1> QED  BY <1>4 DEF g

\* A later position goes behind them.
LEMMA RisingAppend ==
  ASSUME NEW n \in Nat, NEW p \in Int, NEW x \in Int, p <= x, NEW f \in Rising(n, p, x - 1)
  PROVE  [k \in 1..(n + 1) |-> IF k <= n THEN f[k] ELSE x] \in Rising(n + 1, p, x)
<1> DEFINE g == [k \in 1..(n + 1) |-> IF k <= n THEN f[k] ELSE x]
<1>1. \A k \in 1..n : f[k] \in p..(x - 1) /\ (k > 1 => f[k - 1] < f[k])  BY DEF Rising
<1>2. ASSUME NEW k \in 1..(n + 1) PROVE g[k] \in p..x /\ (k > 1 => g[k - 1] < g[k])
  <2>1. CASE k <= n
    <3>1. k \in 1..n /\ g[k] = f[k] /\ (k > 1 => g[k - 1] = f[k - 1])  BY <2>1
    <3> HIDE DEF g
    <3> QED  BY <1>1, <3>1
  <2>2. CASE k = n + 1
    <3>1. g[k] = x  BY <2>2
    <3>2. k > 1 => k - 1 \in 1..n /\ g[k - 1] = f[k - 1]  BY <2>2
    <3> HIDE DEF g
    <3>3. k > 1 => f[k - 1] < x  BY <1>1, <3>2
    <3> QED  BY <3>1, <3>2, <3>3
  <2> QED  BY <2>1, <2>2
<1>3. g \in [1..(n + 1) -> p..x]  BY <1>2
<1> HIDE DEF g
<1>4. g \in Rising(n + 1, p, x)  BY <1>2, <1>3 DEF Rising
<1> QED  BY <1>4 DEF g

-----------------------------------------------------------------------------
(* The table.                                                              *)

\* What the table's equation puts into a cell.
Best(t, a, b, c) ==
  IF c[1] > Len(a) \/ c[2] > Len(b) THEN 0
  ELSE IF a[c[1]] = b[c[2]] THEN t[NextOfBoth(c)] + 1
  ELSE IF t[NextOfA(c)] >= t[NextOfB(c)] THEN t[NextOfA(c)] ELSE t[NextOfB(c)]

\* How far a cell is from the end.
Distance(a, b, c) == (Len(a) + 1 - c[1]) + (Len(b) + 1 - c[2])

\* Files are sequences of texts.
LEMMA FilesAreSequences == Files \subseteq Seq(Texts)
<1> SUFFICES ASSUME NEW s \in Files PROVE s \in Seq(Texts)  OBVIOUS
<1>1. s \in UNION {[1..m -> Texts] : m \in 0..MaxLength}  BY DEF Files, BoundedSeq, SeqOf
<1>2. PICK m \in 0..MaxLength : s \in [1..m -> Texts]  BY <1>1
<1> QED  BY <1>2, LengthAssumption

\* A cell that is not over looks at cells nearer to the end.
LEMMA NextCells ==
  ASSUME NEW a \in Seq(Texts), NEW b \in Seq(Texts), NEW c \in Cells(a, b)
  PROVE  /\ c[1] \in 1..(Len(a) + 1) /\ c[2] \in 1..(Len(b) + 1) /\ c = <<c[1], c[2]>>
         /\ Distance(a, b, c) \in Nat /\ Distance(a, b, c) <= Len(a) + Len(b)
         /\ ~(c[1] > Len(a) \/ c[2] > Len(b)) =>
              \A d \in {NextOfA(c), NextOfB(c), NextOfBoth(c)} :
                d \in Cells(a, b) /\ Distance(a, b, d) < Distance(a, b, c)
<1>1. Len(a) \in Nat /\ Len(b) \in Nat  BY LenProperties
<1>2. c[1] \in 1..(Len(a) + 1) /\ c[2] \in 1..(Len(b) + 1) /\ c = <<c[1], c[2]>>
  BY DEF Cells
<1>3. Distance(a, b, c) \in Nat /\ Distance(a, b, c) <= Len(a) + Len(b)
  <2>1. ASSUME NEW x \in Nat, NEW y \in Nat, NEW p \in 1..(x + 1), NEW q \in 1..(y + 1)
        PROVE  LET far == (x + 1 - p) + (y + 1 - q) IN far \in Nat /\ far <= x + y
    OBVIOUS
  <2> QED  BY <1>1, <1>2, <2>1, SMTT(30) DEF Distance
<1>4. ASSUME ~(c[1] > Len(a) \/ c[2] > Len(b)),
             NEW d \in {NextOfA(c), NextOfB(c), NextOfBoth(c)}
      PROVE  d \in Cells(a, b) /\ Distance(a, b, d) < Distance(a, b, c)
  <2>1. d[1] \in {c[1], c[1] + 1} /\ d[2] \in {c[2], c[2] + 1} /\ d = <<d[1], d[2]>>
        /\ (d[1] = c[1] + 1 \/ d[2] = c[2] + 1)
    BY <1>2 DEF NextOfA, NextOfB, NextOfBoth
  <2>2. d[1] \in 1..(Len(a) + 1) /\ d[2] \in 1..(Len(b) + 1)
    BY <1>1, <1>2, <1>4, <2>1
  <2>3. d \in Cells(a, b)  BY <2>1, <2>2 DEF Cells
  <2>4. Distance(a, b, d) < Distance(a, b, c)
    BY <1>1, <1>2, <2>1, SMTT(30) DEF Distance
  <2> QED  BY <2>3, <2>4
<1> QED  BY <1>2, <1>3, <1>4

\* The equation looks at nothing else.
LEMMA BestLooksAhead ==
  ASSUME NEW a \in Seq(Texts), NEW b \in Seq(Texts), NEW c \in Cells(a, b), NEW t, NEW u,
         \A d \in Cells(a, b) : Distance(a, b, d) < Distance(a, b, c) => t[d] = u[d]
  PROVE  Best(t, a, b, c) = Best(u, a, b, c)
<1>1. CASE c[1] > Len(a) \/ c[2] > Len(b)  BY <1>1 DEF Best
<1>2. CASE ~(c[1] > Len(a) \/ c[2] > Len(b))
  <2>1. \A d \in {NextOfA(c), NextOfB(c), NextOfBoth(c)} : t[d] = u[d]
    BY <1>2, NextCells
  <2> QED  BY <2>1 DEF Best
<1> QED  BY <1>1, <1>2

\* The equation has a solution, built from the end of the files.
LEMMA TableExists ==
  ASSUME NEW a \in Seq(Texts), NEW b \in Seq(Texts)
  PROVE  \E t : t = [c \in Cells(a, b) |-> Best(t, a, b, c)]
<1> DEFINE Near(k) == {c \in Cells(a, b) : Distance(a, b, c) < k}
           Solves(t, k) == t = [c \in Near(k) |-> Best(t, a, b, c)]
           T == {k \in Nat : \E t : Solves(t, k)}
<1>0. /\ Len(a) \in Nat /\ Len(b) \in Nat
      /\ \A c \in Cells(a, b) : Distance(a, b, c) \in Nat
                                /\ Distance(a, b, c) <= Len(a) + Len(b)
  BY LenProperties, NextCells
<1>1. 0 \in T
  <2>1. Near(0) = {}  BY <1>0
  <2> DEFINE t == [c \in Near(0) |-> 0]
  <2>2. t = [c \in Near(0) |-> Best(t, a, b, c)]  BY <2>1
  <2> QED  BY <2>2
<1>2. ASSUME NEW k \in Nat, k \in T PROVE k + 1 \in T
  <2>1. PICK t : Solves(t, k)  BY <1>2
  <2> DEFINE u == [c \in Near(k + 1) |-> Best(t, a, b, c)]
  <2>2. \A c \in Near(k) : t[c] = Best(t, a, b, c)  BY <2>1
  <2>3. Near(k) \subseteq Near(k + 1)  BY <1>0
  <2>4. \A c \in Near(k + 1) : u[c] = Best(t, a, b, c)  OBVIOUS
  <2>5. u = [c \in Near(k + 1) |-> u[c]]  OBVIOUS
  <2> HIDE DEF u
  <2>6. \A c \in Near(k) : t[c] = u[c]  BY <2>2, <2>3, <2>4
  <2>7. ASSUME NEW c \in Near(k + 1) PROVE Best(t, a, b, c) = Best(u, a, b, c)
    <3>1. \A d \in Cells(a, b) : Distance(a, b, d) < Distance(a, b, c) => d \in Near(k)
      BY <1>0
    <3>2. \A d \in Cells(a, b) : Distance(a, b, d) < Distance(a, b, c) => t[d] = u[d]
      BY <2>6, <3>1
    <3> QED  BY <3>2, BestLooksAhead
  <2>8. \A c \in Near(k + 1) : u[c] = Best(u, a, b, c)  BY <2>4, <2>7
  <2>9. Solves(u, k + 1)  BY <2>5, <2>8
  <2> HIDE DEF Solves
  <2> QED  BY <2>9
<1> HIDE DEF T
<1>3. Len(a) + Len(b) + 1 \in T  BY <1>0, <1>1, <1>2, SetInduction
<1>4. PICK t : Solves(t, Len(a) + Len(b) + 1)  BY <1>3 DEF T
<1>5. Near(Len(a) + Len(b) + 1) = Cells(a, b)  BY <1>0
<1> QED  BY <1>4, <1>5

\* The table solves it.
LEMMA TableSolves ==
  ASSUME NEW a \in Seq(Texts), NEW b \in Seq(Texts)
  PROVE  /\ Table(a, b) = [c \in Cells(a, b) |-> Best(Table(a, b), a, b, c)]
         /\ \A c \in Cells(a, b) : Table(a, b)[c] = Best(Table(a, b), a, b, c)
<1> DEFINE F == CHOOSE t : t = [c \in Cells(a, b) |-> Best(t, a, b, c)]
<1>1. Table(a, b) = F  BY DEF Table, Best
<1>2. F = [c \in Cells(a, b) |-> Best(F, a, b, c)]  BY TableExists
<1> HIDE DEF F
<1> QED  BY <1>1, <1>2

\* It counts.
LEMMA TableCounts ==
  ASSUME NEW a \in Seq(Texts), NEW b \in Seq(Texts)
  PROVE  \A c \in Cells(a, b) : Table(a, b)[c] \in Nat
<1> DEFINE t == Table(a, b)
           T == {k \in Nat : \A c \in Cells(a, b) : Distance(a, b, c) < k => t[c] \in Nat}
<1>0. \A c \in Cells(a, b) : Distance(a, b, c) \in Nat  BY NextCells
<1>1. 0 \in T  BY <1>0
<1>2. ASSUME NEW k \in Nat, k \in T PROVE k + 1 \in T
  <2>1. ASSUME NEW c \in Cells(a, b), Distance(a, b, c) < k + 1 PROVE t[c] \in Nat
    <3>1. t[c] = Best(t, a, b, c)  BY TableSolves
    <3>2. ~(c[1] > Len(a) \/ c[2] > Len(b)) =>
            \A d \in {NextOfA(c), NextOfB(c), NextOfBoth(c)} : t[d] \in Nat
      <4> SUFFICES ASSUME ~(c[1] > Len(a) \/ c[2] > Len(b)),
                          NEW d \in {NextOfA(c), NextOfB(c), NextOfBoth(c)}
                   PROVE  t[d] \in Nat
        OBVIOUS
      <4>1. d \in Cells(a, b) /\ Distance(a, b, d) < Distance(a, b, c)
        BY NextCells, SMTT(30)
      <4>2. Distance(a, b, d) < k  BY <1>0, <2>1, <4>1
      <4> QED  BY <1>2, <4>1, <4>2
    <3> HIDE DEF t
    <3> QED  BY <3>1, <3>2 DEF Best
  <2> QED  BY <2>1
<1> HIDE DEF T
<1>3. Nat \subseteq T  BY <1>1, <1>2, SetInduction
<1>4. ASSUME NEW c \in Cells(a, b) PROVE t[c] \in Nat
  <2>1. Distance(a, b, c) + 1 \in T /\ Distance(a, b, c) < Distance(a, b, c) + 1
    BY <1>0, <1>3
  <2> QED  BY <2>1 DEF T
<1> QED  BY <1>4

\* n lines in common, at the positions f of a from p on and g of b from q on.
InCommon(a, b, p, q, n, f, g) ==
  /\ f \in Rising(n, p, Len(a)) /\ g \in Rising(n, q, Len(b))
  /\ \A k \in 1..n : a[f[k]] = b[g[k]]

\* No common subsequence is longer than the table says.
LEMMA TableIsBest ==
  ASSUME NEW a \in Seq(Texts), NEW b \in Seq(Texts)
  PROVE  \A c \in Cells(a, b) : \A n \in Nat : \A f, g :
           InCommon(a, b, c[1], c[2], n, f, g) => n <= Table(a, b)[c]
<1> DEFINE t == Table(a, b)
           T == {k \in Nat : \A c \in Cells(a, b) : Distance(a, b, c) < k =>
                   \A n \in Nat : \A f, g : InCommon(a, b, c[1], c[2], n, f, g) => n <= t[c]}
<1>0. /\ \A c \in Cells(a, b) : Distance(a, b, c) \in Nat /\ t[c] \in Nat
      /\ Len(a) \in Nat /\ Len(b) \in Nat
  BY NextCells, TableCounts, LenProperties
<1>1. 0 \in T  BY <1>0
<1>2. ASSUME NEW k \in Nat, k \in T PROVE k + 1 \in T
  <2>1. ASSUME NEW c \in Cells(a, b), Distance(a, b, c) < k + 1, NEW n \in Nat, NEW f, NEW g,
               InCommon(a, b, c[1], c[2], n, f, g)
        PROVE  n <= t[c]
    <3> DEFINE p == c[1]
               q == c[2]
    <3>1. p \in 1..(Len(a) + 1) /\ q \in 1..(Len(b) + 1) /\ t[c] \in Nat
      BY <1>0, NextCells
    <3>2. t[c] = Best(t, a, b, c)  BY TableSolves
    <3>3. /\ f \in Rising(n, p, Len(a)) /\ g \in Rising(n, q, Len(b))
          /\ \A l \in 1..n : a[f[l]] = b[g[l]]
      BY <2>1 DEF InCommon
    <3>4. CASE n = 0  BY <3>1, <3>4
    <3>5. CASE n # 0
      <4>1. 1 \in 1..n /\ f[1] \in p..Len(a) /\ g[1] \in q..Len(b)
        <5>1. 1 \in 1..n  BY <3>5
        <5> QED  BY <3>3, <5>1 DEF Rising
      <4>2. p <= Len(a) /\ q <= Len(b)  BY <1>0, <3>1, <4>1
      <4>3. ASSUME NEW d \in {NextOfA(c), NextOfB(c), NextOfBoth(c)}
            PROVE  /\ d \in Cells(a, b) /\ t[d] \in Nat
                   /\ \A m \in Nat : \A x, y : InCommon(a, b, d[1], d[2], m, x, y) => m <= t[d]
        <5>1. ~(c[1] > Len(a) \/ c[2] > Len(b))  BY <1>0, <3>1, <4>2
        <5>2. d \in Cells(a, b) /\ Distance(a, b, d) < Distance(a, b, c)
          BY <5>1, NextCells, SMTT(30)
        <5>3. Distance(a, b, d) < k  BY <1>0, <2>1, <5>2
        <5> QED  BY <1>0, <1>2, <5>2, <5>3
      <4>4. CASE a[p] = b[q]
        <5>1. t[c] = t[NextOfBoth(c)] + 1
          BY <1>0, <3>1, <3>2, <4>2, <4>4 DEF Best
        <5> DEFINE x == [l \in 1..(n - 1) |-> f[l + 1]]
                   y == [l \in 1..(n - 1) |-> g[l + 1]]
        <5>2. x \in Rising(n - 1, p + 1, Len(a)) /\ y \in Rising(n - 1, q + 1, Len(b))
          <6>1. p \in Int /\ q \in Int /\ Len(a) \in Int /\ Len(b) \in Int  BY <1>0, <3>1
          <6> HIDE DEF p, q
          <6> QED  BY <3>3, <3>5, <6>1, RisingTail
        <5>3. \A l \in 1..(n - 1) : a[x[l]] = b[y[l]]
          <6> TAKE l \in 1..(n - 1)
          <6>1. l + 1 \in 1..n /\ x[l] = f[l + 1] /\ y[l] = g[l + 1]  OBVIOUS
          <6> HIDE DEF x, y
          <6> QED  BY <3>3, <6>1
        <5> HIDE DEF x, y
        <5>4. InCommon(a, b, NextOfBoth(c)[1], NextOfBoth(c)[2], n - 1, x, y)
          BY <5>2, <5>3 DEF InCommon, NextOfBoth
        <5>5. n - 1 \in Nat  BY <3>5
        <5>6. n - 1 <= t[NextOfBoth(c)] /\ t[NextOfBoth(c)] \in Nat  BY <4>3, <5>4, <5>5
        <5> HIDE DEF t
        <5> QED  BY <5>1, <5>5, <5>6
      <4>5. CASE a[p] # b[q]
        <5>1. /\ t[c] >= t[NextOfA(c)] /\ t[c] >= t[NextOfB(c)]
              /\ t[NextOfA(c)] \in Nat /\ t[NextOfB(c)] \in Nat
          <6>1. t[NextOfA(c)] \in Nat /\ t[NextOfB(c)] \in Nat  BY <4>3
          <6>2. t[c] = IF t[NextOfA(c)] >= t[NextOfB(c)] THEN t[NextOfA(c)] ELSE t[NextOfB(c)]
            BY <1>0, <3>1, <3>2, <4>2, <4>5 DEF Best
          <6> HIDE DEF t
          <6> QED  BY <6>1, <6>2
        <5>2. p \in Int /\ q \in Int /\ Len(a) \in Int /\ Len(b) \in Int  BY <1>0, <3>1
        <5>3. CASE f[1] # p
          <6>1. p + 1 <= f[1]  BY <4>1, <5>2, <5>3
          <6>2. f \in Rising(n, p + 1, Len(a))  BY <3>3, <5>2, <6>1, RisingLater
          <6>3. InCommon(a, b, NextOfA(c)[1], NextOfA(c)[2], n, f, g)
            BY <3>3, <6>2 DEF InCommon, NextOfA
          <6>4. n <= t[NextOfA(c)]  BY <4>3, <6>3
          <6> HIDE DEF t
          <6> QED  BY <3>1, <5>1, <6>4
        <5>4. CASE g[1] # q
          <6>1. q + 1 <= g[1]  BY <4>1, <5>2, <5>4
          <6>2. g \in Rising(n, q + 1, Len(b))  BY <3>3, <5>2, <6>1, RisingLater
          <6>3. InCommon(a, b, NextOfB(c)[1], NextOfB(c)[2], n, f, g)
            BY <3>3, <6>2 DEF InCommon, NextOfB
          <6>4. n <= t[NextOfB(c)]  BY <4>3, <6>3
          <6> HIDE DEF t
          <6> QED  BY <3>1, <5>1, <6>4
        <5>5. f[1] # p \/ g[1] # q  BY <3>3, <4>1, <4>5
        <5> QED  BY <5>3, <5>4, <5>5
      <4> QED  BY <4>4, <4>5
    <3> QED  BY <3>4, <3>5
  <2> QED  BY <2>1
<1> HIDE DEF T
<1>3. Nat \subseteq T  BY <1>1, <1>2, SetInduction
<1>4. ASSUME NEW c \in Cells(a, b), NEW n \in Nat, NEW f, NEW g,
             InCommon(a, b, c[1], c[2], n, f, g)
      PROVE  n <= t[c]
  <2>1. Distance(a, b, c) + 1 \in T /\ Distance(a, b, c) < Distance(a, b, c) + 1
    BY <1>0, <1>3
  <2> QED  BY <1>4, <2>1 DEF T
<1> QED  BY <1>4

-----------------------------------------------------------------------------
(* Common lines as positions of a file.                                    *)

\* s is found, in order, among the lines p to m of t.
Places(s, t, p, m, f) == f \in Rising(Len(s), p, m) /\ \A k \in 1..Len(s) : s[k] = t[f[k]]
Embeds(s, t, p, m)    == \E f : Places(s, t, p, m, f)

\* Nothing is found everywhere.
LEMMA EmbedsNothing == ASSUME NEW t, NEW p \in Int, NEW m \in Int PROVE Embeds(<<>>, t, p, m)
<1> DEFINE f == [k \in 1..0 |-> 0]
<1>1. f \in Rising(0, p, m)
  <2>1. f \in [1..0 -> p..m]  OBVIOUS
  <2> QED  BY <2>1 DEF Rising
<1>2. Len(<<>>) = 0  OBVIOUS
<1> HIDE DEF f
<1> QED  BY <1>1, <1>2 DEF Embeds, Places

\* What is found is found in a longer stretch.
LEMMA EmbedsWider ==
  ASSUME NEW s \in Seq(Texts), NEW t, NEW p \in Int, NEW m \in Int, NEW l \in Int, m <= l,
         Embeds(s, t, p, m)
  PROVE  Embeds(s, t, p, l)
<1>1. PICK f : Places(s, t, p, m, f)  BY DEF Embeds
<1>2. Len(s) \in Nat  BY LenProperties
<1>3. f \in Rising(Len(s), p, l)  BY <1>1, <1>2, RisingWider DEF Places
<1> QED  BY <1>1, <1>3 DEF Embeds, Places

\* One more line is found with the line itself.
LEMMA EmbedsAppend ==
  ASSUME NEW s \in Seq(Texts), NEW t, NEW p \in Int, NEW x \in Int, p <= x,
         t[x] \in Texts, Embeds(s, t, p, x - 1)
  PROVE  Embeds(Append(s, t[x]), t, p, x)
<1>1. PICK f : Places(s, t, p, x - 1, f)  BY DEF Embeds
<1> DEFINE n == Len(s)
           g == [k \in 1..(n + 1) |-> IF k <= n THEN f[k] ELSE x]
           r == Append(s, t[x])
<1>2. /\ n \in Nat /\ Len(r) = n + 1 /\ r[n + 1] = t[x]
      /\ \A k \in 1..n : r[k] = s[k]
  BY AppendProperties, LenProperties
<1>3. g \in Rising(n + 1, p, x)  BY <1>1, <1>2, RisingAppend DEF Places
<1> HIDE DEF r
<1>4. ASSUME NEW k \in 1..(n + 1) PROVE r[k] = t[g[k]]
  <2>1. CASE k <= n
    <3>1. k \in 1..n /\ g[k] = f[k]  BY <1>2, <2>1
    <3> HIDE DEF g
    <3>2. s[k] = t[f[k]]  BY <1>1, <3>1 DEF Places
    <3> QED  BY <1>2, <3>1, <3>2
  <2>2. CASE k = n + 1
    <3>1. g[k] = x  BY <1>2, <2>2
    <3> HIDE DEF g
    <3> QED  BY <1>2, <2>2, <3>1
  <2> QED  BY <1>2, <2>1, <2>2
<1> HIDE DEF g, n
<1>5. Places(r, t, p, x, g)  BY <1>2, <1>3, <1>4 DEF Places
<1> QED  BY <1>5 DEF Embeds, r

\* A line that is not the first one looked for may be passed.
LEMMA EmbedsSkip ==
  ASSUME NEW s \in Seq(Texts), NEW t, NEW p \in Int, NEW m \in Int, Embeds(s, t, p, m),
         s # <<>> => t[p] # Head(s)
  PROVE  Embeds(s, t, p + 1, m)
<1>1. PICK f : Places(s, t, p, m, f)  BY DEF Embeds
<1>2. Len(s) \in Nat  BY LenProperties
<1>3. Len(s) # 0 => p + 1 <= f[1]
  <2> SUFFICES ASSUME Len(s) # 0 PROVE p + 1 <= f[1]  OBVIOUS
  <2>1. s # <<>> /\ Head(s) = s[1]  BY EmptySeq, HeadTailProperties
  <2>2. 1 \in 1..Len(s)  BY <1>2
  <2>3. f[1] \in p..m /\ s[1] = t[f[1]]  BY <1>1, <2>2 DEF Places, Rising
  <2> QED  BY <2>1, <2>3
<1>4. f \in Rising(Len(s), p + 1, m)  BY <1>1, <1>2, <1>3, RisingLater DEF Places
<1> QED  BY <1>1, <1>4 DEF Embeds, Places

\* The first one found leaves the others to be found behind it.
LEMMA EmbedsTail ==
  ASSUME NEW s \in Seq(Texts), s # <<>>, NEW t, NEW p \in Int, NEW m \in Int,
         Embeds(s, t, p, m)
  PROVE  Embeds(Tail(s), t, p + 1, m) /\ p <= m
<1>1. PICK f : Places(s, t, p, m, f)  BY DEF Embeds
<1> DEFINE n == Len(s)
           g == [k \in 1..(n - 1) |-> f[k + 1]]
           r == Tail(s)
<1>2. /\ n \in Nat /\ n # 0 /\ Len(r) = n - 1
      /\ \A k \in 1..(n - 1) : r[k] = s[k + 1]
  BY EmptySeq, LenProperties, HeadTailProperties
<1>3. g \in Rising(n - 1, p + 1, m)  BY <1>1, <1>2, RisingTail DEF Places
<1> HIDE DEF r
<1>4. ASSUME NEW k \in 1..(n - 1) PROVE r[k] = t[g[k]]
  <2>1. k + 1 \in 1..n /\ g[k] = f[k + 1]  BY <1>2
  <2> HIDE DEF g
  <2>2. s[k + 1] = t[f[k + 1]]  BY <1>1, <2>1 DEF Places
  <2> QED  BY <1>2, <2>1, <2>2
<1>5. p <= m
  <2>1. 1 \in 1..n  BY <1>2
  <2>2. f[1] \in p..m  BY <1>1, <2>1 DEF Places, Rising
  <2> QED  BY <2>2
<1> HIDE DEF g, n
<1>6. Places(r, t, p + 1, m, g)  BY <1>2, <1>3, <1>4 DEF Places
<1> QED  BY <1>5, <1>6 DEF Embeds, r

-----------------------------------------------------------------------------
(* What the preview shows.                                                 *)

PreviewLine == [sign : {" ", "-", "+"}, text : Texts]

ShownOf(o, signs) == [k \in DOMAIN o |-> IF o[k].sign \in signs THEN <<o[k].text>> ELSE <<>>]

\* Each line shows a sequence of texts.
LEMMA ShownType ==
  ASSUME NEW o \in Seq(PreviewLine), NEW signs
  PROVE  /\ ShownOf(o, signs) \in Seq(Seq(Texts))
         /\ Len(ShownOf(o, signs)) = Len(o)
<1>1. Len(o) \in Nat /\ DOMAIN o = 1..Len(o) /\ \A k \in 1..Len(o) : o[k] \in PreviewLine
  BY LenProperties, ElementOfSeq
<1>2. \A k \in 1..Len(o) : o[k].text \in Texts  BY <1>1 DEF PreviewLine
<1>3. \A x \in Texts : <<x>> \in Seq(Texts)  OBVIOUS
<1>4. ShownOf(o, signs) \in [1..Len(o) -> Seq(Texts)]
  <2>1. <<>> \in Seq(Texts)  OBVIOUS
  <2>2. \A k \in 1..Len(o) : (IF o[k].sign \in signs THEN <<o[k].text>> ELSE <<>>) \in Seq(Texts)
    BY <1>2, <1>3, <2>1
  <2> QED  BY <1>1, <2>2 DEF ShownOf
<1> QED  BY <1>1, <1>4

\* One more line shows one more text, or none.
LEMMA ShownAppend ==
  ASSUME NEW o \in Seq(PreviewLine), NEW l \in PreviewLine, NEW signs
  PROVE  /\ Append(o, l) \in Seq(PreviewLine)
         /\ FlattenSeq(ShownOf(o, signs)) \in Seq(Texts)
         /\ FlattenSeq(ShownOf(Append(o, l), signs)) =
              IF l.sign \in signs THEN Append(FlattenSeq(ShownOf(o, signs)), l.text)
                                  ELSE FlattenSeq(ShownOf(o, signs))
<1> DEFINE q == Append(o, l)
           n == Len(o)
           e == IF l.sign \in signs THEN <<l.text>> ELSE <<>>
           s == ShownOf(o, signs)
<1>1. /\ q \in Seq(PreviewLine) /\ Len(q) = n + 1 /\ n \in Nat
      /\ q[n + 1] = l /\ \A k \in 1..n : q[k] = o[k]
      /\ DOMAIN q = 1..(n + 1) /\ DOMAIN o = 1..n
  BY AppendProperties, LenProperties
<1>2. s \in Seq(Seq(Texts)) /\ Len(s) = n /\ \A k \in 1..n :
        s[k] = IF o[k].sign \in signs THEN <<o[k].text>> ELSE <<>>
  BY <1>1, ShownType DEF ShownOf
<1>3. l.text \in Texts  BY DEF PreviewLine
<1>4. e \in Seq(Texts)
  <2>1. <<>> \in Seq(Texts) /\ <<l.text>> \in Seq(Texts)  BY <1>3
  <2> QED  BY <2>1
<1> HIDE DEF q
<1>5. ShownOf(q, signs) \in Seq(Seq(Texts)) /\ Len(ShownOf(q, signs)) = n + 1
      /\ \A k \in 1..(n + 1) :
           ShownOf(q, signs)[k] = IF q[k].sign \in signs THEN <<q[k].text>> ELSE <<>>
  <2>1. ShownOf(q, signs) \in Seq(Seq(Texts)) /\ Len(ShownOf(q, signs)) = n + 1
    BY <1>1, ShownType
  <2> QED  BY <1>1, <2>1 DEF ShownOf
<1> HIDE DEF s
<1>6. ShownOf(q, signs) = Append(s, e)
  <2> DEFINE u == ShownOf(q, signs)
             v == Append(s, e)
  <2>1. v \in Seq(Seq(Texts)) /\ Len(v) = n + 1 /\ v[n + 1] = e
        /\ \A k \in 1..n : v[k] = s[k]
    BY <1>2, <1>4, AppendProperties
  <2>2. u[n + 1] = e  BY <1>1, <1>5
  <2>3. \A k \in 1..n : u[k] = s[k]
    <3> TAKE k \in 1..n
    <3>1. k \in 1..(n + 1)  BY <1>1
    <3> QED  BY <1>1, <1>2, <1>5, <3>1
  <2> HIDE DEF u, v, e
  <2>4. \A k \in 1..(n + 1) : u[k] = v[k]
    <3>1. \A k \in 1..(n + 1) : k \in 1..n \/ k = n + 1  BY <1>1
    <3> QED  BY <2>1, <2>2, <2>3, <3>1
  <2>5. u \in Seq(Seq(Texts)) /\ Len(u) = n + 1  BY <1>5 DEF u
  <2>6. u = v  BY <2>1, <2>4, <2>5, SeqEqual
  <2> QED  BY <2>6 DEF u, v
<1>7. FlattenSeq(Append(s, e)) = FlattenSeq(s) \o e /\ FlattenSeq(s) \in Seq(Texts)
  BY <1>2, <1>4, FlattenAppend
<1>8. FlattenSeq(s) \o e = IF l.sign \in signs THEN Append(FlattenSeq(s), l.text)
                                               ELSE FlattenSeq(s)
  <2>1. CASE l.sign \in signs  BY <1>3, <1>7, <2>1, AppendIsConcat
  <2>2. CASE l.sign \notin signs  BY <1>7, <2>2, ConcatEmptySeq
  <2> QED  BY <2>1, <2>2
<1> QED  BY <1>1, <1>6, <1>7, <1>8 DEF q, s

-----------------------------------------------------------------------------
(* The inductive invariant.                                                *)

TypeInv ==
  /\ before \in Seq(Texts) /\ after \in Seq(Texts)
  /\ table = Table(before, after)
  /\ lcs \in Seq(Texts) /\ out \in Seq(PreviewLine)
  /\ i \in 1..(Len(before) + 1) /\ j \in 1..(Len(after) + 1)
  /\ pc \in {"match", "walk", "done"}

\* What was matched so far is found in what was passed of both files, and the
\* table says what is still to come.
MatchInv ==
  pc = "match" =>
    /\ out = <<>>
    /\ Len(lcs) + table[<<i, j>>] = table[<<1, 1>>]
    /\ Embeds(lcs, before, 1, i - 1) /\ Embeds(lcs, after, 1, j - 1)

\* What is left of the common lines is found in the rest of both files.
WalkInv ==
  pc # "match" =>
    /\ Len(Shown({" "})) + Len(lcs) = table[<<1, 1>>]
    /\ Embeds(lcs, before, i, Len(before)) /\ Embeds(lcs, after, j, Len(after))
    /\ Shown({" ", "-"}) = SubSeq(before, 1, i - 1)
    /\ Shown({" ", "+"}) = SubSeq(after, 1, j - 1)

DoneInv == pc = "done" => i = Len(before) + 1 /\ j = Len(after) + 1 /\ lcs = <<>>

DiffInv == TypeInv /\ MatchInv /\ WalkInv /\ DoneInv

\* The cell the walk along the table is at.
LEMMA CurrentCell ==
  ASSUME TypeInv
  PROVE  /\ <<i, j>> \in Cells(before, after) /\ <<1, 1>> \in Cells(before, after)
         /\ \A c \in Cells(before, after) :
              table[c] \in Nat /\ table[c] = Best(table, before, after, c)
         /\ Len(before) \in Nat /\ Len(after) \in Nat /\ i \in Nat /\ j \in Nat
         /\ Len(lcs) \in Nat
<1>1. Len(before) \in Nat /\ Len(after) \in Nat /\ Len(lcs) \in Nat
  BY LenProperties DEF TypeInv
<1>2. <<i, j>> \in Cells(before, after) /\ <<1, 1>> \in Cells(before, after)
  BY <1>1 DEF TypeInv, Cells
<1>3. \A c \in Cells(before, after) :
        table[c] \in Nat /\ table[c] = Best(table, before, after, c)
  BY TableSolves, TableCounts DEF TypeInv
<1> QED  BY <1>1, <1>2, <1>3 DEF TypeInv

\* Nothing is matched yet.
LEMMA DiffInit == Init => DiffInv
<1> SUFFICES ASSUME Init PROVE DiffInv  OBVIOUS
<1>1. /\ before \in Seq(Texts) /\ after \in Seq(Texts) /\ table = Table(before, after)
      /\ lcs = <<>> /\ out = <<>> /\ i = 1 /\ j = 1 /\ pc = "match"
  BY FilesAreSequences DEF Init
<1>2. Len(before) \in Nat /\ Len(after) \in Nat  BY <1>1, LenProperties
<1>3. <<>> \in Seq(Texts) /\ <<>> \in Seq(PreviewLine)  OBVIOUS
<1>4. i \in 1..(Len(before) + 1) /\ j \in 1..(Len(after) + 1)  BY <1>1, <1>2
<1>5. TypeInv  BY <1>1, <1>3, <1>4 DEF TypeInv
<1>6. MatchInv
  <2>1. Embeds(<<>>, before, 1, i - 1) /\ Embeds(<<>>, after, 1, j - 1)
    BY <1>1, EmbedsNothing
  <2>2. Len(lcs) = 0 /\ table[<<1, 1>>] \in Nat  BY <1>1, <1>5, CurrentCell
  <2>3. Len(lcs) + table[<<i, j>>] = table[<<1, 1>>]
    <3>1. <<i, j>> = <<1, 1>>  BY <1>1
    <3> QED  BY <2>2, <3>1
  <2> QED  BY <1>1, <2>1, <2>3 DEF MatchInv
<1> QED  BY <1>1, <1>5, <1>6 DEF DiffInv, WalkInv, DoneInv

\* A line of both files is matched.
LEMMA MatchKeeps == ASSUME DiffInv, Match PROVE DiffInv'
<1>1. /\ pc = "match" /\ i <= Len(before) /\ j <= Len(after) /\ before[i] = after[j]
      /\ lcs' = Append(lcs, before[i]) /\ i' = i + 1 /\ j' = j + 1
      /\ before' = before /\ after' = after /\ table' = table /\ out' = out /\ pc' = pc
  BY DEF Match, Inside
<1>2. TypeInv /\ MatchInv  BY DEF DiffInv
<1>3. before[i] \in Texts /\ i \in 1..Len(before) /\ j \in 1..Len(after)
  BY <1>1, <1>2, CurrentCell, ElementOfSeq DEF TypeInv
<1>4. lcs' \in Seq(Texts) /\ Len(lcs') = Len(lcs) + 1
  BY <1>1, <1>2, <1>3, AppendProperties DEF TypeInv
<1>5. TypeInv'
  <2>1. i' \in 1..(Len(before) + 1) /\ j' \in 1..(Len(after) + 1)
    BY <1>1, <1>2, <1>3, CurrentCell
  <2> QED  BY <1>1, <1>2, <1>4, <2>1 DEF TypeInv
<1>6. MatchInv'
  <2>1. Embeds(lcs', before, 1, i) /\ Embeds(lcs', after, 1, j)
    BY <1>1, <1>2, <1>3, EmbedsAppend DEF TypeInv, MatchInv
  <2>2. (i + 1) - 1 = i /\ (j + 1) - 1 = j  BY <1>3
  <2>3. table[<<i, j>>] = table[<<i + 1, j + 1>>] + 1
    <3>1. table[<<i, j>>] = Best(table, before, after, <<i, j>>)  BY <1>2, CurrentCell
    <3>2. ~(i > Len(before) \/ j > Len(after))  BY <1>2, <1>3, CurrentCell
    <3> QED  BY <1>1, <3>1, <3>2 DEF Best, NextOfBoth
  <2>4. Len(lcs) + table[<<i, j>>] = table[<<1, 1>>]  BY <1>1, <1>2 DEF MatchInv
  <2>5. table[<<i + 1, j + 1>>] \in Nat
    <3>1. <<i + 1, j + 1>> \in Cells(before, after)
      BY <1>2, <1>3, CurrentCell, SMTT(30) DEF Cells
    <3> QED  BY <1>2, <3>1, CurrentCell
  <2>6. (Len(lcs) + 1) + table[<<i + 1, j + 1>>] = table[<<1, 1>>]
    <3>1. Len(lcs) \in Nat  BY <1>2, CurrentCell
    <3> QED  BY <2>3, <2>4, <2>5, <3>1
  <2>7. out = <<>>  BY <1>1, <1>2 DEF MatchInv
  <2> QED  BY <1>1, <1>4, <2>1, <2>2, <2>6, <2>7 DEF MatchInv
<1> QED  BY <1>1, <1>5, <1>6 DEF DiffInv, WalkInv, DoneInv

\* A line of one file is passed, and the table says there is no loss.
LEMMA PassKeeps == ASSUME DiffInv, PassBefore \/ PassAfter PROVE DiffInv'
<1> DEFINE a == <<i + 1, j>>
           b == <<i, j + 1>>
<1>1. /\ pc = "match" /\ i <= Len(before) /\ j <= Len(after) /\ before[i] # after[j]
      /\ before' = before /\ after' = after /\ table' = table /\ lcs' = lcs /\ out' = out
      /\ pc' = pc
      /\ \/ i' = i + 1 /\ j' = j /\ table[a] >= table[b]
         \/ i' = i /\ j' = j + 1 /\ ~(table[a] >= table[b])
  BY DEF PassBefore, PassAfter, Inside
<1>2. TypeInv /\ MatchInv  BY DEF DiffInv
<1>3. i \in 1..Len(before) /\ j \in 1..Len(after) /\ Len(before) \in Nat /\ Len(after) \in Nat
  BY <1>1, <1>2, CurrentCell DEF TypeInv
<1>4. TypeInv'
  <2>1. i' \in 1..(Len(before) + 1) /\ j' \in 1..(Len(after) + 1)  BY <1>1, <1>3
  <2> QED  BY <1>1, <1>2, <2>1 DEF TypeInv
<1>5. MatchInv'
  <2>1. table[<<i, j>>] = table[<<i', j'>>]
    <3>1. table[<<i, j>>] = Best(table, before, after, <<i, j>>)  BY <1>2, CurrentCell
    <3>2. ~(i > Len(before) \/ j > Len(after))  BY <1>2, <1>3, CurrentCell
    <3>3. table[<<i, j>>] = IF table[a] >= table[b] THEN table[a] ELSE table[b]
      BY <1>1, <3>1, <3>2 DEF Best, NextOfA, NextOfB
    <3> QED  BY <1>1, <3>3
  <2>2. Embeds(lcs, before, 1, i - 1) /\ Embeds(lcs, after, 1, j - 1)
    BY <1>1, <1>2 DEF MatchInv
  <2>3. Embeds(lcs, before, 1, i' - 1)
    <3>1. i - 1 \in Int /\ i' - 1 \in Int /\ i - 1 <= i' - 1  BY <1>1, <1>3
    <3> QED  BY <1>2, <2>2, <3>1, EmbedsWider DEF TypeInv
  <2>4. Embeds(lcs, after, 1, j' - 1)
    <3>1. j - 1 \in Int /\ j' - 1 \in Int /\ j - 1 <= j' - 1  BY <1>1, <1>3
    <3> QED  BY <1>2, <2>2, <3>1, EmbedsWider DEF TypeInv
  <2> HIDE DEF a, b
  <2> QED  BY <1>1, <1>2, <2>1, <2>3, <2>4 DEF MatchInv
<1> QED  BY <1>1, <1>4, <1>5 DEF DiffInv, WalkInv, DoneInv

\* Nothing is shown of nothing.
LEMMA NothingShown == ASSUME NEW signs PROVE FlattenSeq(ShownOf(<<>>, signs)) = <<>>
<1>1. <<>> \in Seq(PreviewLine) /\ Len(<<>>) = 0  OBVIOUS
<1>2. ShownOf(<<>>, signs) \in Seq(Seq(Texts)) /\ Len(ShownOf(<<>>, signs)) = 0
  BY <1>1, ShownType
<1>3. ShownOf(<<>>, signs) = <<>>  BY <1>2, EmptySeq
<1> QED  BY <1>1, <1>3 DEF FlattenSeq

\* All is matched, and both files are walked from the start.
LEMMA MatchedKeeps == ASSUME DiffInv, Matched PROVE DiffInv'
<1>1. /\ pc = "match" /\ ~(i <= Len(before) /\ j <= Len(after))
      /\ pc' = "walk" /\ i' = 1 /\ j' = 1
      /\ before' = before /\ after' = after /\ table' = table /\ lcs' = lcs /\ out' = out
  BY DEF Matched, Inside
<1>2. TypeInv /\ MatchInv  BY DEF DiffInv
<1>3. i \in Nat /\ j \in Nat /\ Len(before) \in Nat /\ Len(after) \in Nat
      /\ i <= Len(before) + 1 /\ j <= Len(after) + 1 /\ Len(lcs) \in Nat
  BY <1>2, CurrentCell DEF TypeInv
<1>4. TypeInv'
  <2>1. i' \in 1..(Len(before) + 1) /\ j' \in 1..(Len(after) + 1)  BY <1>1, <1>3
  <2> QED  BY <1>1, <1>2, <2>1 DEF TypeInv
<1>5. WalkInv'
  <2>1. out = <<>> /\ Len(lcs) + table[<<i, j>>] = table[<<1, 1>>]
        /\ Embeds(lcs, before, 1, i - 1) /\ Embeds(lcs, after, 1, j - 1)
    BY <1>1, <1>2 DEF MatchInv
  <2>2. Len(lcs) = table[<<1, 1>>]
    <3>1. table[<<i, j>>] = Best(table, before, after, <<i, j>>)  BY <1>2, CurrentCell
    <3>2. i > Len(before) \/ j > Len(after)  BY <1>1, <1>3
    <3>3. table[<<i, j>>] = 0  BY <3>1, <3>2 DEF Best
    <3> QED  BY <1>3, <2>1, <3>3
  <2>3. Embeds(lcs, before, 1, Len(before)) /\ Embeds(lcs, after, 1, Len(after))
    <3>1. i - 1 \in Int /\ i - 1 <= Len(before) /\ j - 1 \in Int /\ j - 1 <= Len(after)
      BY <1>3
    <3>2. Embeds(lcs, before, 1, Len(before))
      BY <1>2, <1>3, <2>1, <3>1, EmbedsWider DEF TypeInv
    <3>3. Embeds(lcs, after, 1, Len(after))
      BY <1>2, <1>3, <2>1, <3>1, EmbedsWider DEF TypeInv
    <3> QED  BY <3>2, <3>3
  <2>4. /\ Shown({" "})' = <<>> /\ Shown({" ", "-"})' = <<>> /\ Shown({" ", "+"})' = <<>>
    BY <1>1, <2>1, NothingShown DEF Shown, ShownOf
  <2>5. SubSeq(before, 1, 0) = <<>> /\ SubSeq(after, 1, 0) = <<>>  BY SubSeqEmpty
  <2>6. i' - 1 = 0 /\ j' - 1 = 0  BY <1>1
  <2>7. Len(Shown({" "})') + Len(lcs) = table[<<1, 1>>]
    <3>1. Len(<<>>) + Len(lcs) = table[<<1, 1>>]
      <4>1. Len(<<>>) = 0  OBVIOUS
      <4> QED  BY <1>3, <2>2, <4>1
    <3> QED  BY <2>4, <3>1
  <2>8. Shown({" ", "-"})' = SubSeq(before', 1, i' - 1)
        /\ Shown({" ", "+"})' = SubSeq(after', 1, j' - 1)
    BY <1>1, <2>4, <2>5, <2>6
  <2> QED  BY <1>1, <2>3, <2>7, <2>8 DEF WalkInv
<1> QED  BY <1>1, <1>4, <1>5 DEF DiffInv, MatchInv, DoneInv

\* A walk along a file shows one line of it after the other.
LEMMA OneMoreLine ==
  ASSUME NEW s \in Seq(Texts), NEW n \in 1..Len(s)
  PROVE  SubSeq(s, 1, (n + 1) - 1) = Append(SubSeq(s, 1, n - 1), s[n])
<1>1. Len(s) \in Nat /\ s[n] \in Texts /\ (n + 1) - 1 = n  BY LenProperties, ElementOfSeq
<1>2. SubSeq(s, 1, n - 1) \in Seq(Texts)
  <2>1. \A k \in 1..(n - 1) : s[k] \in Texts  BY <1>1, ElementOfSeq
  <2> QED  BY <2>1, SubSeqProperties
<1>3. SubSeq(s, 1, n) = SubSeq(s, 1, n - 1) \o <<s[n]>>
  <2>1. 1 \in 1..Len(s) /\ n \in 1..Len(s)  BY <1>1
  <2> QED  BY <2>1, SubSeqRecursiveSecond
<1> QED  BY <1>1, <1>2, <1>3, AppendIsConcat

\* What each step of the walk does to what is shown.
LEMMA EmitShows ==
  ASSUME TypeInv, NEW sign \in {" ", "-", "+"}, NEW text \in Texts, Emit(sign, text)
  PROVE  /\ out' \in Seq(PreviewLine)
         /\ \A signs : /\ Shown(signs) \in Seq(Texts)
                       /\ FlattenSeq(ShownOf(out', signs)) =
                            IF sign \in signs THEN Append(Shown(signs), text) ELSE Shown(signs)
<1> DEFINE l == [sign |-> sign, text |-> text]
<1>1. l \in PreviewLine /\ l.sign = sign /\ l.text = text  BY DEF PreviewLine
<1>2. out' = Append(out, l) /\ out \in Seq(PreviewLine)  BY DEF Emit, TypeInv
<1> HIDE DEF l
<1>3. \A signs : Shown(signs) = FlattenSeq(ShownOf(out, signs))  BY DEF Shown, ShownOf
<1> QED  BY <1>1, <1>2, <1>3, ShownAppend

\* Which signs are shown on which side.
LEMMA Signs ==
  /\ " " \in {" "} /\ " " \in {" ", "-"} /\ " " \in {" ", "+"}
  /\ "-" \notin {" "} /\ "-" \in {" ", "-"} /\ "-" \notin {" ", "+"}
  /\ "+" \notin {" "} /\ "+" \notin {" ", "-"} /\ "+" \in {" ", "+"}
OBVIOUS

\* A line of the file as it is, that no common line is.
LEMMA RemovedKeeps == ASSUME DiffInv, Removed PROVE DiffInv'
<1>1. /\ pc = "walk" /\ i <= Len(before) /\ (lcs # <<>> => before[i] # Head(lcs))
      /\ Emit("-", before[i]) /\ i' = i + 1 /\ j' = j
      /\ before' = before /\ after' = after /\ table' = table /\ lcs' = lcs /\ pc' = pc
  BY DEF Removed, Ahead
<1>2. TypeInv /\ WalkInv  BY DEF DiffInv
<1>3. before \in Seq(Texts) /\ i \in 1..Len(before) /\ Len(before) \in Nat
  BY <1>1, <1>2, CurrentCell DEF TypeInv
<1>4. before[i] \in Texts  BY <1>3, ElementOfSeq
<1>5. out' \in Seq(PreviewLine)
      /\ \A signs : FlattenSeq(ShownOf(out', signs)) =
           IF "-" \in signs THEN Append(Shown(signs), before[i]) ELSE Shown(signs)
  BY <1>1, <1>2, <1>4, EmitShows
<1>6. /\ Shown({" "})' = Shown({" "})
      /\ Shown({" ", "-"})' = Append(Shown({" ", "-"}), before[i])
      /\ Shown({" ", "+"})' = Shown({" ", "+"})
  BY <1>5, Signs DEF Shown, ShownOf
<1>7. i' \in 1..(Len(before) + 1)  BY <1>1, <1>3
<1>8. TypeInv'  BY <1>1, <1>2, <1>5, <1>7 DEF TypeInv
<1>9. Embeds(lcs, before, i + 1, Len(before))
  <2>1. Embeds(lcs, before, i, Len(before))  BY <1>1, <1>2 DEF WalkInv
  <2> QED  BY <1>1, <1>2, <1>3, <2>1, EmbedsSkip DEF TypeInv
<1>10. Append(Shown({" ", "-"}), before[i]) = SubSeq(before, 1, (i + 1) - 1)
  <2>1. Shown({" ", "-"}) = SubSeq(before, 1, i - 1)  BY <1>1, <1>2 DEF WalkInv
  <2> QED  BY <1>3, <2>1, OneMoreLine
<1>11. WalkInv'  BY <1>1, <1>2, <1>6, <1>9, <1>10 DEF WalkInv
<1> QED  BY <1>1, <1>8, <1>11 DEF DiffInv, MatchInv, DoneInv

\* A line of the file as it will be, that no common line is.
LEMMA AddedKeeps == ASSUME DiffInv, Added PROVE DiffInv'
<1>1. /\ pc = "walk" /\ j <= Len(after) /\ (lcs # <<>> => after[j] # Head(lcs))
      /\ Emit("+", after[j]) /\ j' = j + 1 /\ i' = i
      /\ before' = before /\ after' = after /\ table' = table /\ lcs' = lcs /\ pc' = pc
  BY DEF Added, Ahead
<1>2. TypeInv /\ WalkInv  BY DEF DiffInv
<1>3. after \in Seq(Texts) /\ j \in 1..Len(after) /\ Len(after) \in Nat
  BY <1>1, <1>2, CurrentCell DEF TypeInv
<1>4. after[j] \in Texts  BY <1>3, ElementOfSeq
<1>5. out' \in Seq(PreviewLine)
      /\ \A signs : FlattenSeq(ShownOf(out', signs)) =
           IF "+" \in signs THEN Append(Shown(signs), after[j]) ELSE Shown(signs)
  BY <1>1, <1>2, <1>4, EmitShows
<1>6. /\ Shown({" "})' = Shown({" "})
      /\ Shown({" ", "-"})' = Shown({" ", "-"})
      /\ Shown({" ", "+"})' = Append(Shown({" ", "+"}), after[j])
  BY <1>5, Signs DEF Shown, ShownOf
<1>7. j' \in 1..(Len(after) + 1)  BY <1>1, <1>3
<1>8. TypeInv'  BY <1>1, <1>2, <1>5, <1>7 DEF TypeInv
<1>9. Embeds(lcs, after, j + 1, Len(after))
  <2>1. Embeds(lcs, after, j, Len(after))  BY <1>1, <1>2 DEF WalkInv
  <2> QED  BY <1>1, <1>2, <1>3, <2>1, EmbedsSkip DEF TypeInv
<1>10. Append(Shown({" ", "+"}), after[j]) = SubSeq(after, 1, (j + 1) - 1)
  <2>1. Shown({" ", "+"}) = SubSeq(after, 1, j - 1)  BY <1>1, <1>2 DEF WalkInv
  <2> QED  BY <1>3, <2>1, OneMoreLine
<1>11. WalkInv'  BY <1>1, <1>2, <1>6, <1>9, <1>10 DEF WalkInv
<1> QED  BY <1>1, <1>8, <1>11 DEF DiffInv, MatchInv, DoneInv

\* A common line, which both files are at.
LEMMA CommonKeeps == ASSUME DiffInv, Common PROVE DiffInv'
<1> DEFINE h == Head(lcs)
<1>1. /\ pc = "walk" /\ lcs # <<>>
      /\ ~(i <= Len(before) /\ before[i] # h) /\ ~(j <= Len(after) /\ after[j] # h)
      /\ Emit(" ", h) /\ lcs' = Tail(lcs) /\ i' = i + 1 /\ j' = j + 1
      /\ before' = before /\ after' = after /\ table' = table /\ pc' = pc
  BY DEF Common, Ahead
<1>2. TypeInv /\ WalkInv  BY DEF DiffInv
<1>3. /\ before \in Seq(Texts) /\ after \in Seq(Texts) /\ lcs \in Seq(Texts)
      /\ Len(before) \in Nat /\ Len(after) \in Nat /\ i \in Nat /\ j \in Nat
      /\ i \in 1..(Len(before) + 1) /\ j \in 1..(Len(after) + 1)
  BY <1>2, CurrentCell DEF TypeInv
<1>4. h \in Texts /\ Tail(lcs) \in Seq(Texts) /\ Len(Tail(lcs)) = Len(lcs) - 1
      /\ Len(lcs) \in Nat
  BY <1>1, <1>3, HeadTailProperties, LenProperties
<1>5. /\ Embeds(Tail(lcs), before, i + 1, Len(before)) /\ i <= Len(before)
      /\ Embeds(Tail(lcs), after, j + 1, Len(after)) /\ j <= Len(after)
  <2>1. /\ lcs \in Seq(Texts) /\ i \in Int /\ j \in Int
        /\ Len(before) \in Int /\ Len(after) \in Int
        /\ lcs # <<>>
    <3>1. lcs # <<>>  BY <1>1
    <3> QED  BY <1>3, <3>1
  <2>2. Embeds(lcs, before, i, Len(before)) /\ Embeds(lcs, after, j, Len(after))
    BY <1>1, <1>2 DEF WalkInv
  <2>3. Embeds(Tail(lcs), before, i + 1, Len(before)) /\ i <= Len(before)
    BY <2>1, <2>2, EmbedsTail
  <2>4. Embeds(Tail(lcs), after, j + 1, Len(after)) /\ j <= Len(after)
    BY <2>1, <2>2, EmbedsTail
  <2> QED  BY <2>3, <2>4
<1>6. h = before[i] /\ h = after[j] /\ i \in 1..Len(before) /\ j \in 1..Len(after)
  <2>1. i <= Len(before) /\ j <= Len(after)  BY <1>5
  <2>2. i \in 1..Len(before) /\ j \in 1..Len(after)  BY <1>3, <2>1
  <2> HIDE DEF h
  <2>3. h = before[i] /\ h = after[j]  BY <1>1, <2>1
  <2> QED  BY <2>2, <2>3
<1> HIDE DEF h
<1>7. out' \in Seq(PreviewLine)
      /\ \A signs : /\ Shown(signs) \in Seq(Texts)
                    /\ FlattenSeq(ShownOf(out', signs)) =
                         IF " " \in signs THEN Append(Shown(signs), h) ELSE Shown(signs)
  BY <1>1, <1>2, <1>4, EmitShows
<1>8. /\ Shown({" "})' = Append(Shown({" "}), h)
      /\ Shown({" ", "-"})' = Append(Shown({" ", "-"}), h)
      /\ Shown({" ", "+"})' = Append(Shown({" ", "+"}), h)
  BY <1>7, Signs DEF Shown, ShownOf
<1>9. i' \in 1..(Len(before) + 1) /\ j' \in 1..(Len(after) + 1)
  <2>1. i' = i + 1 /\ j' = j + 1  BY <1>1
  <2> QED  BY <1>3, <1>6, <2>1
<1>10. TypeInv'  BY <1>1, <1>2, <1>4, <1>7, <1>9 DEF TypeInv
<1>11. Append(Shown({" ", "-"}), h) = SubSeq(before, 1, (i + 1) - 1)
       /\ Append(Shown({" ", "+"}), h) = SubSeq(after, 1, (j + 1) - 1)
  <2>1. Shown({" ", "-"}) = SubSeq(before, 1, i - 1)
        /\ Shown({" ", "+"}) = SubSeq(after, 1, j - 1)
    BY <1>1, <1>2 DEF WalkInv
  <2> QED  BY <1>3, <1>6, <2>1, OneMoreLine
<1>12. Len(Shown({" "})') + Len(lcs') = table[<<1, 1>>]
  <2> DEFINE u == Shown({" "})
  <2>1. Len(u) + Len(lcs) = table[<<1, 1>>]  BY <1>1, <1>2 DEF WalkInv
  <2>2. u \in Seq(Texts)  BY <1>7
  <2>3. Shown({" "})' = Append(u, h)  BY <1>8
  <2> HIDE DEF u
  <2>4. Len(Append(u, h)) = Len(u) + 1 /\ Len(u) \in Nat
    BY <1>4, <2>2, AppendProperties, LenProperties
  <2>5. Len(Append(u, h)) + Len(Tail(lcs)) = table[<<1, 1>>]  BY <1>4, <2>1, <2>4
  <2> QED  BY <1>1, <2>3, <2>5
<1>13. WalkInv'  BY <1>1, <1>5, <1>8, <1>11, <1>12 DEF WalkInv
<1> QED  BY <1>1, <1>10, <1>13 DEF DiffInv, MatchInv, DoneInv

\* Every step keeps the invariant.
LEMMA DiffStep == DiffInv /\ [Next]_vars => DiffInv'
<1> SUFFICES ASSUME DiffInv, [Next]_vars PROVE DiffInv'  OBVIOUS
<1>1. ASSUME Done PROVE DiffInv'
  <2>1. /\ pc = "walk" /\ i > Len(before) /\ j > Len(after) /\ lcs = <<>> /\ pc' = "done"
        /\ before' = before /\ after' = after /\ table' = table /\ lcs' = lcs /\ out' = out
        /\ i' = i /\ j' = j
    BY <1>1 DEF Done
  <2>2. TypeInv /\ WalkInv  BY DEF DiffInv
  <2>3. i = Len(before) + 1 /\ j = Len(after) + 1  BY <2>1, <2>2, CurrentCell DEF TypeInv
  <2>4. TypeInv'  BY <2>1, <2>2 DEF TypeInv
  <2>5. WalkInv'  BY <2>1, <2>2 DEF WalkInv, Shown
  <2> QED  BY <2>1, <2>3, <2>4, <2>5 DEF DiffInv, MatchInv, DoneInv
<1>2. CASE UNCHANGED vars
  BY <1>2 DEF vars, DiffInv, TypeInv, MatchInv, WalkInv, DoneInv, Shown
<1> QED
  BY <1>1, <1>2, MatchKeeps, PassKeeps, MatchedKeeps, RemovedKeeps, AddedKeeps, CommonKeeps
  DEF Next

\* It holds throughout.
LEMMA DiffAlways == Spec => []DiffInv
<1>1. Init => DiffInv  BY DiffInit
<1>2. DiffInv /\ [Next]_vars => DiffInv'  BY DiffStep
<1> QED  BY <1>1, <1>2, PTL DEF Spec

\* The preview tells the truth about both files, whatever they are.
THEOREM PreviewIsTrue == Spec => []Truthful
<1>1. DiffInv => Truthful
  <2> SUFFICES ASSUME DiffInv, pc # "match" PROVE Truthful  BY DEF Truthful
  <2>1. i <= Len(before) + 1 /\ j <= Len(after) + 1
    BY CurrentCell DEF DiffInv, TypeInv
  <2> QED  BY <2>1 DEF Truthful, DiffInv, WalkInv, DoneInv
<1>2. Spec => []DiffInv  BY DiffAlways
<1> QED  BY <1>1, <1>2, PTL

\* There is no shorter preview, whatever the files and their ties: counted in lines
\* removed and added, diffLines does give a minimal edit script, which its comment
\* (fix.go:443-445) says it does not.
THEOREM PreviewIsShortest == Spec => []Shortest
<1>1. DiffInv => Shortest
  <2> SUFFICES ASSUME DiffInv, pc = "done", NEW n \in 0..Len(before),
                      NEW f \in Rising(n, 1, Len(before)), NEW g \in Rising(n, 1, Len(after)),
                      \A k \in 1..n : before[f[k]] = after[g[k]]
               PROVE  n <= Len(Shown({" "}))
    BY DEF Shortest
  <2> DEFINE u == Shown({" "})
  <2>1. TypeInv /\ before \in Seq(Texts) /\ after \in Seq(Texts) /\ table = Table(before, after)
    BY DEF DiffInv, TypeInv
  <2>2. Len(u) + Len(lcs) = table[<<1, 1>>] /\ lcs = <<>>  BY DEF DiffInv, WalkInv, DoneInv
  <2>3. n \in Nat  BY <2>1, CurrentCell
  <2>4. InCommon(before, after, <<1, 1>>[1], <<1, 1>>[2], n, f, g)  BY DEF InCommon
  <2>5. <<1, 1>> \in Cells(before, after)  BY <2>1, CurrentCell
  <2>6. n <= table[<<1, 1>>]  BY <2>1, <2>3, <2>4, <2>5, TableIsBest
  <2>7. Len(u) \in Nat
    <3>1. u \in Seq(Texts)
      <4>1. \A o \in Seq(PreviewLine) : FlattenSeq(ShownOf(o, {" "})) \in Seq(Texts)
        <5> TAKE o \in Seq(PreviewLine)
        <5>1. ShownOf(o, {" "}) \in Seq(Seq(Texts))  BY ShownType
        <5>2. <<>> \in Seq(Texts)  OBVIOUS
        <5> QED  BY <5>1, <5>2, FlattenAppend
      <4>2. out \in Seq(PreviewLine)  BY <2>1 DEF TypeInv
      <4> QED  BY <4>1, <4>2 DEF Shown, ShownOf
    <3> HIDE DEF u
    <3> QED  BY <3>1, LenProperties
  <2>8. Len(lcs) = 0  BY <2>2
  <2> HIDE DEF u
  <2>9. n <= Len(u)  BY <2>2, <2>3, <2>6, <2>7, <2>8
  <2> QED  BY <2>9 DEF u
<1>2. Spec => []DiffInv  BY DiffAlways
<1> QED  BY <1>1, <1>2, PTL
=============================================================================
