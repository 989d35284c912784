----------------------------- MODULE BootProofs ------------------------------
(***************************************************************************)
(* The rules of UnitRules against the machine of Boot, for every project,  *)
(* host and number of containers, and what convert makes of every compose  *)
(* project on that machine (Migrate).                                      *)
(***************************************************************************)
EXTENDS Migrate, FiniteSetTheorems, SequenceTheorems, WellFoundedInduction, TLAPS

-----------------------------------------------------------------------------
(* Induction over the naturals, with the property given as a set.          *)

\* A set of naturals that is not empty has a least element.
LEMMA LeastNumber ==
  ASSUME NEW T, T \subseteq Nat, T # {}
  PROVE  \E n \in T : \A m \in T : n <= m
<1>1. PICK n \in T : \A m \in T : ~(<<m, n>> \in OpToRel(<, Nat))
  BY NatLessThanWellFounded, WFMin
<1>2. \A m \in T : ~(m < n)  BY <1>1 DEF OpToRel
<1> QED  BY <1>2

\* A set that holds 0 and with every number the next one holds them all.
LEMMA SetInduction ==
  ASSUME NEW T, 0 \in T, \A n \in Nat : n \in T => n + 1 \in T
  PROVE  Nat \subseteq T
<1> SUFFICES ASSUME Nat \ T # {} PROVE FALSE  OBVIOUS
<1>1. PICK n \in Nat \ T : \A m \in Nat \ T : n <= m  BY LeastNumber
<1>2. n # 0 /\ n - 1 \in Nat /\ n - 1 \notin Nat \ T  BY <1>1
<1> QED  BY <1>2

\* A set of integers that is not empty and bounded has a greatest element.
LEMMA GreatestNumber ==
  ASSUME NEW b \in Int, NEW T, T \subseteq Int, T # {}, \A n \in T : n <= b
  PROVE  \E n \in T : \A m \in T : m <= n
<1> DEFINE D == {b - n : n \in T}
<1>1. D \subseteq Nat /\ D # {}
  <2>1. \A n \in T : b - n \in Nat /\ b - n \in D  OBVIOUS
  <2> QED  BY <2>1
<1>2. PICK d \in D : \A e \in D : d <= e  BY <1>1, LeastNumber
<1>3. PICK n \in T : d = b - n  BY <1>2
<1>4. ASSUME NEW m \in T PROVE m <= n
  <2>1. b - n <= b - m  BY <1>2, <1>3
  <2> QED  BY <2>1
<1> QED  BY <1>4

-----------------------------------------------------------------------------
(* Sums.                                                                   *)

\* The function SumFunctionOnSet reads its result from.
Sums(g, f, S) ==
  g = [s \in SUBSET S |->
         IF s = {} THEN 0 ELSE LET x == CHOOSE y \in s : TRUE IN f[x] + g[s \ {x}]]

\* The set of the numbers up to which it can be defined by size.
LEMMA SumsExist ==
  ASSUME NEW f, NEW S, IsFiniteSet(S)
  PROVE  \E g : Sums(g, f, S)
<1> DEFINE Chosen(s) == CHOOSE y \in s : TRUE
           Right(g, s) == g[s] = IF s = {} THEN 0 ELSE f[Chosen(s)] + g[s \ {Chosen(s)}]
           UpTo(n) == \E g : /\ g = [s \in SUBSET S |-> g[s]]
                             /\ \A s \in SUBSET S : Cardinality(s) <= n => Right(g, s)
           T == {n \in Nat : UpTo(n)}
<1>0. \A s \in SUBSET S : IsFiniteSet(s) /\ Cardinality(s) \in Nat /\ (Cardinality(s) = 0 <=> s = {})
  BY FS_Subset, FS_EmptySet, FS_CardinalityType
<1>a. \A s \in SUBSET S : s # {} => Chosen(s) \in s  OBVIOUS
<1>b. \A s \in SUBSET S : s # {} => Cardinality(s \ {Chosen(s)}) = Cardinality(s) - 1
  <2> HIDE DEF Chosen
  <2> QED  BY <1>0, <1>a, FS_RemoveElement
<1> HIDE DEF Chosen
<1>1. 0 \in T
  <2> DEFINE g == [s \in SUBSET S |-> 0]
  <2>1. g = [s \in SUBSET S |-> g[s]]  OBVIOUS
  <2>2. \A s \in SUBSET S : Cardinality(s) <= 0 => Right(g, s)  BY <1>0
  <2> HIDE DEF g
  <2> QED  BY <2>1, <2>2
<1>2. ASSUME NEW n \in Nat, n \in T PROVE n + 1 \in T
  <2>1. PICK h : /\ h = [s \in SUBSET S |-> h[s]]
                 /\ \A s \in SUBSET S : Cardinality(s) <= n => Right(h, s)
    BY <1>2
  <2> DEFINE g == [s \in SUBSET S |-> IF Cardinality(s) <= n THEN h[s]
                                       ELSE f[Chosen(s)] + h[s \ {Chosen(s)}]]
  <2>2. g = [s \in SUBSET S |-> g[s]]  OBVIOUS
  <2>3. \A s \in SUBSET S : g[s] = IF Cardinality(s) <= n THEN h[s]
                                   ELSE f[Chosen(s)] + h[s \ {Chosen(s)}]
    OBVIOUS
  <2> HIDE DEF g
  <2>4. ASSUME NEW s \in SUBSET S, Cardinality(s) <= n + 1 PROVE Right(g, s)
    <3>1. CASE s = {}
      <4>1. Cardinality(s) <= n  BY <1>0, <3>1
      <4> QED  BY <2>1, <2>3, <3>1, <4>1
    <3>2. CASE s # {}
      <4>1. Cardinality(s \ {Chosen(s)}) <= n /\ s \ {Chosen(s)} \in SUBSET S
        BY <1>0, <1>b, <2>4, <3>2
      <4>2. g[s \ {Chosen(s)}] = h[s \ {Chosen(s)}]  BY <2>3, <4>1
      <4>3. g[s] = f[Chosen(s)] + h[s \ {Chosen(s)}]
        <5>1. CASE Cardinality(s) <= n  BY <2>1, <2>3, <3>2, <5>1
        <5>2. CASE ~(Cardinality(s) <= n)  BY <2>3, <5>2
        <5> QED  BY <5>1, <5>2
      <4> QED  BY <3>2, <4>2, <4>3
    <3> QED  BY <3>1, <3>2
  <2>5. \A s \in SUBSET S : Cardinality(s) <= n + 1 => Right(g, s)  BY <2>4
  <2>6. UpTo(n + 1)
    <3> HIDE DEF Right
    <3> QED  BY <2>2, <2>5
  <2> HIDE DEF UpTo
  <2> QED  BY <2>6
<1> HIDE DEF T
<1>3. Cardinality(S) \in T  BY <1>1, <1>2, SetInduction, FS_CardinalityType
<1>4. PICK g : /\ g = [s \in SUBSET S |-> g[s]]
               /\ \A s \in SUBSET S : Cardinality(s) <= Cardinality(S) => Right(g, s)
  BY <1>3 DEF T
<1>5. \A s \in SUBSET S : Right(g, s)  BY <1>4, FS_Subset
<1>6. [s \in SUBSET S |-> g[s]]
        = [s \in SUBSET S |-> IF s = {} THEN 0 ELSE LET x == CHOOSE y \in s : TRUE IN f[x] + g[s \ {x}]]
  BY <1>5 DEF Chosen
<1>7. Sums(g, f, S)  BY <1>4, <1>6 DEF Sums
<1> QED  BY <1>7

\* What SumFunctionOnSet is read from.
LEMMA SumByFunction ==
  ASSUME NEW f, NEW S, IsFiniteSet(S)
  PROVE  \E g : Sums(g, f, S) /\ SumFunctionOnSet(f, S) = g[S]
<1> DEFINE g == CHOOSE h : h = [s \in SUBSET S |->
         IF s = {} THEN 0 ELSE LET x == CHOOSE y \in s : TRUE IN f[x] + h[s \ {x}]]
<1>1. SumFunctionOnSet(f, S) = g[S]
  BY DEF SumFunctionOnSet, FoldFunctionOnSet, MapThenFoldSet
<1>2. PICK h : Sums(h, f, S)  BY SumsExist
<1>3. h = [s \in SUBSET S |->
         IF s = {} THEN 0 ELSE LET x == CHOOSE y \in s : TRUE IN f[x] + h[s \ {x}]]
  BY <1>2 DEF Sums
<1>4. g = [s \in SUBSET S |->
         IF s = {} THEN 0 ELSE LET x == CHOOSE y \in s : TRUE IN f[x] + g[s \ {x}]]
  BY ONLY <1>3
<1> HIDE DEF g
<1>5. Sums(g, f, S)  BY <1>4 DEF Sums
<1> QED  BY <1>1, <1>5

\* A set of subsets that holds the empty one, and every set of which it holds
\* whatever is left without one element, holds them all.
LEMMA SubsetInduction ==
  ASSUME NEW S, IsFiniteSet(S), NEW P, {} \in P,
         \A s \in SUBSET S : s # {} /\ (\A x \in s : s \ {x} \in P) => s \in P
  PROVE  SUBSET S \subseteq P
<1> DEFINE T == {n \in Nat : \A s \in SUBSET S : Cardinality(s) = n => s \in P}
<1>0. \A s \in SUBSET S : IsFiniteSet(s) /\ Cardinality(s) \in Nat /\ (Cardinality(s) = 0 <=> s = {})
  BY FS_Subset, FS_EmptySet, FS_CardinalityType
<1>1. 0 \in T  BY <1>0
<1>2. ASSUME NEW n \in Nat, n \in T PROVE n + 1 \in T
  <2>1. ASSUME NEW s \in SUBSET S, Cardinality(s) = n + 1 PROVE s \in P
    <3>1. s # {}  BY <1>0, <2>1
    <3>2. \A x \in s : s \ {x} \in SUBSET S /\ Cardinality(s \ {x}) = n
      <4> TAKE x \in s
      <4>1. Cardinality(s \ {x}) = Cardinality(s) - 1  BY <1>0, FS_RemoveElement
      <4> QED  BY ONLY <2>1, <4>1, s \in SUBSET S, n \in Nat
    <3> QED  BY <1>2, <3>1, <3>2
  <2> QED  BY <2>1
<1> HIDE DEF T
<1>3. Nat \subseteq T  BY <1>1, <1>2, SetInduction
<1> QED  BY <1>0, <1>3 DEF T

\* A sum depends on what is summed only.
LEMMA SumSame ==
  ASSUME NEW f, NEW h, NEW S, NEW R, IsFiniteSet(R), S \subseteq R,
         \A x \in S : f[x] = h[x],
         NEW g, NEW k, Sums(g, f, S), Sums(k, h, R)
  PROVE  \A s \in SUBSET S : g[s] = k[s]
<1> DEFINE P == {s \in SUBSET S : g[s] = k[s]}
<1>1. {} \in P  BY DEF Sums
<1>2. ASSUME NEW s \in SUBSET S, s # {}, \A x \in s : s \ {x} \in P PROVE s \in P
  <2>1. PICK x \in s : x = CHOOSE y \in s : TRUE  BY <1>2
  <2>2. g[s] = f[x] + g[s \ {x}] /\ k[s] = h[x] + k[s \ {x}]
    <3>1. s \in SUBSET R  OBVIOUS
    <3>2. g[s] = f[x] + g[s \ {x}]  BY <1>2, <2>1 DEF Sums
    <3>3. k[s] = h[x] + k[s \ {x}]  BY <1>2, <2>1, <3>1 DEF Sums
    <3> QED  BY <3>2, <3>3
  <2>3. f[x] = h[x] /\ g[s \ {x}] = k[s \ {x}]  BY <1>2
  <2> QED  BY <2>2, <2>3
<1> HIDE DEF P
<1>3. SUBSET S \subseteq P
  <2>1. IsFiniteSet(S)  BY FS_Subset
  <2> QED  BY <1>1, <1>2, <2>1, SubsetInduction
<1> QED  BY <1>3 DEF P

\* Sums of naturals are naturals.
LEMMA SumNatural ==
  ASSUME NEW f, NEW S, IsFiniteSet(S), \A x \in S : f[x] \in Nat, NEW g, Sums(g, f, S)
  PROVE  \A s \in SUBSET S : g[s] \in Nat
<1> DEFINE P == {s \in SUBSET S : g[s] \in Nat}
<1>1. {} \in P  BY DEF Sums
<1>2. ASSUME NEW s \in SUBSET S, s # {}, \A x \in s : s \ {x} \in P PROVE s \in P
  <2>1. PICK y \in s : y = CHOOSE z \in s : TRUE  BY <1>2
  <2>2. g[s] = f[y] + g[s \ {y}]  BY <1>2, <2>1 DEF Sums
  <2>3. g[s \ {y}] \in Nat /\ f[y] \in Nat  BY <1>2
  <2> QED  BY <2>2, <2>3
<1> HIDE DEF P
<1>3. SUBSET S \subseteq P  BY <1>1, <1>2, SubsetInduction
<1> QED  BY <1>3 DEF P

\* Any element can be taken out first.
LEMMA SumTakesOut ==
  ASSUME NEW f, NEW S, IsFiniteSet(S), \A x \in S : f[x] \in Nat, NEW g, Sums(g, f, S)
  PROVE  \A s \in SUBSET S : \A x \in s : g[s] = f[x] + g[s \ {x}]
<1> DEFINE P == {s \in SUBSET S : \A x \in s : g[s] = f[x] + g[s \ {x}]}
<1>0. \A s \in SUBSET S : g[s] \in Nat  BY SumNatural
<1>1. {} \in P  OBVIOUS
<1>2. ASSUME NEW s \in SUBSET S, s # {}, \A x \in s : s \ {x} \in P PROVE s \in P
  <2>1. PICK y \in s : y = CHOOSE z \in s : TRUE  BY <1>2
  <2>2. g[s] = f[y] + g[s \ {y}]  BY <1>2, <2>1 DEF Sums
  <2>3. ASSUME NEW x \in s, x # y PROVE g[s] = f[x] + g[s \ {x}]
    <3>1. g[s \ {y}] = f[x] + g[(s \ {y}) \ {x}]  BY <1>2, <2>3
    <3>2. g[s \ {x}] = f[y] + g[(s \ {x}) \ {y}]  BY <1>2, <2>3
    <3>3. (s \ {y}) \ {x} = (s \ {x}) \ {y}  OBVIOUS
    <3>4. g[(s \ {x}) \ {y}] \in Nat /\ f[x] \in Nat /\ f[y] \in Nat  BY <1>0
    <3> DEFINE r == g[(s \ {x}) \ {y}]
    <3>5. g[s] = f[y] + (f[x] + r) /\ g[s \ {x}] = f[y] + r  BY <2>2, <3>1, <3>2, <3>3
    <3> HIDE DEF r
    <3>6. r \in Nat  BY <3>4 DEF r
    <3> QED  BY <3>4, <3>5, <3>6
  <2>4. \A x \in s : g[s] = f[x] + g[s \ {x}]  BY <2>2, <2>3
  <2> QED  BY <2>4
<1> HIDE DEF P
<1>3. SUBSET S \subseteq P  BY <1>1, <1>2, SubsetInduction
<1> QED  BY <1>3 DEF P

\* A sum without one element, and what the two differ in.
LEMMA SumStep ==
  ASSUME NEW f, NEW S, IsFiniteSet(S), \A x \in S : f[x] \in Nat
  PROVE  /\ SumFunctionOnSet(f, S) \in Nat
         /\ \A x \in S : SumFunctionOnSet(f, S) = f[x] + SumFunctionOnSet(f, S \ {x})
<1>1. PICK g : Sums(g, f, S) /\ SumFunctionOnSet(f, S) = g[S]  BY SumByFunction
<1>2. ASSUME NEW x \in S PROVE SumFunctionOnSet(f, S) = f[x] + SumFunctionOnSet(f, S \ {x})
  <2>1. IsFiniteSet(S \ {x})  BY FS_Subset
  <2>2. PICK h : Sums(h, f, S \ {x}) /\ SumFunctionOnSet(f, S \ {x}) = h[S \ {x}]
    BY <2>1, SumByFunction
  <2>3. h[S \ {x}] = g[S \ {x}]  BY <1>1, <2>2, SumSame
  <2>4. g[S] = f[x] + g[S \ {x}]  BY <1>1, SumTakesOut
  <2> QED  BY <1>1, <2>2, <2>3, <2>4
<1> QED  BY <1>1, <1>2, SumNatural

\* What two functions agree on has one sum.
LEMMA SumAgrees ==
  ASSUME NEW f, NEW h, NEW S, IsFiniteSet(S), \A x \in S : f[x] = h[x]
  PROVE  SumFunctionOnSet(f, S) = SumFunctionOnSet(h, S)
<1>1. PICK g : Sums(g, f, S) /\ SumFunctionOnSet(f, S) = g[S]  BY SumByFunction
<1>2. PICK k : Sums(k, h, S) /\ SumFunctionOnSet(h, S) = k[S]  BY SumByFunction
<1> QED  BY <1>1, <1>2, SumSame

\* No range, no IDs.
LEMMA SumOfNone ==
  ASSUME NEW f
  PROVE  SumFunctionOnSet(f, {}) = 0
<1>1. PICK g : Sums(g, f, {}) /\ SumFunctionOnSet(f, {}) = g[{}]  BY SumByFunction, FS_EmptySet
<1> QED  BY <1>1 DEF Sums

\* The sum of the first counts, one after the other.
LEMMA SumPrefix ==
  ASSUME NEW counts \in Seq(Nat), NEW k \in 0..Len(counts)
  PROVE  /\ SumFunctionOnSet(counts, 1..k) \in Nat
         /\ k = 0 => SumFunctionOnSet(counts, 1..k) = 0
         /\ k # 0 => SumFunctionOnSet(counts, 1..k) = SumFunctionOnSet(counts, 1..(k - 1)) + counts[k]
<1>0. Len(counts) \in Nat /\ \A i \in 1..Len(counts) : counts[i] \in Nat
  BY LenProperties, ElementOfSeq
<1>1. IsFiniteSet(1..k) /\ \A i \in 1..k : counts[i] \in Nat  BY <1>0, FS_Interval
<1>2. k = 0 => 1..k = {}  OBVIOUS
<1>3. ASSUME k # 0
      PROVE  SumFunctionOnSet(counts, 1..k) = SumFunctionOnSet(counts, 1..(k - 1)) + counts[k]
  <2>1. PICK j \in Int : j = k - 1  BY <1>0
  <2>2. k \in 1..k /\ (1..k) \ {k} = 1..j /\ counts[k] \in Nat  BY <1>0, <1>3, <2>1
  <2>3. SumFunctionOnSet(counts, 1..k) = counts[k] + SumFunctionOnSet(counts, 1..j)
    <3>1. SumFunctionOnSet(counts, 1..k) = counts[k] + SumFunctionOnSet(counts, (1..k) \ {k})
      <4> DEFINE S == 1..k
      <4>1. IsFiniteSet(S) /\ (\A i \in S : counts[i] \in Nat) /\ k \in S  BY <1>1, <2>2
      <4> HIDE DEF S
      <4>2. \A x \in S : SumFunctionOnSet(counts, S) = counts[x] + SumFunctionOnSet(counts, S \ {x})
        <5>1. IsFiniteSet(S) /\ \A i \in S : counts[i] \in Nat  BY ONLY <4>1
        <5> QED  BY ONLY <5>1, SumStep, ZenonT(60)
      <4>3. SumFunctionOnSet(counts, S) = counts[k] + SumFunctionOnSet(counts, S \ {k})
        BY ONLY <4>1, <4>2
      <4> QED  BY <4>3 DEF S
    <3> QED  BY <2>2, <3>1
  <2>4. IsFiniteSet(1..j)  BY FS_Interval
  <2>5. \A i \in 1..j : counts[i] \in Nat  BY <1>0, <2>1
  <2>6. SumFunctionOnSet(counts, 1..j) \in Nat  BY <2>4, <2>5, SumStep
  <2> QED  BY <2>1, <2>2, <2>3, <2>6
<1> QED  BY <1>1, <1>2, <1>3, SumStep, SumOfNone

\* Ranges give as many IDs as they count together.
LEMMA TotalType ==
  ASSUME NEW counts \in Seq(Nat)
  PROVE  Total(counts) \in Nat /\ Total(counts) = SumFunctionOnSet(counts, 1..Len(counts))
<1>1. DOMAIN counts = 1..Len(counts) /\ Len(counts) \in Nat  BY LenProperties
<1>2. Len(counts) \in 0..Len(counts)  BY <1>1
<1> QED  BY <1>1, <1>2, SumPrefix DEF Total, SumFunction

\* A range more gives as many IDs more.
LEMMA TotalAppended ==
  ASSUME NEW counts \in Seq(Nat), NEW n \in Nat
  PROVE  Total(Append(counts, n)) = Total(counts) + n
<1> DEFINE t == Append(counts, n)
<1>1. /\ t \in Seq(Nat) /\ Len(t) = Len(counts) + 1 /\ Len(counts) \in Nat
      /\ t[Len(t)] = n /\ \A i \in 1..Len(counts) : t[i] = counts[i]
  BY AppendProperties, LenProperties
<1> HIDE DEF t
<1>2. SumFunctionOnSet(t, 1..Len(t)) = SumFunctionOnSet(t, 1..(Len(t) - 1)) + t[Len(t)]
  <2>1. Len(t) \in 0..Len(t) /\ Len(t) # 0  BY <1>1
  <2> QED  BY <1>1, <2>1, SumPrefix
<1>3. SumFunctionOnSet(t, 1..Len(counts)) = SumFunctionOnSet(counts, 1..Len(counts))
  <2>1. IsFiniteSet(1..Len(counts))  BY <1>1, FS_Interval
  <2> QED  BY <1>1, <2>1, SumAgrees
<1>4. Len(t) - 1 = Len(counts)  BY <1>1
<1> QED  BY <1>1, <1>2, <1>3, <1>4, TotalType DEF t

\* The machine maps every ID that QD013 counts as within the ranges
\* (rootless.go:226-301).
LEMMA WithinIsMapped ==
  ASSUME NEW counts \in Seq(Nat), NEW id \in Nat, ~outsideRange(id, counts)
  PROVE  Mapped(id, counts)
<1> SUFFICES ASSUME id # 0 PROVE Mapped(id, counts)  BY DEF Mapped
<1> DEFINE sum(k) == SumFunctionOnSet(counts, 1..k)
           T == {k \in 0..Len(counts) : id <= sum(k)}
<1>0. Len(counts) \in Nat /\ DOMAIN counts = 1..Len(counts) /\ \A i \in 1..Len(counts) : counts[i] \in Nat
  BY LenProperties, ElementOfSeq
<1>1. \A k \in 0..Len(counts) :
        /\ sum(k) \in Nat /\ (k = 0 => sum(k) = 0) /\ (k # 0 => sum(k) = sum(k - 1) + counts[k])
  BY SumPrefix
<1>2. T # {} /\ T \subseteq Nat
  <2>1. id <= sum(Len(counts))  BY TotalType DEF outsideRange
  <2>2. Len(counts) \in 0..Len(counts)  BY <1>0
  <2> QED  BY <2>1, <2>2
<1>3. PICK k \in T : \A m \in T : k <= m
  <2> HIDE DEF T
  <2> QED  BY <1>2, LeastNumber
<1> HIDE DEF sum
<1>4. k # 0 /\ k \in DOMAIN counts  BY <1>0, <1>1, <1>3
<1>5. ~(id <= sum(k - 1))
  <2>1. k - 1 \in 0..Len(counts) /\ ~(k <= k - 1)  BY <1>0, <1>4
  <2>2. k - 1 \notin T  BY <1>3, <2>1
  <2> QED  BY <2>1, <2>2
<1>6. sum(k) = sum(k - 1) + counts[k] /\ sum(k - 1) \in Nat /\ counts[k] \in Nat /\ id <= sum(k)
  <2>1. k - 1 \in 0..Len(counts)  BY <1>0, <1>4
  <2> QED  BY <1>0, <1>1, <1>3, <1>4, <2>1
<1>7. id \in (1 + sum(k - 1))..((1 + sum(k - 1)) + counts[k] - 1)  BY <1>5, <1>6
<1> QED  BY <1>4, <1>7 DEF Mapped, sum

-----------------------------------------------------------------------------
(* Ports.                                                                  *)

\* Where a token is first.
LEMMA FirstAtIs ==
  ASSUME NEW X, NEW s \in Seq(X), NEW t
  PROVE  /\ FirstAt(s, t) \in 0..Len(s)
         /\ FirstAt(s, t) # 0 => s[FirstAt(s, t)] = t
         /\ \A i \in 1..Len(s) : s[i] = t => FirstAt(s, t) # 0 /\ FirstAt(s, t) <= i
<1> DEFINE I == {i \in 1..Len(s) : s[i] = t}
<1>0. Len(s) \in Nat  BY LenProperties
<1>1. FirstAt(s, t) = IF I # {} THEN Min(I) ELSE 0  BY DEF FirstAt, SelectInSeq
<1>2. CASE I = {}  BY <1>0, <1>1, <1>2
<1>3. CASE I # {}
  <2>1. I \subseteq Nat  BY <1>0
  <2> HIDE DEF I
  <2>2. PICK n \in I : \A m \in I : n <= m  BY <1>3, <2>1, LeastNumber
  <2>3. Min(I) \in I /\ \A m \in I : Min(I) <= m  BY <2>2 DEF Min
  <2>4. FirstAt(s, t) \in I /\ \A m \in I : FirstAt(s, t) <= m  BY <1>1, <1>3, <2>3
  <2>5. \A i \in 1..Len(s) : s[i] = t => i \in I  BY DEF I
  <2>6. FirstAt(s, t) \in 1..Len(s) /\ s[FirstAt(s, t)] = t  BY <2>4 DEF I
  <2> QED  BY <1>0, <2>4, <2>5, <2>6
<1> QED  BY <1>2, <1>3

\* Where a token is last.
LEMMA LastAtIs ==
  ASSUME NEW X, NEW s \in Seq(X), NEW t
  PROVE  /\ LastAt(s, t) \in 0..Len(s)
         /\ LastAt(s, t) # 0 => s[LastAt(s, t)] = t
         /\ \A i \in 1..Len(s) : s[i] = t => LastAt(s, t) # 0 /\ i <= LastAt(s, t)
<1> DEFINE I == {i \in 1..Len(s) : s[i] = t}
<1>0. Len(s) \in Nat  BY LenProperties
<1>1. LastAt(s, t) = IF I # {} THEN Max(I) ELSE 0  BY DEF LastAt, SelectLastInSeq
<1>2. CASE I = {}  BY <1>0, <1>1, <1>2
<1>3. CASE I # {}
  <2>1. I \subseteq Int /\ \A n \in I : n <= Len(s)  BY <1>0
  <2> HIDE DEF I
  <2>2. PICK b \in Int : \A n \in I : n <= b
    <3>1. Len(s) \in Int  BY <1>0
    <3> QED  BY <2>1, <3>1
  <2>3. PICK n \in I : \A m \in I : m <= n  BY <1>3, <2>1, <2>2, GreatestNumber
  <2>4. Max(I) \in I /\ \A m \in I : Max(I) >= m  BY <2>1, <2>3 DEF Max
  <2>5. LastAt(s, t) \in I /\ \A m \in I : m <= LastAt(s, t)  BY <1>1, <1>3, <2>1, <2>4
  <2>6. \A i \in 1..Len(s) : s[i] = t => i \in I  BY DEF I
  <2>7. LastAt(s, t) \in 1..Len(s) /\ s[LastAt(s, t)] = t  BY <2>5 DEF I
  <2> QED  BY <1>0, <2>5, <2>6, <2>7
<1> QED  BY <1>2, <1>3

\* The low bound of a field: the number it begins with, unless more than a dash
\* follows.
LEMMA LowBound ==
  ASSUME NEW X, NEW field \in Seq(X)
  PROVE  portNumber(field) =
           IF /\ Len(field) >= 1 /\ field[1] \in Nat
              /\ Len(field) = 1 \/ field[2] = Dash
           THEN field[1] ELSE NotANumber
<1> DEFINE t == Append(field, Dash)
           i == FirstAt(t, Dash)
           low == Before(field, i)
<1>a. Dash \notin Nat  BY TokenAssumption DEF Marks
<1>b. field \in Seq(X \cup {Dash}) /\ Len(field) \in Nat  BY LenProperties, SeqMonotonic
<1>0. /\ t \in Seq(X \cup {Dash}) /\ Len(t) = Len(field) + 1 /\ Len(field) \in Nat
      /\ t[Len(field) + 1] = Dash /\ \A j \in 1..Len(field) : t[j] = field[j]
  BY <1>b, AppendProperties
<1> HIDE DEF t
<1>1. /\ i \in 1..Len(field) + 1 /\ t[i] = Dash /\ \A j \in 1..Len(t) : t[j] = Dash => i <= j
  BY <1>0, FirstAtIs
<1> HIDE DEF i
<1>2. Len(low) = i - 1 /\ (i >= 2 => low[1] = field[1])
  <2>1. \A j \in 1..(i - 1) : field[j] \in X  BY <1>0, <1>1, ElementOfSeq
  <2>2. i - 1 \in Int  BY <1>1
  <2>3. /\ Len(SubSeq(field, 1, i - 1)) = IF 1 <= i - 1 THEN (i - 1) - 1 + 1 ELSE 0
        /\ \A j \in 1..((i - 1) - 1 + 1) : SubSeq(field, 1, i - 1)[j] = field[1 + j - 1]
    BY <2>1, <2>2, SubSeqProperties
  <2> QED  BY <1>1, <2>3 DEF Before
<1>3. portNumber(field) = IF Len(low) = 1 /\ low[1] \in Nat THEN low[1] ELSE NotANumber
  BY DEF portNumber, Bound, t, i
<1> HIDE DEF low
<1>4. ASSUME i = 2 PROVE Len(field) >= 1 /\ (Len(field) = 1 \/ field[2] = Dash)
  <2>1. PICK n \in Nat : n = Len(field)  BY <1>0
  <2>2. n >= 1 /\ t[2] = Dash  BY <1>0, <1>1, <1>4, <2>1
  <2>3. n = 1 \/ 2 \in 1..n  BY <2>2
  <2> QED  BY <1>0, <2>1, <2>2, <2>3
<1>5. ASSUME Len(field) >= 1, field[1] \in Nat, Len(field) = 1 \/ field[2] = Dash
      PROVE  i = 2
  <2>1. t[2] = Dash  BY <1>0, <1>5
  <2>2. i <= 2
    <3>1. 2 \in 1..Len(t)  BY <1>0, <1>5
    <3> QED  BY <1>1, <2>1, <3>1
  <2>3. t[1] # Dash  BY <1>a, <1>0, <1>5
  <2>4. i # 1  BY <1>1, <2>3
  <2>5. i \in Nat /\ i >= 1  BY <1>0, <1>1
  <2> QED  BY <2>2, <2>4, <2>5
<1> QED  BY <1>2, <1>3, <1>4, <1>5

\* A range as Podman reads it begins with the number QD031 judges.
LEMMA RangeBegins ==
  ASSUME NEW X, NEW field \in Seq(X), IsRange(field)
  PROVE  portNumber(field) = field[1] /\ field[1] \in Nat /\ field # <<>>
<1>1. Len(field) \in Nat  BY LenProperties
<1>2. Len(field) >= 1 /\ field[1] \in Nat /\ (Len(field) = 1 \/ field[2] = Dash)
  BY <1>1 DEF IsRange
<1>3. field # <<>>  BY <1>1, <1>2, EmptySeq
<1> QED  BY <1>2, <1>3, LowBound

\* How many of a set of numbers are up to one of them.
Rank(E, i) == Cardinality({j \in E : j <= i})
NthOf(E, k) == IF k = 0 THEN 0 ELSE CHOOSE i \in E : Rank(E, i) = k

\* They can be counted.
LEMMA NumbersCounted ==
  ASSUME NEW b \in Nat, NEW E \in SUBSET (1..b)
  PROVE  /\ IsFiniteSet(E) /\ Cardinality(E) \in Nat
         /\ \A i : IsFiniteSet({j \in E : j <= i}) /\ Rank(E, i) \in Nat
<1>1. 1 \in Int /\ b \in Int  OBVIOUS
<1>2. IsFiniteSet(1..b)  BY <1>1, FS_Interval
<1>3. IsFiniteSet(E)  BY <1>2, FS_Subset
<1>4. ASSUME NEW i PROVE IsFiniteSet({j \in E : j <= i})
  <2>1. {j \in E : j <= i} \in SUBSET E  OBVIOUS
  <2> QED  BY <1>3, <2>1, FS_Subset
<1> QED  BY <1>3, <1>4, FS_CardinalityType DEF Rank

\* There is one at every rank.
LEMMA RankReached ==
  ASSUME NEW b \in Nat, NEW E \in SUBSET (1..b)
  PROVE  \A k \in 1..Cardinality(E) : \E i \in E : Rank(E, i) = k
<1> DEFINE N == Cardinality(E)
           T == {d \in Nat : \A k \in 1..N : N - k = d => \E i \in E : Rank(E, i) = k}
<1>0. IsFiniteSet(E) /\ N \in Nat  BY NumbersCounted
<1>b. b \in Int  OBVIOUS
<1>1. 0 \in T
  <2> SUFFICES ASSUME N # 0 PROVE \E i \in E : Rank(E, i) = N  BY <1>0
  <2>1. E # {} /\ E \subseteq Int /\ \A n \in E : n <= b  BY <1>0, FS_EmptySet
  <2>2. PICK i \in E : \A m \in E : m <= i  BY ONLY <1>b, <2>1, GreatestNumber
  <2>3. {j \in E : j <= i} = E  BY <2>2
  <2> QED  BY <2>3 DEF Rank
<1>2. ASSUME NEW d \in Nat, d \in T PROVE d + 1 \in T
  <2> SUFFICES ASSUME NEW k \in 1..N, N - k = d + 1 PROVE \E i \in E : Rank(E, i) = k
    OBVIOUS
  <2>1. k + 1 \in 1..N /\ N - (k + 1) = d  BY <1>0
  <2>2. PICK i \in E : Rank(E, i) = k + 1  BY <1>2, <2>1
  <2> DEFINE R == {j \in E : j <= i} \ {i}
  <2>3. Cardinality(R) = k /\ IsFiniteSet(R)
    <3>1. IsFiniteSet({j \in E : j <= i}) /\ i \in {j \in E : j <= i}  BY <1>0, FS_Subset
    <3>2. Cardinality(R) = Rank(E, i) - 1  BY <3>1, FS_RemoveElement DEF Rank
    <3> QED  BY <2>2, <3>1, <3>2, FS_RemoveElement
  <2>4. R # {} /\ R \subseteq Int /\ \A n \in R : n <= b
    <3>1. R \subseteq E  OBVIOUS
    <3>2. k # 0  OBVIOUS
    <3> HIDE DEF R
    <3>3. R # {}  BY <2>3, <3>2, FS_EmptySet
    <3> QED  BY <3>1, <3>3
  <2>5. PICK n \in R : \A m \in R : m <= n
    <3> HIDE DEF R
    <3> QED  BY ONLY <1>b, <2>4, GreatestNumber
  <2>6. {j \in E : j <= n} = R
    <3>1. n < i /\ n \in E  BY DEF R
    <3>2. ASSUME NEW j \in E PROVE j <= n <=> j \in R
      <4>1. j \in R => j <= n  BY <2>5
      <4>2. j <= n => j <= i /\ j # i  BY <3>1
      <4> QED  BY <4>1, <4>2
    <3> QED  BY <3>2
  <2> QED  BY <2>3, <2>6 DEF Rank
<1> HIDE DEF T
<1>3. Nat \subseteq T  BY <1>1, <1>2, SetInduction
<1>4. ASSUME NEW k \in 1..N PROVE \E i \in E : Rank(E, i) = k
  <2>1. N - k \in T  BY <1>0, <1>3
  <2> QED  BY <2>1 DEF T
<1> QED  BY <1>4

\* The numbers of a set in order: the last is the greatest, and between two
\* that follow each other there is none.
LEMMA NthIs ==
  ASSUME NEW b \in Nat, NEW E \in SUBSET (1..b), NEW k \in 1..Cardinality(E)
  PROVE  /\ NthOf(E, k) \in E
         /\ k - 1 # 0 => NthOf(E, k - 1) \in E
         /\ NthOf(E, k - 1) < NthOf(E, k)
         /\ \A j \in E : ~(NthOf(E, k - 1) < j /\ j < NthOf(E, k))
         /\ k = Cardinality(E) => \A j \in E : j <= NthOf(E, k)
<1>0. /\ IsFiniteSet(E) /\ Cardinality(E) \in Nat
      /\ \A i : IsFiniteSet({j \in E : j <= i}) /\ Rank(E, i) \in Nat
  BY NumbersCounted
<1>1. \A m \in 1..Cardinality(E) : NthOf(E, m) \in E /\ Rank(E, NthOf(E, m)) = m
  BY <1>0, RankReached DEF NthOf
<1>2. ASSUME NEW i \in E, NEW j \in E, i < j PROVE Rank(E, i) < Rank(E, j)
  <2> DEFINE A == {l \in E : l <= i}  B == {l \in E : l <= j}
  <2>0. E \subseteq Int  OBVIOUS
  <2>1. A \in SUBSET B
    <3>1. ASSUME NEW l \in E, l <= i PROVE l <= j
      <4>1. l \in Int /\ i \in Int /\ j \in Int  BY <2>0
      <4> QED  BY <1>2, <3>1, <4>1
    <3> QED  BY <3>1
  <2>2. j \in B /\ j \notin A  BY <1>2, <2>0
  <2>3. IsFiniteSet(B) /\ IsFiniteSet(A)  BY <1>0
  <2>4. Rank(E, i) = Cardinality(A) /\ Rank(E, j) = Cardinality(B)  BY DEF Rank
  <2> HIDE DEF A, B
  <2>5. Cardinality(A) <= Cardinality(B) /\ Cardinality(A) # Cardinality(B)
    BY <2>1, <2>2, <2>3, FS_Subset
  <2>6. Cardinality(A) \in Nat /\ Cardinality(B) \in Nat  BY <2>3, FS_CardinalityType
  <2> QED  BY <2>4, <2>5, <2>6
<1>3. NthOf(E, k) \in E /\ Rank(E, NthOf(E, k)) = k  BY <1>1
<1>4. ASSUME k - 1 # 0
      PROVE  NthOf(E, k - 1) \in E /\ Rank(E, NthOf(E, k - 1)) = k - 1
  <2>1. k - 1 \in 1..Cardinality(E)  BY <1>0, <1>4
  <2> QED  BY <1>1, <2>1
<1>5. k - 1 = 0 => NthOf(E, k - 1) = 0  BY DEF NthOf
<1> DEFINE x == NthOf(E, k - 1)
           y == NthOf(E, k)
<1> HIDE DEF x, y
<1>6. x < y
  <2>1. CASE k - 1 = 0
    <3>1. x = 0 /\ y \in 1..b  BY <1>3, <1>5, <2>1 DEF x, y
    <3> QED  BY <3>1
  <2>2. CASE k - 1 # 0
    <3>1. x \in E /\ y \in E /\ Rank(E, x) = k - 1 /\ Rank(E, y) = k  BY <1>3, <1>4, <2>2 DEF x, y
    <3>2. ~(y < x) /\ x # y  BY <1>2, <3>1
    <3>3. x \in Int /\ y \in Int  BY <3>1
    <3> QED  BY <3>2, <3>3
  <2> QED  BY <2>1, <2>2
<1>7. ASSUME NEW j \in E, x < j, j < y PROVE FALSE
  <2>1. y \in E /\ Rank(E, y) = k  BY <1>3 DEF y
  <2>2. Rank(E, j) < k /\ Rank(E, j) \in Nat  BY <1>0, <1>2, <1>7, <2>1
  <2>3. CASE k - 1 = 0
    <3>1. j \in {l \in E : l <= j}  OBVIOUS
    <3>2. Rank(E, j) # 0  BY <1>0, <3>1, FS_EmptySet DEF Rank
    <3> QED  BY <2>2, <2>3, <3>2
  <2>4. CASE k - 1 # 0
    <3>1. x \in E /\ Rank(E, x) = k - 1  BY <1>4, <2>4 DEF x
    <3>2. k - 1 < Rank(E, j)  BY <1>2, <1>7, <3>1
    <3> QED  BY <2>2, <3>2
  <2> QED  BY <2>3, <2>4
<1>8. ASSUME k = Cardinality(E), NEW j \in E PROVE j <= y
  <2>1. {l \in E : l <= y} = E
    <3>1. {l \in E : l <= y} \in SUBSET E /\ Cardinality({l \in E : l <= y}) = Cardinality(E)
      BY <1>3, <1>8 DEF Rank, y
    <3> QED  BY <1>0, <3>1, FS_Subset
  <2> QED  BY <2>1
<1> QED  BY <1>3, <1>4, <1>6, <1>7, <1>8 DEF x, y

\* Where the pieces of a text end, and where piece k begins and ends.
PieceEnds(text, t)  == {i \in 1..Len(text) + 1 : i > Len(text) \/ text[i] = t}
Begins(text, t, k)  == NthOf(PieceEnds(text, t), k - 1) + 1
Stops(text, t, k)   == NthOf(PieceEnds(text, t), k) - 1

\* Split by where the pieces end.
LEMMA SplitByEnds ==
  ASSUME NEW text, NEW t
  PROVE  Split(text, t) = [k \in 1..Cardinality(PieceEnds(text, t)) |->
                             SubSeq(text, Begins(text, t, k), Stops(text, t, k))]
BY DEF Split, PieceEnds, Begins, Stops, NthOf, Rank

\* The pieces lie between separators and hold none. The last but one ends
\* before the last separator.
PieceIs(text, t, k) ==
  LET a == Begins(text, t, k)  b == Stops(text, t, k) IN
  /\ Split(text, t)[k] = SubSeq(text, a, b)
  /\ a \in 1..Len(text) + 1 /\ b \in 0..Len(text)
  /\ \A i \in a..b : text[i] # t
  /\ k # 1 => text[a - 1] = t /\ a - 1 \in 1..Len(text)
  /\ b < Len(text) => text[b + 1] = t
  /\ k = Len(Split(text, t)) => b = Len(text)
  /\ k = Len(Split(text, t)) - 1 => b + 1 = LastAt(text, t)

\* So are all of them, and there is one at least.
LEMMA SplitPieces ==
  ASSUME NEW X, NEW text \in Seq(X), NEW t
  PROVE  /\ Len(Split(text, t)) \in Nat \ {0}
         /\ \A k \in 1..Len(Split(text, t)) : PieceIs(text, t, k)
<1> DEFINE E == PieceEnds(text, t)
           n == Len(text)
<1>0. n \in Nat  BY LenProperties
<1>1. n + 1 \in Nat /\ E \in SUBSET (1..(n + 1))  BY <1>0 DEF PieceEnds
<1>2. IsFiniteSet(E) /\ Cardinality(E) \in Nat  BY <1>1, NumbersCounted
<1>3. n + 1 \in E /\ \A i \in E : i \in 1..n => text[i] = t
  BY <1>0 DEF PieceEnds
<1>4. \A i \in 1..n : text[i] = t => i \in E  BY <1>0 DEF PieceEnds
<1> HIDE DEF E, n
<1>5. Cardinality(E) # 0  BY <1>2, <1>3, FS_EmptySet
<1>6. Len(Split(text, t)) = Cardinality(E) /\ DOMAIN Split(text, t) = 1..Cardinality(E)
  BY <1>2, SplitByEnds DEF E
<1>7. ASSUME NEW k \in 1..Cardinality(E)
      PROVE  LET a == Begins(text, t, k)  b == Stops(text, t, k) IN
              /\ Split(text, t)[k] = SubSeq(text, a, b)
              /\ a \in 1..n + 1 /\ b \in 0..n
              /\ \A i \in a..b : text[i] # t
              /\ k # 1 => text[a - 1] = t /\ a - 1 \in 1..n
              /\ b < n => text[b + 1] = t
              /\ k = Cardinality(E) => b = n
              /\ k = Cardinality(E) - 1 => b + 1 = LastAt(text, t)
  <2>1. /\ NthOf(E, k) \in E
        /\ k - 1 # 0 => NthOf(E, k - 1) \in E
        /\ NthOf(E, k - 1) < NthOf(E, k)
        /\ \A j \in E : ~(NthOf(E, k - 1) < j /\ j < NthOf(E, k))
        /\ k = Cardinality(E) => \A j \in E : j <= NthOf(E, k)
    BY <1>1, NthIs
  <2>2. k - 1 = 0 => NthOf(E, k - 1) = 0  BY DEF NthOf
  <2>3. k + 1 \in 1..Cardinality(E) =>
          /\ NthOf(E, k + 1) \in E
          /\ \A j \in E : ~(NthOf(E, k) < j /\ j < NthOf(E, k + 1))
          /\ NthOf(E, k) < NthOf(E, k + 1)
          /\ k + 1 = Cardinality(E) => \A j \in E : j <= NthOf(E, k + 1)
    <3> SUFFICES ASSUME k + 1 \in 1..Cardinality(E)
                 PROVE  /\ NthOf(E, k + 1) \in E
                        /\ \A j \in E : ~(NthOf(E, k) < j /\ j < NthOf(E, k + 1))
                        /\ NthOf(E, k) < NthOf(E, k + 1)
                        /\ k + 1 = Cardinality(E) => \A j \in E : j <= NthOf(E, k + 1)
      OBVIOUS
    <3>1. PICK m \in 1..Cardinality(E) : m = k + 1  OBVIOUS
    <3>2. m - 1 = k  BY <1>2, <3>1
    <3>3. /\ NthOf(E, m) \in E
          /\ NthOf(E, m - 1) < NthOf(E, m)
          /\ \A j \in E : ~(NthOf(E, m - 1) < j /\ j < NthOf(E, m))
          /\ m = Cardinality(E) => \A j \in E : j <= NthOf(E, m)
      BY <1>1, NthIs
    <3> QED  BY <3>1, <3>2, <3>3
  <2> DEFINE x == NthOf(E, k - 1)  y == NthOf(E, k)  z == NthOf(E, k + 1)
             a == Begins(text, t, k)  b == Stops(text, t, k)
  <2>4. Split(text, t)[k] = SubSeq(text, a, b)  BY SplitByEnds DEF E
  <2>5. a = x + 1 /\ b = y - 1  BY DEF Begins, Stops, E
  <2> HIDE DEF a, b, x, y, z
  <2>6. x \in 0..n + 1 /\ y \in 1..n + 1 /\ x < y /\ y \in E
    <3>1. y \in E /\ x < y  BY <2>1 DEF x, y
    <3>2. x = 0 \/ x \in E  BY <2>1, <2>2 DEF x
    <3>3. E \subseteq 0..n + 1 /\ E \subseteq 1..n + 1 /\ 0 \in 0..n + 1  BY <1>0, <1>1
    <3> QED  BY <3>1, <3>2, <3>3
  <2>7. a \in 1..n + 1 /\ b \in 0..n  BY <1>0, <2>5, <2>6
  <2>8. ASSUME NEW i \in a..b PROVE text[i] # t
    <3>1. i \in 1..n /\ x < i /\ i < y  BY <1>0, <2>5, <2>6, <2>7
    <3>2. i \notin E  BY <2>1, <3>1 DEF x, y
    <3> QED  BY <1>4, <3>1, <3>2
  <2>9. ASSUME k # 1 PROVE text[a - 1] = t /\ a - 1 \in 1..n
    <3>1. x \in E /\ k - 1 # 0  BY <2>1, <2>9 DEF x
    <3>2. x \in 1..n  BY <1>0, <1>1, <2>6, <3>1
    <3>3. a - 1 = x  BY <2>5, <2>6
    <3> QED  BY <1>3, <3>1, <3>2, <3>3
  <2>10. ASSUME b < n PROVE text[b + 1] = t
    <3>1. b + 1 = y /\ y \in 1..n  BY <1>0, <2>5, <2>6, <2>10
    <3> QED  BY <1>3, <2>6, <3>1
  <2>11. ASSUME k = Cardinality(E) PROVE b = n
    <3>1. n + 1 <= y  BY <1>3, <2>1, <2>11 DEF y
    <3> QED  BY <1>0, <2>5, <2>6, <3>1
  <2>12. ASSUME k = Cardinality(E) - 1 PROVE b + 1 = LastAt(text, t)
    <3>1. /\ z \in E /\ (\A j \in E : ~(y < j /\ j < z)) /\ y < z
          /\ \A j \in E : j <= z
      <4>1. k + 1 \in 1..Cardinality(E) /\ k + 1 = Cardinality(E)  BY <1>2, <2>12
      <4> QED  BY <2>3, <4>1 DEF y, z
    <3>2. z = n + 1
      <4>1. n + 1 <= z /\ z \in 1..(n + 1)  BY <1>1, <1>3, <3>1
      <4> QED  BY <1>0, <4>1
    <3>3. y \in 1..n /\ text[y] = t  BY <1>0, <1>3, <2>6, <3>1, <3>2
    <3>4. \A i \in 1..n : text[i] = t => i <= y
      <4> SUFFICES ASSUME NEW i \in 1..n, text[i] = t PROVE i <= y  OBVIOUS
      <4>1. i \in E /\ i < z  BY <1>0, <1>4, <3>2
      <4>2. ~(y < i)  BY <3>1, <4>1
      <4> QED  BY <1>0, <3>3, <4>2
    <3>5. LastAt(text, t) = y
      <4> DEFINE l == LastAt(text, t)
      <4>1. /\ l \in 0..n /\ (l # 0 => text[l] = t)
            /\ \A i \in 1..n : text[i] = t => l # 0 /\ i <= l
        BY LastAtIs DEF n
      <4> HIDE DEF l
      <4>2. l # 0 /\ y <= l  BY <3>3, <4>1
      <4>3. l \in 1..n  BY <1>0, <4>1, <4>2
      <4>4. l <= y  BY <3>4, <4>1, <4>2, <4>3
      <4>5. l = y  BY <1>0, <3>3, <4>2, <4>3, <4>4
      <4> QED  BY <4>5 DEF l
    <3> QED  BY <2>5, <2>6, <3>5
  <2> QED  BY <2>4, <2>7, <2>8, <2>9, <2>10, <2>11, <2>12 DEF a, b
<1> QED  BY <1>2, <1>5, <1>6, <1>7 DEF n, PieceIs

\* How far the part before the protocol goes.
SpecEnd(text) == IF LastAt(text, Slash) = 0 THEN Len(text) ELSE LastAt(text, Slash) - 1

\* The part before the protocol is the text up to there.
LEMMA SpecIs ==
  ASSUME NEW X, NEW text \in Seq(X)
  PROVE  /\ Cut(text).spec \in Seq(X)
         /\ Len(Cut(text).spec) = SpecEnd(text) /\ SpecEnd(text) \in 0..Len(text)
         /\ \A i \in 1..SpecEnd(text) : Cut(text).spec[i] = text[i]
<1> DEFINE m == SpecEnd(text)
<1>0. Len(text) \in Nat /\ \A i \in 1..Len(text) : text[i] \in X  BY LenProperties, ElementOfSeq
<1>1. m \in 0..Len(text)
  <2>1. LastAt(text, Slash) \in 0..Len(text)  BY LastAtIs
  <2> QED  BY <1>0, <2>1 DEF SpecEnd
<1>2. Cut(text).spec = IF LastAt(text, Slash) = 0 THEN text ELSE SubSeq(text, 1, m)
  BY DEF Cut, CutAt, Before, SpecEnd
<1>3. LastAt(text, Slash) = 0 => m = Len(text)  BY DEF SpecEnd
<1> HIDE DEF m
<1>4. CASE LastAt(text, Slash) = 0  BY <1>0, <1>1, <1>2, <1>3, <1>4 DEF m
<1>5. CASE LastAt(text, Slash) # 0
  <2>1. 1 \in Int /\ m \in Int /\ \A i \in 1..m : text[i] \in X  BY <1>0, <1>1
  <2>2. /\ SubSeq(text, 1, m) \in Seq(X)
        /\ Len(SubSeq(text, 1, m)) = IF 1 <= m THEN m - 1 + 1 ELSE 0
        /\ \A i \in 1..(m - 1 + 1) : SubSeq(text, 1, m)[i] = text[1 + i - 1]
    BY <2>1, SubSeqProperties
  <2>3. Len(SubSeq(text, 1, m)) = m /\ \A i \in 1..m : SubSeq(text, 1, m)[i] = text[i]
    BY <1>0, <1>1, <2>2
  <2> QED  BY <1>1, <1>2, <1>5, <2>2, <2>3 DEF m
<1> QED  BY <1>4, <1>5

\* The part that is split into fields, and how much stands before it.
Skipped(spec) ==
  LET end == AddressEnd(spec)
  IN  IF end # 0 /\ end < Len(spec) /\ spec[end + 1] = Colon THEN end + 1 ELSE end
Inner(spec) == IF AddressEnd(spec) = 0 THEN spec ELSE Unprefixed(After(spec, AddressEnd(spec)))

\* The fields are the pieces of what is behind a bracketed address.
LEMMA InnerIs ==
  ASSUME NEW X, NEW spec \in Seq(X)
  PROVE  /\ Fields(spec).fields = Split(Inner(spec), Colon)
         /\ AddressEnd(spec) \in 0..Len(spec) /\ Skipped(spec) \in AddressEnd(spec)..Len(spec)
         /\ Inner(spec) \in Seq(X) /\ Len(Inner(spec)) = Len(spec) - Skipped(spec)
         /\ \A i \in 1..Len(Inner(spec)) : Inner(spec)[i] = spec[Skipped(spec) + i]
<1> DEFINE e == AddressEnd(spec)
           k == Skipped(spec)
           r == After(spec, e)
<1>0. Len(spec) \in Nat /\ \A i \in 1..Len(spec) : spec[i] \in X  BY LenProperties, ElementOfSeq
<1>1. e \in 0..Len(spec)
  <2>1. FirstAt(spec, Close) \in 0..Len(spec)  BY FirstAtIs
  <2> QED  BY <1>0, <2>1 DEF AddressEnd
<1>2. Fields(spec).fields = Split(Inner(spec), Colon)
  BY DEF Fields, FieldsAfter, Inner
<1>3. k = IF e # 0 /\ e < Len(spec) /\ spec[e + 1] = Colon THEN e + 1 ELSE e  BY DEF Skipped
<1>4. Inner(spec) = IF e = 0 THEN spec ELSE IF r # <<>> /\ r[1] = Colon THEN Tail(r) ELSE r
  BY DEF Inner, Unprefixed
<1>5. r = SubSeq(spec, e + 1, Len(spec))  BY DEF After
<1> HIDE DEF e, k, r
<1>6. r \in Seq(X) /\ Len(r) = Len(spec) - e /\ \A i \in 1..Len(r) : r[i] = spec[e + i]
  <2>1. e + 1 \in Int /\ Len(spec) \in Int /\ \A i \in (e + 1)..Len(spec) : spec[i] \in X  BY <1>0, <1>1
  <2>2. /\ SubSeq(spec, e + 1, Len(spec)) \in Seq(X)
        /\ Len(SubSeq(spec, e + 1, Len(spec))) = IF e + 1 <= Len(spec) THEN Len(spec) - (e + 1) + 1 ELSE 0
        /\ \A i \in 1..(Len(spec) - (e + 1) + 1) : SubSeq(spec, e + 1, Len(spec))[i] = spec[(e + 1) + i - 1]
    BY <2>1, SubSeqProperties
  <2> QED  BY <1>0, <1>1, <1>5, <2>2
<1>7. r # <<>> <=> e < Len(spec)
  <2>1. r # <<>> => Len(r) # 0  BY <1>6, EmptySeq
  <2>2. r = <<>> => Len(r) = 0  BY EmptySeq
  <2> QED  BY <1>0, <1>1, <1>6, <2>1, <2>2
<1>8. CASE e = 0
  BY <1>0, <1>1, <1>2, <1>3, <1>4, <1>8 DEF e, k
<1>9. CASE e # 0 /\ ~(r # <<>> /\ r[1] = Colon)
  <2>1. k = e
    <3>1. e < Len(spec) => r[1] = spec[e + 1]  BY <1>0, <1>1, <1>6
    <3> QED  BY <1>3, <1>7, <1>9, <3>1
  <2> QED  BY <1>0, <1>1, <1>2, <1>4, <1>6, <1>9, <2>1 DEF e, k
<1>10. CASE e # 0 /\ r # <<>> /\ r[1] = Colon
  <2>1. e < Len(spec) /\ k = e + 1
    <3>1. e < Len(spec) => r[1] = spec[e + 1]  BY <1>0, <1>1, <1>6
    <3> QED  BY <1>3, <1>7, <1>10, <3>1
  <2>2. Tail(r) \in Seq(X) /\ Len(Tail(r)) = Len(r) - 1 /\ \A i \in 1..Len(Tail(r)) : Tail(r)[i] = r[i + 1]
    BY <1>6, <1>10, HeadTailProperties
  <2>3. Len(Tail(r)) = Len(spec) - k  BY <1>0, <1>1, <1>6, <2>1, <2>2
  <2>4. \A i \in 1..Len(Tail(r)) : Tail(r)[i] = spec[k + i]
    <3> SUFFICES ASSUME NEW i \in 1..Len(Tail(r)) PROVE Tail(r)[i] = spec[k + i]  OBVIOUS
    <3>1. i + 1 \in 1..Len(r) /\ e + (i + 1) = k + i  BY <1>0, <1>1, <1>6, <2>1, <2>2
    <3> QED  BY <1>6, <2>2, <3>1
  <2>5. k \in e..Len(spec)  BY <1>0, <1>1, <2>1
  <2> QED  BY <1>1, <1>2, <1>4, <1>10, <2>2, <2>3, <2>4, <2>5 DEF e, k
<1> QED  BY <1>8, <1>9, <1>10

\* Where the host field of a value begins and stops, counted in what is split.
HostBegins(spec) == Begins(Inner(spec), Colon, Len(Fields(spec).fields) - 1)
HostStops(spec)  == Stops(Inner(spec), Colon, Len(Fields(spec).fields) - 1)

\* The host field: none, or what stands before the last colon.
LEMMA HostFieldIs ==
  ASSUME NEW X, NEW spec \in Seq(X), NEW fields, fields = Fields(spec).fields
  PROVE  /\ Len(fields) \in Nat \ {0} /\ HostField(fields) \in Seq(X) /\ Last(fields) \in Seq(X)
         /\ Len(fields) = 1 => HostField(fields) = <<>>
         /\ Len(fields) # 1 =>
              LET a == HostBegins(spec)  b == HostStops(spec) IN
              /\ a \in 1..Len(Inner(spec)) + 1 /\ b \in 0..Len(Inner(spec))
              /\ HostField(fields) = SubSeq(Inner(spec), a, b)
              /\ \A i \in a..b : Inner(spec)[i] # Colon
              /\ b + 1 = LastAt(Inner(spec), Colon)
<1> DEFINE w == Inner(spec)
<1>0. w \in Seq(X) /\ fields = Split(w, Colon)  BY InnerIs
<1> HIDE DEF w
<1>1. Len(w) \in Nat /\ \A i \in 1..Len(w) : w[i] \in X  BY <1>0, LenProperties, ElementOfSeq
<1> DEFINE P(k) == LET a == Begins(w, Colon, k)  b == Stops(w, Colon, k) IN
              /\ fields[k] = SubSeq(w, a, b)
              /\ a \in 1..Len(w) + 1 /\ b \in 0..Len(w)
              /\ \A i \in a..b : w[i] # Colon
              /\ k = Len(fields) - 1 => b + 1 = LastAt(w, Colon)
<1>2. Len(fields) \in Nat \ {0} /\ \A k \in 1..Len(fields) : P(k)
  <2>1. /\ Len(Split(w, Colon)) \in Nat \ {0}
        /\ \A k \in 1..Len(Split(w, Colon)) : PieceIs(w, Colon, k)
    BY <1>0, SplitPieces
  <2> QED  BY <1>0, <2>1 DEF PieceIs
<1>3. \A k \in 1..Len(fields) : fields[k] \in Seq(X)
  <2> SUFFICES ASSUME NEW k \in 1..Len(fields) PROVE fields[k] \in Seq(X)  OBVIOUS
  <2> DEFINE a == Begins(w, Colon, k)  b == Stops(w, Colon, k)
  <2>1. fields[k] = SubSeq(w, a, b) /\ a \in 1..Len(w) + 1 /\ b \in 0..Len(w)  BY <1>2
  <2> HIDE DEF a, b
  <2>2. a \in Int /\ b \in Int /\ \A i \in a..b : w[i] \in X  BY <1>1, <2>1
  <2>3. SubSeq(w, a, b) \in Seq(X)  BY <2>2, SubSeqProperties
  <2> QED  BY <2>1, <2>3
<1> HIDE DEF P
<1>4. Last(fields) = fields[Len(fields)]  BY DEF Last
<1>5. CASE Len(fields) = 1
  <2>1. HostField(fields) = <<>>  BY <1>5 DEF HostField
  <2>2. Last(fields) \in Seq(X)  BY <1>3, <1>4, <1>5
  <2> QED  BY <1>2, <1>5, <2>1, <2>2, EmptySeq
<1>6. CASE Len(fields) # 1
  <2>1. PICK n \in Nat : n = Len(fields) - 1 /\ n \in 1..Len(fields) /\ Len(fields) \in 1..Len(fields)
    <3>1. \A m \in Nat : m # 0 /\ m # 1 => m - 1 \in Nat /\ m - 1 \in 1..m /\ m \in 1..m
      OBVIOUS
    <3>2. Len(fields) \in Nat /\ Len(fields) # 0  BY <1>2
    <3> QED  BY ONLY <1>6, <3>1, <3>2
  <2>2. HostField(fields) = fields[n]  BY <1>6, <2>1 DEF HostField
  <2>3. P(n)  BY <1>2, <2>1
  <2>4. HostBegins(spec) = Begins(w, Colon, n) /\ HostStops(spec) = Stops(w, Colon, n)
    BY <2>1 DEF HostBegins, HostStops, w
  <2>5. HostField(fields) \in Seq(X) /\ Last(fields) \in Seq(X)  BY <1>3, <1>4, <2>1, <2>2
  <2> QED  BY <1>2, <1>6, <2>1, <2>2, <2>3, <2>4, <2>5 DEF P, w
<1> QED  BY <1>5, <1>6

\* HostPort in terms of the host field.
LEMMA HostPortIs ==
  ASSUME NEW text, NEW fields, fields = Fields(Cut(text).spec).fields
  PROVE  /\ HostPort(text) \in Nat
         /\ HostPort(text) # 0 => /\ Len(fields) <= 3 /\ portNumber(Last(fields)) # NotANumber
                                 /\ HostPort(text) = portNumber(HostField(fields))
         /\ Len(fields) <= 3 /\ portNumber(Last(fields)) # NotANumber /\ portNumber(HostField(fields)) # NotANumber
              => HostPort(text) = portNumber(HostField(fields))
<1> DEFINE p == ParsePort(text)
           h == portNumber(HostField(fields))
<1>1. /\ p.ok = (Len(fields) <= 3 /\ portNumber(Last(fields)) # NotANumber)
      /\ p.host = IF h = NotANumber THEN 0 ELSE h
  BY DEF ParsePort, ParsedFrom, PortOf
<1>2. HostPort(text) = IF p.ok THEN p.host ELSE 0  BY DEF HostPort, HostOf
<1>3. h \in Nat \/ h = NotANumber  BY DEF portNumber, Bound
<1> HIDE DEF p, h
<1>4. HostPort(text) \in Nat  BY <1>1, <1>2, <1>3
<1> QED  BY <1>1, <1>2, <1>4 DEF h

\* QD031 judges the lowest of the ports Podman publishes (network.go:237-253).
LEMMA JudgedPort ==
  ASSUME NEW text \in Text, Publishable(text), NEW q \in Published(text).hosts
  PROVE  q \in Int /\ HostPort(text) \in 1..q
<1> DEFINE X == Nat \cup Marks
           cut == Fields(Cut(text).spec)
           fields == cut.fields
           hf == HostField(fields)
           cf == Last(fields)
<1>1. text \in Seq(X)  BY DEF Text
<1>2. Cut(text).spec \in Seq(X)  BY <1>1, SpecIs
<1>3. hf \in Seq(X) /\ cf \in Seq(X)  BY <1>2, HostFieldIs
<1>4. Published(text).hosts = PortsOf(hf)  BY DEF Published, PublicationOf, Publication
<1>5. AcceptedFrom(cut)  BY DEF Publishable
<1>6. Len(fields) \in Nat  BY <1>2, HostFieldIs
<1>7. HostPort(text) = portNumber(hf)
        \/ ~(Len(fields) <= 3 /\ portNumber(cf) # NotANumber /\ portNumber(hf) # NotANumber)
  BY HostPortIs
<1> HIDE DEF cut
<1>8. Accepted(cut.address, fields, PortsOf(hf), PortsOf(cf))  BY <1>5 DEF AcceptedFrom
<1> HIDE DEF fields, hf, cf
<1>9. Len(fields) <= 3
  <2>1. \A m \in Nat : m <= (IF cut.address = <<>> THEN 3 ELSE 2) => m <= 3  OBVIOUS
  <2>2. Len(fields) <= (IF cut.address = <<>> THEN 3 ELSE 2)  BY <1>8 DEF Accepted
  <2> QED  BY ONLY <1>6, <2>1, <2>2
<1>a. PortsOf(cf) # {}  BY <1>8 DEF Accepted
<1>b. hf # <<>> => PortsOf(hf) \subseteq 1..MaxPort  BY <1>8 DEF Accepted, hf
<1>10. q \in PortsOf(hf)  BY <1>4
<1>11. IsRange(hf) /\ IsRange(cf) /\ PortsOf(hf) = hf[1]..Last(hf)  BY <1>a, <1>10 DEF PortsOf
<1>12. /\ portNumber(hf) = hf[1] /\ hf[1] \in Nat /\ hf # <<>>
       /\ portNumber(cf) = cf[1] /\ cf[1] \in Nat
  BY <1>3, <1>11, RangeBegins
<1>13. HostPort(text) = hf[1]  BY <1>7, <1>9, <1>12 DEF NotANumber
<1>14. Last(hf) \in Nat
  <2>1. Last(hf) = hf[Len(hf)]  BY DEF Last
  <2> QED  BY <1>11, <2>1 DEF IsRange
<1>15. q \in Int /\ hf[1] <= q /\ hf[1] \in hf[1]..Last(hf)
  <2>1. q \in hf[1]..Last(hf)  BY <1>10, <1>11
  <2> QED  BY ONLY <1>12, <1>14, <2>1
<1>16. hf[1] \in 1..MaxPort
  <2>1. hf # <<>>  BY ONLY <1>12
  <2>2. PortsOf(hf) \subseteq 1..MaxPort  BY ONLY <1>b, <2>1
  <2>3. hf[1] \in PortsOf(hf)  BY ONLY <1>11, <1>15
  <2> QED  BY ONLY <2>2, <2>3
<1>17. \A n \in 1..MaxPort : n <= q => n \in 1..q  BY <1>15
<1>18. hf[1] \in 1..q  BY ONLY <1>15, <1>16, <1>17
<1> QED  BY ONLY <1>13, <1>15, <1>18

\* A stretch of a sequence.
LEMMA StretchIs ==
  ASSUME NEW X, NEW s \in Seq(X), NEW a \in 1..Len(s) + 1, NEW b \in 0..Len(s), a <= b + 1
  PROVE  /\ SubSeq(s, a, b) \in Seq(X) /\ Len(SubSeq(s, a, b)) = b - a + 1
         /\ \A i \in 1..(b - a + 1) : SubSeq(s, a, b)[i] = s[a + i - 1] /\ a + i - 1 \in 1..Len(s)
<1>0. Len(s) \in Nat /\ \A i \in 1..Len(s) : s[i] \in X  BY LenProperties, ElementOfSeq
<1>1. a \in Int /\ b \in Int /\ \A i \in a..b : s[i] \in X  BY <1>0
<1>2. /\ SubSeq(s, a, b) \in Seq(X)
      /\ Len(SubSeq(s, a, b)) = IF a <= b THEN b - a + 1 ELSE 0
      /\ \A i \in 1..(b - a + 1) : SubSeq(s, a, b)[i] = s[a + i - 1]
  BY <1>1, SubSeqProperties
<1>3. (IF a <= b THEN b - a + 1 ELSE 0) = b - a + 1  BY <1>1
<1>4. \A i \in 1..(b - a + 1) : a + i - 1 \in 1..Len(s)  BY <1>0, <1>1
<1> QED  BY <1>2, <1>3, <1>4

\* The colon before the host port, and the end of the host port.
HostEnd(text)   == Len(HeadOf(Cut(text).spec))
HostColon(text) == LastAt(HeadOf(Cut(text).spec), Colon)

\* Where they are.
LEMMA HeadIs ==
  ASSUME NEW X, NEW text \in Seq(X)
  PROVE  LET spec == Cut(text).spec  head == HeadOf(spec) IN
         /\ head \in Seq(X) /\ HostEnd(text) \in 0..SpecEnd(text)
         /\ HostEnd(text) = IF LastAt(spec, Colon) = 0 THEN 0 ELSE LastAt(spec, Colon) - 1
         /\ HostColon(text) \in 0..HostEnd(text)
         /\ \A i \in 1..HostEnd(text) : head[i] = text[i]
         /\ \A i \in 1..HostEnd(text) : text[i] = Colon => i <= HostColon(text)
<1> DEFINE spec == Cut(text).spec  head == HeadOf(spec)
           l == LastAt(spec, Colon)
           e == HostEnd(text)
<1>0. /\ spec \in Seq(X) /\ Len(spec) = SpecEnd(text) /\ SpecEnd(text) \in 0..Len(text)
      /\ \A i \in 1..SpecEnd(text) : spec[i] = text[i]
  BY SpecIs
<1>1. Len(text) \in Nat  BY LenProperties
<1>2. l \in 0..SpecEnd(text)  BY <1>0, LastAtIs
<1>3. head = SubSeq(spec, 1, l - 1) /\ e = Len(head)  BY DEF HeadOf, Before, HostEnd
<1>3a. HostColon(text) = LastAt(head, Colon)  BY DEF HostColon
<1> HIDE DEF spec, head, l, e
<1>4. CASE l = 0
  <2>1. head = <<>>
    <3>1. 1 \in Int /\ l - 1 \in Int /\ l - 1 < 1  BY <1>4
    <3> QED  BY <1>3, <3>1, SubSeqEmpty
  <2>2. head \in Seq(X) /\ e = 0  BY <1>3, <2>1, EmptySeq
  <2>3. HostColon(text) \in 0..e  BY <1>3, <1>3a, <2>2, LastAtIs
  <2> QED  BY <1>0, <1>1, <1>2, <1>4, <2>2, <2>3 DEF spec, head, l, e
<1>5. CASE l # 0
  <2>1. PICK b \in 0..Len(spec) : b = l - 1  BY <1>0, <1>1, <1>2, <1>5
  <2>2. 1 \in 1..Len(spec) + 1 /\ 1 <= b + 1  BY <1>0, <1>1, <1>2, <1>5, <2>1
  <2>3. /\ SubSeq(spec, 1, b) \in Seq(X) /\ Len(SubSeq(spec, 1, b)) = b - 1 + 1
        /\ \A i \in 1..(b - 1 + 1) : SubSeq(spec, 1, b)[i] = spec[1 + i - 1] /\ 1 + i - 1 \in 1..Len(spec)
    BY <1>0, <2>2, StretchIs
  <2>4. b - 1 + 1 = b /\ b \in 0..SpecEnd(text)  BY <1>0, <1>1, <2>1
  <2>5. head \in Seq(X) /\ e = b  BY <1>3, <2>1, <2>3, <2>4
  <2>6. \A i \in 1..b : head[i] = text[i]
    <3> SUFFICES ASSUME NEW i \in 1..b PROVE head[i] = text[i]  OBVIOUS
    <3>1. 1 + i - 1 = i /\ i \in 1..SpecEnd(text)  BY <1>0, <1>1, <2>4
    <3> QED  BY <1>0, <1>3, <2>1, <2>3, <2>4, <3>1
  <2>7. HostColon(text) \in 0..e /\ \A i \in 1..e : head[i] = Colon => i <= HostColon(text)
    BY <1>3, <1>3a, <2>5, LastAtIs
  <2> QED  BY <1>5, <2>1, <2>4, <2>5, <2>6, <2>7 DEF spec, head, l, e
<1> QED  BY <1>4, <1>5

\* What moving the host port changes: the numbers between that colon and that
\* end, and nothing else.
LEMMA ShiftIs ==
  ASSUME NEW text \in Text, NEW o \in Nat
  PROVE  /\ shiftedPublish(text, o) \in Text /\ Len(shiftedPublish(text, o)) = Len(text)
         /\ \A i \in 1..Len(text) : shiftedPublish(text, o)[i] =
              IF HostColon(text) < i /\ i <= HostEnd(text) /\ text[i] \in Nat THEN text[i] + o ELSE text[i]
<1> DEFINE X == Nat \cup Marks
           head == HeadOf(Cut(text).spec)
           c == HostColon(text)
           e == HostEnd(text)
           n == Len(text)
           address == SubSeq(head, 1, c)
           hp == SubSeq(head, c + 1, e)
           raised == Raised(hp, o)
           rest == SubSeq(text, e + 1, n)
<1>0. text \in Seq(X) /\ n \in Nat  BY LenProperties DEF Text
<1>1. shiftedPublish(text, o) = (address \o raised) \o rest
  BY DEF shiftedPublish, Parts, PartsAt, After, HostColon, HostEnd
<1>2. /\ head \in Seq(X) /\ e \in 0..SpecEnd(text) /\ c \in 0..e
      /\ \A i \in 1..e : head[i] = text[i]
  BY <1>0, HeadIs
<1>3. SpecEnd(text) \in 0..n /\ e = Len(head)  BY <1>0, SpecIs DEF HostEnd
<1>4. e \in 0..n /\ c \in 0..n /\ c <= e  BY <1>0, <1>2, <1>3
<1> HIDE DEF X, head, c, e, n
<1>5. address \in Seq(X) /\ Len(address) = c /\ \A i \in 1..c : address[i] = text[i]
  <2>1. 1 \in 1..Len(head) + 1 /\ c \in 0..Len(head) /\ 1 <= c + 1  BY <1>2, <1>3, <1>4
  <2>2. /\ address \in Seq(X) /\ Len(address) = c - 1 + 1
        /\ \A i \in 1..(c - 1 + 1) : address[i] = head[1 + i - 1]
    BY <1>2, <2>1, StretchIs
  <2>3. c - 1 + 1 = c  BY <1>4
  <2>4. \A i \in 1..c : 1 + i - 1 = i /\ i \in 1..e  BY <1>0, <1>4
  <2> HIDE DEF address
  <2> QED  BY <1>2, <2>2, <2>3, <2>4
<1>6. hp \in Seq(X) /\ Len(hp) = e - c /\ \A i \in 1..(e - c) : hp[i] = text[c + i]
  <2>1. PICK a \in 1..Len(head) + 1 : a = c + 1 /\ e \in 0..Len(head) /\ a <= e + 1
    BY <1>0, <1>2, <1>3, <1>4
  <2>2. /\ SubSeq(head, a, e) \in Seq(X) /\ Len(SubSeq(head, a, e)) = e - a + 1
        /\ \A i \in 1..(e - a + 1) : SubSeq(head, a, e)[i] = head[a + i - 1]
    BY <1>2, <2>1, StretchIs
  <2>3. e - a + 1 = e - c  BY <1>0, <1>4, <2>1
  <2>4. \A i \in 1..(e - c) : a + i - 1 = c + i /\ c + i \in 1..e  BY <1>0, <1>4, <2>1
  <2>5. hp = SubSeq(head, a, e)  BY <2>1
  <2> HIDE DEF hp
  <2> QED  BY <1>2, <2>2, <2>3, <2>4, <2>5
<1>7. rest \in Seq(X) /\ Len(rest) = n - e /\ \A i \in 1..(n - e) : rest[i] = text[e + i]
  <2>1. PICK a \in 1..n + 1 : a = e + 1 /\ n \in 0..n /\ a <= n + 1  BY <1>0, <1>4
  <2>2. /\ SubSeq(text, a, n) \in Seq(X) /\ Len(SubSeq(text, a, n)) = n - a + 1
        /\ \A i \in 1..(n - a + 1) : SubSeq(text, a, n)[i] = text[a + i - 1]
    BY <1>0, <2>1, StretchIs DEF n
  <2>3. n - a + 1 = n - e  BY <1>0, <1>4, <2>1
  <2>4. \A i \in 1..(n - e) : a + i - 1 = e + i  BY <1>0, <1>4, <2>1
  <2>5. rest = SubSeq(text, a, n)  BY <2>1
  <2> HIDE DEF rest
  <2> QED  BY <2>2, <2>3, <2>4, <2>5
<1> HIDE DEF address, hp, rest
<1>8. /\ raised \in Seq(X) /\ Len(raised) = e - c
      /\ \A i \in 1..(e - c) : raised[i] = IF hp[i] \in Nat THEN hp[i] + o ELSE hp[i]
  <2>1. DOMAIN hp = 1..(e - c) /\ e - c \in Nat  BY <1>4, <1>6, LenProperties
  <2>2. raised = [i \in 1..(e - c) |-> IF hp[i] \in Nat THEN hp[i] + o ELSE hp[i]]
    BY <2>1 DEF Raised
  <2>3. \A i \in 1..(e - c) : (IF hp[i] \in Nat THEN hp[i] + o ELSE hp[i]) \in X
    <3>1. \A i \in 1..(e - c) : hp[i] \in X  BY <1>6, ElementOfSeq
    <3>2. \A m \in Nat : m + o \in X  BY DEF X
    <3> QED  BY <3>1, <3>2
  <2> QED  BY <2>1, <2>2, <2>3
<1> HIDE DEF raised
<1>9. /\ address \o raised \in Seq(X) /\ Len(address \o raised) = e
      /\ \A i \in 1..e : (address \o raised)[i] = IF i <= c THEN address[i] ELSE raised[i - c]
  <2>1. /\ address \o raised \in Seq(X) /\ Len(address \o raised) = Len(address) + Len(raised)
        /\ \A i \in 1..Len(address) + Len(raised) : (address \o raised)[i] =
              IF i <= Len(address) THEN address[i] ELSE raised[i - Len(address)]
    BY <1>5, <1>8, ConcatProperties
  <2>2. c + (e - c) = e  BY <1>4
  <2> QED  BY <1>5, <1>8, <2>1, <2>2
<1> DEFINE first == address \o raised
           t == first \o rest
<1> HIDE DEF first
<1>10. /\ t \in Seq(X) /\ Len(t) = n
       /\ \A i \in 1..n : t[i] = IF i <= e THEN first[i] ELSE rest[i - e]
  <2>1. /\ first \o rest \in Seq(X) /\ Len(first \o rest) = Len(first) + Len(rest)
        /\ \A i \in 1..Len(first) + Len(rest) : (first \o rest)[i] =
              IF i <= Len(first) THEN first[i] ELSE rest[i - Len(first)]
    <3>1. first \in Seq(X)  BY <1>9 DEF first
    <3> QED  BY <1>7, <3>1, ConcatProperties
  <2>2. Len(first) = e  BY <1>9 DEF first
  <2>3. e + (n - e) = n  BY <1>0, <1>4
  <2> QED  BY <1>7, <2>1, <2>2, <2>3
<1> HIDE DEF t
<1>11. ASSUME NEW i \in 1..n
       PROVE  t[i] = IF c < i /\ i <= e /\ text[i] \in Nat THEN text[i] + o ELSE text[i]
  <2>1. CASE i <= c
    <3>1. i \in 1..c /\ i \in 1..e /\ i <= e /\ ~(c < i)  BY <1>0, <1>4, <2>1
    <3>2. t[i] = text[i]  BY <1>5, <1>9, <1>10, <2>1, <3>1 DEF first
    <3> QED  BY <3>1, <3>2
  <2>2. CASE c < i /\ i <= e
    <3>1. i \in 1..e /\ ~(i <= c) /\ i - c \in 1..(e - c) /\ c + (i - c) = i  BY <1>0, <1>4, <2>2
    <3>2. t[i] = raised[i - c]  BY <1>9, <1>10, <2>2, <3>1 DEF first
    <3>3. hp[i - c] = text[i]  BY <1>6, <3>1
    <3> QED  BY <1>8, <2>2, <3>1, <3>2, <3>3
  <2>3. CASE e < i
    <3>1. i - e \in 1..(n - e) /\ e + (i - e) = i /\ ~(i <= e)  BY <1>0, <1>4, <2>3
    <3>2. t[i] = text[i]  BY <1>7, <1>10, <3>1
    <3> QED  BY <3>1, <3>2
  <2> QED  BY <1>0, <1>4, <2>1, <2>2, <2>3
<1>12. shiftedPublish(text, o) = t  BY <1>1 DEF t, first
<1>13. \A i \in 1..n : shiftedPublish(text, o)[i] =
         IF c < i /\ i <= e /\ text[i] \in Nat THEN text[i] + o ELSE text[i]
  BY <1>11, <1>12
<1> QED  BY <1>10, <1>12, <1>13 DEF Text, X, c, e, n

\* Two values that differ in their numbers only.
Alike(x, y) ==
  /\ Len(x) = Len(y)
  /\ \A i \in 1..Len(x) : x[i] = y[i] \/ (x[i] \in Nat /\ y[i] \in Nat)

\* Their marks are in the same places.
LEMMA AlikeMarks ==
  ASSUME NEW X, NEW x \in Seq(X), NEW y \in Seq(X), Alike(x, y), NEW t \in Marks
  PROVE  /\ \A i \in 1..Len(x) : x[i] = t <=> y[i] = t
         /\ FirstAt(x, t) = FirstAt(y, t) /\ LastAt(x, t) = LastAt(y, t)
         /\ PieceEnds(x, t) = PieceEnds(y, t)
<1>0. Len(x) \in Nat /\ Len(y) = Len(x)  BY LenProperties DEF Alike
<1>1. t \notin Nat  BY TokenAssumption
<1>2. \A i \in 1..Len(x) : x[i] = t <=> y[i] = t  BY <1>1 DEF Alike
<1>3. {i \in 1..Len(x) : x[i] = t} = {i \in 1..Len(y) : y[i] = t}  BY <1>0, <1>2
<1>4. FirstAt(x, t) = FirstAt(y, t)  BY <1>3 DEF FirstAt, SelectInSeq
<1>5. LastAt(x, t) = LastAt(y, t)  BY <1>3 DEF LastAt, SelectLastInSeq
<1>6. \A i \in 1..Len(x) + 1 : (i > Len(x) \/ x[i] = t) <=> (i > Len(y) \/ y[i] = t)
  BY <1>0, <1>2
<1>7. PieceEnds(x, t) = PieceEnds(y, t)  BY <1>0, <1>6 DEF PieceEnds
<1> QED  BY <1>2, <1>4, <1>5, <1>7

\* So are the parts before the protocol.
LEMMA AlikeSpec ==
  ASSUME NEW X, NEW x \in Seq(X), NEW y \in Seq(X), Alike(x, y)
  PROVE  Alike(Cut(x).spec, Cut(y).spec)
<1>1. LastAt(x, Slash) = LastAt(y, Slash) /\ Len(x) = Len(y)
  <2>1. Slash \in Marks  BY DEF Marks
  <2> QED  BY <2>1, AlikeMarks DEF Alike
<1>2. SpecEnd(x) = SpecEnd(y)  BY <1>1 DEF SpecEnd
<1>3. /\ Len(Cut(x).spec) = SpecEnd(x) /\ SpecEnd(x) \in 0..Len(x)
      /\ \A i \in 1..SpecEnd(x) : Cut(x).spec[i] = x[i]
  BY SpecIs
<1>4. Len(Cut(y).spec) = SpecEnd(y) /\ \A i \in 1..SpecEnd(y) : Cut(y).spec[i] = y[i]
  BY SpecIs
<1>5. Len(x) \in Nat  BY LenProperties
<1>6. \A i \in 1..SpecEnd(x) : i \in 1..Len(x)  BY <1>3, <1>5
<1> QED  BY <1>2, <1>3, <1>4, <1>6 DEF Alike

\* So are the parts behind a bracketed address.
LEMMA AlikeInner ==
  ASSUME NEW X, NEW x \in Seq(X), NEW y \in Seq(X), Alike(x, y)
  PROVE  Skipped(x) = Skipped(y) /\ Alike(Inner(x), Inner(y))
<1>0. Len(x) \in Nat /\ Len(x) = Len(y)  BY LenProperties DEF Alike
<1>1. (x # <<>> <=> Len(x) # 0) /\ (y # <<>> <=> Len(x) # 0)  BY <1>0, EmptySeq
<1>2. AddressEnd(x) = AddressEnd(y)
  <2>1. Open \in Marks /\ Close \in Marks  BY DEF Marks
  <2>2. FirstAt(x, Close) = FirstAt(y, Close)  BY <2>1, AlikeMarks
  <2>3. Len(x) # 0 => (x[1] = Open <=> y[1] = Open)
    <3>1. Len(x) # 0 => 1 \in 1..Len(x)  BY <1>0
    <3> QED  BY <2>1, <3>1, AlikeMarks
  <2> QED  BY <1>1, <2>2, <2>3 DEF AddressEnd
<1>3. /\ AddressEnd(x) \in 0..Len(x) /\ Skipped(x) \in AddressEnd(x)..Len(x)
      /\ Len(Inner(x)) = Len(x) - Skipped(x)
      /\ \A i \in 1..Len(Inner(x)) : Inner(x)[i] = x[Skipped(x) + i]
  BY InnerIs
<1>4. /\ Len(Inner(y)) = Len(y) - Skipped(y)
      /\ \A i \in 1..Len(Inner(y)) : Inner(y)[i] = y[Skipped(y) + i]
  BY InnerIs
<1>5. Skipped(x) = Skipped(y)
  <2>1. PICK e \in 0..Len(x) : e = AddressEnd(x)  BY <1>3
  <2>2. e < Len(x) => e + 1 \in 1..Len(x)  BY <1>0
  <2>3. Colon \in Marks  BY DEF Marks
  <2>4. e < Len(x) => (x[e + 1] = Colon <=> y[e + 1] = Colon)  BY <2>2, <2>3, AlikeMarks
  <2> QED  BY <1>0, <1>2, <2>1, <2>4 DEF Skipped
<1>6. \A i \in 1..Len(Inner(x)) : Skipped(x) + i \in 1..Len(x)  BY <1>0, <1>3
<1> QED  BY <1>0, <1>3, <1>4, <1>5, <1>6 DEF Alike

\* And so are the stretches of them.
LEMMA AlikeStretch ==
  ASSUME NEW X, NEW x \in Seq(X), NEW y \in Seq(X), Alike(x, y),
         NEW a \in 1..Len(x) + 1, NEW b \in 0..Len(x)
  PROVE  /\ SubSeq(x, a, b) \in Seq(X) /\ SubSeq(y, a, b) \in Seq(X)
         /\ Alike(SubSeq(x, a, b), SubSeq(y, a, b))
         /\ Len(SubSeq(y, a, b)) = IF a <= b THEN b - a + 1 ELSE 0
         /\ a <= b => SubSeq(x, a, b)[1] = x[a] /\ SubSeq(y, a, b)[1] = y[a]
<1>0. /\ Len(x) \in Nat /\ Len(x) = Len(y)
      /\ \A i \in 1..Len(x) : x[i] \in X /\ y[i] \in X
  BY LenProperties, ElementOfSeq DEF Alike
<1>1. a \in Int /\ b \in Int /\ \A i \in a..b : i \in 1..Len(x)  BY <1>0
<1>2. \A i \in a..b : x[i] \in X /\ y[i] \in X  BY <1>0, <1>1
<1>3. /\ SubSeq(x, a, b) \in Seq(X) /\ Len(SubSeq(x, a, b)) = IF a <= b THEN b - a + 1 ELSE 0
      /\ \A i \in 1..(b - a + 1) : SubSeq(x, a, b)[i] = x[a + i - 1]
  BY <1>1, <1>2, SubSeqProperties
<1>4. /\ SubSeq(y, a, b) \in Seq(X) /\ Len(SubSeq(y, a, b)) = IF a <= b THEN b - a + 1 ELSE 0
      /\ \A i \in 1..(b - a + 1) : SubSeq(y, a, b)[i] = y[a + i - 1]
  BY <1>1, <1>2, SubSeqProperties
<1>5. ASSUME NEW i \in 1..Len(SubSeq(x, a, b))
      PROVE  i \in 1..(b - a + 1) /\ a + i - 1 \in 1..Len(x)
  <2>1. a <= b /\ i \in 1..(b - a + 1)  BY <1>1, <1>3
  <2>2. a + i - 1 \in a..b  BY <1>1, <2>1
  <2> QED  BY <1>1, <2>1, <2>2
<1>6. Alike(SubSeq(x, a, b), SubSeq(y, a, b))  BY <1>3, <1>4, <1>5 DEF Alike
<1>7. a <= b => 1 \in 1..(b - a + 1) /\ a + 1 - 1 = a  BY <1>1
<1> QED  BY <1>3, <1>4, <1>6, <1>7

\* Both have a low bound or neither.
LEMMA AlikeBounds ==
  ASSUME NEW X, NEW x \in Seq(X), NEW y \in Seq(X), Alike(x, y), portNumber(x) # NotANumber
  PROVE  /\ portNumber(x) = x[1] /\ portNumber(y) = y[1]
         /\ x[1] \in Nat /\ y[1] \in Nat /\ Len(x) >= 1
<1>0. Len(x) \in Nat /\ Len(x) = Len(y)  BY LenProperties DEF Alike
<1>1. /\ Len(x) >= 1 /\ x[1] \in Nat /\ (Len(x) = 1 \/ x[2] = Dash)
      /\ portNumber(x) = x[1]
  BY LowBound
<1>2. 1 \in 1..Len(x) /\ (Len(x) # 1 => 2 \in 1..Len(x))  BY <1>0, <1>1
<1>3. y[1] \in Nat  BY <1>1, <1>2 DEF Alike
<1>4. Dash \in Marks  BY DEF Marks
<1>5. Len(x) # 1 => y[2] = Dash  BY <1>1, <1>2, <1>4, AlikeMarks
<1>6. portNumber(y) = y[1]  BY <1>0, <1>1, <1>3, <1>5, LowBound
<1> QED  BY <1>1, <1>3, <1>6

\* They have as many fields, and the host fields and the last fields, which lie
\* in the same places, are alike.
LEMMA AlikeFields ==
  ASSUME NEW X, NEW x \in Seq(X), NEW y \in Seq(X), Alike(x, y),
         NEW f, f = Fields(x).fields, NEW g, g = Fields(y).fields
  PROVE  /\ Len(f) = Len(g) /\ Len(f) \in Nat \ {0}
         /\ Last(f) \in Seq(X) /\ Last(g) \in Seq(X) /\ Alike(Last(f), Last(g))
         /\ Len(f) # 1 =>
              /\ HostField(f) \in Seq(X) /\ HostField(g) \in Seq(X)
              /\ Alike(HostField(f), HostField(g))
              /\ HostField(f) = SubSeq(Inner(x), HostBegins(x), HostStops(x))
              /\ HostField(g) = SubSeq(Inner(y), HostBegins(x), HostStops(x))
<1> DEFINE v == Inner(x)
           w == Inner(y)
<1>1. v \in Seq(X) /\ w \in Seq(X) /\ Alike(v, w) /\ f = Split(v, Colon) /\ g = Split(w, Colon)
  BY AlikeInner, InnerIs
<1> HIDE DEF v, w
<1>2. PieceEnds(v, Colon) = PieceEnds(w, Colon)
  <2>1. Colon \in Marks  BY DEF Marks
  <2> QED  BY <1>1, <2>1, AlikeMarks
<1>3. \A k : Begins(v, Colon, k) = Begins(w, Colon, k) /\ Stops(v, Colon, k) = Stops(w, Colon, k)
  BY <1>2 DEF Begins, Stops
<1>4. /\ Len(Split(v, Colon)) \in Nat \ {0} /\ Len(Split(w, Colon)) \in Nat \ {0}
      /\ (\A k \in 1..Len(Split(v, Colon)) : PieceIs(v, Colon, k))
      /\ (\A k \in 1..Len(Split(w, Colon)) : PieceIs(w, Colon, k))
  BY <1>1, SplitPieces
<1>5. Len(Split(v, Colon)) = Len(Split(w, Colon))
  <2> DEFINE n == Cardinality(PieceEnds(v, Colon))
  <2>1. n \in Nat
    <3>1. Len(v) \in Nat  BY <1>1, LenProperties
    <3>2. Len(v) + 1 \in Nat /\ PieceEnds(v, Colon) \in SUBSET (1..(Len(v) + 1))
      BY <3>1 DEF PieceEnds
    <3> QED  BY <3>2, NumbersCounted
  <2>2. Split(v, Colon) = [k \in 1..n |-> SubSeq(v, Begins(v, Colon, k), Stops(v, Colon, k))]
    BY SplitByEnds
  <2>3. Split(w, Colon) = [k \in 1..n |-> SubSeq(w, Begins(w, Colon, k), Stops(w, Colon, k))]
    BY <1>2, SplitByEnds
  <2> HIDE DEF n
  <2>4. \A F : DOMAIN F = 1..n /\ F = [k \in 1..n |-> F[k]] => Len(F) = n  BY <2>1
  <2>5. Len(Split(v, Colon)) = n  BY <2>1, <2>2
  <2>6. Len(Split(w, Colon)) = n  BY <2>1, <2>3
  <2> QED  BY <2>5, <2>6
<1>6. ASSUME NEW k \in 1..Len(f)
      PROVE  /\ f[k] \in Seq(X) /\ g[k] \in Seq(X) /\ Alike(f[k], g[k])
             /\ f[k] = SubSeq(v, Begins(v, Colon, k), Stops(v, Colon, k))
             /\ g[k] = SubSeq(w, Begins(v, Colon, k), Stops(v, Colon, k))
  <2>1. PieceIs(v, Colon, k) /\ PieceIs(w, Colon, k)  BY <1>1, <1>4, <1>5
  <2> DEFINE a == Begins(v, Colon, k)  b == Stops(v, Colon, k)
  <2>2. f[k] = SubSeq(v, a, b) /\ a \in 1..Len(v) + 1 /\ b \in 0..Len(v)
    BY <1>1, <2>1 DEF PieceIs
  <2>3. g[k] = SubSeq(w, a, b)  BY <1>1, <1>3, <2>1 DEF PieceIs
  <2> HIDE DEF a, b
  <2>4. SubSeq(v, a, b) \in Seq(X) /\ SubSeq(w, a, b) \in Seq(X) /\ Alike(SubSeq(v, a, b), SubSeq(w, a, b))
    BY <1>1, <2>2, AlikeStretch
  <2> QED  BY <2>2, <2>3, <2>4 DEF a, b
<1>7. Len(f) = Len(g) /\ Len(f) \in Nat \ {0} /\ Len(f) \in 1..Len(f)  BY <1>1, <1>4, <1>5
<1>8. Last(f) = f[Len(f)] /\ Last(g) = g[Len(f)]  BY <1>7 DEF Last
<1>9. Last(f) \in Seq(X) /\ Last(g) \in Seq(X) /\ Alike(Last(f), Last(g))  BY <1>6, <1>7, <1>8
<1>10. ASSUME Len(f) # 1
       PROVE  /\ HostField(f) \in Seq(X) /\ HostField(g) \in Seq(X)
              /\ Alike(HostField(f), HostField(g))
              /\ HostField(f) = SubSeq(v, HostBegins(x), HostStops(x))
              /\ HostField(g) = SubSeq(w, HostBegins(x), HostStops(x))
  <2>1. PICK n \in 1..Len(f) : n = Len(f) - 1
    <3>1. \A m \in Nat \ {0} : m # 1 => m - 1 \in 1..m  OBVIOUS
    <3> QED  BY ONLY <1>7, <1>10, <3>1
  <2>2. HostField(f) = f[n] /\ HostField(g) = g[n]  BY <1>7, <1>10, <2>1 DEF HostField
  <2>3. HostBegins(x) = Begins(v, Colon, n) /\ HostStops(x) = Stops(v, Colon, n)
    BY <2>1 DEF HostBegins, HostStops, v
  <2> QED  BY <1>6, <2>2, <2>3
<1> QED  BY <1>7, <1>9, <1>10 DEF v, w

\* The host field of a value with a host port lies where that port is moved.
LEMMA HostPortMoves ==
  ASSUME NEW text \in Text, HostPort(text) >= 1,
         NEW spec, spec = Cut(text).spec, NEW i, i = Skipped(spec) + HostBegins(spec)
  PROVE  /\ Len(Fields(spec).fields) # 1
         /\ HostBegins(spec) \in 1..Len(Inner(spec)) + 1 /\ HostStops(spec) \in 0..Len(Inner(spec))
         /\ HostBegins(spec) <= HostStops(spec)
         /\ i \in 1..Len(text) /\ HostColon(text) < i /\ i <= HostEnd(text)
         /\ Inner(spec)[HostBegins(spec)] = text[i] /\ HostPort(text) = text[i] /\ text[i] \in Nat
         /\ HostEnd(text) = Skipped(spec) + HostStops(spec)
<1> DEFINE X == Nat \cup Marks
           fields == Fields(spec).fields
           hf == HostField(fields)
           v == Inner(spec)
           s == Skipped(spec)
           a == HostBegins(spec)
           b == HostStops(spec)
           l == LastAt(spec, Colon)
<1>0. text \in Seq(X) /\ Len(text) \in Nat  BY LenProperties DEF Text
<1>1. /\ spec \in Seq(X) /\ Len(spec) = SpecEnd(text) /\ SpecEnd(text) \in 0..Len(text)
      /\ \A j \in 1..SpecEnd(text) : spec[j] = text[j]
  BY <1>0, SpecIs
<1>2. /\ s \in 0..Len(spec) /\ v \in Seq(X) /\ Len(v) = Len(spec) - s
      /\ \A j \in 1..Len(v) : v[j] = spec[s + j]
  <2>1. /\ AddressEnd(spec) \in 0..Len(spec) /\ s \in AddressEnd(spec)..Len(spec)
        /\ v \in Seq(X) /\ Len(v) = Len(spec) - s
        /\ \A j \in 1..Len(v) : v[j] = spec[s + j]
    BY <1>1, InnerIs
  <2>2. s \in 0..Len(spec)  BY <1>0, <1>1, <2>1
  <2> QED  BY <2>1, <2>2
<1>3. portNumber(hf) # NotANumber /\ HostPort(text) = portNumber(hf)
  <2>1. HostPort(text) \in Nat /\ (HostPort(text) # 0 => HostPort(text) = portNumber(hf))
    BY HostPortIs
  <2> QED  BY <2>1 DEF NotANumber
<1>4. /\ Len(fields) \in Nat \ {0} /\ hf \in Seq(X)
      /\ Len(fields) = 1 => hf = <<>>
      /\ Len(fields) # 1 =>
           /\ a \in 1..Len(v) + 1 /\ b \in 0..Len(v) /\ hf = SubSeq(v, a, b)
           /\ \A j \in a..b : v[j] # Colon
           /\ b + 1 = LastAt(v, Colon)
  BY <1>1, HostFieldIs
<1> HIDE DEF X, hf, fields, v, s, a, b, l
<1>5. Len(hf) >= 1 /\ hf[1] \in Nat /\ portNumber(hf) = hf[1]  BY <1>3, <1>4, LowBound
<1>6. Len(fields) # 1
  <2> SUFFICES ASSUME Len(fields) = 1 PROVE FALSE  OBVIOUS
  <2>1. hf = <<>>  BY <1>4
  <2>2. Len(hf) = 0  BY <2>1, EmptySeq
  <2> QED  BY <1>5, <2>2
<1>7. /\ a \in 1..Len(v) + 1 /\ b \in 0..Len(v) /\ hf = SubSeq(v, a, b)
      /\ (\A j \in a..b : v[j] # Colon) /\ b + 1 = LastAt(v, Colon)
  BY <1>4, <1>6
<1>8. Len(v) \in Nat /\ Len(spec) \in Nat  BY <1>0, <1>1, <1>2
<1>9. a <= b /\ hf[1] = v[a]
  <2>1. Alike(v, v)  BY DEF Alike
  <2>2. Len(hf) = (IF a <= b THEN b - a + 1 ELSE 0) /\ (a <= b => hf[1] = v[a])
    BY <1>2, <1>7, <2>1, AlikeStretch
  <2> QED  BY <1>5, <2>2
<1>10. a \in 1..Len(v) /\ s + a \in 1..Len(spec) /\ s + a \in 1..Len(text)
  BY <1>0, <1>1, <1>2, <1>7, <1>8, <1>9
<1>11. v[a] = text[i]  BY <1>1, <1>2, <1>10 DEF s, a
<1>12. l = s + b + 1
  <2>1. b + 1 \in 1..Len(v) /\ v[b + 1] = Colon /\ \A j \in 1..Len(v) : v[j] = Colon => j <= b + 1
    <3>1. /\ LastAt(v, Colon) \in 0..Len(v) /\ (LastAt(v, Colon) # 0 => v[LastAt(v, Colon)] = Colon)
          /\ \A j \in 1..Len(v) : v[j] = Colon => j <= LastAt(v, Colon)
      BY <1>2, LastAtIs
    <3>2. b + 1 # 0  BY <1>7, <1>8
    <3> QED  BY <1>7, <1>8, <3>1, <3>2
  <2>2. /\ l \in 0..Len(spec) /\ (l # 0 => spec[l] = Colon)
        /\ \A j \in 1..Len(spec) : spec[j] = Colon => l # 0 /\ j <= l
    BY <1>1, LastAtIs DEF l
  <2>3. s + (b + 1) \in 1..Len(spec) /\ spec[s + (b + 1)] = Colon
    <3>1. PICK n \in 1..Len(v) : n = b + 1  BY <2>1
    <3>2. s + n \in 1..Len(spec)  BY <1>2, <1>8
    <3>3. spec[s + n] = Colon  BY <1>2, <2>1, <3>1
    <3> QED  BY <3>1, <3>2, <3>3
  <2>4. l # 0 /\ s + (b + 1) <= l  BY <2>2, <2>3
  <2>5. l - s \in 1..Len(v) /\ s + (l - s) = l  BY <1>2, <1>7, <1>8, <2>2, <2>4
  <2>6. l - s <= b + 1  BY <1>2, <2>1, <2>2, <2>4, <2>5
  <2> QED  BY <1>2, <1>7, <1>8, <2>2, <2>4, <2>6
<1>13. HostEnd(text) = s + b /\ HostColon(text) \in 0..HostEnd(text)
  <2>1. /\ HostEnd(text) = (IF l = 0 THEN 0 ELSE l - 1)
        /\ HostColon(text) \in 0..HostEnd(text)
    BY <1>0, HeadIs DEF l
  <2> QED  BY <1>2, <1>7, <1>8, <1>12, <2>1
<1>14. HostColon(text) < s + a
  <2> SUFFICES ASSUME ~(HostColon(text) < s + a) PROVE FALSE  OBVIOUS
  <2> DEFINE c == HostColon(text)
             head == HeadOf(spec)
  <2>1. c \in Int /\ s + a <= c /\ c <= s + b  BY <1>2, <1>7, <1>8, <1>13
  <2>2. c # 0 /\ c \in 1..HostEnd(text)  BY <1>10, <1>13, <2>1
  <2>3. head \in Seq(X) /\ \A j \in 1..HostEnd(text) : head[j] = text[j]  BY <1>0, HeadIs
  <2>4. c = LastAt(head, Colon)  BY DEF HostColon
  <2> HIDE DEF c, head
  <2>5. head[c] = Colon  BY <2>2, <2>3, <2>4, LastAtIs
  <2>6. text[c] = Colon  BY <2>2, <2>3, <2>5
  <2>7. c - s \in a..b /\ c - s \in 1..Len(v) /\ s + (c - s) = c /\ c \in 1..SpecEnd(text)
    BY <1>1, <1>2, <1>7, <1>8, <2>1
  <2>8. v[c - s] = Colon  BY <1>1, <1>2, <2>6, <2>7
  <2> QED  BY <1>7, <2>7, <2>8
<1>15. s + a <= HostEnd(text)  BY <1>2, <1>7, <1>8, <1>9, <1>13
<1>16. i = s + a  BY DEF s, a
<1>17. /\ Len(fields) # 1 /\ a \in 1..Len(v) + 1 /\ b \in 0..Len(v) /\ a <= b
       /\ i \in 1..Len(text) /\ HostColon(text) < i /\ i <= HostEnd(text)
       /\ v[a] = text[i] /\ HostPort(text) = text[i] /\ text[i] \in Nat
  BY <1>3, <1>5, <1>6, <1>7, <1>9, <1>10, <1>11, <1>14, <1>15, <1>16
<1> QED  BY <1>13, <1>17 DEF fields, a, b, v, s

\* Moved for QD031, a port is that much higher.
LEMMA MovedPort ==
  ASSUME NEW text \in Text, NEW o \in Nat, HostPort(text) >= 1
  PROVE  HostPort(shiftedPublish(text, o)) = HostPort(text) + o
<1> DEFINE X == Nat \cup Marks
           y == shiftedPublish(text, o)
           spec == Cut(text).spec
           yspec == Cut(y).spec
           f == Fields(spec).fields
           g == Fields(yspec).fields
           a == HostBegins(spec)
           b == HostStops(spec)
           i == Skipped(spec) + a
<1>0. text \in Seq(X)  BY DEF Text
<1>1. /\ y \in Seq(X) /\ Len(y) = Len(text)
      /\ \A j \in 1..Len(text) : y[j] =
           IF HostColon(text) < j /\ j <= HostEnd(text) /\ text[j] \in Nat THEN text[j] + o ELSE text[j]
  BY ShiftIs DEF Text
<1>2. /\ Len(f) # 1 /\ a \in 1..Len(Inner(spec)) + 1 /\ b \in 0..Len(Inner(spec)) /\ a <= b
      /\ i \in 1..Len(text) /\ HostColon(text) < i /\ i <= HostEnd(text)
      /\ HostPort(text) = text[i] /\ text[i] \in Nat /\ Inner(spec)[a] = text[i]
  BY HostPortMoves
<1> HIDE DEF y, X
<1>3. Alike(text, y)
  <2>1. \A n \in Nat : n + o \in Nat  OBVIOUS
  <2> QED  BY <1>1, <2>1 DEF Alike
<1>4. spec \in Seq(X) /\ yspec \in Seq(X) /\ Alike(spec, yspec)  BY <1>0, <1>1, <1>3, SpecIs, AlikeSpec
<1>5. Skipped(spec) = Skipped(yspec) /\ Alike(Inner(spec), Inner(yspec))
  BY <1>4, AlikeInner
<1>6. Inner(spec) \in Seq(X) /\ Inner(yspec) \in Seq(X)  BY <1>4, InnerIs
<1>7. Inner(yspec)[a] = y[i]
  <2>1. /\ Len(Inner(yspec)) = Len(Inner(spec)) /\ Len(Inner(spec)) \in Nat
        /\ a \in 1..Len(Inner(spec))
    <3>1. Len(Inner(spec)) \in Nat  BY <1>6, LenProperties
    <3> QED  BY <1>2, <1>5, <3>1 DEF Alike
  <2>2. Inner(yspec)[a] = yspec[i]
    <3>1. \A j \in 1..Len(Inner(yspec)) : Inner(yspec)[j] = yspec[Skipped(yspec) + j]  BY <1>4, InnerIs
    <3> QED  BY <1>5, <2>1, <3>1
  <2>3. i \in 1..SpecEnd(y)
    <3>1. /\ Len(Inner(spec)) = Len(spec) - Skipped(spec)
          /\ AddressEnd(spec) \in 0..Len(spec) /\ Skipped(spec) \in AddressEnd(spec)..Len(spec)
      BY <1>4, InnerIs
    <3>2. Len(spec) \in Nat  BY <1>4, LenProperties
    <3>3. i \in 1..Len(spec)  BY <2>1, <3>1, <3>2
    <3>4. Len(yspec) = SpecEnd(y)  BY <1>1, SpecIs
    <3>5. Len(spec) = Len(yspec)  BY <1>4 DEF Alike
    <3> QED  BY ONLY <3>3, <3>4, <3>5
  <2>4. yspec[i] = y[i]  BY <1>1, <2>3, SpecIs
  <2> QED  BY <2>2, <2>4
<1>8. y[i] = text[i] + o  BY <1>1, <1>2
<1>9. /\ Len(f) = Len(g)
      /\ Last(f) \in Seq(X) /\ Last(g) \in Seq(X) /\ Alike(Last(f), Last(g))
      /\ HostField(f) \in Seq(X) /\ HostField(g) \in Seq(X)
      /\ Alike(HostField(f), HostField(g))
      /\ HostField(g) = SubSeq(Inner(yspec), a, b)
  <2>1. Len(f) # 1  BY <1>2
  <2> QED  BY ONLY <1>4, <2>1, AlikeFields
<1>10. /\ Len(f) <= 3 /\ portNumber(Last(f)) # NotANumber
       /\ HostPort(text) = portNumber(HostField(f)) /\ portNumber(HostField(f)) # NotANumber
  <2>1. HostPort(text) \in Nat /\ (HostPort(text) # 0 =>
          /\ Len(f) <= 3 /\ portNumber(Last(f)) # NotANumber
          /\ HostPort(text) = portNumber(HostField(f)))
    BY HostPortIs
  <2> QED  BY <2>1 DEF NotANumber
<1>11. HostField(g)[1] = y[i]
  <2>1. a <= b => SubSeq(Inner(yspec), a, b)[1] = Inner(yspec)[a]
    BY <1>2, <1>5, <1>6, AlikeStretch
  <2> QED  BY <1>2, <1>7, <1>9, <2>1
<1> HIDE DEF f, g, a, b, i, spec, yspec
<1>12. portNumber(HostField(g)) = HostField(g)[1] /\ HostField(g)[1] \in Nat
  BY <1>9, <1>10, AlikeBounds
<1>13. portNumber(Last(g)) = Last(g)[1] /\ Last(g)[1] \in Nat  BY <1>9, <1>10, AlikeBounds
<1>14. HostPort(y) = portNumber(HostField(g))
  <2>1. portNumber(Last(g)) # NotANumber /\ portNumber(HostField(g)) # NotANumber
    BY <1>12, <1>13 DEF NotANumber
  <2>2. Len(g) <= 3  BY <1>9, <1>10
  <2> QED  BY <2>1, <2>2, HostPortIs DEF g, yspec
<1> QED  BY <1>2, <1>8, <1>11, <1>12, <1>14 DEF y

\* Stretches of two sequences that agree there.
LEMMA SameStretch ==
  ASSUME NEW X, NEW x \in Seq(X), NEW y \in Seq(X), Len(x) = Len(y),
         NEW a \in 1..Len(x) + 1, NEW b \in 0..Len(x), \A j \in a..b : x[j] = y[j]
  PROVE  SubSeq(x, a, b) = SubSeq(y, a, b)
<1>0. /\ Len(x) \in Nat /\ \A i \in 1..Len(x) : x[i] \in X /\ y[i] \in X
  BY LenProperties, ElementOfSeq
<1>1. a \in Int /\ b \in Int /\ \A i \in a..b : i \in 1..Len(x)  BY <1>0
<1>2. \A i \in a..b : x[i] \in X /\ y[i] \in X  BY <1>0, <1>1
<1>3. /\ SubSeq(x, a, b) \in Seq(X) /\ Len(SubSeq(x, a, b)) = IF a <= b THEN b - a + 1 ELSE 0
      /\ \A i \in 1..(b - a + 1) : SubSeq(x, a, b)[i] = x[a + i - 1]
  BY <1>1, <1>2, SubSeqProperties
<1>4. /\ SubSeq(y, a, b) \in Seq(X) /\ Len(SubSeq(y, a, b)) = IF a <= b THEN b - a + 1 ELSE 0
      /\ \A i \in 1..(b - a + 1) : SubSeq(y, a, b)[i] = y[a + i - 1]
  BY <1>1, <1>2, SubSeqProperties
<1>5. ASSUME NEW i \in 1..Len(SubSeq(x, a, b)) PROVE SubSeq(x, a, b)[i] = SubSeq(y, a, b)[i]
  <2>1. a <= b /\ i \in 1..(b - a + 1)  BY <1>1, <1>3
  <2>2. a + i - 1 \in a..b  BY <1>1, <2>1
  <2> QED  BY <1>3, <1>4, <2>1, <2>2
<1> QED  BY <1>3, <1>4, <1>5, SeqEqual

\* Field k of what is split: where it begins and stops, and when it is the same
\* of both.
FieldIs(f, g, v, w, k) ==
  LET a == Begins(v, Colon, k)  b == Stops(v, Colon, k) IN
  /\ a \in 1..Len(v) + 1 /\ b \in 0..Len(v)
  /\ (\A j \in a..b : v[j] = w[j]) => f[k] = g[k]
  /\ k # 1 => a = Stops(v, Colon, k - 1) + 2 /\ v[a - 1] = Colon /\ a - 1 \in 1..Len(v)

\* Field by field: two values with their marks in the same places have as many
\* fields, each in the same place of what is split.
LEMMA FieldsAre ==
  ASSUME NEW X, NEW x \in Seq(X), NEW y \in Seq(X), Alike(x, y),
         NEW f, f = Fields(x).fields, NEW g, g = Fields(y).fields, NEW v, v = Inner(x)
  PROVE  /\ Len(f) = Len(g) /\ Len(f) \in Nat \ {0} /\ v \in Seq(X) /\ Len(Inner(y)) = Len(v)
         /\ Inner(y) \in Seq(X)
         /\ \A k \in 1..Len(f) : FieldIs(f, g, v, Inner(y), k)
<1> DEFINE w == Inner(y)
<1>1. v \in Seq(X) /\ w \in Seq(X) /\ Alike(v, w) /\ f = Split(v, Colon) /\ g = Split(w, Colon)
  BY AlikeInner, InnerIs
<1> HIDE DEF w
<1>2. PieceEnds(v, Colon) = PieceEnds(w, Colon)
  <2>1. Colon \in Marks  BY DEF Marks
  <2> QED  BY <1>1, <2>1, AlikeMarks
<1>3. \A k : Begins(v, Colon, k) = Begins(w, Colon, k) /\ Stops(v, Colon, k) = Stops(w, Colon, k)
  BY <1>2 DEF Begins, Stops
<1>4. /\ Len(f) \in Nat \ {0}
      /\ (\A k \in 1..Len(f) : PieceIs(v, Colon, k))
      /\ (\A k \in 1..Len(g) : PieceIs(w, Colon, k))
  BY <1>1, SplitPieces
<1>5. Len(f) = Len(g)  BY AlikeFields
<1>6. Len(v) = Len(w) /\ Len(v) \in Nat  BY <1>1, LenProperties DEF Alike
<1>7. ASSUME NEW k \in 1..Len(f)
      PROVE  FieldIs(f, g, v, w, k)
  <2>1. PieceIs(v, Colon, k) /\ PieceIs(w, Colon, k)  BY <1>4, <1>5
  <2> DEFINE a == Begins(v, Colon, k)  b == Stops(v, Colon, k)
  <2>2. /\ f[k] = SubSeq(v, a, b) /\ a \in 1..Len(v) + 1 /\ b \in 0..Len(v)
        /\ k # 1 => v[a - 1] = Colon /\ a - 1 \in 1..Len(v)
    BY <1>1, <2>1 DEF PieceIs
  <2>3. g[k] = SubSeq(w, a, b)  BY <1>1, <1>3, <2>1 DEF PieceIs
  <2>4. k # 1 => a = Stops(v, Colon, k - 1) + 2
    <3> SUFFICES ASSUME k # 1 PROVE a = Stops(v, Colon, k - 1) + 2  OBVIOUS
    <3>1. k - 1 \in 1..Len(f)  BY <1>4
    <3>2. Stops(v, Colon, k - 1) \in Int /\ a \in Int  BY <1>4, <1>6, <2>2, <3>1 DEF PieceIs
    <3>3. Stops(v, Colon, k - 1) = NthOf(PieceEnds(v, Colon), k - 1) - 1  BY DEF Stops
    <3>4. a = NthOf(PieceEnds(v, Colon), k - 1) + 1  BY DEF Begins
    <3>5. NthOf(PieceEnds(v, Colon), k - 1) \in Int
      <4>1. PieceEnds(v, Colon) \in SUBSET (1..(Len(v) + 1)) /\ Len(v) + 1 \in Nat
        BY <1>6 DEF PieceEnds
      <4>2. Cardinality(PieceEnds(v, Colon)) = Len(f)
        <5> DEFINE n == Cardinality(PieceEnds(v, Colon))
        <5>1. n \in Nat  BY <4>1, NumbersCounted
        <5>2. f = [m \in 1..n |-> SubSeq(v, Begins(v, Colon, m), Stops(v, Colon, m))]
          BY <1>1, SplitByEnds
        <5> HIDE DEF n
        <5>3. Len(f) = n  BY <5>1, <5>2
        <5> QED  BY <5>3 DEF n
      <4>3. NthOf(PieceEnds(v, Colon), k - 1) \in PieceEnds(v, Colon)  BY <3>1, <4>1, <4>2, NthIs
      <4> QED  BY <4>1, <4>3
    <3> HIDE DEF a
    <3> QED  BY <3>3, <3>4, <3>5
  <2> HIDE DEF a, b
  <2>5. (\A j \in a..b : v[j] = w[j]) => f[k] = g[k]
    BY <1>1, <1>6, <2>2, <2>3, SameStretch
  <2> QED  BY <2>2, <2>4, <2>5 DEF FieldIs, a, b
<1> QED  BY <1>1, <1>4, <1>5, <1>6, <1>7 DEF w

\* A port that is moved and where: everything outside the host field stays what
\* it was, and every number within it is raised.
LEMMA MovedWhere ==
  ASSUME NEW text \in Text, NEW o \in Nat, HostPort(text) >= 1, Closed(Cut(text).spec),
         NEW y, y = shiftedPublish(text, o),
         NEW x, x = Cut(text).spec, NEW z, z = Cut(y).spec
  PROVE  LET X == Nat \cup Marks  v == Inner(x)  w == Inner(z)  s == Skipped(x)
             a == HostBegins(x)  b == HostStops(x) IN
         /\ x \in Seq(X) /\ z \in Seq(X) /\ Alike(x, z) /\ s = Skipped(z)
         /\ \A j \in 1..AddressEnd(x) : x[j] = z[j]
         /\ \A j \in 1..Len(v) :
              w[j] = IF a <= j /\ j <= b /\ v[j] \in Nat THEN v[j] + o ELSE v[j]
         /\ Closed(z)
         /\ Cut(y).protocol = Cut(text).protocol
<1> DEFINE X == Nat \cup Marks
           v == Inner(x)
           w == Inner(z)
           s == Skipped(x)
           a == HostBegins(x)
           b == HostStops(x)
           c == HostColon(text)
           e == HostEnd(text)
           l == SpecEnd(text)
<1>0. text \in Seq(X) /\ Len(text) \in Nat  BY LenProperties DEF Text
<1>1. /\ y \in Seq(X) /\ Len(y) = Len(text)
      /\ \A j \in 1..Len(text) : y[j] =
           IF c < j /\ j <= e /\ text[j] \in Nat THEN text[j] + o ELSE text[j]
  BY ShiftIs DEF Text
<1>2. Alike(text, y)
  <2>1. \A n \in Nat : n + o \in Nat  OBVIOUS
  <2> QED  BY <1>1, <2>1 DEF Alike
<1>3. x \in Seq(X) /\ z \in Seq(X) /\ Alike(x, z)  BY <1>0, <1>1, <1>2, SpecIs, AlikeSpec
<1>4. /\ Len(x) = l /\ l \in 0..Len(text) /\ \A j \in 1..l : x[j] = text[j]
      /\ Len(z) = SpecEnd(y) /\ \A j \in 1..SpecEnd(y) : z[j] = y[j]
  BY <1>0, <1>1, SpecIs
<1>5. SpecEnd(y) = l  BY <1>3, <1>4 DEF Alike
<1>6. s = Skipped(z) /\ Alike(v, w) /\ v \in Seq(X) /\ w \in Seq(X)
  BY <1>3, AlikeInner, InnerIs
<1>7. /\ AddressEnd(x) \in 0..Len(x) /\ s \in AddressEnd(x)..Len(x)
      /\ Len(v) = Len(x) - s /\ \A j \in 1..Len(v) : v[j] = x[s + j]
      /\ Len(w) = Len(z) - s /\ \A j \in 1..Len(w) : w[j] = z[s + j]
  <2>1. /\ AddressEnd(x) \in 0..Len(x) /\ s \in AddressEnd(x)..Len(x)
        /\ Len(v) = Len(x) - s /\ \A j \in 1..Len(v) : v[j] = x[s + j]
    BY <1>3, InnerIs
  <2>2. Len(w) = Len(z) - Skipped(z) /\ \A j \in 1..Len(w) : w[j] = z[Skipped(z) + j]
    BY <1>3, InnerIs
  <2> QED  BY <1>6, <2>1, <2>2
<1>8. /\ a \in 1..Len(v) + 1 /\ b \in 0..Len(v) /\ a <= b
      /\ c < s + a /\ s + a <= e /\ e = s + b
      /\ Len(Fields(x).fields) # 1
  BY HostPortMoves
<1>9. /\ e \in 0..l /\ c \in 0..e /\ \A j \in 1..e : text[j] = Colon => j <= c
  BY <1>0, HeadIs
<1>10. Len(Fields(x).fields) \in Nat \ {0}  BY <1>3, HostFieldIs
<1> DEFINE n == Len(Fields(x).fields) - 1
<1>11. n \in 1..Len(Fields(x).fields)
  <2>1. \A m \in Nat \ {0} : m # 1 => m - 1 \in 1..m  OBVIOUS
  <2> QED  BY ONLY <1>8, <1>10, <2>1
<1>12. a = Begins(v, Colon, n) /\ (n # 1 => v[a - 1] = Colon /\ a - 1 \in 1..Len(v))
  <2>1. a = Begins(v, Colon, n)  BY DEF HostBegins
  <2> HIDE DEF n, a, v
  <2>2. /\ Len(Fields(x).fields) \in Nat \ {0}
        /\ \A k \in 1..Len(Fields(x).fields) :
              k # 1 => v[Begins(v, Colon, k) - 1] = Colon /\ Begins(v, Colon, k) - 1 \in 1..Len(v)
    <3>1. Alike(x, x)  BY DEF Alike
    <3>2. v = Inner(x)  BY DEF v
    <3> QED  BY ONLY <1>3, <3>1, <3>2, FieldsAre DEF FieldIs
  <2> QED  BY <1>11, <2>1, <2>2
<1>13. n = 1 => a = 1
  <2>1. \A k : k = 0 => NthOf(PieceEnds(v, Colon), k) = 0  BY DEF NthOf
  <2>2. a = Begins(v, Colon, n)  BY DEF HostBegins
  <2> HIDE DEF a, n, v
  <2>3. a = NthOf(PieceEnds(v, Colon), n - 1) + 1  BY <2>2 DEF Begins
  <2> QED  BY <2>1, <2>3
<1> HIDE DEF X, v, w, s, a, b, c, e, l, n
<1>14. s \in Nat /\ Len(v) \in Nat /\ l \in Nat  BY <1>0, <1>3, <1>4, <1>6, <1>7, LenProperties
<1>15. n # 1 => c = s + (a - 1)
  <2> SUFFICES ASSUME n # 1 PROVE c = s + (a - 1)  OBVIOUS
  <2>1. PICK j \in 1..Len(v) : j = a - 1 /\ v[j] = Colon  BY <1>12
  <2>2. s + j \in 1..l /\ text[s + j] = Colon  BY <1>4, <1>7, <1>14, <2>1
  <2>3. s + j \in 1..e  BY <1>8, <1>14, <2>1, <2>2
  <2>4. s + j <= c  BY <1>9, <2>2, <2>3
  <2> QED  BY <1>8, <1>9, <1>14, <2>1, <2>4
<1>16. AddressEnd(x) # 0 => AddressEnd(x) <= c
  <2> SUFFICES ASSUME AddressEnd(x) # 0 PROVE AddressEnd(x) <= c  OBVIOUS
  <2>1. AddressEnd(x) < Len(x) /\ x[AddressEnd(x) + 1] = Colon  BY DEF Closed
  <2>2. s = AddressEnd(x) + 1  BY <2>1 DEF Skipped, s
  <2>3. s \in 1..l /\ text[s] = Colon  BY <1>4, <1>7, <1>14, <2>1, <2>2
  <2>4. s \in 1..e  BY <1>8, <1>14, <2>3
  <2> QED  BY <1>7, <1>9, <1>14, <2>2, <2>3, <2>4
<1>17. \A j \in 1..AddressEnd(x) : x[j] = z[j]
  <2> SUFFICES ASSUME NEW j \in 1..AddressEnd(x) PROVE x[j] = z[j]  OBVIOUS
  <2>1. AddressEnd(x) # 0 /\ j <= c /\ j \in 1..l  BY <1>4, <1>7, <1>9, <1>14, <1>16
  <2>2. j \in 1..Len(text) /\ ~(c < j)  BY <1>4, <1>9, <2>1
  <2> QED  BY <1>1, <1>4, <1>5, <2>1, <2>2
<1>18. ASSUME NEW j \in 1..Len(v)
       PROVE  w[j] = IF a <= j /\ j <= b /\ v[j] \in Nat THEN v[j] + o ELSE v[j]
  <2>1. s + j \in 1..l /\ s + j \in 1..Len(text)  BY <1>4, <1>7, <1>14
  <2>2. v[j] = text[s + j] /\ w[j] = y[s + j]
    <3>1. j \in 1..Len(w)  BY <1>6 DEF Alike
    <3> QED  BY <1>4, <1>5, <1>7, <2>1, <3>1
  <2>3. s + j <= e <=> j <= b  BY <1>8, <1>14
  <2>4. CASE n # 1
    <3>1. c < s + j <=> a <= j  BY <1>8, <1>14, <1>15, <2>4
    <3> QED  BY <1>1, <2>1, <2>2, <2>3, <3>1
  <2>5. CASE n = 1
    <3>1. a <= j  BY <1>13, <2>5
    <3>2. c < s + j  BY <1>8, <1>9, <1>14, <3>1
    <3> QED  BY <1>1, <2>1, <2>2, <2>3, <3>1, <3>2
  <2> QED  BY <2>4, <2>5
<1>19. AddressEnd(x) = AddressEnd(z)
  <2>1. Open \in Marks /\ Close \in Marks  BY DEF Marks
  <2>2. FirstAt(x, Close) = FirstAt(z, Close)  BY <1>3, <2>1, AlikeMarks
  <2>3. Len(x) # 0 => (x[1] = Open <=> z[1] = Open)
    <3>1. Len(x) # 0 => 1 \in 1..Len(x)  BY <1>4, <1>14
    <3> QED  BY <1>3, <2>1, <3>1, AlikeMarks
  <2>4. (x # <<>> <=> Len(x) # 0) /\ (z # <<>> <=> Len(x) # 0)
    <3>1. Len(z) = Len(x)  BY <1>3 DEF Alike
    <3> QED  BY <1>3, <3>1, EmptySeq
  <2> QED  BY <2>2, <2>3, <2>4 DEF AddressEnd
<1>20. Closed(z)
  <2> SUFFICES ASSUME AddressEnd(z) # 0
               PROVE  AddressEnd(z) < Len(z) /\ z[AddressEnd(z) + 1] = Colon
    BY DEF Closed
  <2>1. AddressEnd(x) < Len(x) /\ x[AddressEnd(x) + 1] = Colon  BY <1>19 DEF Closed
  <2>2. AddressEnd(x) + 1 \in 1..Len(x) /\ Len(z) = Len(x)
    BY <1>3, <1>4, <1>7, <1>14, <2>1 DEF Alike
  <2>3. Colon \in Marks  BY DEF Marks
  <2>4. z[AddressEnd(x) + 1] = Colon  BY <1>3, <2>1, <2>2, <2>3, AlikeMarks
  <2> QED  BY <1>19, <2>1, <2>2, <2>4
<1>21. Cut(y).protocol = Cut(text).protocol
  <2> DEFINE h == LastAt(text, Slash)
  <2>1. h = LastAt(y, Slash)
    <3>1. Slash \in Marks  BY DEF Marks
    <3> QED  BY <1>0, <1>1, <1>2, <3>1, AlikeMarks
  <2>2. Cut(text).protocol = IF h = 0 THEN <<Tcp>> ELSE SubSeq(text, h + 1, Len(text))
    BY DEF Cut, CutAt, After
  <2>3. Cut(y).protocol = IF h = 0 THEN <<Tcp>> ELSE SubSeq(y, h + 1, Len(text))
    BY <1>1, <2>1 DEF Cut, CutAt, After
  <2>4. h \in 0..Len(text)  BY <1>0, LastAtIs
  <2>5. h # 0 => l = h - 1  BY DEF SpecEnd, l
  <2> HIDE DEF h
  <2>6. h # 0 => SubSeq(text, h + 1, Len(text)) = SubSeq(y, h + 1, Len(text))
    <3> SUFFICES ASSUME h # 0 PROVE SubSeq(text, h + 1, Len(text)) = SubSeq(y, h + 1, Len(text))
      OBVIOUS
    <3>1. PICK d \in 1..Len(text) + 1 : d = h + 1  BY <1>0, <2>4
    <3>2. Len(text) \in 0..Len(text)  BY <1>0
    <3>3. \A j \in d..Len(text) : j \in 1..Len(text) /\ ~(j <= e)  BY <1>0, <1>9, <2>4, <2>5, <3>1
    <3>4. \A j \in d..Len(text) : text[j] = y[j]  BY <1>1, <3>3
    <3> QED  BY <1>0, <1>1, <3>1, <3>2, <3>4, SameStretch
  <2> QED  BY <2>2, <2>3, <2>6
<1> QED  BY <1>3, <1>6, <1>17, <1>18, <1>20, <1>21 DEF X, v, w, s, a, b

\* The ports of a range.
LEMMA RangePorts ==
  ASSUME NEW X, NEW field \in Seq(X), IsRange(field)
  PROVE  /\ field[1] \in Nat /\ Last(field) \in Nat /\ Last(field) = field[Len(field)]
         /\ Len(field) \in {1, 3} /\ PortsOf(field) = field[1]..Last(field)
BY LenProperties DEF IsRange, PortsOf, Last

\* One field with every number of the other raised.
RaisedBy(p, q, o) ==
  Len(q) = Len(p) /\ \A i \in 1..Len(p) : q[i] = IF p[i] \in Nat THEN p[i] + o ELSE p[i]

\* A range of which every number is raised has as many ports.
LEMMA RaisedRange ==
  ASSUME NEW X, NEW p \in Seq(X), NEW q \in Seq(X), NEW o \in Nat, IsRange(p), RaisedBy(p, q, o)
  PROVE  /\ IsRange(q) /\ PortsOf(q) = (p[1] + o)..(Last(p) + o)
         /\ Cardinality(PortsOf(q)) = Cardinality(PortsOf(p))
<1>1. /\ p[1] \in Nat /\ Last(p) \in Nat /\ Last(p) = p[Len(p)]
      /\ Len(p) \in {1, 3} /\ PortsOf(p) = p[1]..Last(p)
  BY RangePorts
<1>2. /\ q[1] = p[1] + o /\ q[Len(q)] = Last(p) + o
      /\ Len(p) = 3 => q[2] = Dash /\ q[3] = Last(p) + o
  <2>1. Len(p) = 3 => p[2] = Dash  BY DEF IsRange
  <2>2. Dash \notin Nat  BY TokenAssumption DEF Marks
  <2>3. 1 \in 1..Len(p) /\ Len(p) \in 1..Len(p) /\ (Len(p) = 3 => 2 \in 1..Len(p))
    <3>1. \A m \in {1, 3} : 1 \in 1..m /\ m \in 1..m /\ (m = 3 => 2 \in 1..m)  OBVIOUS
    <3> QED  BY ONLY <1>1, <3>1
  <2> QED  BY <1>1, <2>1, <2>2, <2>3 DEF RaisedBy
<1>3. IsRange(q)
  <2>1. q[1] \in Nat /\ (Len(p) = 3 => q[3] \in Nat) /\ Len(q) = Len(p)  BY <1>1, <1>2 DEF RaisedBy
  <2> QED  BY <1>1, <1>2, <2>1 DEF IsRange
<1>4. PortsOf(q) = (p[1] + o)..(Last(p) + o)
  <2>1. Last(q) = q[Len(q)]  BY DEF Last
  <2> QED  BY <1>2, <1>3, <2>1 DEF PortsOf
<1>5. Cardinality((p[1] + o)..(Last(p) + o)) = Cardinality(p[1]..Last(p))
  <2> DEFINE a == p[1]  b == Last(p)
  <2>1. a \in Int /\ b \in Int /\ a + o \in Int /\ b + o \in Int  BY <1>1
  <2> HIDE DEF a, b
  <2>2. Cardinality(a..b) = IF a > b THEN 0 ELSE b - a + 1  BY <2>1, FS_Interval
  <2>3. Cardinality((a + o)..(b + o)) = IF a + o > b + o THEN 0 ELSE (b + o) - (a + o) + 1
    BY <2>1, FS_Interval
  <2>4. (IF a + o > b + o THEN 0 ELSE (b + o) - (a + o) + 1) = IF a > b THEN 0 ELSE b - a + 1
    BY <2>1
  <2> QED  BY <2>2, <2>3, <2>4 DEF a, b
<1> QED  BY <1>1, <1>3, <1>4, <1>5

\* What is published for a moved port.
LEMMA MovedReach ==
  ASSUME NEW text \in Text, NEW o \in Nat, HostPort(text) >= 1, Publishable(text)
  PROVE  SameReach(text, shiftedPublish(text, o))
<1> DEFINE X == Nat \cup Marks
           y == shiftedPublish(text, o)
           x == Cut(text).spec
           z == Cut(y).spec
           f == Fields(x).fields
           g == Fields(z).fields
           v == Inner(x)
           w == Inner(z)
           a == HostBegins(x)
           b == HostStops(x)
           hf == HostField(f)
           hg == HostField(g)
           n == Len(f) - 1
<1>1. AcceptedFrom(Fields(x)) /\ Closed(x)  BY DEF Publishable
<1>2. /\ x \in Seq(X) /\ z \in Seq(X) /\ Alike(x, z)
      /\ \A j \in 1..AddressEnd(x) : x[j] = z[j]
      /\ \A j \in 1..Len(v) :
           w[j] = IF a <= j /\ j <= b /\ v[j] \in Nat THEN v[j] + o ELSE v[j]
      /\ Closed(z) /\ Cut(y).protocol = Cut(text).protocol
  BY <1>1, MovedWhere
<1>3. /\ Len(f) # 1 /\ a \in 1..Len(v) + 1 /\ b \in 0..Len(v) /\ a <= b
  BY HostPortMoves
<1> HIDE DEF X, y, x, z
<1>4. /\ Len(f) = Len(g) /\ Len(f) \in Nat \ {0} /\ v \in Seq(X) /\ w \in Seq(X) /\ Len(w) = Len(v)
      /\ \A k \in 1..Len(f) : FieldIs(f, g, v, w, k)
  BY ONLY <1>2, FieldsAre
<1>5. n \in 1..Len(f) /\ n + 1 = Len(f) /\ Len(f) \in 1..Len(f) /\ 1 \in 1..Len(f)
  <2>1. \A m \in Nat \ {0} : m # 1 => m - 1 \in 1..m /\ (m - 1) + 1 = m /\ m \in 1..m /\ 1 \in 1..m
    OBVIOUS
  <2> QED  BY ONLY <1>3, <1>4, <2>1
<1>6. a = Begins(v, Colon, n) /\ b = Stops(v, Colon, n)  BY DEF HostBegins, HostStops
<1>7. /\ hf \in Seq(X) /\ hg \in Seq(X) /\ hf = SubSeq(v, a, b) /\ hg = SubSeq(w, a, b)
      /\ Last(f) \in Seq(X)
  BY ONLY <1>2, <1>3, AlikeFields
<1>8. Len(v) \in Nat  BY <1>4, LenProperties
<1> HIDE DEF f, g, v, w, a, b, hf, hg, n
<1>9. Len(hf) = b - a + 1 /\ RaisedBy(hf, hg, o)
  <2>1. /\ Len(SubSeq(v, a, b)) = b - a + 1
        /\ \A i \in 1..(b - a + 1) : SubSeq(v, a, b)[i] = v[a + i - 1] /\ a + i - 1 \in 1..Len(v)
    <3>1. a <= b + 1  BY <1>3, <1>8
    <3> QED  BY <1>3, <1>4, <3>1, StretchIs
  <2>2. /\ Len(SubSeq(w, a, b)) = b - a + 1
        /\ \A i \in 1..(b - a + 1) : SubSeq(w, a, b)[i] = w[a + i - 1]
    <3>1. a <= b + 1 /\ a \in 1..Len(w) + 1 /\ b \in 0..Len(w)  BY <1>3, <1>4, <1>8
    <3> QED  BY <1>4, <3>1, StretchIs
  <2>3. \A i \in 1..(b - a + 1) : a <= a + i - 1 /\ a + i - 1 <= b  BY <1>3, <1>8
  <2> QED  BY <1>2, <1>7, <2>1, <2>2, <2>3 DEF RaisedBy
<1>10. ASSUME NEW k \in 1..Len(f), k # n PROVE f[k] = g[k]
  <2> DEFINE c == Begins(v, Colon, k)  d == Stops(v, Colon, k)
  <2>1. c \in 1..Len(v) + 1 /\ d \in 0..Len(v) /\ ((\A j \in c..d : v[j] = w[j]) => f[k] = g[k])
    BY <1>4 DEF FieldIs
  <2>2. \A i \in 1..Len(f) : i # 1 => Begins(v, Colon, i) = Stops(v, Colon, i - 1) + 2
    BY <1>4 DEF FieldIs
  <2>3. CASE k = Len(f)
    <3>1. k # 1 /\ k - 1 = n  BY <1>3, <1>5, <2>3
    <3>2. c = b + 2  BY <1>6, <2>2, <3>1
    <3> HIDE DEF c, d
    <3>3. \A j \in c..d : j \in 1..Len(v) /\ ~(j <= b)  BY <1>3, <1>8, <2>1, <3>2
    <3>4. \A j \in c..d : v[j] = w[j]  BY <1>2, <3>3
    <3> QED  BY <2>1, <3>4
  <2>4. CASE k # Len(f)
    <3>1. Len(f) <= 3
      <4>1. \A m \in Nat : m <= (IF Fields(x).address = <<>> THEN 3 ELSE 2) => m <= 3  OBVIOUS
      <4>2. Len(f) <= (IF Fields(x).address = <<>> THEN 3 ELSE 2)
        BY <1>1 DEF AcceptedFrom, Accepted, f
      <4>3. Len(f) \in Nat  BY <1>4
      <4> QED  BY ONLY <4>1, <4>2, <4>3
    <3>2. k = 1 /\ n = 2  BY <1>3, <1>4, <1>5, <1>10, <2>4, <3>1
    <3>3. a = d + 2  BY <1>5, <1>6, <2>2, <3>2
    <3> HIDE DEF c, d
    <3>4. \A j \in c..d : j \in 1..Len(v) /\ ~(a <= j)  BY <1>3, <1>8, <2>1, <3>3
    <3>5. \A j \in c..d : v[j] = w[j]  BY <1>2, <3>4
    <3> QED  BY <2>1, <3>5
  <2> QED  BY <2>3, <2>4
<1>11. Last(f) = Last(g)
  <2>1. Len(f) # n  BY <1>5
  <2>2. f[Len(f)] = g[Len(f)]  BY <1>5, <1>10, <2>1
  <2> QED  BY <1>4, <2>2 DEF Last
<1>12. Len(f) = 3 => f[1] = g[1]
  <2>1. Len(f) = 3 => n # 1  BY <1>5
  <2> QED  BY <1>5, <1>10, <2>1
<1>13. AddressEnd(x) = AddressEnd(z) /\ Fields(x).address = Fields(z).address
  <2>1. Open \in Marks /\ Close \in Marks  BY DEF Marks
  <2>2. Len(x) \in Nat /\ Len(z) = Len(x)  BY <1>2, LenProperties DEF Alike
  <2>3. FirstAt(x, Close) = FirstAt(z, Close)  BY <1>2, <2>1, AlikeMarks
  <2>4. Len(x) # 0 => (x[1] = Open <=> z[1] = Open)
    <3>1. Len(x) # 0 => 1 \in 1..Len(x)  BY <2>2
    <3> QED  BY <1>2, <2>1, <3>1, AlikeMarks
  <2>5. (x # <<>> <=> Len(x) # 0) /\ (z # <<>> <=> Len(x) # 0)  BY <1>2, <2>2, EmptySeq
  <2>6. AddressEnd(x) = AddressEnd(z)  BY <2>3, <2>4, <2>5 DEF AddressEnd
  <2> DEFINE e == AddressEnd(x)
  <2>7. e \in 0..Len(x)  BY <1>2, InnerIs
  <2>8. /\ Fields(x).address = IF e = 0 THEN <<>> ELSE SubSeq(x, 2, e - 1)
        /\ Fields(z).address = IF e = 0 THEN <<>> ELSE SubSeq(z, 2, e - 1)
    BY <2>6 DEF Fields, FieldsAfter
  <2> HIDE DEF e
  <2>9. e # 0 => SubSeq(x, 2, e - 1) = SubSeq(z, 2, e - 1)
    <3> SUFFICES ASSUME e # 0 PROVE SubSeq(x, 2, e - 1) = SubSeq(z, 2, e - 1)  OBVIOUS
    <3>1. e - 1 \in 0..Len(x) /\ 2 \in 1..Len(x) + 1  BY <2>2, <2>7
    <3>2. \A j \in 2..(e - 1) : j \in 1..e  BY <2>2, <2>7
    <3>3. \A j \in 2..(e - 1) : x[j] = z[j]  BY <1>2, <3>2 DEF e
    <3> QED  BY <1>2, <2>2, <3>1, <3>3, SameStretch
  <2>10. CASE e = 0  BY <2>6, <2>8, <2>10
  <2>11. CASE e # 0
    <3>1. Fields(x).address = SubSeq(x, 2, e - 1)  BY <2>8, <2>11
    <3>2. Fields(z).address = SubSeq(z, 2, e - 1)  BY <2>8, <2>11
    <3> QED  BY <2>6, <2>9, <2>11, <3>1, <3>2
  <2> QED  BY <2>10, <2>11
<1>14. /\ PortsOf(Last(f)) # {}
       /\ hf # <<>> => PortsOf(hf) \subseteq 1..MaxPort /\ Cardinality(PortsOf(hf)) = Cardinality(PortsOf(Last(f)))
       /\ Len(f) <= IF Fields(x).address = <<>> THEN 3 ELSE 2
  BY <1>1 DEF AcceptedFrom, Accepted, f, hf
<1>15. hf # <<>>
  <2>1. Len(hf) # 0
    <3>1. b - a + 1 # 0  BY ONLY <1>3, <1>8
    <3> QED  BY ONLY <1>9, <3>1
  <2>2. Len(<<>>) = 0  BY EmptySeq
  <2> QED  BY ONLY <2>1, <2>2
<1>16. IsRange(hf)
  <2> SUFFICES ASSUME ~IsRange(hf) PROVE FALSE  OBVIOUS
  <2>1. PortsOf(hf) = {}  BY DEF PortsOf
  <2>2. Cardinality(PortsOf(Last(f))) = 0  BY <1>14, <1>15, <2>1, FS_EmptySet
  <2>3. IsRange(Last(f))  BY <1>14 DEF PortsOf
  <2>4. IsFiniteSet(PortsOf(Last(f)))
    <3> DEFINE r == Last(f)
    <3>1. r[1] \in Int /\ Last(r) \in Int /\ PortsOf(r) = r[1]..Last(r)  BY <1>7, <2>3, RangePorts
    <3> QED  BY <3>1, FS_Interval
  <2> QED  BY <1>14, <2>2, <2>4, FS_EmptySet
<1>17. /\ IsRange(hg) /\ PortsOf(hg) = (hf[1] + o)..(Last(hf) + o)
       /\ Cardinality(PortsOf(hg)) = Cardinality(PortsOf(hf))
  BY ONLY <1>7, <1>9, <1>16, RaisedRange
<1>18. \A q \in PortsOf(hg) : q \in Nat /\ q >= 1
  <2>1. /\ hf[1] \in Nat /\ Last(hf) \in Nat /\ PortsOf(hf) = hf[1]..Last(hf)  BY <1>7, <1>16, RangePorts
  <2> SUFFICES ASSUME NEW q \in PortsOf(hg) PROVE q \in Nat /\ q >= 1  OBVIOUS
  <2>2. q \in (hf[1] + o)..(Last(hf) + o)  BY <1>17
  <2>3. hf[1] <= Last(hf)  BY <2>1, <2>2
  <2>4. hf[1] \in PortsOf(hf)  BY <2>1, <2>3
  <2>5. hf[1] \in 1..MaxPort  BY <1>14, <1>15, <2>4
  <2> QED  BY <2>1, <2>2, <2>5
<1>19. Published(text) = PublicationOf(Fields(x), Cut(text).protocol)
       /\ Published(y) = PublicationOf(Fields(z), Cut(text).protocol)
  BY <1>2 DEF Published, x, z
<1>20. /\ Published(text) = Publication(IF Len(f) = 3 THEN f[1] ELSE Fields(x).address,
                                PortsOf(hf), PortsOf(Last(f)), Cut(text).protocol)
       /\ Published(y) = Publication(IF Len(f) = 3 THEN f[1] ELSE Fields(x).address,
                                PortsOf(hg), PortsOf(Last(f)), Cut(text).protocol)
  BY <1>4, <1>11, <1>12, <1>13, <1>19 DEF PublicationOf, f, g, hf, hg
<1>21. /\ Published(text).hosts = PortsOf(hf) /\ Published(y).hosts = PortsOf(hg)
       /\ Published(y) = [Published(text) EXCEPT !.hosts = PortsOf(hg)]
  BY <1>20 DEF Publication
<1>22. Publishable(y) \/ TooHigh(y)
  <2> SUFFICES ASSUME ~TooHigh(y) PROVE Publishable(y)  OBVIOUS
  <2>1. PortsOf(hg) \subseteq 1..MaxPort
    <3> SUFFICES ASSUME NEW q \in PortsOf(hg) PROVE q \in 1..MaxPort  OBVIOUS
    <3>1. q \in Nat /\ q >= 1 /\ ~(q > MaxPort)  BY <1>18, <1>21 DEF TooHigh
    <3>2. MaxPort \in Nat  BY DEF MaxPort
    <3> QED  BY ONLY <3>1, <3>2
  <2>2. AcceptedFrom(Fields(z))
    BY <1>4, <1>11, <1>13, <1>14, <1>15, <1>17, <2>1 DEF AcceptedFrom, Accepted, g, hg
  <2> QED  BY <1>2, <2>2 DEF Publishable, z
<1> QED  BY <1>17, <1>21, <1>22 DEF SameReach, y

\* Seven values make no set of eight.
LEMMA AtMostSeven ==
  ASSUME NEW a, NEW b, NEW c, NEW d, NEW e, NEW f, NEW g
  PROVE  Cardinality({a, b, c, d, e, f, g}) # 8
<1> DEFINE S == {a, b, c, d, e, f, g}
           s == [i \in 1..7 |-> IF i = 1 THEN a ELSE IF i = 2 THEN b ELSE IF i = 3 THEN c
                  ELSE IF i = 4 THEN d ELSE IF i = 5 THEN e ELSE IF i = 6 THEN f ELSE g]
<1>1. s \in [1..7 -> S]  OBVIOUS
<1>2. \A t \in S : \E i \in 1..7 : s[i] = t
  <2>1. /\ s[1] = a /\ s[2] = b /\ s[3] = c /\ s[4] = d /\ s[5] = e /\ s[6] = f /\ s[7] = g
        /\ 1 \in 1..7 /\ 2 \in 1..7 /\ 3 \in 1..7 /\ 4 \in 1..7 /\ 5 \in 1..7 /\ 6 \in 1..7 /\ 7 \in 1..7
    OBVIOUS
  <2> HIDE DEF s
  <2> QED  BY <2>1
<1> HIDE DEF s, S
<1>3. ExistsSurjection(1..7, S)  BY <1>1, <1>2 DEF ExistsSurjection, Surjection
<1>4. 7 \in Nat /\ ~(8 <= 7)  OBVIOUS
<1>5. Cardinality(S) <= 7  BY <1>3, <1>4, FS_SurjCardinalityBound
<1> QED  BY <1>4, <1>5 DEF S

\* The marks that PublishedPort writes are told apart.
LEMMA MarksDiffer ==
  /\ V4 # Colon /\ V4 # Open /\ V4 # Slash /\ Colon # Slash /\ Udp # Slash /\ Tcp # Slash
  /\ Tcp # Udp /\ Colon # Open
<1>0. Cardinality(Marks) = 8  BY TokenAssumption
<1>1. V4 # Colon
  <2>1. V4 = Colon => Marks = {Colon, Dash, Slash, Open, Close, Tcp, Udp}  BY DEF Marks
  <2> QED  BY <1>0, <2>1, AtMostSeven
<1>2. V4 # Open
  <2>1. V4 = Open => Marks = {Colon, Dash, Slash, Open, Close, Tcp, Udp}  BY DEF Marks
  <2> QED  BY <1>0, <2>1, AtMostSeven
<1>3. V4 # Slash
  <2>1. V4 = Slash => Marks = {Colon, Dash, Slash, Open, Close, Tcp, Udp}  BY DEF Marks
  <2> QED  BY <1>0, <2>1, AtMostSeven
<1>4. Colon # Slash
  <2>1. Colon = Slash => Marks = {Colon, Dash, V4, Open, Close, Tcp, Udp}  BY DEF Marks
  <2> QED  BY <1>0, <2>1, AtMostSeven
<1>5. Udp # Slash
  <2>1. Udp = Slash => Marks = {Colon, Dash, Slash, Open, Close, Tcp, V4}  BY DEF Marks
  <2> QED  BY <1>0, <2>1, AtMostSeven
<1>6. Tcp # Slash
  <2>1. Tcp = Slash => Marks = {Colon, Dash, Slash, Open, Close, V4, Udp}  BY DEF Marks
  <2> QED  BY <1>0, <2>1, AtMostSeven
<1>7. Tcp # Udp
  <2>1. Tcp = Udp => Marks = {Colon, Dash, Slash, Open, Close, V4, Udp}  BY DEF Marks
  <2> QED  BY <1>0, <2>1, AtMostSeven
<1>8. Colon # Open
  <2>1. Colon = Open => Marks = {V4, Dash, Slash, Open, Close, Tcp, Udp}  BY DEF Marks
  <2> QED  BY <1>0, <2>1, AtMostSeven
<1> QED  BY <1>1, <1>2, <1>3, <1>4, <1>5, <1>6, <1>7, <1>8

\* The first three even numbers in order.
LEMMA EvenEnds ==
  ASSUME NEW n \in {1, 2, 3}, NEW E, E = {2 * k : k \in 1..n}
  PROVE  Cardinality(E) = n /\ \A k \in 1..n : NthOf(E, k) = 2 * k
<1>1. \A x : Cardinality({x}) = 1  BY FS_Singleton
<1>2. Cardinality({2, 4}) = 2
  <2>1. IsFiniteSet({2}) /\ Cardinality({2}) = 1  BY FS_Singleton
  <2>2. {2, 4} = {2} \cup {4} /\ 4 \notin {2}  OBVIOUS
  <2> QED  BY <2>1, <2>2, FS_AddElement
<1>3. Cardinality({2, 4, 6}) = 3
  <2>1. IsFiniteSet({2, 4})
    <3>1. IsFiniteSet({2})  BY FS_Singleton
    <3>2. {2, 4} = {2} \cup {4}  OBVIOUS
    <3> QED  BY <3>1, <3>2, FS_AddElement
  <2>2. {2, 4, 6} = {2, 4} \cup {6} /\ 6 \notin {2, 4}  OBVIOUS
  <2> QED  BY <1>2, <2>1, <2>2, FS_AddElement
<1>4. CASE n = 1
  <2>1. 1..n = {1}  BY <1>4
  <2>2. E = {2}  BY <2>1
  <2>3. Rank(E, 2) = 1
    <3>1. {j \in E : j <= 2} = {2}  BY <2>2
    <3> QED  BY <1>1, <3>1 DEF Rank
  <2>4. NthOf(E, 1) = 2  BY <2>2, <2>3 DEF NthOf
  <2> QED  BY <1>1, <1>4, <2>1, <2>2, <2>4
<1>5. CASE n = 2
  <2>1. 1..n = {1, 2}  BY <1>5
  <2>2. E = {2, 4}  BY <2>1
  <2>3. Rank(E, 2) = 1
    <3>1. {j \in E : j <= 2} = {2}  BY <2>2
    <3> QED  BY <1>1, <3>1 DEF Rank
  <2>4. Rank(E, 4) = 2
    <3>1. {j \in E : j <= 4} = {2, 4}  BY <2>2
    <3> QED  BY <1>2, <3>1 DEF Rank
  <2>5. NthOf(E, 1) = 2 /\ NthOf(E, 2) = 4  BY <2>2, <2>3, <2>4 DEF NthOf
  <2> QED  BY <1>2, <1>5, <2>1, <2>2, <2>5
<1>6. CASE n = 3
  <2>1. 1..n = {1, 2, 3}  BY <1>6
  <2>2. E = {2, 4, 6}
    <3>1. E = {2 * k : k \in {1, 2, 3}}  BY <2>1
    <3>2. {2 * k : k \in {1, 2, 3}} = {2 * 1, 2 * 2, 2 * 3}  BY ZenonT(20)
    <3> QED  BY <3>1, <3>2
  <2>3. Rank(E, 2) = 1
    <3>1. {j \in E : j <= 2} = {2}  BY <2>2
    <3> QED  BY <1>1, <3>1 DEF Rank
  <2>4. Rank(E, 4) = 2
    <3>1. {j \in E : j <= 4} = {2, 4}  BY <2>2
    <3> QED  BY <1>2, <3>1 DEF Rank
  <2>5. Rank(E, 6) = 3
    <3>1. {j \in E : j <= 6} = {2, 4, 6}  BY <2>2
    <3> QED  BY <1>3, <3>1 DEF Rank
  <2>6. NthOf(E, 1) = 2 /\ NthOf(E, 2) = 4 /\ NthOf(E, 3) = 6
    BY <2>2, <2>3, <2>4, <2>5 DEF NthOf
  <2> QED  BY <1>3, <1>6, <2>1, <2>2, <2>6
<1> QED  BY <1>4, <1>5, <1>6

\* Up to three tokens with colons between them are split into these.
LEMMA SplitTokens ==
  ASSUME NEW X, NEW text \in Seq(X), NEW n \in {1, 2, 3}, Len(text) = 2 * n - 1,
         \A i \in 1..Len(text) : text[i] = Colon <=> i \in {2, 4}
  PROVE  /\ Len(Split(text, Colon)) = n
         /\ \A k \in 1..n : Split(text, Colon)[k] = <<text[2 * k - 1]>>
<1>1. PieceEnds(text, Colon) = {2 * k : k \in 1..n}
  <2>1. PieceEnds(text, Colon) = {i \in 1..(2 * n) : i = 2 * n \/ i \in {2, 4}}
    BY DEF PieceEnds
  <2>2. CASE n = 1
    <3>1. 1..n = {1} /\ 1..(2 * n) = {1, 2}  BY <2>2
    <3> QED  BY <2>1, <2>2, <3>1
  <2>3. CASE n = 2
    <3>1. 1..n = {1, 2} /\ 1..(2 * n) = {1, 2, 3, 4}  BY <2>3
    <3> QED  BY <2>1, <2>3, <3>1
  <2>4. CASE n = 3
    <3>1. 1..n = {1, 2, 3} /\ 1..(2 * n) = {1, 2, 3, 4, 5, 6}  BY <2>4
    <3> QED  BY <2>1, <2>4, <3>1
  <2> QED  BY <2>2, <2>3, <2>4
<1>2. Cardinality(PieceEnds(text, Colon)) = n /\ \A k \in 1..n : NthOf(PieceEnds(text, Colon), k) = 2 * k
  BY <1>1, EvenEnds
<1>3. Split(text, Colon) = [k \in 1..n |-> SubSeq(text, Begins(text, Colon, k), Stops(text, Colon, k))]
  BY <1>2, SplitByEnds
<1>4. ASSUME NEW k \in 1..n PROVE Split(text, Colon)[k] = <<text[2 * k - 1]>>
  <2>1. Stops(text, Colon, k) = 2 * k - 1  BY <1>2 DEF Stops
  <2>2. Begins(text, Colon, k) = 2 * k - 1
    <3>1. CASE k = 1  BY <3>1 DEF Begins, NthOf
    <3>2. CASE k # 1
      <4>1. k - 1 \in 1..n  BY <3>2
      <4>2. NthOf(PieceEnds(text, Colon), k - 1) = 2 * (k - 1)  BY <1>2, <4>1
      <4> QED  BY <4>2 DEF Begins
    <3> QED  BY <3>1, <3>2
  <2> DEFINE i == 2 * k - 1
  <2>3. i \in 1..Len(text)  OBVIOUS
  <2>4. Split(text, Colon)[k] = SubSeq(text, i, i)  BY <1>3, <2>1, <2>2
  <2> HIDE DEF i
  <2>5. Len(SubSeq(text, i, i)) = 1 /\ SubSeq(text, i, i)[1] = text[i] /\ SubSeq(text, i, i) \in Seq(X)
    <3>1. i \in Int /\ text[i] \in X /\ i + 1 - 1 = i  BY <2>3, ElementOfSeq
    <3>2. \A j \in i..i : text[j] \in X  BY <3>1
    <3>3. /\ SubSeq(text, i, i) \in Seq(X) /\ Len(SubSeq(text, i, i)) = IF i <= i THEN i - i + 1 ELSE 0
          /\ \A j \in 1..(i - i + 1) : SubSeq(text, i, i)[j] = text[i + j - 1]
      BY <3>1, <3>2, SubSeqProperties
    <3>4. i <= i /\ i - i + 1 = 1 /\ 1 \in 1..1  BY <3>1
    <3> QED  BY <3>1, <3>3, <3>4
  <2>6. SubSeq(text, i, i) = <<text[i]>>
    <3>1. text[i] \in X  BY <2>3, ElementOfSeq
    <3>2. \A x \in X : <<x>> \in Seq(X) /\ Len(<<x>>) = 1 /\ <<x>>[1] = x  OBVIOUS
    <3>3. <<text[i]>> \in Seq(X) /\ Len(<<text[i]>>) = 1 /\ <<text[i]>>[1] = text[i]  BY <3>1, <3>2
    <3>4. \A j \in 1..1 : j = 1  OBVIOUS
    <3> HIDE DEF i
    <3> QED  BY <2>5, <3>3, <3>4, SeqEqual
  <2> QED  BY <2>4, <2>6 DEF i
<1>5. Len(Split(text, Colon)) = n  BY <1>3
<1> QED  BY <1>4, <1>5

\* A value with a protocol and one without are cut where they should.
LEMMA CutTokens ==
  ASSUME NEW X, NEW s \in Seq(X), \A i \in 1..Len(s) : s[i] # Slash,
         NEW q \in X, q # Slash, Slash \in X
  PROVE  /\ Cut(s) = [spec |-> s, protocol |-> <<Tcp>>]
         /\ Cut(s \o <<Slash, q>>) = [spec |-> s, protocol |-> <<q>>]
<1> DEFINE e == <<Slash, q>>
           t == s \o e
           n == Len(s)
<1>1. Cut(s) = [spec |-> s, protocol |-> <<Tcp>>]
  <2>1. LastAt(s, Slash) = 0
    <3>1. /\ LastAt(s, Slash) \in 0..Len(s) /\ (LastAt(s, Slash) # 0 => s[LastAt(s, Slash)] = Slash)
      BY LastAtIs
    <3> QED  BY <3>1, LenProperties
  <2> QED  BY <2>1 DEF Cut, CutAt
<1>2. e \in Seq(X) /\ Len(e) = 2 /\ e[1] = Slash /\ e[2] = q  OBVIOUS
<1>3. n \in Nat /\ s = s  BY LenProperties
<1> HIDE DEF e
<1>4. /\ t \in Seq(X) /\ Len(t) = n + 2 /\ (\A i \in 1..n : t[i] = s[i])
      /\ t[n + 1] = Slash /\ t[n + 2] = q
  <2>1. t \in Seq(X) /\ Len(t) = n + 2
        /\ \A i \in 1..(n + 2) : t[i] = IF i <= n THEN s[i] ELSE e[i - n]
    <3>1. /\ s \o e \in Seq(X) /\ Len(s \o e) = Len(s) + Len(e)
          /\ \A i \in 1..(Len(s) + Len(e)) : (s \o e)[i] = IF i <= Len(s) THEN s[i] ELSE e[i - Len(s)]
      BY <1>2, ConcatProperties
    <3> QED  BY <1>2, <3>1
  <2>2. (n + 1) - n = 1 /\ (n + 2) - n = 2 /\ n + 1 \in 1..(n + 2) /\ n + 2 \in 1..(n + 2)
        /\ ~(n + 1 <= n) /\ ~(n + 2 <= n) /\ \A i \in 1..n : i <= n /\ i \in 1..(n + 2)
    BY <1>3
  <2> HIDE DEF t, n
  <2> QED  BY <1>2, <2>1, <2>2
<1> HIDE DEF t, n
<1>5. LastAt(t, Slash) = n + 1
  <2>1. /\ LastAt(t, Slash) \in 0..Len(t) /\ (LastAt(t, Slash) # 0 => t[LastAt(t, Slash)] = Slash)
        /\ \A i \in 1..Len(t) : t[i] = Slash => LastAt(t, Slash) # 0 /\ i <= LastAt(t, Slash)
    BY <1>4, LastAtIs
  <2>2. n + 1 <= LastAt(t, Slash)  BY <1>3, <1>4, <2>1
  <2>3. LastAt(t, Slash) # n + 2  BY <1>3, <1>4, <2>1
  <2> QED  BY <1>3, <1>4, <2>1, <2>2, <2>3
<1>6. Before(t, n + 1) = s
  <2>1. Before(t, n + 1) = SubSeq(t, 1, n)  BY <1>3 DEF Before
  <2>2. /\ Len(SubSeq(t, 1, n)) = n /\ SubSeq(t, 1, n) \in Seq(X)
        /\ \A i \in 1..n : SubSeq(t, 1, n)[i] = t[i]
    <3>1. 1 \in Int /\ n \in Int /\ \A i \in 1..n : t[i] \in X
      BY <1>3, <1>4, ElementOfSeq DEF n
    <3>2. /\ SubSeq(t, 1, n) \in Seq(X) /\ Len(SubSeq(t, 1, n)) = IF 1 <= n THEN n - 1 + 1 ELSE 0
          /\ \A i \in 1..(n - 1 + 1) : SubSeq(t, 1, n)[i] = t[1 + i - 1]
      BY <3>1, SubSeqProperties
    <3>3. (IF 1 <= n THEN n - 1 + 1 ELSE 0) = n /\ n - 1 + 1 = n /\ \A i \in 1..n : 1 + i - 1 = i
      BY <1>3
    <3> QED  BY <3>2, <3>3
  <2> QED  BY <1>4, <2>1, <2>2, SeqEqual DEF n
<1>7. After(t, n + 1) = <<q>>
  <2>1. After(t, n + 1) = SubSeq(t, n + 2, n + 2)  BY <1>3, <1>4 DEF After
  <2>2. Len(SubSeq(t, n + 2, n + 2)) = 1 /\ SubSeq(t, n + 2, n + 2) \in Seq(X)
        /\ SubSeq(t, n + 2, n + 2)[1] = q
    <3>1. n + 2 \in Int /\ \A i \in (n + 2)..(n + 2) : t[i] \in X
      BY <1>3, <1>4
    <3> DEFINE k == n + 2
    <3>2. k \in Int /\ \A i \in k..k : t[i] \in X  BY <3>1
    <3>3. t[k] = q  BY <1>4
    <3> HIDE DEF k
    <3>4. /\ SubSeq(t, k, k) \in Seq(X) /\ Len(SubSeq(t, k, k)) = IF k <= k THEN k - k + 1 ELSE 0
          /\ \A i \in 1..(k - k + 1) : SubSeq(t, k, k)[i] = t[k + i - 1]
      BY ONLY <3>2, SubSeqProperties
    <3>5. k <= k /\ k - k + 1 = 1 /\ 1 \in 1..1 /\ k + 1 - 1 = k  BY <3>2
    <3>6. SubSeq(t, k, k) \in Seq(X) /\ Len(SubSeq(t, k, k)) = 1 /\ SubSeq(t, k, k)[1] = q
      BY <3>3, <3>4, <3>5
    <3> QED  BY <3>6 DEF k
  <2>3. <<q>> \in Seq(X) /\ Len(<<q>>) = 1 /\ <<q>>[1] = q /\ \A i \in 1..1 : i = 1  OBVIOUS
  <2> QED  BY <2>1, <2>2, <2>3, SeqEqual
<1>8. n + 1 # 0  BY <1>3
<1>9. Cut(t) = [spec |-> s, protocol |-> <<q>>]  BY <1>5, <1>6, <1>7, <1>8 DEF Cut, CutAt
<1> QED  BY <1>1, <1>9 DEF t, e

\* Tokens put beside each other.
LEMMA Beside ==
  ASSUME NEW X
  PROVE  \A x, y, z \in X :
           /\ <<x, y>> \o <<z>> = <<x, y, z>>
           /\ \A v, w \in X : <<v, w>> \o <<x, y>> \o <<z>> = <<v, w, x, y, z>>
<1> SUFFICES ASSUME NEW x \in X, NEW y \in X, NEW z \in X
             PROVE  /\ <<x, y>> \o <<z>> = <<x, y, z>>
                    /\ \A v, w \in X : <<v, w>> \o <<x, y>> \o <<z>> = <<v, w, x, y, z>>
  OBVIOUS
<1>1. ASSUME NEW s \in Seq(X), NEW t \in Seq(X), NEW r \in Seq(X), Len(r) = Len(s) + Len(t),
             \A i \in 1..Len(s) : r[i] = s[i], \A i \in 1..Len(t) : r[Len(s) + i] = t[i]
      PROVE  s \o t = r
  <2>0. Len(s) \in Nat /\ Len(t) \in Nat  BY LenProperties
  <2>1. /\ s \o t \in Seq(X) /\ Len(s \o t) = Len(s) + Len(t)
        /\ \A i \in 1..(Len(s) + Len(t)) : (s \o t)[i] = IF i <= Len(s) THEN s[i] ELSE t[i - Len(s)]
    BY ConcatProperties
  <2>2. ASSUME NEW i \in 1..Len(s \o t) PROVE (s \o t)[i] = r[i]
    <3>1. CASE i <= Len(s)  BY <1>1, <2>0, <2>1, <3>1
    <3>2. CASE ~(i <= Len(s))
      <4>1. i - Len(s) \in 1..Len(t) /\ Len(s) + (i - Len(s)) = i  BY <2>0, <2>1, <3>2
      <4> QED  BY <1>1, <2>1, <3>2, <4>1
    <3> QED  BY <3>1, <3>2
  <2> QED  BY <1>1, <2>1, <2>2, SeqEqual
<1>2. <<x, y>> \o <<z>> = <<x, y, z>>
  <2> DEFINE s == <<x, y>>  t == <<z>>  r == <<x, y, z>>
  <2>1. /\ s \in Seq(X) /\ Len(s) = 2 /\ s[1] = x /\ s[2] = y
        /\ t \in Seq(X) /\ Len(t) = 1 /\ t[1] = z
        /\ r \in Seq(X) /\ Len(r) = 3 /\ r[1] = x /\ r[2] = y /\ r[3] = z
    OBVIOUS
  <2> HIDE DEF s, t, r
  <2>2. \A i \in 1..Len(s) : r[i] = s[i]
    <3>1. \A i \in 1..Len(s) : i \in {1, 2}  BY <2>1
    <3> QED  BY <2>1, <3>1
  <2>3. \A i \in 1..Len(t) : r[Len(s) + i] = t[i]
    <3>1. \A i \in 1..Len(t) : i = 1 /\ Len(s) + i = 3  BY <2>1
    <3> QED  BY <2>1, <3>1
  <2>4. Len(r) = Len(s) + Len(t)  BY <2>1
  <2>5. s \o t = r  BY ONLY <1>1, <2>1, <2>2, <2>3, <2>4
  <2> QED  BY <2>5 DEF s, t, r
<1>3. ASSUME NEW v \in X, NEW w \in X PROVE <<v, w>> \o <<x, y>> = <<v, w, x, y>>
  <2> DEFINE s == <<v, w>>  t == <<x, y>>  r == <<v, w, x, y>>
  <2>1. /\ s \in Seq(X) /\ Len(s) = 2 /\ s[1] = v /\ s[2] = w
        /\ t \in Seq(X) /\ Len(t) = 2 /\ t[1] = x /\ t[2] = y
        /\ r \in Seq(X) /\ Len(r) = 4 /\ r[1] = v /\ r[2] = w /\ r[3] = x /\ r[4] = y
    OBVIOUS
  <2> HIDE DEF s, t, r
  <2>2. \A i \in 1..Len(s) : r[i] = s[i]
    <3>1. \A i \in 1..Len(s) : i \in {1, 2}  BY <2>1
    <3> QED  BY <2>1, <3>1
  <2>3. \A i \in 1..Len(t) : r[Len(s) + i] = t[i]
    <3>1. \A i \in 1..Len(t) : (i = 1 /\ Len(s) + i = 3) \/ (i = 2 /\ Len(s) + i = 4)  BY <2>1
    <3> QED  BY <2>1, <3>1
  <2>4. Len(r) = Len(s) + Len(t)  BY <2>1
  <2>5. s \o t = r  BY ONLY <1>1, <2>1, <2>2, <2>3, <2>4
  <2> QED  BY <2>5 DEF s, t, r
<1>4. ASSUME NEW v \in X, NEW w \in X PROVE <<v, w, x, y>> \o <<z>> = <<v, w, x, y, z>>
  <2> DEFINE s == <<v, w, x, y>>  t == <<z>>  r == <<v, w, x, y, z>>
  <2>1. /\ s \in Seq(X) /\ Len(s) = 4 /\ s[1] = v /\ s[2] = w /\ s[3] = x /\ s[4] = y
        /\ t \in Seq(X) /\ Len(t) = 1 /\ t[1] = z
        /\ r \in Seq(X) /\ Len(r) = 5 /\ r[1] = v /\ r[2] = w /\ r[3] = x /\ r[4] = y /\ r[5] = z
    OBVIOUS
  <2> HIDE DEF s, t, r
  <2>2. \A i \in 1..Len(s) : r[i] = s[i]
    <3>1. \A i \in 1..Len(s) : i \in {1, 2, 3, 4}  BY <2>1
    <3> QED  BY <2>1, <3>1
  <2>3. \A i \in 1..Len(t) : r[Len(s) + i] = t[i]
    <3>1. \A i \in 1..Len(t) : i = 1 /\ Len(s) + i = 5  BY <2>1
    <3> QED  BY <2>1, <3>1
  <2>4. Len(r) = Len(s) + Len(t)  BY <2>1
  <2>5. s \o t = r  BY ONLY <1>1, <2>1, <2>2, <2>3, <2>4
  <2> QED  BY <2>5 DEF s, t, r
<1> QED  BY <1>2, <1>3, <1>4

\* A compose port that can be expressed is written as one to three tokens with
\* colons between them: the address, the port of the host and the container's.
LEMMA PortTokens ==
  ASSUME NEW p \in ComposePort, Expressible(p)
  PROVE  \E n \in {1, 2, 3}, s \in Text :
           /\ PublishedPort(p) = s \o (IF p.protocol = Tcp THEN <<>> ELSE <<Slash, p.protocol>>)
           /\ Len(s) = 2 * n - 1
           /\ \A i \in 1..Len(s) : s[i] # Slash /\ s[i] # Open /\ (s[i] = Colon <=> i \in {2, 4})
           /\ s[2 * n - 1] = p.target
           /\ n = 1 <=> p.published = 0
           /\ n # 1 => s[2 * n - 3] = p.published
           /\ n = 3 <=> p.address # <<>>
           /\ n = 3 => p.address = <<s[1]>>
<1> DEFINE a == p.published
           b == p.target
           x == IF p.protocol = Tcp THEN <<>> ELSE <<Slash, p.protocol>>
<1>1. a \in Nat /\ b \in Nat  BY DEF ComposePort
<1>2. p.address \in {<<>>, <<V4>>} /\ (p.address # <<>> => a # 0)  BY DEF Expressible
<1>3. /\ \A m \in Nat : m # Colon /\ m # Slash /\ m # Open
      /\ V4 \in Marks /\ Colon \in Marks
  BY TokenAssumption DEF Marks
<1>4. <<V4>> # <<>>
  <2>1. Len(<<V4>>) = 1 /\ Len(<<>>) = 0  OBVIOUS
  <2> QED  BY <2>1
<1>5. PublishedPort(p) = (IF p.address = <<>> THEN <<>> ELSE Append(p.address, Colon))
                            \o (IF a = 0 THEN <<>> ELSE <<a, Colon>>) \o <<b>> \o x
  BY DEF PublishedPort
<1> HIDE DEF a, b, x
<1>6. CASE p.address = <<>> /\ a = 0
  <2> DEFINE s == <<b>>
  <2>1. <<>> \o <<>> \o <<b>> = s  BY <1>1
  <2>2. PublishedPort(p) = s \o x  BY <1>5, <1>6, <2>1
  <2>3. s \in Text /\ Len(s) = 1 /\ s[1] = b  BY <1>1 DEF Text
  <2> HIDE DEF s
  <2>4. \A i \in 1..Len(s) : i = 1  BY <2>3
  <2>5. \A i \in 1..Len(s) : s[i] # Slash /\ s[i] # Open /\ (s[i] = Colon <=> i \in {2, 4})
    BY <1>1, <1>3, <2>3, <2>4
  <2>6. 2 * 1 - 1 = 1  OBVIOUS
  <2>7. /\ Len(s) = 2 * 1 - 1 /\ s[2 * 1 - 1] = p.target 
        /\ PublishedPort(p) = s \o (IF p.protocol = Tcp THEN <<>> ELSE <<Slash, p.protocol>>)
    BY <2>2, <2>3, <2>6 DEF a, b, x
  <2>8. (p.published = 0 <=> TRUE) /\ (p.address # <<>> <=> FALSE) /\ (FALSE => p.address = <<s[1]>>)
    BY <1>4, <1>6, <2>3 DEF a
  <2>9. \A i \in 1..Len(s) : s[i] # Slash /\ s[i] # Open /\ (s[i] = Colon <=> i \in {2, 4})  BY <2>5
  <2>10. s \in Text  BY <2>3
  <2> WITNESS 1 \in {1, 2, 3}, s \in Text
  <2> QED  BY <2>7, <2>8, <2>9
<1>7. CASE p.address = <<>> /\ a # 0
  <2> DEFINE s == <<a, Colon, b>>
  <2>1. <<>> \o <<a, Colon>> \o <<b>> = s
    <3> DEFINE X == Nat \cup Marks
    <3>1. a \in X /\ b \in X /\ Colon \in X  BY <1>1, <1>3
    <3> HIDE DEF X
    <3>2. <<a, Colon>> \in Seq(X)  BY <3>1
    <3>3. <<>> \o <<a, Colon>> = <<a, Colon>>  BY <3>2, ConcatEmptySeq
    <3>4. <<a, Colon>> \o <<b>> = s  BY <3>1, Beside
    <3> QED  BY <3>3, <3>4
  <2>2. PublishedPort(p) = s \o x  BY <1>5, <1>7, <2>1
  <2>3. s \in Text /\ Len(s) = 3 /\ s[1] = a /\ s[2] = Colon /\ s[3] = b  BY <1>1, <1>3 DEF Text
  <2> HIDE DEF s
  <2>4. \A i \in 1..Len(s) : i \in {1, 2, 3}  BY <2>3
  <2>5. \A i \in 1..Len(s) : s[i] # Slash /\ s[i] # Open /\ (s[i] = Colon <=> i \in {2, 4})
    BY <1>1, <1>3, <2>3, <2>4, MarksDiffer
  <2>6. 2 * 2 - 1 = 3 /\ 2 * 2 - 3 = 1  OBVIOUS
  <2>7. /\ Len(s) = 2 * 2 - 1 /\ s[2 * 2 - 1] = p.target /\ s[2 * 2 - 3] = p.published
        /\ PublishedPort(p) = s \o (IF p.protocol = Tcp THEN <<>> ELSE <<Slash, p.protocol>>)
    BY <2>2, <2>3, <2>6 DEF a, b, x
  <2>8. (p.published = 0 <=> FALSE) /\ (p.address # <<>> <=> FALSE) /\ (FALSE => p.address = <<s[1]>>)
    BY <1>4, <1>7, <2>3 DEF a
  <2>9. \A i \in 1..Len(s) : s[i] # Slash /\ s[i] # Open /\ (s[i] = Colon <=> i \in {2, 4})  BY <2>5
  <2>10. s \in Text  BY <2>3
  <2> WITNESS 2 \in {1, 2, 3}, s \in Text
  <2> QED  BY <2>7, <2>8, <2>9
<1>8. CASE p.address = <<V4>> /\ a # 0
  <2> DEFINE s == <<V4, Colon, a, Colon, b>>
  <2>1. Append(<<V4>>, Colon) \o <<a, Colon>> \o <<b>> = s
    <3> DEFINE X == Nat \cup Marks
    <3>1. a \in X /\ b \in X /\ Colon \in X /\ V4 \in X  BY <1>1, <1>3
    <3> HIDE DEF X
    <3>2. Append(<<V4>>, Colon) = <<V4, Colon>>
      <4>1. <<V4>> \in Seq(X) /\ Len(<<V4>>) = 1 /\ <<V4>>[1] = V4  BY <3>1
      <4> DEFINE r == Append(<<V4>>, Colon)
      <4>2. r \in Seq(X) /\ Len(r) = 2 /\ r[1] = V4 /\ r[2] = Colon
        BY <3>1, <4>1, AppendProperties
      <4> HIDE DEF r
      <4>3. <<V4, Colon>> \in Seq(X) /\ Len(<<V4, Colon>>) = 2  BY <3>1
      <4>4. \A i \in 1..Len(r) : i \in {1, 2}  BY <4>2
      <4>5. \A i \in 1..Len(r) : r[i] = <<V4, Colon>>[i]  BY <4>2, <4>4
      <4>6. r = <<V4, Colon>>  BY <4>2, <4>3, <4>5, SeqEqual
      <4> QED  BY <4>6 DEF r
    <3>3. <<V4, Colon>> \o <<a, Colon>> \o <<b>> = s  BY <3>1, Beside
    <3> QED  BY <3>2, <3>3
  <2>2. PublishedPort(p) = s \o x  BY <1>4, <1>5, <1>8, <2>1
  <2>3. s \in Text /\ Len(s) = 5 /\ s[1] = V4 /\ s[2] = Colon /\ s[3] = a /\ s[4] = Colon /\ s[5] = b
    BY <1>1, <1>3 DEF Text
  <2> HIDE DEF s
  <2>4. \A i \in 1..Len(s) : i \in {1, 2, 3, 4, 5}  BY <2>3
  <2>5. \A i \in 1..Len(s) : s[i] # Slash /\ s[i] # Open /\ (s[i] = Colon <=> i \in {2, 4})
    BY <1>1, <1>3, <2>3, <2>4, MarksDiffer
  <2>6. 2 * 3 - 1 = 5 /\ 2 * 3 - 3 = 3  OBVIOUS
  <2>7. /\ Len(s) = 2 * 3 - 1 /\ s[2 * 3 - 1] = p.target /\ s[2 * 3 - 3] = p.published
        /\ PublishedPort(p) = s \o (IF p.protocol = Tcp THEN <<>> ELSE <<Slash, p.protocol>>)
    BY <2>2, <2>3, <2>6 DEF a, b, x
  <2>8. (p.published = 0 <=> FALSE) /\ (p.address # <<>> <=> TRUE) /\ (TRUE => p.address = <<s[1]>>)
    BY <1>4, <1>8, <2>3 DEF a
  <2>9. \A i \in 1..Len(s) : s[i] # Slash /\ s[i] # Open /\ (s[i] = Colon <=> i \in {2, 4})  BY <2>5
  <2>10. s \in Text  BY <2>3
  <2> WITNESS 3 \in {1, 2, 3}, s \in Text
  <2> QED  BY <2>7, <2>8, <2>9
<1> QED  BY <1>2, <1>6, <1>7, <1>8

\* A compose port that PublishedPort can express is published as compose
\* publishes it, and Podman accepts it if there is such a port.
LEMMA PortConverted ==
  ASSUME NEW p \in ComposePort, Expressible(p)
  PROVE  /\ Published(PublishedPort(p)) = AsPublished(p)
         /\ p.published <= MaxPort => Publishable(PublishedPort(p))
<1>1. PICK n \in {1, 2, 3}, s \in Text :
        /\ PublishedPort(p) = s \o (IF p.protocol = Tcp THEN <<>> ELSE <<Slash, p.protocol>>)
        /\ Len(s) = 2 * n - 1
        /\ \A i \in 1..Len(s) : s[i] # Slash /\ s[i] # Open /\ (s[i] = Colon <=> i \in {2, 4})
        /\ s[2 * n - 1] = p.target
        /\ n = 1 <=> p.published = 0
        /\ n # 1 => s[2 * n - 3] = p.published
        /\ n = 3 <=> p.address # <<>>
        /\ n = 3 => p.address = <<s[1]>>
  BY PortTokens
<1> DEFINE X == Nat \cup Marks
           t == PublishedPort(p)
           f == Split(s, Colon)
           a == p.published
           b == p.target
<1>2. a \in Nat /\ b \in Nat /\ p.protocol \in {Tcp, Udp}  BY DEF ComposePort
<1>3. s \in Seq(X) /\ Slash \in X /\ Udp \in X /\ Colon \in X  BY DEF Text, Marks
<1>4. Cut(t) = [spec |-> s, protocol |-> <<p.protocol>>]
  <2>1. \A i \in 1..Len(s) : s[i] # Slash  BY <1>1
  <2>2. Udp # Slash /\ Tcp # Udp  BY MarksDiffer
  <2>3. /\ Cut(s) = [spec |-> s, protocol |-> <<Tcp>>]
        /\ Cut(s \o <<Slash, Udp>>) = [spec |-> s, protocol |-> <<Udp>>]
    BY <1>3, <2>1, <2>2, CutTokens
  <2>4. CASE p.protocol = Tcp
    <3>1. t = s  BY <1>1, <1>3, <2>4, ConcatEmptySeq
    <3> QED  BY <2>3, <2>4, <3>1
  <2>5. CASE p.protocol = Udp
    <3>1. t = s \o <<Slash, Udp>>  BY <1>1, <2>2, <2>5
    <3> QED  BY <2>3, <2>5, <3>1
  <2> QED  BY <1>2, <2>4, <2>5
<1>5. AddressEnd(s) = 0
  <2>1. 1 \in 1..Len(s)  BY <1>1
  <2>2. s[1] # Open  BY <1>1, <2>1
  <2> QED  BY <2>2 DEF AddressEnd
<1>6. Fields(s) = [address |-> <<>>, fields |-> f]  BY <1>5 DEF Fields, FieldsAfter
<1>7. Len(f) = n /\ \A k \in 1..n : f[k] = <<s[2 * k - 1]>>
  <2>1. \A i \in 1..Len(s) : s[i] = Colon <=> i \in {2, 4}  BY <1>1
  <2>2. Len(s) = 2 * n - 1  BY <1>1
  <2> QED  BY <1>3, <2>1, <2>2, SplitTokens
<1> HIDE DEF X, t, f, a, b
<1>8. \A m \in Nat : PortsOf(<<m>>) = {m}
  <2> SUFFICES ASSUME NEW m \in Nat PROVE PortsOf(<<m>>) = {m}  OBVIOUS
  <2>1. Len(<<m>>) = 1 /\ <<m>>[1] = m /\ Last(<<m>>) = m  BY DEF Last
  <2>2. PortsOf(<<m>>) = m..m  BY <2>1 DEF PortsOf, IsRange
  <2> QED  BY <2>2
<1>9. PortsOf(<<>>) = {}
  <2>1. Len(<<>>) = 0  OBVIOUS
  <2> QED  BY <2>1 DEF PortsOf, IsRange
<1>10. PortsOf(Last(f)) = {b}
  <2>1. Last(f) = f[n] /\ n \in 1..n  BY <1>7 DEF Last
  <2>2. f[n] = <<b>>  BY <1>1, <1>7, <2>1 DEF b
  <2> QED  BY <1>2, <1>8, <2>1, <2>2
<1>11. /\ Cut(t).spec = s /\ Cut(t).protocol = <<p.protocol>>
      /\ Fields(s).address = <<>> /\ Fields(s).fields = f
  BY <1>4, <1>6
<1>12. Published(t) = Publication(IF Len(f) = 3 THEN f[1] ELSE <<>>,
                                PortsOf(HostField(f)), {b}, <<p.protocol>>)
  BY <1>11, <1>10 DEF Published, PublicationOf
<1>13. Accepted(<<>>, f, PortsOf(HostField(f)), {b}) => Publishable(t)
  BY <1>11, <1>5, <1>10 DEF Publishable, AcceptedFrom, Closed
<1>14. CASE n = 1
  <2>1. HostField(f) = <<>> /\ Len(f) = 1  BY <1>7, <1>14 DEF HostField
  <2>2. a = 0 /\ p.address = <<>>  BY <1>1, <1>14 DEF a
  <2>3. Published(t) = Publication(<<>>, {}, {b}, <<p.protocol>>)
    <3>1. (IF Len(f) = 3 THEN f[1] ELSE <<>>) = <<>>  BY <2>1
    <3> QED  BY <1>9, <1>12, <2>1, <3>1
  <2>4. AsPublished(p) = Publication(<<>>, {}, {b}, <<p.protocol>>)
    BY <2>2 DEF AsPublished, a, b
  <2>5. Publishable(t)
    <3>1. Accepted(<<>>, f, {}, {b})  BY <2>1 DEF Accepted
    <3> QED  BY <1>9, <1>13, <2>1, <3>1
  <2> QED  BY <2>3, <2>4, <2>5 DEF t
<1>15. CASE n # 1
  <2>1. HostField(f) = <<a>>
    <3>1. HostField(f) = f[n - 1] /\ n - 1 \in 1..n /\ 2 * (n - 1) - 1 = 2 * n - 3
      BY <1>7, <1>15 DEF HostField
    <3>2. f[n - 1] = <<s[2 * n - 3]>>  BY <1>7, <3>1
    <3> QED  BY <1>1, <1>15, <3>1, <3>2 DEF a
  <2>2. PortsOf(HostField(f)) = {a}  BY <1>2, <1>8, <2>1
  <2>3. a # 0 /\ {a} \ {0} = {a}  BY <1>1, <1>15 DEF a
  <2>4. (IF Len(f) = 3 THEN f[1] ELSE <<>>) = p.address
    <3>1. CASE n = 3
      <4>1. f[1] = <<s[1]>>  BY <1>7, <3>1
      <4> QED  BY <1>1, <1>7, <3>1, <4>1
    <3>2. CASE n # 3  BY <1>1, <1>7, <3>2
    <3> QED  BY <3>1, <3>2
  <2>5. Published(t) = Publication(p.address, {a}, {b}, <<p.protocol>>)
    BY <1>12, <2>2, <2>4
  <2>6. AsPublished(p) = Publication(p.address, {a}, {b}, <<p.protocol>>)
    BY <2>3 DEF AsPublished, a, b
  <2>7. a <= MaxPort => Publishable(t)
    <3> SUFFICES ASSUME a <= MaxPort PROVE Publishable(t)  OBVIOUS
    <3>1. {a} \subseteq 1..MaxPort
      <4>1. a >= 1 /\ MaxPort \in Nat  BY <1>2, <2>3 DEF MaxPort
      <4> QED  BY <1>2, <4>1
    <3>2. Cardinality({a}) = Cardinality({b})  BY FS_Singleton
    <3>3. Len(f) <= 3  BY <1>7
    <3>4. Accepted(<<>>, f, {a}, {b})  BY <3>1, <3>2, <3>3 DEF Accepted
    <3> QED  BY <1>13, <2>2, <3>4
  <2> QED  BY <2>5, <2>6, <2>7 DEF t, a
<1> QED  BY <1>14, <1>15

-----------------------------------------------------------------------------
(* Types.                                                                  *)

Rules == {"QD010", "QD011", "QD012", "QD013", "QD020", "QD021", "QD022", "QD023",
          "QD031", "QD040", "QD042", "QD043"}

\* The findings of a rule.
RuleFindings(rule, p, h, k) ==
  CASE rule = "QD010" -> checkQD010(p)
    [] rule = "QD011" -> checkQD011(p)
    [] rule = "QD012" -> checkQD012(p)
    [] rule = "QD013" -> checkQD013(p, h, k)
    [] rule = "QD020" -> checkQD020(p)
    [] rule = "QD021" -> checkQD021(p)
    [] rule = "QD022" -> checkQD022(p)
    [] rule = "QD023" -> checkQD023(p)
    [] rule = "QD031" -> checkQD031(p, h, k)
    [] rule = "QD040" -> checkQD040(p)
    [] rule = "QD042" -> checkQD042(p)
    [] rule = "QD043" -> checkQD043(p)

\* Every finding cites the rule that made it, and a unit of the project.
LEMMA FoundBy ==
  ASSUME NEW p, NEW h, NEW k, NEW f \in Findings(p, h, k)
  PROVE  /\ f.rule \in Rules /\ f.unit \in Containers
         /\ f = At(f.rule, f.unit, f.at) /\ f \in RuleFindings(f.rule, p, h, k)
<1>1. CASE f \in checkQD010(p)
  BY <1>1 DEF checkQD010, At, Rules, RuleFindings, Mounts
<1>2. CASE f \in checkQD011(p)
  BY <1>2 DEF checkQD011, At, Rules, RuleFindings
<1>3. CASE f \in checkQD012(p)
  BY <1>3 DEF checkQD012, At, Rules, RuleFindings, Mounts
<1>4. CASE f \in checkQD013(p, h, k)
  <2>1. f.rule = "QD013" /\ f.unit \in Containers /\ f = At(f.rule, f.unit, f.at)
    BY <1>4 DEF checkQD013, At
  <2> QED  BY <1>4, <2>1 DEF Rules, RuleFindings
<1>5. CASE f \in checkQD020(p)
  <2> DEFINE S == {q \in Containers \X Containers : {q[2]} \in p[q[1]].after /\ ~p[q[2]].notify}
  <2>0. checkQD020(p) = {At("QD020", q[1], q[2]) : q \in S} /\ S \subseteq Containers \X Containers
    BY DEF checkQD020
  <2> HIDE DEF S
  <2>1. f.rule = "QD020" /\ f.unit \in Containers /\ f = At(f.rule, f.unit, f.at)
    BY <1>5, <2>0 DEF At
  <2> QED  BY <1>5, <2>1 DEF Rules, RuleFindings
<1>6. CASE f \in checkQD021(p)
  BY <1>6 DEF checkQD021, At, Rules, RuleFindings
<1>7. CASE f \in checkQD022(p)
  BY <1>7 DEF checkQD022, At, Rules, RuleFindings
<1>8. CASE f \in checkQD023(p)
  BY <1>8 DEF checkQD023, At, Rules, RuleFindings
<1>9. CASE f \in checkQD031(p, h, k)
  <2>1. f.rule = "QD031" /\ f.unit \in Containers /\ f = At(f.rule, f.unit, f.at)
    BY <1>9 DEF checkQD031, At
  <2> QED  BY <1>9, <2>1 DEF Rules, RuleFindings
<1>10. CASE f \in checkQD040(p)
  <2>1. f.rule = "QD040" /\ f.unit \in Containers /\ f = At(f.rule, f.unit, f.at)
    BY <1>10 DEF checkQD040, At
  <2> QED  BY <1>10, <2>1 DEF Rules, RuleFindings
<1>11. CASE f \in checkQD042(p)
  <2>1. f.rule = "QD042" /\ f.unit \in Containers /\ f = At(f.rule, f.unit, f.at)
    BY <1>11 DEF checkQD042, At
  <2> QED  BY <1>11, <2>1 DEF Rules, RuleFindings
<1>12. CASE f \in checkQD043(p)
  BY <1>12 DEF checkQD043, At, Rules, RuleFindings
<1> QED
  BY <1>1, <1>2, <1>3, <1>4, <1>5, <1>6, <1>7, <1>8, <1>9, <1>10, <1>11, <1>12 DEF Findings

\* What a rule finds is found.
LEMMA RuleCounts ==
  ASSUME NEW p, NEW h, NEW k, NEW rule \in Rules
  PROVE  RuleFindings(rule, p, h, k) \subseteq Findings(p, h, k)
BY DEF Findings, RuleFindings, Rules

\* What it takes for a rule to find fault with a unit at a key or line.
AtFault(rule, c, at, p, h, k) ==
  LET u == p[c]
      m == u.mounts[at]
      Rootful == "rootless" \in k /\ ~h.rootless
  IN
  CASE rule = "QD010" -> /\ at \in Lines /\ m # NoMount /\ runsAsNonRoot(u)
                         /\ ~u.keepId /\ m.kind = "bind" /\ ~m.ro /\ ~m.chown
    [] rule = "QD011" -> at = "GroupAdd" /\ "name" \in u.groupAdd
    [] rule = "QD012" -> /\ at \in Lines /\ m # NoMount /\ runsAsNonRoot(u)
                         /\ m.kind = "named" /\ ~m.chown /\ autoChownDefeated(p, c, m)
    [] rule = "QD013" -> /\ ~Rootful
                         /\ \/ /\ at = "uid" /\ "subuid" \in k /\ u.user \in Nat
                               /\ outsideRange(u.user, h.subuid)
                            \/ /\ at = "gid" /\ "subgid" \in k /\ groupID(u) \in Nat
                               /\ outsideRange(groupID(u), h.subgid)
    [] rule = "QD020" -> at \in Containers /\ {at} \in u.after /\ ~p[at].notify
    [] rule = "QD021" -> at = "Restart" /\ u.restart = "unless-stopped"
    [] rule = "QD022" -> at = "Install" /\ u.install = {}
    [] rule = "QD023" -> at \in InstallKeys /\ at \in u.install \ installKeysHonoured
    [] rule = "QD031" -> /\ ~Rootful /\ at = "PublishPort"
                         /\ HostPort(u.port) \in 1..Threshold(h, k) - 1
    [] rule = "QD040" -> /\ HasImage(u)
                         /\ \/ at = "registry" /\ ~u.image.registry
                            \/ at = "digest" /\ u.autoUpdate /\ u.image.registry /\ u.image.digest
                            \/ at = "tag" /\ u.autoUpdate /\ u.image.registry /\ Floating(u.image)
    [] rule = "QD042" -> \/ at = "Volumes" /\ u.volumes # NoMount
                         \/ at = "image" /\ u.image # NoImage /\ u.imageKey = "image"
                         \/ at = "RemapUsers" /\ u.remap
    [] rule = "QD043" -> at = "Image" /\ ~HasImage(u) /\ ~u.rootfs

\* Findings made from pairs of a unit and a line, key or unit.
LEMMA AtPairs ==
  ASSUME NEW A, NEW B, NEW S \in SUBSET (A \X B), NEW rule, NEW c, NEW at
  PROVE  At(rule, c, at) \in {At(rule, q[1], q[2]) : q \in S} <=> <<c, at>> \in S
<1>1. ASSUME At(rule, c, at) \in {At(rule, q[1], q[2]) : q \in S} PROVE <<c, at>> \in S
  <2>1. PICK q \in S : At(rule, c, at) = At(rule, q[1], q[2])  BY <1>1
  <2>2. c = q[1] /\ at = q[2]  BY <2>1 DEF At
  <2>3. q = <<q[1], q[2]>>  OBVIOUS
  <2> QED  BY <2>2, <2>3
<1>2. ASSUME <<c, at>> \in S PROVE At(rule, c, at) \in {At(rule, q[1], q[2]) : q \in S}
  BY <1>2
<1> QED  BY <1>1, <1>2

\* That is when it does.
LEMMA FoundWhen ==
  ASSUME NEW p, NEW h, NEW k, NEW rule \in Rules, NEW c \in Containers, NEW at
  PROVE  At(rule, c, at) \in Findings(p, h, k) <=> AtFault(rule, c, at, p, h, k)
<1> DEFINE f == At(rule, c, at)
<1>0. f.rule = rule /\ f.unit = c /\ f.at = at  BY DEF At
<1>1. f \in Findings(p, h, k) <=> f \in RuleFindings(rule, p, h, k)
  BY <1>0, FoundBy, RuleCounts
<1>2. f \in RuleFindings(rule, p, h, k) <=> AtFault(rule, c, at, p, h, k)
  <2>1. CASE rule = "QD010"
    <3>1. RuleFindings(rule, p, h, k) = checkQD010(p)  BY <2>1 DEF RuleFindings
    <3> DEFINE S == {q \in Mounts(p) :
                  LET u == p[q[1]]  m == u.mounts[q[2]]
                  IN  runsAsNonRoot(u) /\ ~u.keepId /\ m.kind = "bind" /\ ~m.ro /\ ~m.chown}
    <3>2. checkQD010(p) = {At("QD010", q[1], q[2]) : q \in S}  BY DEF checkQD010
    <3>3. S \in SUBSET (Containers \X Lines)  BY DEF Mounts
    <3>4. <<c, at>> \in S <=> AtFault(rule, c, at, p, h, k)  BY <2>1 DEF AtFault, Mounts
    <3> HIDE DEF S
    <3>5. f \in checkQD010(p) <=> <<c, at>> \in S  BY <2>1, <3>2, <3>3, AtPairs
    <3> QED  BY <3>1, <3>4, <3>5
  <2>2. CASE rule = "QD011"  BY <2>2 DEF RuleFindings, checkQD011, AtFault, At
  <2>3. CASE rule = "QD012"
    <3>1. RuleFindings(rule, p, h, k) = checkQD012(p)  BY <2>3 DEF RuleFindings
    <3> DEFINE S == {q \in Mounts(p) :
                  LET u == p[q[1]]  m == u.mounts[q[2]]
                  IN  /\ runsAsNonRoot(u) /\ m.kind = "named" /\ ~m.chown
                      /\ autoChownDefeated(p, q[1], m)}
    <3>2. checkQD012(p) = {At("QD012", q[1], q[2]) : q \in S}  BY DEF checkQD012
    <3>3. S \in SUBSET (Containers \X Lines)  BY DEF Mounts
    <3>4. <<c, at>> \in S <=> AtFault(rule, c, at, p, h, k)  BY <2>3 DEF AtFault, Mounts
    <3> HIDE DEF S
    <3>5. f \in checkQD012(p) <=> <<c, at>> \in S  BY <2>3, <3>2, <3>3, AtPairs
    <3> QED  BY <3>1, <3>4, <3>5
  <2>4. CASE rule = "QD013"
    <3>1. RuleFindings(rule, p, h, k) = checkQD013(p, h, k)  BY <2>4 DEF RuleFindings
    <3>2. CASE "rootless" \in k /\ ~h.rootless
      BY <2>4, <3>1, <3>2 DEF checkQD013, AtFault
    <3>3. CASE ~("rootless" \in k /\ ~h.rootless)
      BY <2>4, <3>1, <3>3 DEF checkQD013, AtFault, At
    <3> QED  BY <3>2, <3>3
  <2>5. CASE rule = "QD020"
    <3>1. RuleFindings(rule, p, h, k) = checkQD020(p)  BY <2>5 DEF RuleFindings
    <3> DEFINE S == {q \in Containers \X Containers : {q[2]} \in p[q[1]].after /\ ~p[q[2]].notify}
    <3>2. checkQD020(p) = {At("QD020", q[1], q[2]) : q \in S}  BY DEF checkQD020
    <3>3. S \in SUBSET (Containers \X Containers)  BY DEF Mounts
    <3>4. <<c, at>> \in S <=> AtFault(rule, c, at, p, h, k)  BY <2>5 DEF AtFault, Mounts
    <3> HIDE DEF S
    <3>5. f \in checkQD020(p) <=> <<c, at>> \in S  BY <2>5, <3>2, <3>3, AtPairs
    <3> QED  BY <3>1, <3>4, <3>5
  <2>6. CASE rule = "QD021"  BY <2>6 DEF RuleFindings, checkQD021, AtFault, At
  <2>7. CASE rule = "QD022"  BY <2>7 DEF RuleFindings, checkQD022, AtFault, At
  <2>8. CASE rule = "QD023"
    <3>1. RuleFindings(rule, p, h, k) = checkQD023(p)  BY <2>8 DEF RuleFindings
    <3> DEFINE S == {q \in Containers \X InstallKeys : q[2] \in p[q[1]].install \ installKeysHonoured}
    <3>2. checkQD023(p) = {At("QD023", q[1], q[2]) : q \in S}  BY DEF checkQD023
    <3>3. S \in SUBSET (Containers \X InstallKeys)  BY DEF Mounts
    <3>4. <<c, at>> \in S <=> AtFault(rule, c, at, p, h, k)  BY <2>8 DEF AtFault, Mounts
    <3> HIDE DEF S
    <3>5. f \in checkQD023(p) <=> <<c, at>> \in S  BY <2>8, <3>2, <3>3, AtPairs
    <3> QED  BY <3>1, <3>4, <3>5
  <2>9. CASE rule = "QD031"
    <3>1. RuleFindings(rule, p, h, k) = checkQD031(p, h, k)  BY <2>9 DEF RuleFindings
    <3>2. CASE "rootless" \in k /\ ~h.rootless
      BY <2>9, <3>1, <3>2 DEF checkQD031, AtFault
    <3>3. CASE ~("rootless" \in k /\ ~h.rootless)
      BY <2>9, <3>1, <3>3 DEF checkQD031, AtFault, At
    <3> QED  BY <3>2, <3>3
  <2>10. CASE rule = "QD040"
    <3>1. RuleFindings(rule, p, h, k) = checkQD040(p)  BY <2>10 DEF RuleFindings
    <3> QED  BY <2>10, <3>1 DEF checkQD040, AtFault, At
  <2>11. CASE rule = "QD042"
    <3>1. RuleFindings(rule, p, h, k) = checkQD042(p)  BY <2>11 DEF RuleFindings
    <3> QED  BY <2>11, <3>1 DEF checkQD042, AtFault, At
  <2>12. CASE rule = "QD043"  BY <2>12 DEF RuleFindings, checkQD043, AtFault, At
  <2> QED
    BY <2>1, <2>2, <2>3, <2>4, <2>5, <2>6, <2>7, <2>8, <2>9, <2>10, <2>11, <2>12 DEF Rules
<1> QED  BY <1>1, <1>2

\* The total a host maps, and its ranges once extended.
LEMMA HostTypes ==
  ASSUME NEW h \in Host, NEW f
  PROVE  /\ Total(h.subuid) \in Nat /\ Total(h.subgid) \in Nat
         /\ Extended(h, f) \in Host
         /\ \A u : Admitting(h, u) \in Host
<1>1. h.subuid \in Seq(Nat) /\ h.subgid \in Seq(Nat)  BY DEF Host
<1>2. Total(h.subuid) \in Nat /\ Total(h.subgid) \in Nat  BY <1>1, TotalType
<1>3. Append(h.subuid, 65536) \in Seq(Nat) /\ Append(h.subgid, 65536) \in Seq(Nat)
  <2>1. \A s \in Seq(Nat), n \in Nat : Append(s, n) \in Seq(Nat)  BY AppendProperties
  <2>2. 65536 \in Nat  OBVIOUS
  <2> QED  BY ONLY <1>1, <2>1, <2>2
<1>4. Extended(h, f) \in Host
  <2>1. Extended(h, f) = IF f.at = "uid" THEN [h EXCEPT !.subuid = Append(h.subuid, 65536)]
                                         ELSE [h EXCEPT !.subgid = Append(h.subgid, 65536)]
    BY DEF Extended
  <2> DEFINE a == Append(h.subuid, 65536)  b == Append(h.subgid, 65536)
  <2> HIDE DEF a, b
  <2>2. \A x \in Seq(Nat) : [h EXCEPT !.subuid = x] \in Host /\ [h EXCEPT !.subgid = x] \in Host
    BY DEF Host
  <2>3. a \in Seq(Nat) /\ b \in Seq(Nat)  BY <1>3 DEF a, b
  <2>4. Extended(h, f) = IF f.at = "uid" THEN [h EXCEPT !.subuid = a] ELSE [h EXCEPT !.subgid = b]
    BY <2>1 DEF a, b
  <2> QED  BY <2>2, <2>3, <2>4
<1>5. ASSUME NEW u PROVE Admitting(h, u) \in Host
  <2>1. HostPort(u.port) \in Nat  BY HostPortIs
  <2> QED  BY <2>1 DEF Admitting, Host
<1> QED  BY <1>2, <1>4, <1>5

\* What the reader writes in the place of a unit is a unit.
LEMMA RemedyTypes ==
  ASSUME NEW p \in [Containers -> Unit], NEW h \in Host, NEW k, NEW f \in Findings(p, h, k),
         NEW u \in Remedies(p[f.unit], f, h)
  PROVE  u \in Unit
<1> DEFINE v == p[f.unit]
<1>1. /\ f.rule \in Rules /\ f.unit \in Containers
      /\ AtFault(f.rule, f.unit, f.at, p, h, k)
  BY FoundBy, FoundWhen
<1>2. v \in Unit /\ u \in Remedies(v, f, h)  BY <1>1
<1> DEFINE Fault == AtFault(f.rule, f.unit, f.at, p, h, k)
           Mounted == [Lines -> Mount \cup {NoMount}]
<1> HIDE DEF v
<1>u. v \in Unit  BY <1>2
<1>3. \A l \in Lines : v.mounts[l] # NoMount => Chowned(v, l) \in Unit
  <2> SUFFICES ASSUME NEW l \in Lines, v.mounts[l] # NoMount PROVE Chowned(v, l) \in Unit  OBVIOUS
  <2> DEFINE w == [v.mounts EXCEPT ![l] = [v.mounts[l] EXCEPT !.chown = TRUE]]
  <2>1. v.mounts \in Mounted /\ \A x \in Mounted : [v EXCEPT !.mounts = x] \in Unit
    BY ONLY <1>u DEF Unit
  <2>2. v.mounts[l] \in Mount  BY <2>1
  <2>3. [v.mounts[l] EXCEPT !.chown = TRUE] \in Mount  BY <2>2 DEF Mount
  <2>4. w \in Mounted  BY <2>1, <2>3
  <2>5. Chowned(v, l) = [v EXCEPT !.mounts = w]  BY ONLY <1>u DEF Chowned, Unit
  <2> HIDE DEF w
  <2> QED  BY ONLY <2>1, <2>4, <2>5
<1>a. [v EXCEPT !.keepId = TRUE] \in Unit  BY <1>2 DEF Unit
<1>b. \A i \in Image : [v EXCEPT !.image = i] \in Unit  BY <1>2 DEF Unit
<1>c. \A i \in Image : [v EXCEPT !.image = i, !.imageKey = "Image"] \in Unit  BY <1>2 DEF Unit
<1>d. [v EXCEPT !.rootfs = TRUE] \in Unit  BY <1>2 DEF Unit
<1>e. [v EXCEPT !.autoUpdate = FALSE] \in Unit  BY <1>2 DEF Unit
<1>f. \A i \in ID : /\ [v EXCEPT !.user = i] \in Unit /\ [v EXCEPT !.userGroup = i] \in Unit
                     /\ [v EXCEPT !.group = i] \in Unit
  BY <1>2 DEF Unit
<1>g. [v EXCEPT !.imageKey = "Image"] \in Unit /\ [v EXCEPT !.remap = FALSE] \in Unit  BY <1>2 DEF Unit
<1>h. \A m \in [Lines -> Mount \cup {NoMount}] : [v EXCEPT !.volumes = NoMount, !.mounts = m] \in Unit
  BY <1>2 DEF Unit
<1>4. CASE f.rule = "QD010"
  <2>1. f.at \in Lines /\ v.mounts[f.at] # NoMount  BY <1>1, <1>4 DEF AtFault, v
  <2>2. u = [v EXCEPT !.keepId = TRUE] \/ u = Chowned(v, f.at)  BY <1>2, <1>4 DEF Remedies
  <2> QED  BY <1>3, <1>a, <2>1, <2>2
<1>5. CASE f.rule = "QD011"
  <2>1. PICK g \in {"keep-groups", "1001"} : u = [v EXCEPT !.groupAdd = (v.groupAdd \ {"name"}) \cup {g}]
    BY <1>2, <1>5 DEF Remedies
  <2> QED  BY <1>2, <2>1 DEF Unit
<1>6. CASE f.rule = "QD012"
  <2>1. f.at \in Lines /\ v.mounts[f.at] # NoMount  BY <1>1, <1>6 DEF AtFault, v
  <2>2. u = Chowned(v, f.at)  BY <1>2, <1>6 DEF Remedies
  <2> QED  BY <1>2, <1>3, <2>1, <2>2 DEF Unit
<1>7. CASE f.rule = "QD013"
  <2>1. u = WithinRange(v, f.at, h)  BY <1>2, <1>7 DEF Remedies
  <2>2. Total(h.subuid) \in ID /\ Total(h.subgid) \in ID  BY HostTypes DEF ID
  <2> QED  BY <1>f, <2>1, <2>2 DEF WithinRange
<1>8. CASE f.rule = "QD021"
  <2>1. u = [v EXCEPT !.restart = "always", !.install = v.install \cup {"WantedBy"}]
    BY <1>2, <1>8 DEF Remedies
  <2> QED  BY <1>2, <2>1 DEF Unit, InstallKeys
<1>9. CASE f.rule = "QD022"
  <2>1. u = [v EXCEPT !.install = {"WantedBy"}]  BY <1>2, <1>9 DEF Remedies
  <2> QED  BY <1>2, <2>1 DEF Unit, InstallKeys
<1>10. CASE f.rule = "QD023"
  <2>1. u = [v EXCEPT !.install = v.install \ {f.at}]  BY <1>2, <1>10 DEF Remedies
  <2> QED  BY <1>2, <2>1 DEF Unit
<1>11. CASE f.rule = "QD031"
  <2>1. u = [v EXCEPT !.port = shiftedPublish(v.port, 8000)]  BY <1>2, <1>11 DEF Remedies
  <2>2. shiftedPublish(v.port, 8000) \in Text
    <3>1. v.port \in Text  BY <1>2 DEF Unit
    <3>2. 8000 \in Nat  OBVIOUS
    <3> QED  BY ONLY <3>1, <3>2, ShiftIs
  <2> HIDE DEF v
  <2>3. \A t \in Text : [v EXCEPT !.port = t] \in Unit  BY <1>2 DEF Unit
  <2> QED  BY <2>1, <2>2, <2>3
<1>12. CASE f.rule = "QD040"
  <2>1. v.image # NoImage /\ f.at \in {"registry", "digest", "tag"}
    BY <1>1, <1>12 DEF AtFault, HasImage, v
  <2>2. v.image \in Image  BY <1>2, <2>1 DEF Unit
  <2>3. Qualified(v.image) \in Image /\ Pinned(v.image) \in Image
    BY <2>2 DEF Qualified, Pinned, Image
  <2>4. \/ u = [v EXCEPT !.image = Qualified(v.image)]
        \/ u = [v EXCEPT !.image = Pinned(v.image)]
        \/ u = [v EXCEPT !.autoUpdate = FALSE]
    BY <1>2, <1>12, <2>1 DEF Remedies
  <2> QED  BY <1>b, <1>e, <2>3, <2>4
<1>13. CASE f.rule = "QD042"
  <2>1. f.at \in {"Volumes", "image", "RemapUsers"}  BY <1>1, <1>13 DEF AtFault
  <2>2. u = Renamed(v, f.at)  BY <1>2, <1>13 DEF Remedies
  <2>3. f.at = "Volumes" => u = [v EXCEPT !.volumes = NoMount,
                                          !.mounts = [v.mounts EXCEPT ![LateLine] = v.volumes]]
    BY <1>2, <2>2 DEF Renamed, Unit
  <2>4. f.at # "Volumes" => u = [v EXCEPT !.imageKey = "Image"] \/ u = [v EXCEPT !.remap = FALSE]
    BY <2>1, <2>2 DEF Renamed
  <2>5. [v.mounts EXCEPT ![LateLine] = v.volumes] \in [Lines -> Mount \cup {NoMount}]
    BY <1>2 DEF Unit
  <2> QED  BY <1>g, <1>h, <2>3, <2>4, <2>5
<1>14. CASE f.rule = "QD043"
  <2>1. u = [v EXCEPT !.image = AnImage, !.imageKey = "Image"] \/ u = [v EXCEPT !.rootfs = TRUE]
    BY <1>2, <1>14 DEF Remedies
  <2>2. AnImage \in Image  BY DEF AnImage, Image
  <2> QED  BY <1>c, <1>d, <2>1, <2>2
<1>15. CASE f.rule = "QD020"
  <2>1. u = v  BY <1>2, <1>15 DEF Remedies
  <2> QED  BY <1>2, <2>1
<1> QED
  BY <1>1, <1>4, <1>5, <1>6, <1>7, <1>8, <1>9, <1>10, <1>11, <1>12, <1>13, <1>14, <1>15 DEF Rules

\* The machine's state is what TypeOK says, from the first step on.
LEMMA TypeInit == Init => TypeOK
<1> SUFFICES ASSUME Init PROVE TypeOK  OBVIOUS
<1>1. PICK s \in Situations : prj = s.prj /\ host = s.host /\ known = s.known  BY DEF Init
<1>2. prj \in [Containers -> Unit] /\ host \in Host /\ known \subseteq Facts
  BY <1>1, SituationsAssumption
<1>3. mends \in 0..MaxMends  BY BoundAssumption DEF Init
<1>4. runsAs \in [Containers -> Nat] /\ state \in [Containers -> States]  BY DEF Init, States
<1>5. owner \in [Places -> Nat \cup {Fresh}]  BY DEF Init
<1> QED  BY <1>2, <1>3, <1>4, <1>5 DEF Init, TypeOK

\* What a mishap says.
LEMMA MishapSays ==
  \A what, c, at : /\ Mishap(what, c, at).what = what /\ Mishap(what, c, at).unit = c
                   /\ Mishap(what, c, at).at = at
BY DEF Mishap

\* Every step keeps the types.
LEMMA TypeStep == TypeOK /\ [Next]_vars => TypeOK'
<1> SUFFICES ASSUME TypeOK, [Next]_vars PROVE TypeOK'  OBVIOUS
<1>0. /\ prj \in [Containers -> Unit] /\ host \in Host /\ known \subseteq Facts
      /\ mends \in 0..MaxMends /\ (\A f \in mended : f.unit \in Containers)
      /\ phase \in {"lint", "booted"}
      /\ runsAs \in [Containers -> Nat] /\ state \in [Containers -> States]
      /\ owner \in [Places -> Nat \cup {Fresh}] /\ (\A m \in mishaps : m.unit \in Containers)
  BY DEF TypeOK
<1>1. CASE \E f \in Found : Mend(f)
  <2>1. PICK f \in Found : Mend(f)  BY <1>1
  <2>2. f \in Findings(prj, host, known)  BY DEF Found
  <2>3. f.unit \in Containers /\ f.rule \in Rules /\ AtFault(f.rule, f.unit, f.at, prj, host, known)
    BY <2>2, FoundBy, FoundWhen
  <2>4. /\ mends < MaxMends /\ mends' = mends + 1 /\ mended' = mended \cup {f}
        /\ UNCHANGED <<known, phase, runsAs, state, owner, mishaps>>
    BY <2>1 DEF Mend
  <2>5. prj' \in [Containers -> Unit] /\ host' \in Host
    <3>1. CASE /\ f.rule # "QD020"
               /\ \E u \in Remedies(prj[f.unit], f, host) : prj' = [prj EXCEPT ![f.unit] = u]
               /\ host' = host
      <4>1. PICK u \in Remedies(prj[f.unit], f, host) : prj' = [prj EXCEPT ![f.unit] = u]  BY <3>1
      <4>2. u \in Unit  BY <1>0, <2>2, RemedyTypes
      <4> QED  BY <1>0, <3>1, <4>1, <4>2
    <3>2. CASE f.rule = "QD020" /\ prj' = [prj EXCEPT ![f.at] = Notifying(@)] /\ host' = host
      <4>1. f.at \in Containers  BY <2>3, <3>2 DEF AtFault
      <4>2. prj[f.at] \in Unit  BY <1>0, <4>1
      <4>3. Notifying(prj[f.at]) \in Unit  BY <4>2 DEF Notifying, Unit
      <4> QED  BY <1>0, <3>2, <4>3
    <3>3. CASE host' = Extended(host, f) /\ prj' = prj  BY <1>0, <3>3, HostTypes
    <3>4. CASE host' = Admitting(host, prj[f.unit]) /\ prj' = prj  BY <1>0, <3>4, HostTypes
    <3> QED  BY <2>1, <3>1, <3>2, <3>3, <3>4 DEF Mend
  <2>6. mends' \in 0..MaxMends
    <3>1. \A m \in 0..MaxMends : m < MaxMends => m + 1 \in 0..MaxMends  BY BoundAssumption
    <3> QED  BY <1>0, <2>4, <3>1
  <2> QED  BY <1>0, <2>3, <2>4, <2>5, <2>6 DEF TypeOK
<1>2. CASE Boot
  <2>1. runsAs' \in [Containers -> Nat]  BY <1>2 DEF Boot
  <2>2. state' \in [Containers -> States]  BY <1>2 DEF Boot, States
  <2>3. \A m \in mishaps' : m.unit \in Containers
    <3>1. \A m \in {Mishap("rejected", c, "unit") : c \in {d \in Containers : Rejected(prj[d])}} :
             m.unit \in Containers  BY MishapSays
    <3>2. \A m \in {Mishap("conflict", c, "unit") : c \in {d \in Containers : Conflicting(prj[d])}} :
             m.unit \in Containers  BY MishapSays
    <3>3. \A m \in {Mishap("idle", c, "unit") : c \in {d \in Containers : ~Wanted(prj[d])}} :
             m.unit \in Containers  BY MishapSays
    <3> QED  BY <1>2, <3>1, <3>2, <3>3 DEF Boot
  <2> QED  BY <1>0, <1>2, <2>1, <2>2, <2>3 DEF Boot, TypeOK
<1>3. ASSUME NEW c \in Containers, Launch(c) PROVE TypeOK'
  <2>1. Owners(c) \in [Places -> Nat \cup {Fresh}]
    <3>1. runsAs[c] \in Nat /\ \A m : As(c, m) \in Nat  BY <1>0 DEF As
    <3> QED  BY <1>0, <3>1 DEF Owners
  <2>2. owner' \in [Places -> Nat \cup {Fresh}]  BY <1>0, <1>3, <2>1 DEF Launch
  <2>3. state' \in [Containers -> States]  BY <1>0, <1>3 DEF Launch, States
  <2>4. \A m \in Unpublishable(c) \cup Unmapped(c) \cup Unbindable(c) \cup Raced(c) : m.unit \in Containers
    <3>1. \A m \in Unpublishable(c) : m.unit \in Containers  BY DEF Unpublishable, Mishap
    <3>2. \A m \in Unmapped(c) : m.unit \in Containers  BY DEF Unmapped, Mishap
    <3>3. \A m \in Unbindable(c) : m.unit \in Containers  BY DEF Unbindable, Mishap
    <3>4. \A m \in Raced(c) : m.unit \in Containers  BY DEF Raced, Mishap
    <3> QED  BY <3>1, <3>2, <3>3, <3>4
  <2>5. \A m \in Denied(c, Owners(c)) : m.unit \in Containers
    BY DEF Denied, Mishap
  <2>6. \A m \in {Mishap("ungrouped", c, "unit") : g \in prj[c].groupAdd \cap {"name"}} : m.unit \in Containers
    BY MishapSays
  <2>7. mishaps' \subseteq mishaps \cup Unpublishable(c) \cup Unmapped(c) \cup Unbindable(c) \cup Raced(c)
           \cup Denied(c, Owners(c)) \cup {Mishap("ungrouped", c, "unit") : g \in prj[c].groupAdd \cap {"name"}}
    BY <1>3 DEF Launch
  <2>8. \A m \in mishaps' : m.unit \in Containers  BY <1>0, <2>4, <2>5, <2>6, <2>7
  <2> QED  BY <1>0, <1>3, <2>2, <2>3, <2>8 DEF Launch, TypeOK
<1>4. ASSUME NEW c \in Containers, StartByHand(c) PROVE TypeOK'
  BY <1>0, <1>4 DEF StartByHand, TypeOK, States
<1>5. ASSUME NEW c \in Containers, BecomeReady(c) PROVE TypeOK'
  BY <1>0, <1>5 DEF BecomeReady, TypeOK, States
<1>6. ASSUME NEW c \in Containers, TimeOut(c) PROVE TypeOK'
  BY <1>0, <1>6 DEF TimeOut, TypeOK, States
<1>7. ASSUME NEW c \in Containers, Exit(c) PROVE TypeOK'
  <2>1. state' \in [Containers -> States]  BY <1>0, <1>7 DEF Exit, States
  <2>2. \A m \in mishaps' : m.unit \in Containers  BY <1>0, <1>7 DEF Exit, Mishap
  <2> QED  BY <1>0, <1>7, <2>1, <2>2 DEF Exit, TypeOK
<1>8. CASE UNCHANGED vars  BY <1>0, <1>8 DEF vars, TypeOK
<1> QED  BY <1>1, <1>2, <1>3, <1>4, <1>5, <1>6, <1>7, <1>8 DEF Next

\* Whatever is mended and however the machine goes about it, the project stays
\* a project, the host a host, and owners and users stay IDs.
THEOREM BootTypes == Spec => []TypeOK
BY TypeInit, TypeStep, PTL DEF Spec

-----------------------------------------------------------------------------
(* FailuresAreForetold.                                                    *)

\* Before the machine boots nothing has happened to it.
NothingYet ==
  phase = "lint" =>
    /\ mishaps = {} /\ state = [c \in Containers |-> "off"]
    /\ owner = [p \in Places |-> IF p \in HostPlaces THEN 0 ELSE Fresh]

\* A numeric User= is who the process runs as.
UsersAsGiven ==
  phase = "booted" => \A c \in Containers : prj[c].user \in Nat => runsAs[c] = prj[c].user

\* Nobody's yet, or made over to a container that mounts it, on the host for :U
\* only.
OwnedBySomeone(p) ==
  \/ p \in HostPlaces /\ owner[p] = 0
  \/ p \notin HostPlaces /\ owner[p] = Fresh
  \/ \E d \in Containers : \E n \in Of(d, p) : owner[p] = As(d, n) /\ (p \in HostPlaces => n.chown)

Owned == \A p \in Places : OwnedBySomeone(p)

BootInv == TypeOK /\ NothingYet /\ UsersAsGiven /\ Owned /\ FailuresAreForetold

\* A finding that foretells a mishap.
LEMMA ForetoldBy ==
  ASSUME NEW m, NEW rule \in Rules, NEW at, m.unit \in Containers,
         AtFault(rule, m.unit, at, prj, host, known), rule \in Foretells[m.what],
         m.what \in {"denied", "raced", "unmapped"} => at = m.at
  PROVE  Foretold(m)
<1>1. At(rule, m.unit, at) \in Found  BY FoundWhen DEF Found
<1>2. /\ At(rule, m.unit, at).rule = rule /\ At(rule, m.unit, at).unit = m.unit
      /\ At(rule, m.unit, at).at = at
  BY DEF At
<1> QED  BY <1>1, <1>2 DEF Foretold

\* Which rules are asked.
LEMMA RulesAsked ==
  /\ Foretells["rejected"] = {"QD042", "QD043"} /\ Foretells["idle"] = {"QD022", "QD023"}
  /\ Foretells["unmapped"] = {"QD013"} /\ Foretells["unbindable"] = {"QD031"}
  /\ Foretells["ungrouped"] = {"QD011"} /\ Foretells["denied"] = {"QD010", "QD012"}
  /\ Foretells["raced"] = {"QD020"} /\ Foretells["down"] = {"QD021"}
BY DEF Foretells

\* An ID that the ranges do not hold (rootless.go:226-301).
LEMMA UnmappedForetold ==
  ASSUME TypeOK, host.rootless, NEW c \in Containers, NEW m \in Unmapped(c), Answerable(m)
  PROVE  Foretold(m)
<1>1. PICK a \in {"uid", "gid"} :
        /\ m = Mishap("unmapped", c, a)
        /\ LET id == IF a = "uid" THEN prj[c].user ELSE groupID(prj[c])
           IN  id \in Nat /\ ~Mapped(id, IF a = "uid" THEN host.subuid ELSE host.subgid)
  BY DEF Unmapped
<1>2. m.what = "unmapped" /\ m.unit = c /\ m.at = a  BY <1>1, MishapSays
<1>3. (IF a = "uid" THEN "subuid" ELSE "subgid") \in known  BY <1>2 DEF Answerable
<1>4. host.subuid \in Seq(Nat) /\ host.subgid \in Seq(Nat)  BY DEF TypeOK, Host
<1>5. AtFault("QD013", c, a, prj, host, known)
  <2>1. CASE a = "uid"
    <3>1. prj[c].user \in Nat /\ ~Mapped(prj[c].user, host.subuid)  BY <1>1, <2>1
    <3>2. outsideRange(prj[c].user, host.subuid)  BY <1>4, <3>1, WithinIsMapped
    <3> QED  BY <1>3, <2>1, <3>1, <3>2 DEF AtFault
  <2>2. CASE a = "gid"
    <3>1. groupID(prj[c]) \in Nat /\ ~Mapped(groupID(prj[c]), host.subgid)  BY <1>1, <2>2
    <3>2. outsideRange(groupID(prj[c]), host.subgid)  BY <1>4, <3>1, WithinIsMapped
    <3> QED  BY <1>3, <2>2, <3>1, <3>2 DEF AtFault
  <2> QED  BY <2>1, <2>2
<1>6. "QD013" \in Rules /\ "QD013" \in Foretells[m.what]  BY <1>2, RulesAsked DEF Rules
<1> QED  BY <1>2, <1>5, <1>6, ForetoldBy

\* A port below what the host admits (network.go:222-256).
LEMMA UnbindableForetold ==
  ASSUME TypeOK, host.rootless, NEW c \in Containers, Publishable(prj[c].port),
         NEW m \in Unbindable(c), Answerable(m)
  PROVE  Foretold(m)
<1>1. PICK q \in Published(prj[c].port).hosts : m = Mishap("unbindable", c, "PublishPort") /\ q < host.threshold
  BY DEF Unbindable
<1>2. m.what = "unbindable" /\ m.unit = c /\ m.at = "PublishPort"  BY <1>1, MishapSays
<1>3. prj[c].port \in Text /\ host.threshold \in Nat  BY DEF TypeOK, Unit, Host
<1>4. q \in Int /\ HostPort(prj[c].port) \in 1..q  BY <1>3, JudgedPort
<1>5. "threshold" \in known \/ host.threshold <= 1024  BY <1>2 DEF Answerable
<1>6. Threshold(host, known) \in Nat /\ host.threshold <= Threshold(host, known)
  BY <1>3, <1>5 DEF Threshold
<1>7. HostPort(prj[c].port) \in 1..Threshold(host, known) - 1
  BY <1>1, <1>3, <1>4, <1>6
<1>8. AtFault("QD031", c, "PublishPort", prj, host, known)  BY <1>7 DEF AtFault
<1>9. "QD031" \in Rules /\ "QD031" \in Foretells[m.what]  BY <1>2, RulesAsked DEF Rules
<1> QED  BY <1>2, <1>8, <1>9, ForetoldBy

\* A mount has a kind, which the spelling of its source decides; its place is a
\* place, and a directory of the host for a path or a bind in disguise.
LEMMA MountIs ==
  ASSUME TypeOK, NEW c \in Containers, NEW l \in Lines, prj[c].mounts[l] # NoMount,
         NEW m, m = prj[c].mounts[l]
  PROVE  /\ m \in Mount /\ m.src \in Sources /\ m.ro \in BOOLEAN /\ m.chown \in BOOLEAN
         /\ m.kind \in {"bind", "named"} /\ (m.kind = "bind" <=> m.src \in HostPaths)
         /\ PlaceOf[m.src] \in Places
         /\ PlaceOf[m.src] \in HostPlaces <=> m.src \in HostPaths \cup Devices
         /\ m \in Of(c, PlaceOf[m.src])
<1>1. m \in Mount
  <2>1. prj[c] \in Unit  BY DEF TypeOK
  <2>2. prj[c].mounts \in [Lines -> Mount \cup {NoMount}]  BY <2>1 DEF Unit
  <2> QED  BY <2>2
<1>2. /\ m.src \in Sources /\ m.ro \in BOOLEAN /\ m.chown \in BOOLEAN
      /\ m.kind \in {"bind", "named"} /\ (m.kind = "bind" <=> m.src \in HostPaths)
  BY <1>1, SourcesAssumption DEF Mount
<1>3. PlaceOf[m.src] \in Places /\ (PlaceOf[m.src] \in HostPlaces <=> m.src \in HostPaths \cup Devices)
  BY <1>2, PlaceAssumption DEF Places, Range
<1>4. m \in Of(c, PlaceOf[m.src])  BY DEF Of, Used
<1> QED  BY <1>1, <1>2, <1>3, <1>4

\* What a container mounts at a place is one of its mounts.
LEMMA OfIs ==
  ASSUME NEW c, NEW q, NEW n \in Of(c, q)
  PROVE  \E l \in Lines : prj[c].mounts[l] # NoMount /\ n = prj[c].mounts[l] /\ PlaceOf[n.src] = q
BY DEF Of, Used

\* A mount the process may not write to (rootless.go:127-181, 303-352).
LEMMA DeniedForetold ==
  ASSUME TypeOK, UsersAsGiven, phase = "booted", Owned, NEW c \in Containers,
         NEW x \in Denied(c, Owners(c)), Answerable(x)
  PROVE  Foretold(x)
<1>1. PICK l \in Used(c) :
        /\ x = Mishap("denied", c, l)
        /\ ~prj[c].mounts[l].ro
        /\ Owners(c)[PlaceOf[prj[c].mounts[l].src]] # As(c, prj[c].mounts[l])
        /\ runsAs[c] # 0
  BY DEF Denied
<1> DEFINE m == prj[c].mounts[l]
           q == PlaceOf[m.src]
<1>2. l \in Lines /\ m # NoMount  BY DEF Used
<1>3. x.what = "denied" /\ x.unit = c /\ x.at = l  BY <1>1, MishapSays
<1>4. ~Overlooked(x)  BY <1>3 DEF Answerable
<1>5. MountOf(x) = m /\ \A d : SharedBy(d, x) = Of(d, q)  BY <1>3 DEF MountOf, SharedBy
<1>6. /\ prj[c].user \in Nat
      /\ \A d \in Containers : \A n \in Of(d, q) : n.src = m.src
      /\ \A d \in Containers \ {c} : Of(d, q) # {} =>
           /\ prj[d].user \notin {0, NamedID}
           /\ \A n \in Of(d, q) : ~(n.kind = "bind" /\ n.chown)
  BY <1>3, <1>4, <1>5 DEF Overlooked
<1>7. /\ m.kind \in {"bind", "named"} /\ (m.kind = "bind" <=> m.src \in HostPaths)
      /\ q \in Places /\ (q \in HostPlaces <=> m.src \in HostPaths \cup Devices) /\ m \in Of(c, q)
      /\ m.chown \in BOOLEAN
  BY <1>2, MountIs
<1>8. ~m.ro /\ Owners(c)[q] # As(c, m) /\ runsAs[c] # 0  BY <1>1
<1>9. runsAs[c] = prj[c].user /\ runsAsNonRoot(prj[c])
  BY <1>6, <1>8 DEF UsersAsGiven, runsAsNonRoot
<1>10. \A d \in Containers : \A n \in Of(d, q) : n.kind = m.kind
  <2> SUFFICES ASSUME NEW d \in Containers, NEW n \in Of(d, q) PROVE n.kind = m.kind  OBVIOUS
  <2>1. PICK k \in Lines : prj[d].mounts[k] # NoMount /\ n = prj[d].mounts[k]  BY OfIs
  <2>2. n.kind \in {"bind", "named"} /\ (n.kind = "bind" <=> n.src \in HostPaths)  BY <2>1, MountIs
  <2> QED  BY <1>6, <1>7, <2>2
<1> HIDE DEF m, q
<1>11. \A n \in Of(c, q) : As(c, n) = As(c, m)  BY <1>10 DEF As
<1>12. Owners(c)[q] = IF \E n \in Of(c, q) : n.chown THEN As(c, CHOOSE n \in Of(c, q) : n.chown)
                      ELSE IF Of(c, q) # {} /\ owner[q] = Fresh THEN runsAs[c] ELSE owner[q]
  BY <1>7 DEF Owners
<1>13. ~ \E n \in Of(c, q) : n.chown
  <2> SUFFICES ASSUME \E n \in Of(c, q) : n.chown PROVE FALSE  OBVIOUS
  <2>1. PICK n \in Of(c, q) : n = CHOOSE k \in Of(c, q) : k.chown  OBVIOUS
  <2>2. Owners(c)[q] = As(c, n)  BY <1>12, <2>1
  <2> QED  BY <1>8, <1>11, <2>2
<1>14. ~m.chown  BY <1>7, <1>13
<1>15. \/ owner[q] # Fresh /\ owner[q] # As(c, m)
       \/ owner[q] = Fresh /\ runsAs[c] # As(c, m)
  BY <1>7, <1>8, <1>12, <1>13
<1>16. OwnedBySomeone(q)  BY <1>7 DEF Owned
<1>17. CASE m.kind = "bind"
  <2>1. q \in HostPlaces  BY <1>7, <1>17
  <2>2. ~prj[c].keepId
    <3> SUFFICES ASSUME prj[c].keepId PROVE FALSE  OBVIOUS
    <3>1. As(c, m) = 0  BY <1>17 DEF As
    <3>2. owner[q] # 0
      <4>1. owner[q] = Fresh => owner[q] # 0  BY UserAssumption
      <4> QED  BY <1>15, <3>1, <4>1
    <3>3. PICK d \in Containers : \E n \in Of(d, q) : n.chown
      BY <1>16, <2>1, <3>2 DEF OwnedBySomeone
    <3>4. PICK n \in Of(d, q) : n.chown  BY <3>3
    <3>5. n.kind = "bind" /\ Of(d, q) # {}  BY <1>10, <1>17, <3>4
    <3>6. d # c  BY <1>13, <3>4
    <3> QED  BY <1>6, <3>4, <3>5, <3>6
  <2>3. AtFault("QD010", c, l, prj, host, known)
    BY <1>2, <1>8, <1>9, <1>14, <1>17, <2>2 DEF AtFault, m
  <2>4. "QD010" \in Rules /\ "QD010" \in Foretells[x.what]  BY <1>3, RulesAsked DEF Rules
  <2> QED  BY <1>3, <2>3, <2>4, ForetoldBy
<1>18. CASE m.kind = "named"
  <2>1. As(c, m) = runsAs[c]  BY <1>18 DEF As
  <2>2. owner[q] # Fresh /\ owner[q] # runsAs[c]  BY <1>15, <2>1
  <2>3. autoChownDefeated(prj, c, m)
    <3>1. CASE m.src \in Devices  BY <3>1 DEF autoChownDefeated
    <3>2. CASE m.src \notin Devices
      <4>1. q \notin HostPlaces  BY <1>7, <1>18, <3>2
      <4>1a. PICK d \in Containers : \E n \in Of(d, q) : owner[q] = As(d, n)
        BY <1>16, <2>2, <4>1 DEF OwnedBySomeone
      <4>2. PICK n \in Of(d, q) : owner[q] = As(d, n)  BY <4>1a
      <4>3. n.kind = "named" /\ n.src = m.src /\ As(d, n) = runsAs[d]
        BY <1>6, <1>10, <1>18, <4>2 DEF As
      <4>4. d # c  BY <2>2, <4>2, <4>3
      <4>5. d \in NamedVolumeUsers(prj, m.src) \ {c}
        <5>1. PICK k \in Lines : prj[d].mounts[k] # NoMount /\ n = prj[d].mounts[k]  BY OfIs
        <5> QED  BY <4>3, <4>4, <5>1 DEF NamedVolumeUsers
      <4>6. prj[d].user \notin {0, NamedID}  BY <1>6, <4>2, <4>4
      <4>7. prj[d].user \in ID
        <5>1. prj[d] \in Unit  BY DEF TypeOK
        <5> QED  BY <5>1 DEF Unit
      <4>8. CASE prj[d].user = NoID  BY <4>5, <4>8 DEF autoChownDefeated
      <4>9. CASE prj[d].user \in Nat
        <5>1. runsAs[d] = prj[d].user  BY <4>9 DEF UsersAsGiven
        <5>2. runsAsNonRoot(prj[d]) /\ prj[d].user # prj[c].user
          BY <1>9, <2>2, <4>2, <4>3, <4>6, <4>9, <5>1 DEF runsAsNonRoot
        <5> QED  BY <4>5, <5>2 DEF autoChownDefeated
      <4> QED  BY <4>6, <4>7, <4>8, <4>9 DEF ID
    <3> QED  BY <3>1, <3>2
  <2>4. AtFault("QD012", c, l, prj, host, known)
    BY <1>2, <1>9, <1>14, <1>18, <2>3 DEF AtFault, m
  <2>5. "QD012" \in Rules /\ "QD012" \in Foretells[x.what]  BY <1>3, RulesAsked DEF Rules
  <2> QED  BY <1>3, <2>4, <2>5, ForetoldBy
<1> QED  BY <1>7, <1>17, <1>18 DEF m

\* A unit the generator leaves out (keys.go:112, image.go:25).
LEMMA RejectedForetold ==
  ASSUME NEW c \in Containers, Rejected(prj[c])
  PROVE  Foretold(Mishap("rejected", c, "unit"))
<1> DEFINE m == Mishap("rejected", c, "unit")
<1>1. m.what = "rejected" /\ m.unit = c  BY MishapSays
<1>2. {"QD042", "QD043"} \subseteq Rules /\ {"QD042", "QD043"} \subseteq Foretells[m.what]
  BY <1>1, RulesAsked DEF Rules
<1> HIDE DEF m
<1>3. CASE prj[c].volumes # NoMount
  <2>1. AtFault("QD042", c, "Volumes", prj, host, known)  BY <1>3 DEF AtFault
  <2> QED  BY <1>1, <1>2, <2>1, ForetoldBy DEF m
<1>4. CASE prj[c].image # NoImage /\ prj[c].imageKey = "image"
  <2>1. AtFault("QD042", c, "image", prj, host, known)  BY <1>4 DEF AtFault
  <2> QED  BY <1>1, <1>2, <2>1, ForetoldBy DEF m
<1>5. CASE ~HasImage(prj[c]) /\ ~prj[c].rootfs
  <2>1. AtFault("QD043", c, "Image", prj, host, known)  BY <1>5 DEF AtFault
  <2> QED  BY <1>1, <1>2, <2>1, ForetoldBy DEF m
<1> QED  BY <1>3, <1>4, <1>5 DEF Rejected

\* A unit that boot does not start (network.go:340-411).
LEMMA IdleForetold ==
  ASSUME TypeOK, NEW c \in Containers, ~Wanted(prj[c]), Answerable(Mishap("idle", c, "unit"))
  PROVE  Foretold(Mishap("idle", c, "unit"))
<1> DEFINE m == Mishap("idle", c, "unit")
<1>1. m.what = "idle" /\ m.unit = c  BY MishapSays
<1>2. {"QD022", "QD023"} \subseteq Rules /\ {"QD022", "QD023"} \subseteq Foretells[m.what]
  BY <1>1, RulesAsked DEF Rules
<1>a. prj[c].install # {"Alias"}  BY <1>1 DEF Answerable
<1> HIDE DEF m
<1>3. CASE prj[c].install = {}
  <2>1. AtFault("QD022", c, "Install", prj, host, known)  BY <1>3 DEF AtFault
  <2> QED  BY <1>1, <1>2, <2>1, ForetoldBy DEF m
<1>4. CASE prj[c].install # {}
  <2>1. prj[c].install \subseteq InstallKeys
    <3>1. prj[c] \in Unit  BY DEF TypeOK
    <3> QED  BY <3>1 DEF Unit
  <2>2. "Also" \in prj[c].install \ installKeysHonoured
    <3>1. "WantedBy" \notin prj[c].install  BY DEF Wanted
    <3>2. "Also" \in prj[c].install  BY <1>a, <1>4, <2>1, <3>1 DEF InstallKeys
    <3> QED  BY <3>2 DEF installKeysHonoured
  <2>3. AtFault("QD023", c, "Also", prj, host, known)
    BY <2>2 DEF AtFault, InstallKeys
  <2> QED  BY <1>1, <1>2, <2>3, ForetoldBy DEF m
<1> QED  BY <1>3, <1>4

\* A group the container does not get (rootless.go:183-224).
LEMMA UngroupedForetold ==
  ASSUME NEW c \in Containers, "name" \in prj[c].groupAdd
  PROVE  Foretold(Mishap("ungrouped", c, "unit"))
<1> DEFINE m == Mishap("ungrouped", c, "unit")
<1>1. m.what = "ungrouped" /\ m.unit = c  BY MishapSays
<1>2. "QD011" \in Rules /\ "QD011" \in Foretells[m.what]  BY <1>1, RulesAsked DEF Rules
<1> HIDE DEF m
<1>3. AtFault("QD011", c, "GroupAdd", prj, host, known)  BY DEF AtFault
<1> QED  BY <1>1, <1>2, <1>3, ForetoldBy DEF m

\* A unit that starts while what it needs is still starting: After= has not
\* waited, so that unit does not notify (network.go:258-302). QD020 sees it where a
\* line of After= names that unit alone.
LEMMA RacedForetold ==
  ASSUME TypeOK, NEW c \in Containers, ~Held(c), NEW m \in Raced(c), Answerable(m)
  PROVE  Foretold(m)
<1>1. PICK d \in Awaited(prj[c]) : state[d] = "up" /\ m = Mishap("raced", c, d)  BY DEF Raced
<1>2. m.what = "raced" /\ m.unit = c /\ m.at = d  BY <1>1, MishapSays
<1>3. d \in Containers /\ {d} \in prj[c].after  BY <1>2 DEF Awaited, Answerable
<1>4. ~prj[d].notify  BY <1>1 DEF Held
<1>5. AtFault("QD020", c, d, prj, host, known)  BY <1>3, <1>4 DEF AtFault
<1>6. "QD020" \in Rules /\ "QD020" \in Foretells[m.what]  BY <1>2, RulesAsked DEF Rules
<1> QED  BY <1>2, <1>5, <1>6, ForetoldBy

\* A unit that stays down when its process ends (network.go:304-338).
LEMMA DownForetold ==
  ASSUME NEW c \in Containers, prj[c].restart = "unless-stopped"
  PROVE  Foretold(Mishap("down", c, "unit"))
<1> DEFINE m == Mishap("down", c, "unit")
<1>1. m.what = "down" /\ m.unit = c  BY MishapSays
<1>2. "QD021" \in Rules /\ "QD021" \in Foretells[m.what]  BY <1>1, RulesAsked DEF Rules
<1> HIDE DEF m
<1>3. AtFault("QD021", c, "Restart", prj, host, known)  BY DEF AtFault
<1> QED  BY <1>1, <1>2, <1>3, ForetoldBy DEF m

\* What the linter has to answer for, and answers, is a matter of the files and
\* of the host, not of what the machine does.
LEMMA JudgedByFiles ==
  ASSUME UNCHANGED <<prj, host, known>>
  PROVE  \A m : (Answerable(m)' <=> Answerable(m)) /\ (Foretold(m)' <=> Foretold(m))
<1>1. Found' = Found  BY DEF Found
<1>2. \A d, q : Of(d, q)' = Of(d, q)  BY DEF Of, Used
<1>3. \A m : Overlooked(m)' <=> Overlooked(m)  BY <1>2 DEF Overlooked, SharedBy, MountOf
<1>4. \A m : Answerable(m)' <=> Answerable(m)  BY <1>3 DEF Answerable
<1>5. \A m : Foretold(m)' <=> Foretold(m)  BY <1>1 DEF Foretold
<1> QED  BY <1>4, <1>5

\* As long as nothing has happened a place is its host directory's or nobody's.
LEMMA OwnedAtFirst ==
  owner = [p \in Places |-> IF p \in HostPlaces THEN 0 ELSE Fresh] => Owned
BY DEF Owned, OwnedBySomeone

\* A launch hands places over to the container that mounts them only.
LEMMA OwnedByLaunch ==
  ASSUME TypeOK, Owned, NEW c \in Containers, Launch(c)
  PROVE  Owned'
<1> SUFFICES ASSUME NEW p \in Places PROVE OwnedBySomeone(p)'
  BY DEF Owned, Places
<1>1. UNCHANGED <<prj, runsAs>>  BY DEF Launch
<1>2. \A d : Of(d, p)' = Of(d, p) /\ \A n : As(d, n)' = As(d, n)  BY <1>1 DEF Of, Used, As
<1>3. OwnedBySomeone(p)  BY DEF Owned
<1>4. CASE owner'[p] = owner[p]  BY <1>2, <1>3, <1>4 DEF OwnedBySomeone
<1>5. CASE owner' = Owners(c)
  <2>1. owner'[p] = IF \E n \in Of(c, p) : n.chown THEN As(c, CHOOSE n \in Of(c, p) : n.chown)
                    ELSE IF Of(c, p) # {} /\ owner[p] = Fresh THEN runsAs[c] ELSE owner[p]
    BY <1>5 DEF Owners
  <2>2. CASE \E n \in Of(c, p) : n.chown
    <3>1. PICK n \in Of(c, p) : n.chown /\ n = CHOOSE k \in Of(c, p) : k.chown  BY <2>2
    <3>2. owner'[p] = As(c, n)  BY <2>1, <2>2, <3>1
    <3>3. \E k \in Of(c, p) : owner'[p] = As(c, k) /\ (p \in HostPlaces => k.chown)  BY <3>1, <3>2
    <3> QED  BY <1>2, <3>3 DEF OwnedBySomeone
  <2>3. CASE (~ \E n \in Of(c, p) : n.chown) /\ Of(c, p) # {} /\ owner[p] = Fresh
    <3>1. owner'[p] = runsAs[c]  BY <2>1, <2>3
    <3>2. p \notin HostPlaces
      <4>1. \A d \in Containers : \A n : As(d, n) \in Nat
        <5>1. runsAs \in [Containers -> Nat]  BY DEF TypeOK
        <5> QED  BY <5>1 DEF As
      <4> QED  BY <1>3, <2>3, <4>1, UserAssumption DEF OwnedBySomeone
    <3>3. PICK n \in Of(c, p) : TRUE  BY <2>3
    <3>4. PICK l \in Lines : prj[c].mounts[l] # NoMount /\ n = prj[c].mounts[l] /\ PlaceOf[n.src] = p
      BY OfIs
    <3>5. n.kind # "bind"  BY <3>2, <3>4, MountIs
    <3>6. owner'[p] = As(c, n)  BY <3>1, <3>5 DEF As
    <3>7. \E k \in Of(c, p) : owner'[p] = As(c, k) /\ (p \in HostPlaces => k.chown)
      BY <3>2, <3>3, <3>6
    <3> QED  BY <1>2, <3>7 DEF OwnedBySomeone
  <2>4. CASE ~((\E n \in Of(c, p) : n.chown) \/ (Of(c, p) # {} /\ owner[p] = Fresh))
    <3>1. owner'[p] = owner[p]  BY <2>1, <2>4
    <3> QED  BY <1>4, <3>1
  <2> QED  BY <2>2, <2>3, <2>4
<1> QED  BY <1>4, <1>5 DEF Launch

\* What a launch adds to the mishaps was foretold.
LEMMA LaunchForetold ==
  ASSUME BootInv, NEW c \in Containers, Launch(c), NEW m \in mishaps', m \notin mishaps, Answerable(m)
  PROVE  Foretold(m)
<1>1. TypeOK /\ UsersAsGiven /\ Owned  BY DEF BootInv
<1>2. phase = "booted" /\ ~Held(c)  BY DEF Launch
<1>3. \A x \in Unpublishable(c) : ~Answerable(x)
  <2> SUFFICES ASSUME NEW x \in Unpublishable(c) PROVE ~Answerable(x)  OBVIOUS
  <2>1. x.what = "unpublishable"  BY DEF Unpublishable, Mishap
  <2> QED  BY <2>1 DEF Answerable
<1>4. Unpublishable(c) = {} => Publishable(prj[c].port)  BY DEF Unpublishable
<1>5. \/ m \in Unpublishable(c)
      \/ Unpublishable(c) = {} /\ host.rootless /\ m \in Unmapped(c) \cup Unbindable(c)
      \/ m \in Raced(c)
      \/ m \in Denied(c, Owners(c))
      \/ m \in {Mishap("ungrouped", c, "unit") : g \in prj[c].groupAdd \cap {"name"}}
  BY DEF Launch
<1>6. CASE m \in Unpublishable(c)  BY <1>3, <1>6
<1>7. CASE Unpublishable(c) = {} /\ host.rootless /\ m \in Unmapped(c)  BY <1>1, <1>7, UnmappedForetold
<1>8. CASE Unpublishable(c) = {} /\ host.rootless /\ m \in Unbindable(c)
  BY <1>1, <1>4, <1>8, UnbindableForetold
<1>9. CASE m \in Raced(c)  BY <1>1, <1>2, <1>9, RacedForetold
<1>10. CASE m \in Denied(c, Owners(c))  BY <1>1, <1>2, <1>10, DeniedForetold
<1>11. CASE m \in {Mishap("ungrouped", c, "unit") : g \in prj[c].groupAdd \cap {"name"}}
  BY <1>11, UngroupedForetold
<1> QED  BY <1>5, <1>6, <1>7, <1>8, <1>9, <1>10, <1>11

\* A step that leaves the files and the host alone keeps what was foretold, if
\* what it adds was.
LEMMA ForetoldKept ==
  ASSUME FailuresAreForetold, UNCHANGED <<prj, host, known>>,
         \A m \in mishaps' \ mishaps : Answerable(m) => Foretold(m)
  PROVE  FailuresAreForetold'
<1> SUFFICES ASSUME NEW m \in mishaps', Answerable(m)' PROVE Foretold(m)'
  BY DEF FailuresAreForetold
<1>1. Answerable(m) /\ (Foretold(m) => Foretold(m)')  BY JudgedByFiles
<1>2. Foretold(m)  BY <1>1 DEF FailuresAreForetold
<1> QED  BY <1>1, <1>2

\* The invariant holds at first.
LEMMA BootInvInit == Init => BootInv
<1> SUFFICES ASSUME Init PROVE BootInv  OBVIOUS
<1>1. TypeOK  BY TypeInit
<1>2. NothingYet /\ UsersAsGiven  BY DEF Init, NothingYet, UsersAsGiven
<1>3. Owned  BY OwnedAtFirst DEF Init
<1>4. FailuresAreForetold  BY DEF Init, FailuresAreForetold
<1> QED  BY <1>1, <1>2, <1>3, <1>4 DEF BootInv

\* A step after boot that hands nothing over and changes no user.
LEMMA OwnedKept ==
  ASSUME Owned, UNCHANGED <<prj, runsAs, owner>>
  PROVE  Owned'
<1>1. \A d, p : Of(d, p)' = Of(d, p) /\ \A n : As(d, n)' = As(d, n)  BY DEF Of, Used, As
<1>2. \A p \in Places : OwnedBySomeone(p)  BY DEF Owned
<1>3. \A p \in Places : OwnedBySomeone(p)'  BY <1>1, <1>2 DEF OwnedBySomeone
<1> QED  BY <1>3 DEF Owned, Places

\* Every step keeps the invariant.
LEMMA BootInvStep == BootInv /\ [Next]_vars => BootInv'
<1> SUFFICES ASSUME BootInv, [Next]_vars PROVE BootInv'  OBVIOUS
<1>0. TypeOK /\ NothingYet /\ UsersAsGiven /\ Owned /\ FailuresAreForetold  BY DEF BootInv
<1>a. TypeOK'  BY <1>0, TypeStep
<1>1. CASE \E f \in Found : Mend(f)
  <2>1. /\ phase = "lint"
        /\ UNCHANGED <<known, phase, runsAs, state, owner, mishaps>>
    BY <1>1 DEF Mend
  <2>2. NothingYet' /\ UsersAsGiven'
    BY <1>0, <2>1 DEF NothingYet, UsersAsGiven, Places
  <2>3. Owned'
    <3>1. owner' = [p \in Places |-> IF p \in HostPlaces THEN 0 ELSE Fresh]
      BY <1>0, <2>1 DEF NothingYet
    <3> QED  BY <3>1 DEF Owned, OwnedBySomeone, Places
  <2>4. FailuresAreForetold'  BY <1>0, <2>1 DEF NothingYet, FailuresAreForetold
  <2> QED  BY <1>a, <2>2, <2>3, <2>4 DEF BootInv
<1>2. CASE Boot
  <2>1. phase = "lint" /\ phase' = "booted" /\ UNCHANGED <<prj, host, known, owner>>  BY <1>2 DEF Boot
  <2>2. NothingYet'  BY <2>1 DEF NothingYet
  <2>3. UsersAsGiven'  BY <1>2, <2>1 DEF Boot, UsersAsGiven
  <2>4. \A m \in mishaps' : Answerable(m) => Foretold(m)
    <3>1. \A m \in {Mishap("rejected", c, "unit") : c \in {d \in Containers : Rejected(prj[d])}} :
             Foretold(m)
      BY RejectedForetold
    <3>2. \A m \in {Mishap("conflict", c, "unit") : c \in {d \in Containers : Conflicting(prj[d])}} :
             ~Answerable(m)
      <4> SUFFICES ASSUME NEW c \in Containers PROVE ~Answerable(Mishap("conflict", c, "unit"))
        OBVIOUS
      <4>1. Mishap("conflict", c, "unit").what = "conflict"  BY MishapSays
      <4> QED  BY <4>1 DEF Answerable
    <3>3. \A m \in {Mishap("idle", c, "unit") : c \in {d \in Containers : ~Wanted(prj[d])}} :
             Answerable(m) => Foretold(m)
      BY <1>0, IdleForetold
    <3> QED  BY <1>2, <3>1, <3>2, <3>3 DEF Boot
  <2>5. FailuresAreForetold'  BY <1>0, <2>1, <2>4, ForetoldKept
  <2>6. Owned'
    <3>1. owner' = [p \in Places |-> IF p \in HostPlaces THEN 0 ELSE Fresh]
      BY <1>0, <2>1 DEF NothingYet
    <3> QED  BY <3>1 DEF Owned, OwnedBySomeone, Places
  <2> QED  BY <1>a, <2>2, <2>3, <2>5, <2>6 DEF BootInv
<1>3. ASSUME NEW c \in Containers, Launch(c) PROVE BootInv'
  <2>1. phase = "booted" /\ UNCHANGED <<prj, host, known, phase, runsAs>>  BY <1>3 DEF Launch
  <2>2. NothingYet' /\ UsersAsGiven'  BY <1>0, <2>1 DEF NothingYet, UsersAsGiven
  <2>3. Owned'  BY <1>0, <1>3, OwnedByLaunch
  <2>4. FailuresAreForetold'  BY <1>0, <1>3, <2>1, LaunchForetold, ForetoldKept
  <2> QED  BY <1>a, <2>2, <2>3, <2>4 DEF BootInv
<1>4. ASSUME NEW c \in Containers, StartByHand(c) \/ BecomeReady(c) \/ TimeOut(c) PROVE BootInv'
  <2>1. UNCHANGED <<prj, host, known, phase, runsAs, owner, mishaps>>
    BY <1>4 DEF StartByHand, BecomeReady, TimeOut
  <2>2. phase = "booted"
    <3>1. state[c] = "up" \/ phase = "booted"  BY <1>4 DEF StartByHand, BecomeReady, TimeOut
    <3>2. phase \in {"lint", "booted"}  BY <1>0 DEF TypeOK
    <3> QED  BY <1>0, <3>1, <3>2 DEF NothingYet
  <2>3. NothingYet' /\ UsersAsGiven'  BY <1>0, <2>1, <2>2 DEF NothingYet, UsersAsGiven
  <2>4. Owned' /\ FailuresAreForetold'  BY <1>0, <2>1, OwnedKept, ForetoldKept
  <2> QED  BY <1>a, <2>3, <2>4 DEF BootInv
<1>5. ASSUME NEW c \in Containers, Exit(c) PROVE BootInv'
  <2>1. UNCHANGED <<prj, host, known, phase, runsAs, owner>>  BY <1>5 DEF Exit
  <2>2. phase = "booted"
    <3>1. state[c] \in {"up", "ready"}  BY <1>5 DEF Exit
    <3>2. phase \in {"lint", "booted"}  BY <1>0 DEF TypeOK
    <3> QED  BY <1>0, <3>1, <3>2 DEF NothingYet
  <2>3. NothingYet' /\ UsersAsGiven'  BY <1>0, <2>1, <2>2 DEF NothingYet, UsersAsGiven
  <2>4. \A m \in mishaps' \ mishaps : Foretold(m)
    <3>1. \A m \in mishaps' \ mishaps : m = Mishap("down", c, "unit") /\ prj[c].restart = "unless-stopped"
      BY <1>5 DEF Exit
    <3> QED  BY <3>1, DownForetold
  <2>5. Owned' /\ FailuresAreForetold'  BY <1>0, <2>1, <2>4, OwnedKept, ForetoldKept
  <2> QED  BY <1>a, <2>3, <2>5 DEF BootInv
<1>6. CASE UNCHANGED vars
  <2>1. UNCHANGED <<prj, host, known, phase, runsAs, owner, mishaps, state>>  BY <1>6 DEF vars
  <2>2. NothingYet' /\ UsersAsGiven'  BY <1>0, <2>1 DEF NothingYet, UsersAsGiven, Places
  <2>3. Owned' /\ FailuresAreForetold'  BY <1>0, <2>1, OwnedKept, ForetoldKept
  <2> QED  BY <1>a, <2>2, <2>3 DEF BootInv
<1> QED  BY <1>1, <1>2, <1>3, <1>4, <1>5, <1>6 DEF Next

\* Whatever the order in which the containers of whatever project start, become
\* ready, end and start again, on whatever host and whatever was mended before:
\* a unit that is not generated, does not start, starts too early, is denied its
\* files or stays down was reported for it, but for the failures Answerable and
\* Overlooked leave out: those the rules do not foretell.
THEOREM BootForetold == Spec => []FailuresAreForetold
<1>1. BootInv => FailuresAreForetold  BY DEF BootInv
<1> QED  BY <1>1, BootInvInit, BootInvStep, PTL DEF Spec

-----------------------------------------------------------------------------
(* MendedStaysMended.                                                      *)

\* What is so once a finding was mended, and stays so.
UnitSettled(f, u, h, k) ==
  CASE f.rule = "QD010" -> /\ f.at \in Lines /\ u.mounts[f.at] # NoMount
                           /\ u.keepId \/ u.mounts[f.at].chown
    [] f.rule = "QD011" -> "name" \notin u.groupAdd
    [] f.rule = "QD012" -> f.at \in Lines /\ u.mounts[f.at] # NoMount /\ u.mounts[f.at].chown
    [] f.rule = "QD013" -> /\ f.at = "uid" /\ u.user \in Nat /\ u.user <= 65536 => u.user <= Total(h.subuid)
                           /\ f.at = "gid" /\ groupID(u) \in Nat /\ groupID(u) <= 65536
                                => groupID(u) <= Total(h.subgid)
    [] f.rule = "QD021" -> u.restart = "always"
    [] f.rule = "QD022" -> "WantedBy" \in u.install
    [] f.rule = "QD023" -> f.at # "WantedBy" /\ f.at \notin u.install
    [] f.rule = "QD031" -> \/ HostPort(u.port) > 8000
                           \/ "threshold" \in k => HostPort(u.port) >= h.threshold
    [] f.rule = "QD040" -> /\ HasImage(u)
                           /\ f.at = "registry" => u.image.registry
                           /\ f.at = "digest" => ~u.image.digest \/ ~u.autoUpdate
                           /\ f.at = "tag" => ~Floating(u.image)
    [] f.rule = "QD042" -> /\ f.at = "Volumes" => u.volumes = NoMount
                           /\ f.at = "image" => u.imageKey = "Image"
                           /\ f.at = "RemapUsers" => ~u.remap
    [] f.rule = "QD043" -> HasImage(u) \/ u.rootfs

Settled(f, p, h, k) ==
  IF f.rule = "QD020" THEN f.at \in Containers /\ p[f.at].notify
  ELSE UnitSettled(f, p[f.unit], h, k)

\* Settled means no longer at fault, if the remedy was enough.
LEMMA SettledIsMended ==
  ASSUME TypeOK, NEW f \in Found, Settled(f, prj, host, known)
  PROVE  ~Enough(f)
<1> DEFINE u == prj[f.unit]
<1>1. f.rule \in Rules /\ f.unit \in Containers /\ AtFault(f.rule, f.unit, f.at, prj, host, known)
  BY FoundBy, FoundWhen DEF Found
<1>2. u \in Unit /\ host \in Host  BY <1>1 DEF TypeOK
<1>3. /\ u.install \subseteq InstallKeys /\ u.user \in ID /\ u.keepId \in BOOLEAN
      /\ u.autoUpdate \in BOOLEAN /\ u.remap \in BOOLEAN /\ u.rootfs \in BOOLEAN
      /\ host.threshold \in Nat /\ Total(host.subuid) \in Nat /\ Total(host.subgid) \in Nat
  BY <1>2, HostTypes DEF Unit, Host
<1>4. CASE f.rule = "QD013"
  <2> SUFFICES ASSUME Enough(f) PROVE FALSE  OBVIOUS
  <2>1. \/ f.at = "uid" /\ u.user \in Nat /\ outsideRange(u.user, host.subuid)
        \/ f.at = "gid" /\ groupID(u) \in Nat /\ outsideRange(groupID(u), host.subgid)
    BY <1>1, <1>4 DEF AtFault
  <2>2. LET id == IF f.at = "uid" THEN u.user ELSE groupID(u) IN id \in Nat /\ id <= 65536
    BY <1>4 DEF Enough
  <2>3. /\ f.at = "uid" /\ u.user \in Nat /\ u.user <= 65536 => u.user <= Total(host.subuid)
        /\ f.at = "gid" /\ groupID(u) \in Nat /\ groupID(u) <= 65536
             => groupID(u) <= Total(host.subgid)
    BY <1>4 DEF Settled, UnitSettled
  <2> HIDE DEF u
  <2>4. \A id, t \in Nat : id > t => ~(id <= t)  OBVIOUS
  <2>5. CASE f.at = "uid"
    <3>1. u.user \in Nat /\ u.user > Total(host.subuid) /\ u.user <= 65536
      BY <2>1, <2>2, <2>5 DEF outsideRange
    <3> QED  BY <1>3, <2>3, <2>4, <2>5, <3>1
  <2>6. CASE f.at = "gid"
    <3>1. groupID(u) \in Nat /\ groupID(u) > Total(host.subgid) /\ groupID(u) <= 65536
      BY <2>1, <2>2, <2>6 DEF outsideRange
    <3> QED  BY <1>3, <2>3, <2>4, <2>6, <3>1
  <2> QED  BY <2>1, <2>5, <2>6
<1>5. CASE f.rule = "QD031"
  <2> SUFFICES ASSUME Enough(f) PROVE FALSE  OBVIOUS
  <2>1. "threshold" \in known /\ host.threshold <= 8001  BY <1>5 DEF Enough
  <2>2. HostPort(u.port) \in 1..host.threshold - 1  BY <1>1, <1>5, <2>1 DEF AtFault, Threshold
  <2>3. HostPort(u.port) > 8000 \/ HostPort(u.port) >= host.threshold
    BY <1>5, <2>1 DEF Settled, UnitSettled
  <2> HIDE DEF u
  <2> QED  BY <1>3, <2>1, <2>2, <2>3
<1>6. CASE f.rule = "QD010"  BY <1>1, <1>3, <1>6 DEF AtFault, Settled, UnitSettled
<1>7. CASE f.rule = "QD012"  BY <1>1, <1>3, <1>7 DEF AtFault, Settled, UnitSettled
<1>8. CASE f.rule = "QD023"  BY <1>1, <1>8 DEF AtFault, Settled, UnitSettled
<1>9. CASE f.rule = "QD040"  BY <1>1, <1>9 DEF AtFault, Settled, UnitSettled
<1>10. CASE f.rule = "QD042"  BY <1>1, <1>10 DEF AtFault, Settled, UnitSettled
<1>11. CASE f.rule = "QD043"  BY <1>1, <1>11 DEF AtFault, Settled, UnitSettled
<1>12. CASE f.rule = "QD011"  BY <1>1, <1>12 DEF AtFault, Settled, UnitSettled
<1>13. CASE f.rule = "QD020"  BY <1>1, <1>13 DEF AtFault, Settled, UnitSettled
<1>14. CASE f.rule = "QD021"  BY <1>1, <1>14 DEF AtFault, Settled, UnitSettled
<1>15. CASE f.rule = "QD022"  BY <1>1, <1>15 DEF AtFault, Settled, UnitSettled
<1> QED
  BY <1>1, <1>4, <1>5, <1>6, <1>7, <1>8, <1>9, <1>10, <1>11, <1>12, <1>13, <1>14, <1>15 DEF Rules

\* What no remedy takes back.
ImageOnward(i, j) ==
  (i.registry => j.registry) /\ (j.digest => i.digest) /\ (Floating(j) => Floating(i))

Onward(u, v, h) ==
  /\ \A l \in Lines : u.mounts[l] # NoMount =>
       v.mounts[l] # NoMount /\ (u.mounts[l].chown => v.mounts[l].chown)
  /\ u.keepId => v.keepId
  /\ "name" \in v.groupAdd => "name" \in u.groupAdd
  /\ \/ v.user = u.user
     \/ v.user \in Nat /\ v.user <= Total(h.subuid)
  /\ \/ groupID(v) = groupID(u)
     \/ groupID(v) \in Nat /\ groupID(v) <= Total(h.subgid)
  /\ u.notify => v.notify
  /\ u.restart = "always" => v.restart = "always"
  /\ "WantedBy" \in u.install => "WantedBy" \in v.install
  /\ v.install \subseteq u.install \cup {"WantedBy"}
  /\ \/ v.port = u.port
     \/ HostPort(v.port) > 8000
  /\ HasImage(u) => HasImage(v) /\ ImageOnward(u.image, v.image)
  /\ v.autoUpdate => u.autoUpdate
  /\ u.volumes = NoMount => v.volumes = NoMount
  /\ u.imageKey = "Image" => v.imageKey = "Image"
  /\ v.remap => u.remap
  /\ u.rootfs => v.rootfs

\* A misspelt Volumes= becomes a mount at a line of its own.
LateFree(u) == u.volumes # NoMount => u.mounts[LateLine] = NoMount

\* What is settled stays settled when units go onward.
LEMMA SettledOnward ==
  ASSUME NEW p \in [Containers -> Unit], NEW q \in [Containers -> Unit], NEW h \in Host, NEW k,
         \A c \in Containers : q[c] = p[c] \/ Onward(p[c], q[c], h),
         NEW f, f.unit \in Containers, f.rule \in Rules, Settled(f, p, h, k)
  PROVE  Settled(f, q, h, k)
<1> DEFINE u == p[f.unit]  v == q[f.unit]
<1>1. u \in Unit /\ v \in Unit  OBVIOUS
<1>2. CASE f.rule = "QD020"
  <2>1. f.at \in Containers /\ p[f.at].notify  BY <1>2 DEF Settled, UnitSettled
  <2>2. q[f.at].notify
    <3>1. q[f.at] = p[f.at] \/ Onward(p[f.at], q[f.at], h)  BY <2>1
    <3> QED  BY <2>1, <3>1 DEF Onward
  <2> QED  BY <1>2, <2>1, <2>2 DEF Settled, UnitSettled
<1>3. CASE v = u /\ f.rule # "QD020"  BY <1>3 DEF Settled
<1>4. CASE Onward(u, v, h) /\ f.rule # "QD020"
  <2>1. /\ Total(h.subuid) \in Nat /\ Total(h.subgid) \in Nat
        /\ u.keepId \in BOOLEAN /\ v.keepId \in BOOLEAN
    BY <1>1, HostTypes DEF Unit
  <2>2. CASE f.rule = "QD010"  BY <1>4, <2>1, <2>2 DEF Settled, UnitSettled, Onward
  <2>2a. CASE f.rule = "QD012"  BY <1>4, <2>2a DEF Settled, UnitSettled, Onward
  <2>3. CASE f.rule = "QD013"  BY <1>4, <2>1, <2>3 DEF Settled, UnitSettled, Onward
  <2>4. CASE f.rule = "QD011"  BY <1>4, <2>4 DEF Settled, UnitSettled, Onward
  <2>4a. CASE f.rule = "QD021"  BY <1>4, <2>4a DEF Settled, UnitSettled, Onward
  <2>4b. CASE f.rule = "QD022"  BY <1>4, <2>4b DEF Settled, UnitSettled, Onward
  <2>5. CASE f.rule = "QD023"  BY <1>4, <2>5 DEF Settled, UnitSettled, Onward
  <2>6. CASE f.rule = "QD031"
    <3>1. v.port = u.port \/ HostPort(v.port) > 8000  BY <1>4 DEF Onward
    <3> QED  BY <2>6, <3>1 DEF Settled, UnitSettled
  <2>7. CASE f.rule = "QD040"
    <3>1. HasImage(v) /\ ImageOnward(u.image, v.image) /\ (v.autoUpdate => u.autoUpdate)
      BY <1>4, <2>7 DEF Onward, Settled, UnitSettled
    <3> QED  BY <2>7, <3>1 DEF Settled, UnitSettled, ImageOnward
  <2>8. CASE f.rule = "QD042"  BY <1>4, <2>8 DEF Settled, UnitSettled, Onward
  <2>9. CASE f.rule = "QD043"  BY <1>4, <2>9 DEF Settled, UnitSettled, Onward
  <2> QED  BY <1>4, <2>2, <2>2a, <2>3, <2>4, <2>4a, <2>4b, <2>5, <2>6, <2>7, <2>8, <2>9 DEF Rules
<1> QED  BY <1>2, <1>3, <1>4

\* The host matters to what is said of IDs and ports only.
LEMMA SettledAnywhere ==
  ASSUME NEW p, NEW f, f.rule \in Rules \ {"QD013", "QD031"}, NEW h, NEW k, Settled(f, p, h, k), NEW g
  PROVE  Settled(f, p, g, k)
<1>1. CASE f.rule = "QD010"  BY <1>1 DEF Settled, UnitSettled
<1>2. CASE f.rule = "QD011"  BY <1>2 DEF Settled, UnitSettled
<1>3. CASE f.rule = "QD012"  BY <1>3 DEF Settled, UnitSettled
<1>4. CASE f.rule = "QD020"  BY <1>4 DEF Settled
<1>5. CASE f.rule = "QD021"  BY <1>5 DEF Settled, UnitSettled
<1>6. CASE f.rule = "QD022"  BY <1>6 DEF Settled, UnitSettled
<1>7. CASE f.rule = "QD023"  BY <1>7 DEF Settled, UnitSettled
<1>8. CASE f.rule = "QD040"  BY <1>8 DEF Settled, UnitSettled
<1>9. CASE f.rule = "QD042"  BY <1>9 DEF Settled, UnitSettled
<1>10. CASE f.rule = "QD043"  BY <1>10 DEF Settled, UnitSettled
<1> QED  BY <1>1, <1>2, <1>3, <1>4, <1>5, <1>6, <1>7, <1>8, <1>9, <1>10 DEF Rules

\* The host grows: its ranges, and the ports it admits.
LEMMA SettledOnHost ==
  ASSUME NEW p \in [Containers -> Unit], NEW h \in Host, NEW k, NEW g \in Findings(p, h, k),
         NEW f, f.unit \in Containers, f.rule \in Rules, Settled(f, p, h, k)
  PROVE  /\ Settled(f, p, Extended(h, g), k)
         /\ g.rule = "QD031" => Settled(f, p, Admitting(h, p[g.unit]), k)
<1> DEFINE u == p[f.unit]
           e == Extended(h, g)
           a == Admitting(h, p[g.unit])
<1>1. h.subuid \in Seq(Nat) /\ h.subgid \in Seq(Nat) /\ h.threshold \in Nat  BY DEF Host
<1>2. /\ Total(h.subuid) \in Nat /\ Total(h.subgid) \in Nat
      /\ Total(e.subuid) \in Nat /\ Total(e.subgid) \in Nat
  BY HostTypes
<1>3. /\ Total(h.subuid) <= Total(e.subuid) /\ Total(h.subgid) <= Total(e.subgid)
      /\ e.threshold = h.threshold
  <2>1. /\ e.subuid = h.subuid \/ e.subuid = Append(h.subuid, 65536)
        /\ e.subgid = h.subgid \/ e.subgid = Append(h.subgid, 65536)
        /\ e.threshold = h.threshold
    BY DEF Extended, Host
  <2>2. PICK n \in Nat : n = 65536  OBVIOUS
  <2>3. /\ Total(Append(h.subuid, n)) = Total(h.subuid) + n
        /\ Total(Append(h.subgid, n)) = Total(h.subgid) + n
    BY <1>1, TotalAppended
  <2>4. \A t \in Nat : t <= t /\ t <= t + n  OBVIOUS
  <2> DEFINE x == Append(h.subuid, 65536)  y == Append(h.subgid, 65536)
  <2>5. Total(x) = Total(h.subuid) + n /\ Total(y) = Total(h.subgid) + n  BY <2>2, <2>3
  <2>6. (e.subuid = h.subuid \/ e.subuid = x) /\ (e.subgid = h.subgid \/ e.subgid = y)  BY <2>1
  <2> HIDE DEF x, y
  <2>7. Total(h.subuid) <= Total(e.subuid)  BY <1>2, <2>4, <2>5, <2>6
  <2>8. Total(h.subgid) <= Total(e.subgid)  BY <1>2, <2>4, <2>5, <2>6
  <2> QED  BY <2>1, <2>7, <2>8
<1>4. /\ a.subuid = h.subuid /\ a.subgid = h.subgid
      /\ a.threshold = HostPort(p[g.unit].port)
  BY DEF Admitting, Host
<1>5. ASSUME g.rule = "QD031", "threshold" \in k PROVE a.threshold \in Nat /\ a.threshold <= h.threshold
  <2>1. AtFault(g.rule, g.unit, g.at, p, h, k)  BY FoundBy, FoundWhen
  <2>2. HostPort(p[g.unit].port) \in 1..h.threshold - 1
    BY <1>5, <2>1 DEF AtFault, Threshold
  <2> QED  BY <1>1, <1>4, <2>2
<1>6. HostPort(u.port) \in Nat  BY HostPortIs
<1> HIDE DEF e, a
<1>7. Settled(f, p, e, k)
  <2>1. CASE f.rule = "QD013"
    <3>1. \A id, s, t \in Nat : id <= s /\ s <= t => id <= t  OBVIOUS
    <3>2. /\ f.at = "uid" /\ u.user \in Nat /\ u.user <= 65536 => u.user <= Total(h.subuid)
          /\ f.at = "gid" /\ groupID(u) \in Nat /\ groupID(u) <= 65536
               => groupID(u) <= Total(h.subgid)
      BY <2>1 DEF Settled, UnitSettled
    <3> HIDE DEF u
    <3>3. /\ f.at = "uid" /\ u.user \in Nat /\ u.user <= 65536 => u.user <= Total(e.subuid)
          /\ f.at = "gid" /\ groupID(u) \in Nat /\ groupID(u) <= 65536
               => groupID(u) <= Total(e.subgid)
      BY <1>2, <1>3, <3>1, <3>2
    <3> QED  BY <2>1, <3>3 DEF Settled, UnitSettled, u
  <2>2. CASE f.rule = "QD031"  BY <1>3, <2>2 DEF Settled, UnitSettled
  <2>3. CASE f.rule \notin {"QD013", "QD031"}  BY <2>3, SettledAnywhere
  <2> QED  BY <2>1, <2>2, <2>3
<1>8. ASSUME g.rule = "QD031" PROVE Settled(f, p, a, k)
  <2>1. CASE f.rule = "QD013"  BY <1>4, <2>1 DEF Settled, UnitSettled
  <2>2. CASE f.rule = "QD031"
    <3>1. HostPort(u.port) > 8000 \/ ("threshold" \in k => HostPort(u.port) >= h.threshold)
      BY <2>2 DEF Settled, UnitSettled
    <3>2. HostPort(u.port) > 8000 \/ ("threshold" \in k => HostPort(u.port) >= a.threshold)
      BY <1>1, <1>5, <1>6, <1>8, <3>1
    <3> QED  BY <2>2, <3>2 DEF Settled, UnitSettled
  <2>3. CASE f.rule \notin {"QD013", "QD031"}  BY <2>3, SettledAnywhere
  <2> QED  BY <2>1, <2>2, <2>3
<1> QED  BY <1>7, <1>8 DEF e, a

\* The host settles what it is changed for.
LEMMA HostSettles ==
  ASSUME NEW p \in [Containers -> Unit], NEW h \in Host, NEW k, NEW f \in Findings(p, h, k)
  PROVE  /\ f.rule = "QD013" => Settled(f, p, Extended(h, f), k)
         /\ f.rule = "QD031" => Settled(f, p, Admitting(h, p[f.unit]), k)
<1> DEFINE u == p[f.unit]
<1>1. h.subuid \in Seq(Nat) /\ h.subgid \in Seq(Nat)  BY DEF Host
<1>2. AtFault(f.rule, f.unit, f.at, p, h, k)  BY FoundBy, FoundWhen
<1>3. ASSUME f.rule = "QD013" PROVE Settled(f, p, Extended(h, f), k)
  <2>1. PICK n \in Nat : n = 65536  OBVIOUS
  <2>2. f.at \in {"uid", "gid"}  BY <1>2, <1>3 DEF AtFault
  <2>3. CASE f.at = "uid"
    <3>1. Extended(h, f).subuid = Append(h.subuid, n)  BY <2>1, <2>3 DEF Extended, Host
    <3>2. Total(Extended(h, f).subuid) = Total(h.subuid) + n /\ Total(h.subuid) \in Nat
      BY <1>1, <3>1, TotalAppended, TotalType
    <3>3. \A id, t \in Nat : id <= n => id <= t + n  OBVIOUS
    <3>4. u.user \in Nat /\ u.user <= 65536 => u.user <= Total(Extended(h, f).subuid)
      BY <2>1, <3>2, <3>3
    <3> QED  BY <1>3, <2>3, <3>4 DEF Settled, UnitSettled
  <2>4. CASE f.at = "gid"
    <3>1. Extended(h, f).subgid = Append(h.subgid, n)  BY <2>1, <2>4 DEF Extended, Host
    <3>2. Total(Extended(h, f).subgid) = Total(h.subgid) + n /\ Total(h.subgid) \in Nat
      BY <1>1, <3>1, TotalAppended, TotalType
    <3>3. \A id, t \in Nat : id <= n => id <= t + n  OBVIOUS
    <3>4. groupID(u) \in Nat /\ groupID(u) <= 65536 => groupID(u) <= Total(Extended(h, f).subgid)
      BY <2>1, <3>2, <3>3
    <3> QED  BY <1>3, <2>4, <3>4 DEF Settled, UnitSettled
  <2> QED  BY <2>2, <2>3, <2>4
<1>4. ASSUME f.rule = "QD031" PROVE Settled(f, p, Admitting(h, u), k)
  <2>1. Admitting(h, u).threshold = HostPort(u.port)  BY DEF Admitting, Host
  <2>2. HostPort(u.port) \in Nat  BY HostPortIs
  <2>3. HostPort(u.port) >= Admitting(h, u).threshold  BY <2>1, <2>2
  <2> QED  BY <1>4, <2>3 DEF Settled, UnitSettled
<1> QED  BY <1>3, <1>4

\* A unit that others wait for.
LEMMA NotifyingOnward ==
  ASSUME NEW u \in Unit, NEW h, LateFree(u)
  PROVE  Onward(u, Notifying(u), h) /\ LateFree(Notifying(u)) /\ Notifying(u).notify
<1>1. Notifying(u) = [u EXCEPT !.notify = TRUE, !.health = TRUE]  BY DEF Notifying
<1> DEFINE v == Notifying(u)
<1>2. /\ v.mounts = u.mounts /\ v.keepId = u.keepId /\ v.groupAdd = u.groupAdd /\ v.user = u.user
      /\ v.userGroup = u.userGroup /\ v.group = u.group /\ v.restart = u.restart
      /\ v.install = u.install /\ v.port = u.port /\ v.image = u.image /\ v.autoUpdate = u.autoUpdate
      /\ v.volumes = u.volumes /\ v.imageKey = u.imageKey /\ v.remap = u.remap /\ v.rootfs = u.rootfs
      /\ v.notify
  BY <1>1 DEF Unit
<1> HIDE DEF v
<1>3. groupID(v) = groupID(u) /\ HasImage(v) = HasImage(u)  BY <1>2 DEF groupID, HasImage
<1>4. Onward(u, v, h)  BY <1>2, <1>3 DEF Onward, ImageOnward
<1> QED  BY <1>2, <1>4 DEF LateFree, v

\* A unit of which nothing but the keys K has changed, and one that has gone
\* onward as far as its late line may.
Keys == {"mounts", "keepId", "groupAdd", "user", "userGroup", "group", "notify", "health", "restart",
         "install", "port", "image", "autoUpdate", "volumes", "imageKey", "remap", "rootfs", "after"}
But(K, u, v) == \A x \in Keys \ K : v[x] = u[x]
GoneOn(u, v, h) == Onward(u, v, h) /\ LateFree(v)

\* A unit of which one key has gone onward has.
LEMMA OnwardBy ==
  ASSUME NEW u \in Unit, NEW v \in Unit, NEW h, LateFree(u)
  PROVE  /\ But({"keepId"}, u, v) /\ v.keepId => GoneOn(u, v, h)
         /\ But({"groupAdd"}, u, v) /\ "name" \notin v.groupAdd => GoneOn(u, v, h)
         /\ \A t \in Nat : But({"user"}, u, v) /\ v.user = t /\ t <= Total(h.subuid) => GoneOn(u, v, h)
         /\ \A t \in Nat : But({"userGroup", "group"}, u, v) /\ groupID(v) = t /\ t <= Total(h.subgid)
              => GoneOn(u, v, h)
         /\ /\ But({"restart", "install"}, u, v) /\ v.restart \in {u.restart, "always"}
            /\ v.install \subseteq u.install \cup {"WantedBy"}
            /\ "WantedBy" \in u.install => "WantedBy" \in v.install
            => GoneOn(u, v, h)
         /\ But({"port"}, u, v) /\ HostPort(v.port) > 8000 => GoneOn(u, v, h)
         /\ But({"image"}, u, v) /\ v.image # NoImage /\ ImageOnward(u.image, v.image)
              => GoneOn(u, v, h)
         /\ But({"image", "imageKey"}, u, v) /\ ~HasImage(u) /\ v.imageKey = "Image"
              => GoneOn(u, v, h)
         /\ But({"autoUpdate"}, u, v) /\ ~v.autoUpdate => GoneOn(u, v, h)
         /\ But({"remap"}, u, v) /\ ~v.remap => GoneOn(u, v, h)
         /\ But({"rootfs"}, u, v) /\ v.rootfs => GoneOn(u, v, h)
<1>1. But({"keepId"}, u, v) /\ v.keepId => GoneOn(u, v, h)
  BY DEF GoneOn, But, Keys, Onward, LateFree, ImageOnward, HasImage, groupID
<1>2. But({"groupAdd"}, u, v) /\ "name" \notin v.groupAdd => GoneOn(u, v, h)
  BY DEF GoneOn, But, Keys, Onward, LateFree, ImageOnward, HasImage, groupID
<1>3. \A t \in Nat : But({"user"}, u, v) /\ v.user = t /\ t <= Total(h.subuid) => GoneOn(u, v, h)
  BY DEF GoneOn, But, Keys, Onward, LateFree, ImageOnward, HasImage, groupID
<1>4. \A t \in Nat : But({"userGroup", "group"}, u, v) /\ groupID(v) = t /\ t <= Total(h.subgid)
              => GoneOn(u, v, h)
  BY DEF GoneOn, But, Keys, Onward, LateFree, ImageOnward, HasImage
<1>5. /\ But({"restart", "install"}, u, v) /\ v.restart \in {u.restart, "always"}
      /\ v.install \subseteq u.install \cup {"WantedBy"}
      /\ "WantedBy" \in u.install => "WantedBy" \in v.install
      => GoneOn(u, v, h)
  BY DEF GoneOn, But, Keys, Onward, LateFree, ImageOnward, HasImage, groupID
<1>6. But({"port"}, u, v) /\ HostPort(v.port) > 8000 => GoneOn(u, v, h)
  BY DEF GoneOn, But, Keys, Onward, LateFree, ImageOnward, HasImage, groupID
<1>7. But({"image"}, u, v) /\ v.image # NoImage /\ ImageOnward(u.image, v.image)
              => GoneOn(u, v, h)
  BY DEF GoneOn, But, Keys, Onward, LateFree, HasImage, groupID
<1>8. But({"image", "imageKey"}, u, v) /\ ~HasImage(u) /\ v.imageKey = "Image"
              => GoneOn(u, v, h)
  BY DEF GoneOn, But, Keys, Onward, LateFree, groupID
<1>9. But({"autoUpdate"}, u, v) /\ ~v.autoUpdate => GoneOn(u, v, h)
  BY DEF GoneOn, But, Keys, Onward, LateFree, ImageOnward, HasImage, groupID
<1>10. But({"remap"}, u, v) /\ ~v.remap => GoneOn(u, v, h)
  BY DEF GoneOn, But, Keys, Onward, LateFree, ImageOnward, HasImage, groupID
<1>11. But({"rootfs"}, u, v) /\ v.rootfs => GoneOn(u, v, h)
  BY DEF GoneOn, But, Keys, Onward, LateFree, ImageOnward, HasImage, groupID
<1> QED  BY <1>1, <1>2, <1>3, <1>4, <1>5, <1>6, <1>7, <1>8, <1>9, <1>10, <1>11

\* Following a remediation takes a unit onward, and settles the finding.
LEMMA RemedySettles ==
  ASSUME NEW p \in [Containers -> Unit], NEW h \in Host, NEW k, NEW f \in Findings(p, h, k),
         f.rule # "QD020", LateFree(p[f.unit]), NEW v \in Remedies(p[f.unit], f, h)
  PROVE  GoneOn(p[f.unit], v, h) /\ UnitSettled(f, v, h, k)
<1> DEFINE u == p[f.unit]
<1>1. f.rule \in Rules /\ f.unit \in Containers /\ AtFault(f.rule, f.unit, f.at, p, h, k)
  BY FoundBy, FoundWhen
<1>2. u \in Unit /\ v \in Unit /\ v \in Remedies(u, f, h) /\ LateFree(u)  BY <1>1, RemedyTypes
<1>u. u \in Unit  BY <1>2
<1>3. ASSUME NEW l \in Lines, u.mounts[l] # NoMount, v = Chowned(u, l)
      PROVE  /\ GoneOn(u, v, h)
             /\ v.mounts[l] # NoMount /\ v.mounts[l].chown
  <2> DEFINE m == [u.mounts[l] EXCEPT !.chown = TRUE]
             w == [u.mounts EXCEPT ![l] = m]
  <2>1. u.mounts \in [Lines -> Mount \cup {NoMount}] /\ u.mounts[l] \in Mount  BY <1>2, <1>3 DEF Unit
  <2>2. m \in Mount /\ m.chown  BY <2>1 DEF Mount
  <2>3. m # NoMount  BY <2>2, NoneAssumption
  <2>4. v = [u EXCEPT !.mounts = w]  BY <1>2, <1>3 DEF Chowned, Unit
  <2> HIDE DEF m
  <2>5. w[l] = m /\ \A j \in Lines : j # l => w[j] = u.mounts[j]  BY <2>1
  <2> HIDE DEF w, u
  <2>6. But({"mounts"}, u, v) /\ v.mounts = w  BY ONLY <1>u, <2>4 DEF But, Keys, Unit
  <2>7. \A j \in Lines : u.mounts[j] # NoMount =>
          v.mounts[j] # NoMount /\ (u.mounts[j].chown => v.mounts[j].chown)
    BY <2>2, <2>3, <2>5, <2>6
  <2>8. Onward(u, v, h)
    BY <2>6, <2>7 DEF But, Keys, Onward, ImageOnward, HasImage, groupID
  <2>9. LateFree(v)
    <3>1. v.volumes = u.volumes  BY <2>6 DEF But, Keys
    <3>2. u.volumes # NoMount => l # LateLine  BY <1>2, <1>3 DEF LateFree, u
    <3> QED  BY <1>2, <2>5, <2>6, <3>1, <3>2, LinesAssumption DEF LateFree
  <2> QED  BY <2>2, <2>3, <2>5, <2>6, <2>8, <2>9 DEF GoneOn, u
<1> HIDE DEF u
<1>4. CASE f.rule = "QD010"
  <2>1. f.at \in Lines /\ u.mounts[f.at] # NoMount  BY <1>1, <1>4 DEF AtFault, u
  <2>2. v = [u EXCEPT !.keepId = TRUE] \/ v = Chowned(u, f.at)  BY <1>2, <1>4 DEF Remedies
  <2>3. CASE v = [u EXCEPT !.keepId = TRUE]
    <3>1. But({"keepId"}, u, v) /\ v.keepId  BY ONLY <1>u, <2>3 DEF But, Keys, Unit
    <3>2. v.mounts = u.mounts  BY <3>1 DEF But, Keys
    <3> QED  BY <1>2, <1>4, <2>1, <3>1, <3>2, OnwardBy DEF UnitSettled, u
  <2>4. CASE v = Chowned(u, f.at)  BY <1>3, <1>4, <2>1, <2>4 DEF UnitSettled, u
  <2> QED  BY <2>2, <2>3, <2>4
<1>5. CASE f.rule = "QD011"
  <2>1. PICK g \in {"keep-groups", "1001"} : v = [u EXCEPT !.groupAdd = (u.groupAdd \ {"name"}) \cup {g}]
    BY <1>2, <1>5 DEF Remedies
  <2>2. But({"groupAdd"}, u, v) /\ "name" \notin v.groupAdd  BY ONLY <1>u, <2>1 DEF But, Keys, Unit
  <2> QED  BY <1>2, <1>5, <2>2, OnwardBy DEF UnitSettled, u
<1>6. CASE f.rule = "QD012"
  <2>1. f.at \in Lines /\ u.mounts[f.at] # NoMount  BY <1>1, <1>6 DEF AtFault, u
  <2>2. v = Chowned(u, f.at)  BY <1>2, <1>6 DEF Remedies
  <2> QED  BY <1>3, <1>6, <2>1, <2>2 DEF UnitSettled, u
<1>7. CASE f.rule = "QD013"
  <2>1. v = WithinRange(u, f.at, h)  BY <1>2, <1>7 DEF Remedies
  <2> DEFINE s == Total(h.subuid)  t == Total(h.subgid)
  <2>2. s \in Nat /\ t \in Nat /\ s <= s /\ t <= t  BY HostTypes
  <2>3. v = IF f.at = "uid" THEN [u EXCEPT !.user = s]
            ELSE IF u.group = NoID THEN [u EXCEPT !.userGroup = t] ELSE [u EXCEPT !.group = t]
    BY <2>1 DEF WithinRange
  <2> HIDE DEF s, t
  <2>4. CASE f.at = "uid"
    <3>1. But({"user"}, u, v) /\ v.user = s  BY ONLY <1>u, <2>3, <2>4 DEF But, Keys, Unit
    <3>2. GoneOn(u, v, h)  BY <1>2, <2>2, <3>1, OnwardBy DEF s
    <3> QED  BY <1>7, <2>2, <2>4, <3>1, <3>2 DEF UnitSettled, s, u
  <2>5. CASE f.at # "uid"
    <3>1. But({"userGroup", "group"}, u, v) /\ groupID(v) = t
      <4>1. u \in Unit /\ t # NoID  BY <1>2, <2>2, IDAssumption
      <4>2. CASE u.group = NoID
        <5>1. v = [u EXCEPT !.userGroup = t]  BY <2>3, <2>5, <4>2
        <5> QED  BY ONLY <4>1, <4>2, <5>1 DEF But, Keys, Unit, groupID
      <4>3. CASE u.group # NoID
        <5>1. v = [u EXCEPT !.group = t]  BY <2>3, <2>5, <4>3
        <5> QED  BY ONLY <4>1, <5>1 DEF But, Keys, Unit, groupID
      <4> QED  BY <4>2, <4>3
    <3>2. GoneOn(u, v, h)  BY <1>2, <2>2, <3>1, OnwardBy DEF t
    <3> QED  BY <1>7, <2>2, <2>5, <3>1, <3>2 DEF UnitSettled, t, u
  <2> QED  BY <2>4, <2>5
<1>8. CASE f.rule = "QD021"
  <2>1. v = [u EXCEPT !.restart = "always", !.install = u.install \cup {"WantedBy"}]
    BY <1>2, <1>8 DEF Remedies
  <2>2. /\ But({"restart", "install"}, u, v) /\ v.restart = "always"
        /\ v.install = u.install \cup {"WantedBy"}
    BY ONLY <1>u, <2>1 DEF But, Keys, Unit
  <2> QED  BY <1>2, <1>8, <2>2, OnwardBy DEF UnitSettled, u
<1>9. CASE f.rule = "QD022"
  <2>1. v = [u EXCEPT !.install = {"WantedBy"}]  BY <1>2, <1>9 DEF Remedies
  <2>2. But({"restart", "install"}, u, v) /\ v.restart = u.restart /\ v.install = {"WantedBy"}
    BY ONLY <1>u, <2>1 DEF But, Keys, Unit
  <2> QED  BY <1>2, <1>9, <2>2, OnwardBy DEF UnitSettled, u
<1>10. CASE f.rule = "QD023"
  <2>1. v = [u EXCEPT !.install = u.install \ {f.at}]  BY <1>2, <1>10 DEF Remedies
  <2>2. /\ But({"restart", "install"}, u, v) /\ v.restart = u.restart
        /\ v.install = u.install \ {f.at}
    BY ONLY <1>u, <2>1 DEF But, Keys, Unit
  <2>3. f.at # "WantedBy"  BY <1>1, <1>10 DEF AtFault, installKeysHonoured
  <2> QED  BY <1>2, <1>10, <2>2, <2>3, OnwardBy DEF UnitSettled, u
<1>11. CASE f.rule = "QD031"
  <2>1. v = [u EXCEPT !.port = shiftedPublish(u.port, 8000)]  BY <1>2, <1>11 DEF Remedies
  <2>2. HostPort(u.port) \in Nat /\ HostPort(u.port) >= 1
    <3>1. HostPort(u.port) \in 1..Threshold(h, k) - 1  BY <1>1, <1>11 DEF AtFault, u
    <3>2. HostPort(u.port) \in Nat  BY HostPortIs
    <3>3. Threshold(h, k) \in Nat  BY DEF Threshold, Host
    <3> QED  BY <3>1, <3>2, <3>3
  <2>3. PICK o \in Nat : o = 8000  OBVIOUS
  <2>4. u.port \in Text  BY <1>2 DEF Unit
  <2>5. HostPort(shiftedPublish(u.port, o)) = HostPort(u.port) + o
    BY ONLY <2>2, <2>4, MovedPort
  <2>6. HostPort(shiftedPublish(u.port, 8000)) > 8000
    <3>1. \A n \in Nat : n >= 1 => n + o > o  OBVIOUS
    <3> QED  BY <2>2, <2>3, <2>5, <3>1
  <2> DEFINE t == shiftedPublish(u.port, 8000)
  <2>7. v = [u EXCEPT !.port = t]  BY <2>1
  <2>8. HostPort(t) > 8000  BY <2>6
  <2> HIDE DEF t
  <2>9. But({"port"}, u, v) /\ v.port = t
    <3>1. u \in Unit  BY <1>2
    <3> QED  BY ONLY <2>7, <3>1 DEF But, Keys, Unit
  <2>10. HostPort(v.port) > 8000  BY <2>8, <2>9
  <2>11. GoneOn(u, v, h)  BY <1>2, <2>9, <2>10, OnwardBy
  <2> QED  BY <1>11, <2>10, <2>11 DEF UnitSettled, u
<1>12. CASE f.rule = "QD040"
  <2>1. HasImage(u) /\ f.at \in {"registry", "digest", "tag"}  BY <1>1, <1>12 DEF AtFault, u
  <2>2. u.image \in Image  BY <1>2, <2>1 DEF Unit, HasImage
  <2> DEFINE i == Qualified(u.image)  j == Pinned(u.image)
  <2>3. /\ i \in Image /\ i.registry /\ ImageOnward(u.image, i)
        /\ j \in Image /\ ~j.digest /\ ~Floating(j) /\ ImageOnward(u.image, j)
    BY <2>2 DEF Qualified, Pinned, Image, ImageOnward, Floating
  <2>4. \/ f.at = "registry" /\ v = [u EXCEPT !.image = i]
        \/ f.at \in {"digest", "tag"} /\ v = [u EXCEPT !.image = j]
        \/ f.at = "digest" /\ v = [u EXCEPT !.autoUpdate = FALSE]
    BY <1>2, <1>12, <2>1 DEF Remedies
  <2> HIDE DEF i, j
  <2>5. CASE f.at = "registry" /\ v = [u EXCEPT !.image = i]
    <3>1. But({"image"}, u, v) /\ v.image = i  BY ONLY <1>u, <2>5 DEF But, Keys, Unit
    <3>2. v.image # NoImage /\ HasImage(v)
      BY <2>1, <2>3, <3>1, NoneAssumption DEF HasImage, But, Keys
    <3>3. GoneOn(u, v, h)  BY <1>2, <2>3, <3>1, <3>2, OnwardBy
    <3> QED  BY <1>12, <2>3, <2>5, <3>1, <3>2, <3>3 DEF UnitSettled, u
  <2>6. CASE f.at \in {"digest", "tag"} /\ v = [u EXCEPT !.image = j]
    <3>1. But({"image"}, u, v) /\ v.image = j  BY ONLY <1>u, <2>6 DEF But, Keys, Unit
    <3>2. v.image # NoImage /\ HasImage(v)
      BY <2>1, <2>3, <3>1, NoneAssumption DEF HasImage, But, Keys
    <3>3. GoneOn(u, v, h)  BY <1>2, <2>3, <3>1, <3>2, OnwardBy
    <3> QED  BY <1>12, <2>3, <2>6, <3>1, <3>2, <3>3 DEF UnitSettled, u
  <2>7. CASE f.at = "digest" /\ v = [u EXCEPT !.autoUpdate = FALSE]
    <3>1. But({"autoUpdate"}, u, v) /\ ~v.autoUpdate  BY ONLY <1>u, <2>7 DEF But, Keys, Unit
    <3>2. HasImage(v)  BY <2>1, <3>1 DEF HasImage, But, Keys
    <3>3. GoneOn(u, v, h)  BY <1>2, <3>1, OnwardBy
    <3> QED  BY <1>12, <2>7, <3>1, <3>2, <3>3 DEF UnitSettled, u
  <2> QED  BY <2>4, <2>5, <2>6, <2>7
<1>13. CASE f.rule = "QD042"
  <2>1. \/ f.at = "Volumes" /\ u.volumes # NoMount
        \/ f.at = "image" /\ u.image # NoImage /\ u.imageKey = "image"
        \/ f.at = "RemapUsers"
    BY <1>1, <1>13 DEF AtFault, u
  <2>2. v = Renamed(u, f.at)  BY <1>2, <1>13 DEF Remedies
  <2>3. CASE f.at = "Volumes" /\ u.volumes # NoMount
    <3> DEFINE w == [u.mounts EXCEPT ![LateLine] = u.volumes]
    <3>1. v = [u EXCEPT !.volumes = NoMount, !.mounts = w]  BY <1>2, <2>2, <2>3 DEF Renamed, Unit
    <3>2. u.mounts[LateLine] = NoMount /\ \A l \in Lines : l # LateLine => w[l] = u.mounts[l]
      BY <1>2, <2>3 DEF LateFree, Unit
    <3> HIDE DEF w
    <3>3. But({"mounts", "volumes"}, u, v) /\ v.mounts = w /\ v.volumes = NoMount
      BY ONLY <1>u, <3>1 DEF But, Keys, Unit
    <3>4. \A l \in Lines : u.mounts[l] # NoMount => v.mounts[l] = u.mounts[l]  BY <3>2, <3>3
    <3>5. GoneOn(u, v, h)
      BY <3>3, <3>4 DEF GoneOn, LateFree, But, Keys, Onward, ImageOnward, HasImage, groupID
    <3> QED  BY <1>13, <2>3, <3>3, <3>5 DEF UnitSettled, u
  <2>4. CASE f.at = "image" /\ u.image # NoImage /\ u.imageKey = "image"
    <3>1. v = [u EXCEPT !.imageKey = "Image"]  BY <2>2, <2>4 DEF Renamed
    <3>2. But({"imageKey"}, u, v) /\ v.imageKey = "Image"  BY ONLY <1>u, <3>1 DEF But, Keys, Unit
    <3>3. But({"image", "imageKey"}, u, v) /\ ~HasImage(u)  BY <2>4, <3>2 DEF But, HasImage
    <3>4. GoneOn(u, v, h)  BY <1>2, <3>2, <3>3, OnwardBy
    <3> QED  BY <1>13, <2>4, <3>2, <3>4 DEF UnitSettled, u
  <2>5. CASE f.at = "RemapUsers"
    <3>1. v = [u EXCEPT !.remap = FALSE]  BY <2>2, <2>5 DEF Renamed
    <3>2. But({"remap"}, u, v) /\ ~v.remap  BY ONLY <1>u, <3>1 DEF But, Keys, Unit
    <3>3. GoneOn(u, v, h)  BY <1>2, <3>2, OnwardBy
    <3> QED  BY <1>13, <2>5, <3>2, <3>3 DEF UnitSettled, u
  <2> QED  BY <2>1, <2>3, <2>4, <2>5
<1>14. CASE f.rule = "QD043"
  <2>1. ~HasImage(u)  BY <1>1, <1>14 DEF AtFault, u
  <2>2. v = [u EXCEPT !.image = AnImage, !.imageKey = "Image"] \/ v = [u EXCEPT !.rootfs = TRUE]
    BY <1>2, <1>14 DEF Remedies
  <2>3. CASE v = [u EXCEPT !.image = AnImage, !.imageKey = "Image"]
    <3>1. AnImage \in Image  BY DEF AnImage, Image
    <3> DEFINE i == AnImage
    <3>2. v = [u EXCEPT !.image = i, !.imageKey = "Image"]  BY <2>3
    <3> HIDE DEF i
    <3>3. But({"image", "imageKey"}, u, v) /\ v.imageKey = "Image" /\ v.image = i
      BY ONLY <1>u, <3>2 DEF But, Keys, Unit
    <3>4. HasImage(v)  BY <3>1, <3>3, NoneAssumption DEF HasImage, i
    <3>5. GoneOn(u, v, h)  BY <1>2, <2>1, <3>3, OnwardBy
    <3> QED  BY <1>14, <3>4, <3>5 DEF UnitSettled, u
  <2>4. CASE v = [u EXCEPT !.rootfs = TRUE]
    <3>1. But({"rootfs"}, u, v) /\ v.rootfs  BY ONLY <1>u, <2>4 DEF But, Keys, Unit
    <3>2. GoneOn(u, v, h)  BY <1>2, <3>1, OnwardBy
    <3> QED  BY <1>14, <3>1, <3>2 DEF UnitSettled, u
  <2> QED  BY <2>2, <2>3, <2>4
<1> QED
  BY <1>1, <1>4, <1>5, <1>6, <1>7, <1>8, <1>9, <1>10, <1>11, <1>12, <1>13, <1>14 DEF Rules

\* What was mended is settled.
AllSettled ==
  \A f \in mended : f.unit \in Containers /\ f.rule \in Rules /\ Settled(f, prj, host, known)
MendInv == TypeOK /\ AllSettled /\ \A c \in Containers : LateFree(prj[c])

\* Mending a finding settles it, and unsettles none of those mended before.
LEMMA MendSettles ==
  ASSUME MendInv, NEW f \in Found, Mend(f)
  PROVE  MendInv'
<1>0. /\ TypeOK /\ AllSettled /\ (\A c \in Containers : LateFree(prj[c]))
      /\ prj \in [Containers -> Unit] /\ host \in Host
  BY DEF MendInv, TypeOK
<1>a. TypeOK'
  <2>1. Next  BY DEF Next
  <2> QED  BY <1>0, <2>1, TypeStep
<1>1. f \in Findings(prj, host, known) /\ f.rule \in Rules /\ f.unit \in Containers
      /\ AtFault(f.rule, f.unit, f.at, prj, host, known)
  BY FoundBy, FoundWhen DEF Found
<1>2. mended' = mended \cup {f} /\ known' = known  BY DEF Mend
<1>3. \A g \in mended : g.unit \in Containers /\ g.rule \in Rules /\ Settled(g, prj, host, known)
  BY <1>0 DEF AllSettled
<1>4. prj' \in [Containers -> Unit]  BY <1>a DEF TypeOK
<1>5. ASSUME host' = host,
             \A c \in Containers : prj'[c] = prj[c] \/ GoneOn(prj[c], prj'[c], host),
             Settled(f, prj', host, known)
      PROVE  MendInv'
  <2>1. \A g \in mended : Settled(g, prj', host, known)
    <3>1. \A c \in Containers : prj'[c] = prj[c] \/ Onward(prj[c], prj'[c], host)
      BY <1>5 DEF GoneOn
    <3> QED  BY <1>0, <1>3, <1>4, <3>1, SettledOnward
  <2>2. AllSettled'  BY <1>1, <1>2, <1>3, <1>5, <2>1 DEF AllSettled
  <2>3. \A c \in Containers : LateFree(prj'[c])  BY <1>0, <1>5 DEF GoneOn
  <2> QED  BY <1>a, <2>2, <2>3 DEF MendInv
<1>6. ASSUME prj' = prj, Settled(f, prj, host', known),
             \A g \in mended : Settled(g, prj, host', known)
      PROVE  MendInv'
  <2>1. AllSettled'  BY <1>1, <1>2, <1>3, <1>6 DEF AllSettled
  <2> QED  BY <1>0, <1>a, <1>6, <2>1 DEF MendInv
<1>7. CASE /\ f.rule # "QD020" /\ host' = host
           /\ \E u \in Remedies(prj[f.unit], f, host) : prj' = [prj EXCEPT ![f.unit] = u]
  <2>1. PICK u \in Remedies(prj[f.unit], f, host) : prj' = [prj EXCEPT ![f.unit] = u]  BY <1>7
  <2>2. GoneOn(prj[f.unit], u, host) /\ UnitSettled(f, u, host, known)
    BY <1>0, <1>1, <1>7, RemedySettles
  <2>3. prj'[f.unit] = u /\ \A c \in Containers : c # f.unit => prj'[c] = prj[c]
    BY <1>0, <1>1, <2>1
  <2>4. Settled(f, prj', host, known)  BY <1>7, <2>2, <2>3 DEF Settled
  <2>5. \A c \in Containers : prj'[c] = prj[c] \/ GoneOn(prj[c], prj'[c], host)  BY <2>2, <2>3
  <2> QED  BY <1>5, <1>7, <2>4, <2>5
<1>8. CASE f.rule = "QD020" /\ prj' = [prj EXCEPT ![f.at] = Notifying(@)] /\ host' = host
  <2>1. f.at \in Containers  BY <1>1, <1>8 DEF AtFault
  <2>2. prj'[f.at] = Notifying(prj[f.at]) /\ \A c \in Containers : c # f.at => prj'[c] = prj[c]
    BY <1>0, <1>8, <2>1
  <2>3. GoneOn(prj[f.at], prj'[f.at], host) /\ prj'[f.at].notify
    BY <1>0, <2>1, <2>2, NotifyingOnward DEF GoneOn
  <2>4. Settled(f, prj', host, known)  BY <1>8, <2>1, <2>3 DEF Settled
  <2>5. \A c \in Containers : prj'[c] = prj[c] \/ GoneOn(prj[c], prj'[c], host)  BY <2>2, <2>3
  <2> QED  BY <1>5, <1>8, <2>4, <2>5
<1>9. CASE f.rule = "QD013" /\ host' = Extended(host, f) /\ prj' = prj
  <2>1. Settled(f, prj, host', known)  BY <1>0, <1>1, <1>9, HostSettles
  <2>2. \A g \in mended : Settled(g, prj, host', known)  BY <1>0, <1>1, <1>3, <1>9, SettledOnHost
  <2> QED  BY <1>6, <1>9, <2>1, <2>2
<1>10. CASE f.rule = "QD031" /\ host' = Admitting(host, prj[f.unit]) /\ prj' = prj
  <2>1. Settled(f, prj, host', known)  BY <1>0, <1>1, <1>10, HostSettles
  <2>2. \A g \in mended : Settled(g, prj, host', known)  BY <1>0, <1>1, <1>3, <1>10, SettledOnHost
  <2> QED  BY <1>6, <1>10, <2>1, <2>2
<1> QED  BY <1>7, <1>8, <1>9, <1>10 DEF Mend

\* What is settled at first, when nothing was mended.
LEMMA MendInvInit == Init => MendInv
<1> SUFFICES ASSUME Init PROVE MendInv  OBVIOUS
<1>1. TypeOK  BY TypeInit
<1>2. AllSettled  BY DEF Init, AllSettled
<1>3. \A c \in Containers : LateFree(prj[c])
  <2>1. PICK s \in Situations : prj = s.prj  BY DEF Init
  <2> QED  BY <2>1, SituationsAssumption DEF LateFree
<1> QED  BY <1>1, <1>2, <1>3 DEF MendInv

\* The machine mends nothing.
LEMMA MendInvStep == MendInv /\ [Next]_vars => MendInv'
<1> SUFFICES ASSUME MendInv, [Next]_vars PROVE MendInv'  OBVIOUS
<1>1. TypeOK'  BY TypeStep DEF MendInv
<1>2. ASSUME UNCHANGED <<prj, host, known, mended>> PROVE MendInv'
  <2>1. AllSettled'  BY <1>2 DEF MendInv, AllSettled
  <2>2. (\A c \in Containers : LateFree(prj[c]))'  BY <1>2 DEF MendInv
  <2> QED  BY <1>1, <2>1, <2>2 DEF MendInv
<1>3. CASE \E f \in Found : Mend(f)  BY <1>3, MendSettles
<1>4. CASE Boot  BY <1>2, <1>4 DEF Boot
<1>5. ASSUME NEW c \in Containers,
             Launch(c) \/ StartByHand(c) \/ BecomeReady(c) \/ TimeOut(c) \/ Exit(c)
      PROVE  MendInv'
  <2>1. UNCHANGED <<prj, host, known, mended>>
    BY <1>5 DEF Launch, StartByHand, BecomeReady, TimeOut, Exit
  <2> QED  BY <1>2, <2>1
<1>6. CASE UNCHANGED vars  BY <1>2, <1>6 DEF vars
<1> QED  BY <1>3, <1>4, <1>5, <1>6 DEF Next

\* What was mended as its remediation says is not reported again, whatever else
\* is mended, however often and in whatever order, unless the remedy is short
\* of what the host is missing.
THEOREM BootMended == Spec => []MendedStaysMended
<1>1. MendInv => MendedStaysMended
  <2> SUFFICES ASSUME MendInv, NEW f \in mended, f \in Found PROVE ~Enough(f)
    BY DEF MendedStaysMended
  <2> QED  BY SettledIsMended DEF MendInv, AllSettled
<1> QED  BY <1>1, MendInvInit, MendInvStep, PTL DEF Spec

-----------------------------------------------------------------------------
(* RemediesRaiseNothing.                                                   *)

\* The keys a rule looks at.
LooksAt(rule) ==
  CASE rule = "QD010" -> {"user", "keepId", "mounts"}
    [] rule = "QD011" -> {"groupAdd"}
    [] rule = "QD012" -> {"user", "mounts"}
    [] rule = "QD013" -> {"user", "userGroup", "group"}
    [] rule = "QD020" -> {"after", "notify"}
    [] rule = "QD021" -> {"restart"}
    [] rule = "QD022" -> {"install"}
    [] rule = "QD023" -> {"install"}
    [] rule = "QD031" -> {"port"}
    [] rule = "QD040" -> {"image", "imageKey", "autoUpdate"}
    [] rule = "QD042" -> {"volumes", "image", "imageKey", "remap"}
    [] rule = "QD043" -> {"image", "imageKey", "rootfs"}

\* A rule sees no difference where those keys are as they were.
LEMMA RuleLooks ==
  ASSUME NEW p \in [Containers -> Unit], NEW q \in [Containers -> Unit], NEW h, NEW k, NEW K,
         \A d \in Containers : But(K, p[d], q[d]),
         NEW rule \in Rules, K \cap LooksAt(rule) = {},
         NEW c \in Containers, NEW at, AtFault(rule, c, at, q, h, k)
  PROVE  AtFault(rule, c, at, p, h, k)
<1>1. CASE rule = "QD010"
  <2>1. q[c].user = p[c].user /\ q[c].keepId = p[c].keepId /\ q[c].mounts = p[c].mounts
    BY <1>1 DEF LooksAt, But, Keys
  <2> QED  BY <1>1, <2>1 DEF AtFault, runsAsNonRoot
<1>2. CASE rule = "QD011"
  <2>1. q[c].groupAdd = p[c].groupAdd  BY <1>2 DEF LooksAt, But, Keys
  <2> QED  BY <1>2, <2>1 DEF AtFault
<1>3. CASE rule = "QD012"
  <2>1. \A d \in Containers : q[d].user = p[d].user /\ q[d].mounts = p[d].mounts
    BY <1>3 DEF LooksAt, But, Keys
  <2>2. \A s : NamedVolumeUsers(q, s) = NamedVolumeUsers(p, s)  BY <2>1 DEF NamedVolumeUsers
  <2>3. \A m : autoChownDefeated(q, c, m) => autoChownDefeated(p, c, m)
    BY <2>1, <2>2 DEF autoChownDefeated, runsAsNonRoot, NamedVolumeUsers
  <2> QED  BY <1>3, <2>1, <2>3 DEF AtFault, runsAsNonRoot
<1>4. CASE rule = "QD013"
  <2>1. q[c].user = p[c].user /\ groupID(q[c]) = groupID(p[c])
    BY <1>4 DEF LooksAt, But, Keys, groupID
  <2> QED  BY <1>4, <2>1 DEF AtFault
<1>5. CASE rule = "QD020"
  <2>1. \A d \in Containers : q[d].after = p[d].after /\ q[d].notify = p[d].notify
    BY <1>5 DEF LooksAt, But, Keys
  <2> QED  BY <1>5, <2>1 DEF AtFault
<1>6. CASE rule = "QD021"
  <2>1. q[c].restart = p[c].restart  BY <1>6 DEF LooksAt, But, Keys
  <2> QED  BY <1>6, <2>1 DEF AtFault
<1>7. CASE rule = "QD022"
  <2>1. q[c].install = p[c].install  BY <1>7 DEF LooksAt, But, Keys
  <2> QED  BY <1>7, <2>1 DEF AtFault
<1>8. CASE rule = "QD023"
  <2>1. q[c].install = p[c].install  BY <1>8 DEF LooksAt, But, Keys
  <2> QED  BY <1>8, <2>1 DEF AtFault
<1>9. CASE rule = "QD031"
  <2>1. q[c].port = p[c].port  BY <1>9 DEF LooksAt, But, Keys
  <2> QED  BY <1>9, <2>1 DEF AtFault
<1>10. CASE rule = "QD040"
  <2>1. /\ q[c].image = p[c].image /\ q[c].imageKey = p[c].imageKey
        /\ q[c].autoUpdate = p[c].autoUpdate
    BY <1>10 DEF LooksAt, But, Keys
  <2> QED  BY <1>10, <2>1 DEF AtFault, HasImage
<1>11. CASE rule = "QD042"
  <2>1. /\ q[c].volumes = p[c].volumes /\ q[c].image = p[c].image
        /\ q[c].imageKey = p[c].imageKey /\ q[c].remap = p[c].remap
    BY <1>11 DEF LooksAt, But, Keys
  <2> QED  BY <1>11, <2>1 DEF AtFault
<1>12. CASE rule = "QD043"
  <2>1. /\ q[c].image = p[c].image /\ q[c].imageKey = p[c].imageKey
        /\ q[c].rootfs = p[c].rootfs
    BY <1>12 DEF LooksAt, But, Keys
  <2> QED  BY <1>12, <2>1 DEF AtFault, HasImage
<1> QED
  BY <1>1, <1>2, <1>3, <1>4, <1>5, <1>6, <1>7, <1>8, <1>9, <1>10, <1>11, <1>12 DEF Rules

\* Who may be moved by a change to some keys.
LEMMA LookersAre ==
  ASSUME NEW rule \in Rules
  PROVE  /\ LooksAt(rule) \cap {"keepId"} # {} => rule = "QD010"
         /\ LooksAt(rule) \cap {"mounts"} # {} => rule \in {"QD010", "QD012"}
         /\ LooksAt(rule) \cap {"mounts", "volumes"} # {} => rule \in {"QD010", "QD012", "QD042"}
         /\ LooksAt(rule) \cap {"groupAdd"} # {} => rule = "QD011"
         /\ LooksAt(rule) \cap {"user"} # {} => rule \in {"QD010", "QD012", "QD013"}
         /\ LooksAt(rule) \cap {"userGroup", "group"} # {} => rule = "QD013"
         /\ LooksAt(rule) \cap {"notify", "health"} # {} => rule = "QD020"
         /\ LooksAt(rule) \cap {"restart", "install"} # {} => rule \in {"QD021", "QD022", "QD023"}
         /\ LooksAt(rule) \cap {"port"} # {} => rule = "QD031"
         /\ LooksAt(rule) \cap {"autoUpdate"} # {} => rule = "QD040"
         /\ LooksAt(rule) \cap {"image"} # {} => rule \in {"QD040", "QD042", "QD043"}
         /\ LooksAt(rule) \cap {"image", "imageKey"} # {} => rule \in {"QD040", "QD042", "QD043"}
         /\ LooksAt(rule) \cap {"remap"} # {} => rule = "QD042"
         /\ LooksAt(rule) \cap {"rootfs"} # {} => rule = "QD043"
BY DEF LooksAt, Rules

\* But for two rules a finding is about its own unit.
LEMMA OwnUnit ==
  ASSUME NEW p, NEW q, NEW h, NEW k, NEW rule \in Rules \ {"QD012", "QD020"},
         NEW c, q[c] = p[c], NEW at, AtFault(rule, c, at, q, h, k)
  PROVE  AtFault(rule, c, at, p, h, k)
<1>1. CASE rule = "QD010"  BY <1>1 DEF AtFault
<1>2. CASE rule = "QD011"  BY <1>2 DEF AtFault
<1>4. CASE rule = "QD013"  BY <1>4 DEF AtFault
<1>6. CASE rule = "QD021"  BY <1>6 DEF AtFault
<1>7. CASE rule = "QD022"  BY <1>7 DEF AtFault
<1>8. CASE rule = "QD023"  BY <1>8 DEF AtFault
<1>9. CASE rule = "QD031"  BY <1>9 DEF AtFault
<1>10. CASE rule = "QD040"  BY <1>10 DEF AtFault
<1>11. CASE rule = "QD042"  BY <1>11 DEF AtFault
<1>12. CASE rule = "QD043"  BY <1>12 DEF AtFault
<1> QED  BY <1>1, <1>2, <1>4, <1>6, <1>7, <1>8, <1>9, <1>10, <1>11, <1>12 DEF Rules

\* Who may claim a volume depends on who has which user and uses which volumes.
LEMMA SameRivals ==
  ASSUME NEW p, NEW q, NEW c \in Containers, NEW m,
         \A d \in Containers : q[d].user = p[d].user,
         NamedVolumeUsers(q, m.src) = NamedVolumeUsers(p, m.src),
         autoChownDefeated(q, c, m)
  PROVE  autoChownDefeated(p, c, m)
<1>1. NamedVolumeUsers(q, m.src) \subseteq Containers  BY DEF NamedVolumeUsers
<1> QED  BY <1>1 DEF autoChownDefeated, runsAsNonRoot

\* A mount that is chowned from now on is no news to the ownership rules.
LEMMA ChownedRaisesNothing ==
  ASSUME NEW p \in [Containers -> Unit], NEW e \in Containers, NEW l \in Lines,
         p[e].mounts[l] # NoMount, NEW q, q = [p EXCEPT ![e] = Chowned(p[e], l)], NEW h, NEW k,
         NEW rule \in Rules, NEW c \in Containers, NEW at, AtFault(rule, c, at, q, h, k)
  PROVE  AtFault(rule, c, at, p, h, k)
<1> DEFINE u == p[e]
           m == [u.mounts[l] EXCEPT !.chown = TRUE]
           w == [u.mounts EXCEPT ![l] = m]
           v == q[e]
<1>0. u \in Unit /\ u.mounts \in [Lines -> Mount \cup {NoMount}] /\ u.mounts[l] \in Mount
  <2>1. u \in Unit  OBVIOUS
  <2>2. u.mounts \in [Lines -> Mount \cup {NoMount}]  BY <2>1 DEF Unit
  <2> QED  BY <2>1, <2>2
<1>1. m \in Mount /\ m.chown /\ m.kind = u.mounts[l].kind /\ m.src = u.mounts[l].src
  BY <1>0 DEF Mount
<1>2. m # NoMount  BY <1>1, NoneAssumption
<1>3. v = [u EXCEPT !.mounts = w] /\ \A d \in Containers : d # e => q[d] = p[d]
  BY <1>0 DEF Chowned, Unit
<1> HIDE DEF m
<1>4. w[l] = m /\ \A j \in Lines : j # l => w[j] = u.mounts[j]  BY <1>0
<1> HIDE DEF w, u, v
<1>5. But({"mounts"}, u, v) /\ v.mounts = w  BY <1>0, <1>3 DEF But, Keys, Unit
<1>6. \A d \in Containers : But({"mounts"}, p[d], q[d])
  BY <1>3, <1>5 DEF But, u, v
<1>7. \A d \in Containers : q[d].user = p[d].user /\ q[d].keepId = p[d].keepId
  BY <1>6 DEF But, Keys
<1>8. ASSUME NEW d \in Containers, NEW j \in Lines
      PROVE  /\ q[d].mounts[j] # NoMount <=> p[d].mounts[j] # NoMount
             /\ q[d].mounts[j] # NoMount => /\ q[d].mounts[j].kind = p[d].mounts[j].kind
                                           /\ q[d].mounts[j].src = p[d].mounts[j].src
             /\ q[d].mounts[j] = p[d].mounts[j] \/ q[d].mounts[j].chown
  <2>1. CASE d # e  BY <1>3, <2>1
  <2>2. CASE d = e /\ j # l  BY <1>4, <1>5, <2>2 DEF u, v
  <2>3. CASE d = e /\ j = l  BY <1>1, <1>2, <1>4, <1>5, <2>3 DEF u, v
  <2> QED  BY <2>1, <2>2, <2>3
<1>9. \A s : NamedVolumeUsers(q, s) = NamedVolumeUsers(p, s)  BY <1>8 DEF NamedVolumeUsers
<1>10. CASE rule = "QD010"
  <2>1. /\ at \in Lines /\ q[c].mounts[at] # NoMount /\ runsAsNonRoot(q[c]) /\ ~q[c].keepId
        /\ q[c].mounts[at].kind = "bind" /\ ~q[c].mounts[at].ro /\ ~q[c].mounts[at].chown
    BY <1>10 DEF AtFault
  <2>2. q[c].mounts[at] = p[c].mounts[at]  BY <1>8, <2>1
  <2> QED  BY <1>7, <1>10, <2>1, <2>2 DEF AtFault, runsAsNonRoot
<1>11. CASE rule = "QD012"
  <2>1. /\ at \in Lines /\ q[c].mounts[at] # NoMount /\ runsAsNonRoot(q[c])
        /\ q[c].mounts[at].kind = "named" /\ ~q[c].mounts[at].chown
        /\ autoChownDefeated(q, c, q[c].mounts[at])
    BY <1>11 DEF AtFault
  <2>2. q[c].mounts[at] = p[c].mounts[at]  BY <1>8, <2>1
  <2>3. autoChownDefeated(p, c, p[c].mounts[at])
    BY ONLY <1>7, <1>9, <2>1, <2>2, SameRivals
  <2> QED  BY <1>7, <1>11, <2>1, <2>2, <2>3 DEF AtFault, runsAsNonRoot
<1>12. CASE rule \notin {"QD010", "QD012"}
  <2>1. {"mounts"} \cap LooksAt(rule) = {}  BY <1>12, LookersAre
  <2>2. q \in [Containers -> Unit]
    <3>1. w \in [Lines -> Mount \cup {NoMount}]  BY <1>0, <1>1 DEF w
    <3>2. \A x \in [Lines -> Mount \cup {NoMount}] : [u EXCEPT !.mounts = x] \in Unit
      BY <1>0 DEF Unit
    <3>3. v \in Unit  BY ONLY <1>3, <3>1, <3>2
    <3> QED  BY <3>3 DEF v
  <2> QED  BY <1>6, <2>1, <2>2, RuleLooks
<1> QED  BY <1>10, <1>11, <1>12

\* What a remediation followed in a unit may bring to light.
LEMMA RemedyReveals ==
  ASSUME NEW p \in [Containers -> Unit], NEW h \in Host, NEW k, NEW f \in Findings(p, h, k),
         f.rule # "QD020", NEW v \in Remedies(p[f.unit], f, h),
         NEW q \in [Containers -> Unit], q[f.unit] = v,
         \A d \in Containers : d # f.unit => q[d] = p[d], NEW rule \in Rules, NEW c \in Containers, NEW at,
         AtFault(rule, c, at, q, h, k), ~AtFault(rule, c, at, p, h, k)
  PROVE  rule \in Reveals(f.rule)
<1> DEFINE u == p[f.unit]
<1>1. f.rule \in Rules /\ f.unit \in Containers /\ AtFault(f.rule, f.unit, f.at, p, h, k)
  BY FoundBy, FoundWhen
<1>2. u \in Unit /\ v \in Unit /\ v \in Remedies(u, f, h) /\ q \in [Containers -> Unit]
  BY <1>1
<1>u. u \in Unit  BY <1>2
<1>3. q[f.unit] = v /\ \A d \in Containers : d # f.unit => q[d] = p[d]  OBVIOUS
<1>4. \A K : But(K, u, v) => LooksAt(rule) \cap K # {}
  <2> SUFFICES ASSUME NEW K, But(K, u, v), LooksAt(rule) \cap K = {} PROVE FALSE  OBVIOUS
  <2>1. \A d \in Containers : But(K, p[d], q[d])  BY <1>3 DEF But
  <2>2. K \cap LooksAt(rule) = {}  OBVIOUS
  <2> QED  BY <1>2, <2>1, <2>2, RuleLooks
<1>5. rule \notin {"QD012", "QD020"} => c = f.unit /\ AtFault(rule, f.unit, at, q, h, k)
  <2> SUFFICES ASSUME rule \notin {"QD012", "QD020"}, c # f.unit PROVE FALSE  OBVIOUS
  <2> QED  BY <1>3, OwnUnit
<1>6. rule \notin {"QD012", "QD020"} => ~AtFault(rule, f.unit, at, p, h, k)  BY <1>5
<1>7. ASSUME NEW l \in Lines, u.mounts[l] # NoMount, v = Chowned(u, l) PROVE FALSE
  <2>1. q = [p EXCEPT ![f.unit] = Chowned(p[f.unit], l)]  BY <1>1, <1>3, <1>7
  <2> QED  BY <1>1, <1>7, <2>1, ChownedRaisesNothing
<1> HIDE DEF u
<1>10. CASE f.rule = "QD010"
  <2>1. f.at \in Lines /\ u.mounts[f.at] # NoMount  BY <1>1, <1>10 DEF AtFault, u
  <2>2. v = [u EXCEPT !.keepId = TRUE]  BY <1>2, <1>7, <1>10, <2>1 DEF Remedies
  <2>3. But({"keepId"}, u, v) /\ v.keepId  BY ONLY <1>u, <2>2 DEF But, Keys, Unit
  <2>4. rule = "QD010"  BY <1>4, <2>3, LookersAre
  <2> QED  BY <1>3, <1>5, <2>3, <2>4 DEF AtFault
<1>11. CASE f.rule = "QD011"
  <2>1. PICK g \in {"keep-groups", "1001"} : v = [u EXCEPT !.groupAdd = (u.groupAdd \ {"name"}) \cup {g}]
    BY <1>2, <1>11 DEF Remedies
  <2>2. But({"groupAdd"}, u, v) /\ "name" \notin v.groupAdd  BY ONLY <1>u, <2>1 DEF But, Keys, Unit
  <2>3. rule = "QD011"  BY <1>4, <2>2, LookersAre
  <2> QED  BY <1>3, <1>5, <2>2, <2>3 DEF AtFault
<1>12. CASE f.rule = "QD012"
  <2>1. f.at \in Lines /\ u.mounts[f.at] # NoMount  BY <1>1, <1>12 DEF AtFault, u
  <2> QED  BY <1>2, <1>7, <1>12, <2>1 DEF Remedies
<1>13. CASE f.rule = "QD013"
  <2>1. v = WithinRange(u, f.at, h)  BY <1>2, <1>13 DEF Remedies
  <2> DEFINE s == Total(h.subuid)  t == Total(h.subgid)
  <2>2. s \in Nat /\ t \in Nat /\ ~(s > s) /\ ~(t > t)  BY HostTypes
  <2>3. v = IF f.at = "uid" THEN [u EXCEPT !.user = s]
            ELSE IF u.group = NoID THEN [u EXCEPT !.userGroup = t] ELSE [u EXCEPT !.group = t]
    BY <2>1 DEF WithinRange
  <2> HIDE DEF s, t
  <2>4. CASE f.at = "uid"
    <3>1. But({"user"}, u, v) /\ v.user = s  BY ONLY <1>u, <2>3, <2>4 DEF But, Keys, Unit
    <3>2. rule \in {"QD010", "QD012", "QD013"}  BY <1>4, <3>1, LookersAre
    <3>3. u.user \in Nat \ {0}
      BY <1>1, <1>13, <2>4 DEF AtFault, outsideRange, u
    <3>4. /\ v.keepId = u.keepId /\ v.mounts = u.mounts /\ groupID(v) = groupID(u)
      BY <3>1 DEF But, Keys, groupID
    <3>5. rule # "QD010"
      <4> SUFFICES ASSUME rule = "QD010" PROVE FALSE  OBVIOUS
      <4>1. AtFault("QD010", f.unit, at, q, h, k)  BY <1>5
      <4>2. AtFault("QD010", f.unit, at, p, h, k)
        BY <1>3, <3>3, <3>4, <4>1 DEF AtFault, runsAsNonRoot, u
      <4> QED  BY <1>6, <4>2
    <3>6. rule # "QD013"
      <4> SUFFICES ASSUME rule = "QD013" PROVE FALSE  OBVIOUS
      <4>1. AtFault("QD013", f.unit, at, q, h, k) /\ ~AtFault("QD013", f.unit, at, p, h, k)
        BY <1>5, <1>6
      <4>2. ~outsideRange(v.user, h.subuid)  BY <2>2, <3>1 DEF outsideRange, s
      <4> QED  BY <1>3, <3>4, <4>1, <4>2 DEF AtFault, u
    <3> QED  BY <1>13, <3>2, <3>5, <3>6 DEF Reveals
  <2>5. CASE f.at # "uid"
    <3>1. But({"userGroup", "group"}, u, v) /\ groupID(v) = t
      <4>1. u \in Unit /\ t # NoID  BY <1>2, <2>2, IDAssumption
      <4>2. CASE u.group = NoID
        <5>1. v = [u EXCEPT !.userGroup = t]  BY <2>3, <2>5, <4>2
        <5> QED  BY ONLY <4>1, <4>2, <5>1 DEF But, Keys, Unit, groupID
      <4>3. CASE u.group # NoID
        <5>1. v = [u EXCEPT !.group = t]  BY <2>3, <2>5, <4>3
        <5> QED  BY ONLY <4>1, <5>1 DEF But, Keys, Unit, groupID
      <4> QED  BY <4>2, <4>3
    <3>2. rule = "QD013"  BY <1>4, <3>1, LookersAre
    <3>3. v.user = u.user  BY <3>1 DEF But, Keys
    <3>4. AtFault("QD013", f.unit, at, q, h, k) /\ ~AtFault("QD013", f.unit, at, p, h, k)
      BY <1>5, <1>6, <3>2
    <3>5. ~outsideRange(groupID(v), h.subgid)  BY <2>2, <3>1 DEF outsideRange, t
    <3> QED  BY <1>3, <3>3, <3>4, <3>5 DEF AtFault, u
  <2> QED  BY <2>4, <2>5
<1>14. CASE f.rule = "QD021"
  <2>1. v = [u EXCEPT !.restart = "always", !.install = u.install \cup {"WantedBy"}]
    BY <1>2, <1>14 DEF Remedies
  <2>2. /\ But({"restart", "install"}, u, v) /\ v.restart = "always"
        /\ v.install = u.install \cup {"WantedBy"}
    BY ONLY <1>u, <2>1 DEF But, Keys, Unit
  <2>3. rule \in {"QD021", "QD022", "QD023"}  BY <1>4, <2>2, LookersAre
  <2>4. CASE rule = "QD021"  BY <1>3, <1>5, <2>2, <2>4 DEF AtFault
  <2>5. CASE rule = "QD022"  BY <1>3, <1>5, <2>2, <2>5 DEF AtFault
  <2>6. CASE rule = "QD023"
    BY <1>3, <1>5, <1>6, <2>2, <2>6 DEF AtFault, installKeysHonoured, u
  <2> QED  BY <2>3, <2>4, <2>5, <2>6
<1>15. CASE f.rule = "QD022"
  <2>1. v = [u EXCEPT !.install = {"WantedBy"}]  BY <1>2, <1>15 DEF Remedies
  <2>2. But({"restart", "install"}, u, v) /\ v.restart = u.restart /\ v.install = {"WantedBy"}
    BY ONLY <1>u, <2>1 DEF But, Keys, Unit
  <2>3. rule \in {"QD021", "QD022", "QD023"}  BY <1>4, <2>2, LookersAre
  <2>4. CASE rule = "QD021"  BY <1>3, <1>5, <1>6, <2>2, <2>4 DEF AtFault, u
  <2>5. CASE rule = "QD022"  BY <1>3, <1>5, <2>2, <2>5 DEF AtFault
  <2>6. CASE rule = "QD023"  BY <1>3, <1>5, <2>2, <2>6 DEF AtFault, installKeysHonoured
  <2> QED  BY <2>3, <2>4, <2>5, <2>6
<1>16. CASE f.rule = "QD023"
  <2>1. v = [u EXCEPT !.install = u.install \ {f.at}]  BY <1>2, <1>16 DEF Remedies
  <2>2. /\ But({"restart", "install"}, u, v) /\ v.restart = u.restart
        /\ v.install = u.install \ {f.at}
    BY ONLY <1>u, <2>1 DEF But, Keys, Unit
  <2>3. rule \in {"QD021", "QD022", "QD023"}  BY <1>4, <2>2, LookersAre
  <2>4. CASE rule = "QD021"  BY <1>3, <1>5, <1>6, <2>2, <2>4 DEF AtFault, u
  <2>5. CASE rule = "QD022"  BY <1>16, <2>5 DEF Reveals
  <2>6. CASE rule = "QD023"  BY <1>3, <1>5, <1>6, <2>2, <2>6 DEF AtFault, u
  <2> QED  BY <2>3, <2>4, <2>5, <2>6
<1>17. CASE f.rule = "QD031"
  <2> DEFINE t == shiftedPublish(u.port, 8000)
  <2>1. v = [u EXCEPT !.port = t]  BY <1>2, <1>17 DEF Remedies
  <2> HIDE DEF t
  <2>2. But({"port"}, u, v)
    <3>1. u \in Unit  BY <1>2
    <3> QED  BY ONLY <2>1, <3>1 DEF But, Keys, Unit
  <2>3. rule = "QD031"  BY <1>4, <2>2, LookersAre
  <2>4. at = "PublishPort"  BY <1>5, <2>3 DEF AtFault
  <2>5. f.at = "PublishPort"  BY <1>1, <1>17 DEF AtFault
  <2> QED  BY <1>1, <1>6, <1>17, <2>3, <2>4, <2>5
<1>18. CASE f.rule = "QD040"
  <2>1. HasImage(u) /\ f.at \in {"registry", "digest", "tag"}  BY <1>1, <1>18 DEF AtFault, u
  <2>2. u.image \in Image  BY <1>2, <2>1 DEF Unit, HasImage
  <2> DEFINE i == Qualified(u.image)  j == Pinned(u.image)
  <2>3. i \in Image /\ j \in Image  BY <2>2 DEF Qualified, Pinned, Image
  <2>4. \/ v = [u EXCEPT !.image = i]
        \/ v = [u EXCEPT !.image = j]
        \/ v = [u EXCEPT !.autoUpdate = FALSE]
    BY <1>2, <1>18, <2>1 DEF Remedies
  <2> HIDE DEF i, j
  <2>5. ASSUME NEW n \in Image, v = [u EXCEPT !.image = n] PROVE rule \in Reveals(f.rule)
    <3>1. But({"image"}, u, v) /\ v.image = n  BY ONLY <1>u, <2>5 DEF But, Keys, Unit
    <3>2. HasImage(v)  BY <2>1, <3>1, NoneAssumption DEF HasImage, But, Keys
    <3>3. rule \in {"QD040", "QD042", "QD043"}  BY <1>4, <3>1, LookersAre
    <3>4. rule # "QD042"
      <4>1. v.volumes = u.volumes /\ v.remap = u.remap /\ v.imageKey = "Image"
        BY <3>1, <3>2 DEF But, Keys, HasImage
      <4> QED  BY <1>3, <1>5, <1>6, <4>1 DEF AtFault, u
    <3>5. rule # "QD043"  BY <1>3, <1>5, <3>2 DEF AtFault
    <3> QED  BY <1>18, <3>3, <3>4, <3>5 DEF Reveals
  <2>6. ASSUME v = [u EXCEPT !.autoUpdate = FALSE] PROVE rule \in Reveals(f.rule)
    <3>1. But({"autoUpdate"}, u, v)  BY ONLY <1>u, <2>6 DEF But, Keys, Unit
    <3> QED  BY <1>4, <1>18, <3>1, LookersAre DEF Reveals
  <2> QED  BY <2>3, <2>4, <2>5, <2>6
<1>19. CASE f.rule = "QD042"
  <2>1. \/ f.at = "Volumes" /\ u.volumes # NoMount
        \/ f.at = "image" /\ u.image # NoImage /\ u.imageKey = "image"
        \/ f.at = "RemapUsers"
    BY <1>1, <1>19 DEF AtFault, u
  <2>2. v = Renamed(u, f.at)  BY <1>2, <1>19 DEF Remedies
  <2>3. CASE f.at = "Volumes"
    <3> DEFINE w == [u.mounts EXCEPT ![LateLine] = u.volumes]
    <3>1. v = [u EXCEPT !.volumes = NoMount, !.mounts = w]  BY <1>2, <2>2, <2>3 DEF Renamed, Unit
    <3> HIDE DEF w
    <3>2. But({"mounts", "volumes"}, u, v) /\ v.volumes = NoMount
      BY ONLY <1>u, <3>1 DEF But, Keys, Unit
    <3>3. rule \in {"QD010", "QD012", "QD042"}  BY <1>4, <3>2, LookersAre
    <3>4. rule # "QD042"
      <4>1. v.image = u.image /\ v.remap = u.remap /\ v.imageKey = u.imageKey
        BY <3>2 DEF But, Keys
      <4> QED  BY <1>3, <1>5, <1>6, <3>2, <4>1 DEF AtFault, u
    <3> QED  BY <1>19, <3>3, <3>4 DEF Reveals
  <2>4. CASE f.at = "image" /\ u.image # NoImage /\ u.imageKey = "image"
    <3>1. v = [u EXCEPT !.imageKey = "Image"]  BY <2>2, <2>4 DEF Renamed
    <3>2. But({"imageKey"}, u, v) /\ v.imageKey = "Image"  BY ONLY <1>u, <3>1 DEF But, Keys, Unit
    <3>3. But({"image", "imageKey"}, u, v)  BY <3>2 DEF But
    <3>4. HasImage(v)  BY <2>4, <3>2 DEF HasImage, But, Keys
    <3>5. rule \in {"QD040", "QD042", "QD043"}  BY <1>4, <3>3, LookersAre
    <3>6. rule # "QD042"
      <4>1. v.volumes = u.volumes /\ v.remap = u.remap  BY <3>2 DEF But, Keys
      <4> QED  BY <1>3, <1>5, <1>6, <3>2, <4>1 DEF AtFault, u
    <3>7. rule # "QD043"  BY <1>3, <1>5, <3>4 DEF AtFault
    <3> QED  BY <1>19, <3>5, <3>6, <3>7 DEF Reveals
  <2>5. CASE f.at = "RemapUsers"
    <3>1. v = [u EXCEPT !.remap = FALSE]  BY <2>2, <2>5 DEF Renamed
    <3>2. But({"remap"}, u, v) /\ ~v.remap  BY ONLY <1>u, <3>1 DEF But, Keys, Unit
    <3>3. rule = "QD042"  BY <1>4, <3>2, LookersAre
    <3>4. v.volumes = u.volumes /\ v.image = u.image /\ v.imageKey = u.imageKey
      BY <3>2 DEF But, Keys
    <3> QED  BY <1>3, <1>5, <1>6, <3>2, <3>3, <3>4 DEF AtFault, u
  <2> QED  BY <2>1, <2>3, <2>4, <2>5
<1>20. CASE f.rule = "QD043"
  <2>2. v = [u EXCEPT !.image = AnImage, !.imageKey = "Image"] \/ v = [u EXCEPT !.rootfs = TRUE]
    BY <1>2, <1>20 DEF Remedies
  <2>3. CASE v = [u EXCEPT !.image = AnImage, !.imageKey = "Image"]
    <3> DEFINE i == AnImage
    <3>1. i \in Image /\ i.registry /\ ~i.digest /\ ~Floating(i)  BY DEF AnImage, Image, Floating
    <3>2. v = [u EXCEPT !.image = i, !.imageKey = "Image"]  BY <2>3
    <3> HIDE DEF i
    <3>3. But({"image", "imageKey"}, u, v) /\ v.imageKey = "Image" /\ v.image = i
      BY ONLY <1>u, <3>2 DEF But, Keys, Unit
    <3>4. HasImage(v)  BY <3>1, <3>3, NoneAssumption DEF HasImage
    <3>5. rule \in {"QD040", "QD042", "QD043"}  BY <1>4, <3>3, LookersAre
    <3>6. rule # "QD040"  BY <1>3, <1>5, <3>1, <3>3 DEF AtFault
    <3>7. rule # "QD042"
      <4>1. v.volumes = u.volumes /\ v.remap = u.remap  BY <3>3 DEF But, Keys
      <4> QED  BY <1>3, <1>5, <1>6, <3>3, <4>1 DEF AtFault, u
    <3>8. rule # "QD043"  BY <1>3, <1>5, <3>4 DEF AtFault
    <3> QED  BY <3>5, <3>6, <3>7, <3>8
  <2>4. CASE v = [u EXCEPT !.rootfs = TRUE]
    <3>1. But({"rootfs"}, u, v) /\ v.rootfs  BY ONLY <1>u, <2>4 DEF But, Keys, Unit
    <3>2. rule = "QD043"  BY <1>4, <3>1, LookersAre
    <3> QED  BY <1>3, <1>5, <3>1, <3>2 DEF AtFault
  <2> QED  BY <2>2, <2>3, <2>4
<1> QED
  BY <1>1, <1>10, <1>11, <1>12, <1>13, <1>14, <1>15, <1>16, <1>17, <1>18, <1>19, <1>20 DEF Rules

\* Nor does any rule mind a host with larger ranges or a lower threshold.
LEMMA HostRaisesNothing ==
  ASSUME NEW p \in [Containers -> Unit], NEW h \in Host, NEW g \in Host, NEW k,
         g.rootless = h.rootless, Total(g.subuid) >= Total(h.subuid),
         Total(g.subgid) >= Total(h.subgid), Threshold(g, k) <= Threshold(h, k),
         NEW rule \in Rules, NEW c \in Containers, NEW at, AtFault(rule, c, at, p, g, k)
  PROVE  AtFault(rule, c, at, p, h, k)
<1>1. CASE rule = "QD013"
  <2>1. /\ Total(g.subuid) \in Nat /\ Total(g.subgid) \in Nat
        /\ Total(h.subuid) \in Nat /\ Total(h.subgid) \in Nat
    BY HostTypes
  <2>2. \A id \in Nat : outsideRange(id, g.subuid) => outsideRange(id, h.subuid)
    BY <2>1 DEF outsideRange
  <2>3. \A id \in Nat : outsideRange(id, g.subgid) => outsideRange(id, h.subgid)
    BY <2>1 DEF outsideRange
  <2> QED  BY <1>1, <2>2, <2>3 DEF AtFault
<1>2. CASE rule = "QD031"
  <2>1. Threshold(g, k) \in Nat /\ Threshold(h, k) \in Nat  BY DEF Threshold, Host
  <2>2. HostPort(p[c].port) \in 1..Threshold(g, k) - 1  BY <1>2 DEF AtFault
  <2>3. HostPort(p[c].port) \in 1..Threshold(h, k) - 1  BY <2>1, <2>2
  <2> QED  BY <1>2, <2>3 DEF AtFault
<1>3. CASE rule \notin {"QD013", "QD031"}
  <2>1. CASE rule = "QD010"  BY <2>1 DEF AtFault
  <2>2. CASE rule = "QD011"  BY <2>2 DEF AtFault
  <2>3. CASE rule = "QD012"  BY <2>3 DEF AtFault
  <2>4. CASE rule = "QD020"  BY <2>4 DEF AtFault
  <2>5. CASE rule = "QD021"  BY <2>5 DEF AtFault
  <2>6. CASE rule = "QD022"  BY <2>6 DEF AtFault
  <2>7. CASE rule = "QD023"  BY <2>7 DEF AtFault
  <2>8. CASE rule = "QD040"  BY <2>8 DEF AtFault
  <2>9. CASE rule = "QD042"  BY <2>9 DEF AtFault
  <2>10. CASE rule = "QD043"  BY <2>10 DEF AtFault
  <2> QED  BY <1>3, <2>1, <2>2, <2>3, <2>4, <2>5, <2>6, <2>7, <2>8, <2>9, <2>10 DEF Rules
<1> QED  BY <1>1, <1>2, <1>3

\* The two ways in which a remediation changes the host are of that kind.
LEMMA HostOnward ==
  ASSUME NEW p \in [Containers -> Unit], NEW h \in Host, NEW k, NEW f \in Findings(p, h, k), NEW g,
         \/ f.rule = "QD013" /\ g = Extended(h, f)
         \/ f.rule = "QD031" /\ g = Admitting(h, p[f.unit])
  PROVE  /\ g \in Host /\ g.rootless = h.rootless /\ Total(g.subuid) >= Total(h.subuid)
         /\ Total(g.subgid) >= Total(h.subgid) /\ Threshold(g, k) <= Threshold(h, k)
<1>0. \A x, y \in Nat : x >= x /\ x + y >= x  OBVIOUS
<1>1. g \in Host  BY HostTypes
<1>2. /\ h.subuid \in Seq(Nat) /\ h.subgid \in Seq(Nat) /\ h.threshold \in Nat
      /\ Total(h.subuid) \in Nat /\ Total(h.subgid) \in Nat
  BY HostTypes DEF Host
<1>3. Threshold(h, k) \in Nat  BY <1>2 DEF Threshold
<1>4. CASE g = Extended(h, f)
  <2>1. PICK n \in Nat : n = 65536  OBVIOUS
  <2>2. /\ Total(Append(h.subuid, n)) = Total(h.subuid) + n
        /\ Total(Append(h.subgid, n)) = Total(h.subgid) + n
    BY ONLY <1>2, n \in Nat, TotalAppended
  <2>3. g.rootless = h.rootless /\ g.threshold = h.threshold  BY <1>4 DEF Extended, Host
  <2>4. /\ g.subuid \in {h.subuid, Append(h.subuid, n)}
        /\ g.subgid \in {h.subgid, Append(h.subgid, n)}
    BY <1>4, <2>1 DEF Extended, Host
  <2>5. Threshold(g, k) = Threshold(h, k)  BY <2>3 DEF Threshold
  <2>6. Total(g.subuid) >= Total(h.subuid)
    <3>1. Total(g.subuid) \in {Total(h.subuid), Total(h.subuid) + n}  BY ONLY <2>2, <2>4
    <3> QED  BY ONLY <1>0, <1>2, <3>1, n \in Nat
  <2>7. Total(g.subgid) >= Total(h.subgid)
    <3>1. Total(g.subgid) \in {Total(h.subgid), Total(h.subgid) + n}  BY ONLY <2>2, <2>4
    <3> QED  BY ONLY <1>0, <1>2, <3>1, n \in Nat
  <2> QED  BY <1>1, <1>3, <2>3, <2>5, <2>6, <2>7
<1>5. CASE f.rule = "QD031" /\ g = Admitting(h, p[f.unit])
  <2>1. AtFault("QD031", f.unit, f.at, p, h, k)
    <3>1. /\ f.rule \in Rules /\ f.unit \in Containers /\ f = At(f.rule, f.unit, f.at)  BY FoundBy
    <3> QED  BY <1>5, <3>1, FoundWhen
  <2>2. HostPort(p[f.unit].port) \in 1..Threshold(h, k) - 1  BY <2>1 DEF AtFault
  <2>3. /\ g.rootless = h.rootless /\ g.subuid = h.subuid /\ g.subgid = h.subgid
        /\ g.threshold = HostPort(p[f.unit].port)
    BY <1>5 DEF Admitting, Host
  <2>4. Threshold(g, k) <= Threshold(h, k)
    <3>1. CASE "threshold" \in k  BY <1>3, <2>2, <2>3, <3>1 DEF Threshold
    <3>2. CASE "threshold" \notin k  BY <1>3, <3>2 DEF Threshold
    <3> QED  BY <3>1, <3>2
  <2> QED  BY <1>1, <1>2, <2>3, <2>4
<1> QED  BY <1>4, <1>5

\* A unit that notifies gives no one a reason to complain.
LEMMA NotifyingRaisesNothing ==
  ASSUME NEW p \in [Containers -> Unit], NEW d \in Containers, NEW q,
         q = [p EXCEPT ![d] = Notifying(p[d])], NEW h, NEW k,
         NEW rule \in Rules, NEW c \in Containers, NEW at, AtFault(rule, c, at, q, h, k)
  PROVE  AtFault(rule, c, at, p, h, k)
<1> DEFINE u == p[d]  v == q[d]
<1>1. u \in Unit /\ v = Notifying(u) /\ \A e \in Containers : e # d => q[e] = p[e]  OBVIOUS
<1> HIDE DEF u, v
<1>2. v \in Unit /\ But({"notify", "health"}, u, v) /\ v.notify
  BY ONLY <1>1 DEF Notifying, But, Keys, Unit
<1>3. q \in [Containers -> Unit]  BY <1>2 DEF v
<1>4. \A e \in Containers : But({"notify", "health"}, p[e], q[e])
  BY <1>1, <1>2 DEF But, u, v
<1>5. CASE {"notify", "health"} \cap LooksAt(rule) = {}  BY <1>3, <1>4, <1>5, RuleLooks
<1>6. CASE {"notify", "health"} \cap LooksAt(rule) # {}
  <2>1. rule = "QD020"  BY <1>6, LookersAre
  <2>2. at \in Containers /\ {at} \in q[c].after /\ ~q[at].notify  BY <2>1 DEF AtFault
  <2>3. q[at] = p[at]  BY <1>1, <1>2, <2>2 DEF v
  <2>4. q[c].after = p[c].after  BY <1>4 DEF But, Keys
  <2> QED  BY <2>1, <2>2, <2>3, <2>4 DEF AtFault
<1> QED  BY <1>5, <1>6

\* So following a remediation brings to light what it may, and nothing else.
LEMMA MendRaisesNothing ==
  ASSUME TypeOK, NEW f \in Found, Mend(f), NEW g \in Findings(prj', host', known') \ Found
  PROVE  g.rule \in Reveals(f.rule)
<1> DEFINE p == prj  q == prj'  h == host  i == host'  k == known
<1>0. p \in [Containers -> Unit] /\ h \in Host /\ f \in Findings(p, h, k) /\ known' = k
  BY DEF TypeOK, Found, Mend
<1>1. g \in Findings(q, i, k) /\ g \notin Findings(p, h, k)  BY <1>0 DEF Found
<1>2. g.rule \in Rules /\ g.unit \in Containers /\ g = At(g.rule, g.unit, g.at)  BY <1>1, FoundBy
<1>3. AtFault(g.rule, g.unit, g.at, q, i, k) /\ ~AtFault(g.rule, g.unit, g.at, p, h, k)
  BY <1>1, <1>2, FoundWhen
<1>4. /\ f.rule \in Rules /\ f.unit \in Containers /\ f = At(f.rule, f.unit, f.at)
      /\ AtFault(f.rule, f.unit, f.at, p, h, k)
  BY <1>0, FoundBy, FoundWhen
<1>5. \/ /\ f.rule # "QD020"
         /\ \E u \in Remedies(p[f.unit], f, h) : q = [p EXCEPT ![f.unit] = u]
         /\ i = h
      \/ f.rule = "QD020" /\ q = [p EXCEPT ![f.at] = Notifying(p[f.at])] /\ i = h
      \/ f.rule = "QD013" /\ i = Extended(h, f) /\ q = p
      \/ f.rule = "QD031" /\ i = Admitting(h, p[f.unit]) /\ q = p
  BY DEF Mend
<1> HIDE DEF p, q, h, i, k
<1>6. CASE /\ f.rule # "QD020"
           /\ \E u \in Remedies(p[f.unit], f, h) : q = [p EXCEPT ![f.unit] = u]
           /\ i = h
  <2>1. PICK u \in Remedies(p[f.unit], f, h) : q = [p EXCEPT ![f.unit] = u]  BY <1>6
  <2>2. AtFault(g.rule, g.unit, g.at, q, h, k)  BY <1>3, <1>6
  <2>3. f.rule # "QD020" /\ ~AtFault(g.rule, g.unit, g.at, p, h, k)  BY <1>3, <1>6
  <2>4. u \in Unit  BY <1>0, RemedyTypes
  <2>5. /\ q \in [Containers -> Unit] /\ q[f.unit] = u
        /\ \A d \in Containers : d # f.unit => q[d] = p[d]
    BY <1>0, <1>4, <2>1, <2>4
  <2> QED  BY ONLY <1>0, <1>2, <2>2, <2>3, <2>5, RemedyReveals
<1>7. CASE f.rule = "QD020" /\ q = [p EXCEPT ![f.at] = Notifying(p[f.at])] /\ i = h
  <2>1. f.at \in Containers  BY <1>4, <1>7 DEF AtFault
  <2>2. AtFault(g.rule, g.unit, g.at, q, h, k)  BY <1>3, <1>7
  <2> QED  BY <1>0, <1>2, <1>3, <1>7, <2>1, <2>2, NotifyingRaisesNothing
<1>8. CASE /\ \/ f.rule = "QD013" /\ i = Extended(h, f)
              \/ f.rule = "QD031" /\ i = Admitting(h, p[f.unit])
           /\ q = p
  <2>1. /\ i \in Host /\ i.rootless = h.rootless /\ Total(i.subuid) >= Total(h.subuid)
        /\ Total(i.subgid) >= Total(h.subgid) /\ Threshold(i, k) <= Threshold(h, k)
    BY <1>0, <1>8, HostOnward
  <2>2. AtFault(g.rule, g.unit, g.at, p, i, k)  BY <1>3, <1>8
  <2> QED  BY <1>0, <1>2, <1>3, <2>1, <2>2, HostRaisesNothing
<1> QED  BY <1>5, <1>6, <1>7, <1>8

\* Following a remediation raises no finding that was not there, in that unit
\* or in another, but for those the remedied line had hidden: for any project,
\* host and facts, and however many remediations came before.
THEOREM BootRaisesNothing == Spec => RemediesRaiseNothing
<1> DEFINE NothingNew == \A f \in mended' \ mended : \A g \in Findings(prj', host', known') \ Found :
                       g.rule \in Reveals(f.rule)
<1>1. TypeOK /\ [Next]_vars => [NothingNew]_vars
  <2> SUFFICES ASSUME TypeOK, Next PROVE NothingNew  OBVIOUS
  <2>1. CASE \E f \in Found : Mend(f)
    <3>1. PICK f \in Found : Mend(f)  BY <2>1
    <3>2. mended' = mended \cup {f}  BY <3>1 DEF Mend
    <3> QED  BY <3>1, <3>2, MendRaisesNothing
  <2>2. CASE ~\E f \in Found : Mend(f)
    <3>1. mended' = mended
      BY <2>2 DEF Next, Boot, Launch, StartByHand, BecomeReady, TimeOut, Exit
    <3> QED  BY <3>1
  <2> QED  BY <2>1, <2>2
<1> QED  BY <1>1, BootTypes, PTL DEF Spec, RemediesRaiseNothing

-----------------------------------------------------------------------------
(* ExposureKept.                                                           *)

\* Only QD031 moves a port, and as it says.
LEMMA PortsMove ==
  ASSUME NEW u \in Unit, NEW h, NEW f, f.rule \in Rules, AtFault(f.rule, f.unit, f.at, prj, host, known),
         NEW v \in Remedies(u, f, h), v.port # u.port
  PROVE  f.rule = "QD031" /\ v.port = shiftedPublish(u.port, 8000)
<1>u. "port" \in DOMAIN u  BY DEF Unit
<1>1. CASE f.rule = "QD031"
  <2>1. v = [u EXCEPT !.port = shiftedPublish(u.port, 8000)]  BY <1>1 DEF Remedies
  <2> QED  BY <1>u, <1>1, <2>1
<1>2. \A l : Chowned(u, l).port = u.port  BY <1>u DEF Chowned
<1>3. \A at : WithinRange(u, at, h).port = u.port  BY <1>u DEF WithinRange
<1>4. \A at \in {"Volumes", "image", "RemapUsers"} : Renamed(u, at).port = u.port
  BY <1>u DEF Renamed
<1>5. CASE f.rule = "QD010"
  <2>1. v = [u EXCEPT !.keepId = TRUE] \/ v = Chowned(u, f.at)  BY <1>5 DEF Remedies
  <2> QED  BY <1>u, <1>2, <2>1
<1>6. CASE f.rule = "QD011"
  <2>1. PICK g \in {"keep-groups", "1001"} : v = [u EXCEPT !.groupAdd = (u.groupAdd \ {"name"}) \cup {g}]
    BY <1>6 DEF Remedies
  <2> QED  BY <1>u, <2>1
<1>7. CASE f.rule = "QD012"
  <2>1. v = Chowned(u, f.at)  BY <1>7 DEF Remedies
  <2> QED  BY <1>2, <2>1
<1>8. CASE f.rule = "QD013"
  <2>1. v = WithinRange(u, f.at, h)  BY <1>8 DEF Remedies
  <2> QED  BY <1>3, <2>1
<1>9. CASE f.rule = "QD020"
  <2>1. v = u  BY <1>9 DEF Remedies
  <2> QED  BY <2>1
<1>10. CASE f.rule = "QD021"
  <2>1. v = [u EXCEPT !.restart = "always", !.install = u.install \cup {"WantedBy"}]
    BY <1>10 DEF Remedies
  <2> QED  BY <1>u, <2>1
<1>11. CASE f.rule \in {"QD022", "QD023"}
  <2>1. v = [u EXCEPT !.install = {"WantedBy"}] \/ v = [u EXCEPT !.install = u.install \ {f.at}]
    BY <1>11 DEF Remedies
  <2> QED  BY <1>u, <2>1
<1>12. CASE f.rule = "QD040"
  <2>1. f.at \in {"registry", "digest", "tag"}  BY <1>12 DEF AtFault
  <2>2. \/ v = [u EXCEPT !.image = Qualified(u.image)] \/ v = [u EXCEPT !.image = Pinned(u.image)]
        \/ v = [u EXCEPT !.autoUpdate = FALSE]
    BY <1>12, <2>1 DEF Remedies
  <2>3. v.port = u.port
    <3>1. CASE v = [u EXCEPT !.image = Qualified(u.image)]  BY ONLY <1>u, <3>1
    <3>2. CASE v = [u EXCEPT !.image = Pinned(u.image)]  BY ONLY <1>u, <3>2
    <3>3. CASE v = [u EXCEPT !.autoUpdate = FALSE]  BY ONLY <1>u, <3>3
    <3> QED  BY ONLY <2>2, <3>1, <3>2, <3>3
  <2> QED  BY <2>3
<1>13. CASE f.rule = "QD042"
  <2>1. f.at \in {"Volumes", "image", "RemapUsers"}  BY <1>13 DEF AtFault
  <2>2. v = Renamed(u, f.at)  BY <1>13 DEF Remedies
  <2> QED  BY <1>4, <2>1, <2>2
<1>14. CASE f.rule = "QD043"
  <2>1. v = [u EXCEPT !.image = AnImage, !.imageKey = "Image"] \/ v = [u EXCEPT !.rootfs = TRUE]
    BY <1>14 DEF Remedies
  <2>2. v.port = u.port
    <3>1. CASE v = [u EXCEPT !.image = AnImage, !.imageKey = "Image"]  BY ONLY <1>u, <3>1
    <3>2. CASE v = [u EXCEPT !.rootfs = TRUE]  BY ONLY <1>u, <3>2
    <3> QED  BY ONLY <2>1, <3>1, <3>2
  <2> QED  BY <2>2
<1> QED
  BY <1>1, <1>5, <1>6, <1>7, <1>8, <1>9, <1>10, <1>11, <1>12, <1>13, <1>14 DEF Rules

\* However often ports are moved for QD031, whatever a PublishPort= value is that
\* Podman accepts, an IPv6 address and ranges included, the same ports of the
\* container stay published on the same address and on as many ports of the
\* host, unless these are moved above the highest there is.
THEOREM BootExposure == Spec => ExposureKept
<1> DEFINE Reach == \A c \in Containers :
              prj'[c].port # prj[c].port /\ Publishable(prj[c].port) => SameReach(prj[c].port, prj'[c].port)
<1>1. TypeOK /\ [Next]_vars => [Reach]_vars
  <2> SUFFICES ASSUME TypeOK, Next, NEW c \in Containers,
                      prj'[c].port # prj[c].port, Publishable(prj[c].port)
               PROVE  SameReach(prj[c].port, prj'[c].port)
    OBVIOUS
  <2>0. prj \in [Containers -> Unit] /\ host \in Host  BY DEF TypeOK
  <2>1. PICK f \in Found : Mend(f)
    BY DEF Next, Boot, Launch, StartByHand, BecomeReady, TimeOut, Exit
  <2>2. /\ f.rule \in Rules /\ f.unit \in Containers /\ f = At(f.rule, f.unit, f.at)
        /\ AtFault(f.rule, f.unit, f.at, prj, host, known)
    BY <2>0, FoundBy, FoundWhen DEF Found
  <2>3. CASE f.rule # "QD020" /\ \E u \in Remedies(prj[f.unit], f, host) : prj' = [prj EXCEPT ![f.unit] = u]
    <3>1. PICK u \in Remedies(prj[f.unit], f, host) : prj' = [prj EXCEPT ![f.unit] = u]  BY <2>3
    <3>2. c = f.unit /\ prj'[c] = u  BY <2>0, <2>2, <3>1
    <3>3. prj[c] \in Unit /\ u.port # prj[c].port /\ u \in Remedies(prj[c], f, host)
      BY <2>0, <3>1, <3>2
    <3>4. f.rule = "QD031" /\ u.port = shiftedPublish(prj[c].port, 8000)
      BY <2>2, <3>3, PortsMove
    <3>5. HostPort(prj[c].port) >= 1
      <4>1. HostPort(prj[c].port) \in 1..Threshold(host, known) - 1
        BY <2>2, <3>2, <3>4 DEF AtFault
      <4>2. Threshold(host, known) \in Nat  BY <2>0 DEF Threshold, Host
      <4> QED  BY ONLY <4>1, <4>2
    <3>6. prj[c].port \in Text  BY <3>3 DEF Unit
    <3> QED  BY <3>2, <3>4, <3>5, <3>6, MovedReach
  <2>4. CASE f.rule = "QD020" /\ prj' = [prj EXCEPT ![f.at] = Notifying(prj[f.at])]
    <3>1. f.at \in Containers  BY <2>2, <2>4 DEF AtFault
    <3>2. prj[f.at] \in Unit  BY <2>0, <3>1
    <3>3. Notifying(prj[f.at]).port = prj[f.at].port  BY <3>2 DEF Notifying, Unit
    <3>4. prj'[c].port = prj[c].port  BY <2>0, <2>4, <3>1, <3>3
    <3> QED  BY <3>4
  <2> QED  BY <2>1, <2>3, <2>4 DEF Mend
<1> QED  BY <1>1, BootTypes, PTL DEF Spec, ExposureKept

-----------------------------------------------------------------------------
(* MigrationKept.                                                          *)

\* What is in a unit that was converted.
ConvertedFrom(u, s) ==
  /\ u.port = PublishedPort(s.port) /\ u.after = {{d} : d \in DependsOn(s)}
  /\ u.restart = renderRestart(s.restart) /\ u.install = {"WantedBy"}
  /\ u.image = s.image /\ u.imageKey = "Image" /\ u.rootfs = FALSE
  /\ u.volumes = NoMount /\ u.remap = FALSE

\* A project with an origin holds its services' units.
LEMMA OriginIs ==
  ASSUME NEW p \in Origins, NEW c \in Containers
  PROVE  /\ ConvertedFrom(prj[c], p[c]) /\ p[c] \in Service
         /\ (p[c].image = NoImage => p[c].build)
<1>1. p \in ComposeProjects /\ prj = Converted(p)
  <2>1. p \in {o[1] : o \in {d \in Conversions : d[2] = prj}}  BY DEF Origins
  <2>2. PICK o \in Conversions : o[2] = prj /\ p = o[1]  BY <2>1
  <2>3. PICK q \in ComposeProjects : o = <<q, Converted(q)>>  BY <2>2 DEF Conversions
  <2> QED  BY <2>2, <2>3
<1>2. prj[c] = generateContainer(p[c])  BY <1>1 DEF Converted
<1>3. ConvertedFrom(generateContainer(p[c]), p[c])  BY DEF ConvertedFrom, generateContainer
<1> QED  BY <1>1, <1>2, <1>3, ComposeAssumption

\* Nothing goes wrong at boot that was not noted.
LEMMA MigratedMishaps ==
  ASSUME NEW p \in Origins, NEW c \in Containers
  PROVE  /\ Rejected(prj[c]) => Kept(p, Mishap("rejected", c, "unit"))
         /\ ~Conflicting(prj[c]) /\ Wanted(prj[c])
         /\ \A m \in Raced(c) \cup Unpublishable(c) : Kept(p, m)
         /\ prj[c].restart # "unless-stopped"
<1>0. ConvertedFrom(prj[c], p[c]) /\ p[c] \in Service /\ (p[c].image = NoImage => p[c].build)
  BY OriginIs
<1>1. Rejected(prj[c]) => Kept(p, Mishap("rejected", c, "unit"))
  <2> SUFFICES ASSUME Rejected(prj[c]) PROVE Kept(p, Mishap("rejected", c, "unit"))  OBVIOUS
  <2>1. p[c].image = NoImage  BY <1>0 DEF Rejected, HasImage, ConvertedFrom
  <2>2. "build" \in Noted(p[c])
    <3>1. p[c].build = TRUE  BY <1>0, <2>1 DEF Service
    <3>2. TRUE \in {p[c].build} \cap {TRUE}  BY <3>1
    <3> QED  BY <3>2 DEF Noted
  <2> QED  BY <2>2, MishapSays DEF Kept
<1>2. ~Conflicting(prj[c]) /\ Wanted(prj[c])  BY <1>0 DEF ConvertedFrom, Conflicting, Wanted
<1>3. ASSUME NEW m \in Raced(c) PROVE Kept(p, m)
  <2>1. PICK d \in Awaited(prj[c]) : m = Mishap("raced", c, d)  BY DEF Raced
  <2>2. m.what = "raced" /\ m.unit = c /\ m.at = d  BY <2>1, MishapSays
  <2>3. d \in Containers /\ p[c].needs[d] # ""
    <3>1. d \in Containers /\ d \in UNION prj[c].after  BY <2>1 DEF Awaited
    <3>2. UNION prj[c].after = DependsOn(p[c])  BY <1>0 DEF ConvertedFrom
    <3> QED  BY <3>1, <3>2 DEF DependsOn
  <2>4. p[c].needs[d] \in Conditions
    <3>1. p[c].needs \in [Containers -> Conditions]  BY <1>0 DEF Service
    <3> QED  BY <2>3, <3>1
  <2>5. p[c].needs[d] = "service_started" \/ d \in Noted(p[c])
    BY <2>3, <2>4 DEF Conditions, Noted
  <2> QED  BY <2>2, <2>5 DEF Kept
<1>4. ASSUME NEW m \in Unpublishable(c) PROVE Kept(p, m)
  <2>1. m = Mishap("unpublishable", c, "PublishPort") /\ ~Publishable(prj[c].port)
    BY DEF Unpublishable
  <2>2. m.what = "unpublishable" /\ m.unit = c  BY <2>1, MishapSays
  <2>3. p[c].port \in ComposePort  BY <1>0 DEF Service
  <2>4. ~Publishable(PublishedPort(p[c].port))  BY <1>0, <2>1 DEF ConvertedFrom
  <2>5. ~Expressible(p[c].port) \/ ~(p[c].port.published <= MaxPort)  BY <2>3, <2>4, PortConverted
  <2>6. p[c].port.published \in Nat /\ MaxPort \in Nat  BY <2>3 DEF ComposePort, MaxPort
  <2>7. ~Expressible(p[c].port) \/ p[c].port.published > MaxPort  BY <2>5, <2>6
  <2> QED  BY <2>2, <2>7 DEF Kept
<1>5. prj[c].restart # "unless-stopped"
  <2>1. prj[c].restart = renderRestart(p[c].restart)  BY <1>0 DEF ConvertedFrom
  <2>2. renderRestart(p[c].restart) \in {"no", "on-failure", "always"}  BY DEF renderRestart
  <2> QED  BY <2>1, <2>2
<1> QED  BY <1>1, <1>2, <1>3, <1>4, <1>5

\* Of what convert wrote, what went wrong was noted.
NotedSoFar == \A p \in Origins : \A m \in mishaps : Kept(p, m)
MigInv     == TypeOK /\ NothingYet /\ NotedSoFar

\* What a step adds to the mishaps is judged like those there were, as long as
\* the units stay as they are.
LEMMA NotedKept ==
  ASSUME NotedSoFar, UNCHANGED <<prj, mends>>,
         \A p \in Origins : \A m \in mishaps' \ mishaps : Kept(p, m)
  PROVE  NotedSoFar'
<1>1. Origins' = Origins  BY DEF Origins
<1>2. \A p, m : Kept(p, m)' = Kept(p, m)  BY DEF Kept
<1> QED  BY <1>1, <1>2 DEF NotedSoFar

\* Nothing went wrong at first.
LEMMA MigInvInit == Init => MigInv
<1> SUFFICES ASSUME Init PROVE MigInv  OBVIOUS
<1>1. TypeOK  BY TypeInit
<1>2. NothingYet /\ NotedSoFar  BY DEF Init, NothingYet, NotedSoFar
<1> QED  BY <1>1, <1>2 DEF MigInv

\* The machine runs after boot, and does not change the files.
LEMMA NothingYetKept == TypeOK /\ NothingYet /\ [Next]_vars => NothingYet'
<1> SUFFICES ASSUME TypeOK, NothingYet, [Next]_vars, phase' = "lint" PROVE NothingYet'
  BY DEF NothingYet
<1>0. phase \in {"lint", "booted"}  BY DEF TypeOK
<1>1. \A c \in Containers : phase = "lint" => state[c] = "off"  BY DEF NothingYet
<1>2. CASE \E f \in Found : Mend(f)
  BY <1>2 DEF Mend, NothingYet, Places
<1>3. CASE Boot  BY <1>3 DEF Boot
<1>4. ASSUME NEW c \in Containers,
             Launch(c) \/ StartByHand(c) \/ BecomeReady(c) \/ TimeOut(c) \/ Exit(c)
      PROVE  FALSE
  <2>1. phase' = phase  BY <1>4 DEF Launch, StartByHand, BecomeReady, TimeOut, Exit
  <2>2. phase = "booted" \/ state[c] \in {"up", "ready"}
    BY <1>4 DEF Launch, StartByHand, BecomeReady, TimeOut, Exit
  <2> QED  BY <1>1, <2>1, <2>2
<1>5. CASE UNCHANGED vars  BY <1>5 DEF vars, NothingYet, Places
<1> QED  BY <1>2, <1>3, <1>4, <1>5 DEF Next

\* Every step keeps the invariant.
LEMMA MigInvStep == MigInv /\ [Next]_vars => MigInv'
<1> SUFFICES ASSUME MigInv, [Next]_vars PROVE MigInv'  OBVIOUS
<1>0. TypeOK /\ NothingYet /\ NotedSoFar /\ TypeOK' /\ NothingYet'
  BY TypeStep, NothingYetKept DEF MigInv
<1> SUFFICES NotedSoFar'  BY <1>0 DEF MigInv
<1>1. CASE \E f \in Found : Mend(f)
  <2>1. mends \in Nat /\ mends' = mends + 1  BY <1>0, <1>1 DEF Mend, TypeOK
  <2>2. Origins' = {}  BY <2>1 DEF Origins
  <2> QED  BY <2>2 DEF NotedSoFar
<1>2. CASE Boot
  <2>1. UNCHANGED <<prj, mends>>  BY <1>2 DEF Boot
  <2>2. ASSUME NEW p \in Origins, NEW m \in mishaps' \ mishaps PROVE Kept(p, m)
    <3>1. /\ mishaps' = {Mishap("rejected", c, "unit") : c \in {d \in Containers : Rejected(prj[d])}}
               \cup {Mishap("conflict", c, "unit") : c \in {d \in Containers : Conflicting(prj[d])}}
               \cup {Mishap("idle", c, "unit") : c \in {d \in Containers : ~Wanted(prj[d])}}
      BY <1>2 DEF Boot
    <3>2. \A c \in Containers : ~Conflicting(prj[c]) /\ Wanted(prj[c])  BY MigratedMishaps
    <3>3. PICK c \in Containers : Rejected(prj[c]) /\ m = Mishap("rejected", c, "unit")
      BY <3>1, <3>2
    <3> QED  BY <3>3, MigratedMishaps
  <2> QED  BY <1>0, <2>1, <2>2, NotedKept
<1>3. ASSUME NEW c \in Containers, Launch(c) PROVE NotedSoFar'
  <2>1. UNCHANGED <<prj, mends>>  BY <1>3 DEF Launch
  <2>2. ASSUME NEW p \in Origins, NEW m \in mishaps' \ mishaps PROVE Kept(p, m)
    <3>1. \/ m \in Raced(c) \cup Unpublishable(c)
          \/ m.what \in {"unmapped", "unbindable", "denied", "ungrouped"}
      <4>1. \A n \in Unmapped(c) \cup Unbindable(c) \cup Denied(c, Owners(c)) \cup
                     {Mishap("ungrouped", c, "unit") : g \in prj[c].groupAdd \cap {"name"}} :
              n.what \in {"unmapped", "unbindable", "denied", "ungrouped"}
        BY MishapSays DEF Unmapped, Unbindable, Denied
      <4> DEFINE others == {Mishap("ungrouped", c, "unit") : g \in prj[c].groupAdd \cap {"name"}}
      <4>2. m \in Unpublishable(c) \cup Unmapped(c) \cup Unbindable(c) \cup Raced(c)
                    \cup Denied(c, Owners(c)) \cup others
        BY <1>3 DEF Launch
      <4> QED  BY <4>1, <4>2
    <3>2. CASE m \in Raced(c) \cup Unpublishable(c)  BY <3>2, MigratedMishaps
    <3>3. CASE m.what \in {"unmapped", "unbindable", "denied", "ungrouped"}  BY <3>3 DEF Kept
    <3> QED  BY <3>1, <3>2, <3>3
  <2> QED  BY <1>0, <2>1, <2>2, NotedKept
<1>4. ASSUME NEW c \in Containers, StartByHand(c) \/ BecomeReady(c) \/ TimeOut(c) PROVE NotedSoFar'
  <2>1. UNCHANGED <<prj, mends, mishaps>>  BY <1>4 DEF StartByHand, BecomeReady, TimeOut
  <2> QED  BY <1>0, <2>1, NotedKept
<1>5. ASSUME NEW c \in Containers, Exit(c) PROVE NotedSoFar'
  <2>1. UNCHANGED <<prj, mends>>  BY <1>5 DEF Exit
  <2>2. ASSUME NEW p \in Origins, NEW m \in mishaps' \ mishaps PROVE FALSE
    <3>1. prj[c].restart = "unless-stopped"  BY <1>5, <2>2 DEF Exit
    <3> QED  BY <3>1, MigratedMishaps
  <2> QED  BY <1>0, <2>1, <2>2, NotedKept
<1>6. CASE UNCHANGED vars
  <2>1. UNCHANGED <<prj, mends, mishaps>>  BY <1>6 DEF vars
  <2> QED  BY <1>0, <2>1, NotedKept
<1> QED  BY <1>1, <1>2, <1>3, <1>4, <1>5, <1>6 DEF Next

\* What holds of a project that was converted, once what went wrong was noted.
LEMMA MigratedSoFar ==
  ASSUME MigInv, NEW p \in Origins
  PROVE  KeptSoFar(p)
<1>1. \A m \in mishaps : Kept(p, m)  BY DEF MigInv, NotedSoFar
<1>2. ASSUME NEW f \in Found, f.rule \in SystemdRules PROVE FALSE
  <2>1. /\ f.rule \in Rules /\ f.unit \in Containers /\ f = At(f.rule, f.unit, f.at)
        /\ AtFault(f.rule, f.unit, f.at, prj, host, known)
    BY FoundBy, FoundWhen DEF Found
  <2> DEFINE u == prj[f.unit]
  <2>2. ConvertedFrom(u, p[f.unit])  BY <2>1, OriginIs
  <2> HIDE DEF u
  <2>3. CASE f.rule = "QD021"
    <3>1. u.restart = "unless-stopped"  BY <2>1, <2>3 DEF AtFault, u
    <3> QED  BY <2>1, <3>1, MigratedMishaps DEF u
  <2>4. CASE f.rule = "QD022"
    <3>1. u.install = {}  BY <2>1, <2>4 DEF AtFault, u
    <3> QED  BY <2>2, <3>1 DEF ConvertedFrom
  <2>5. CASE f.rule = "QD023"
    <3>1. f.at \in u.install \ installKeysHonoured  BY <2>1, <2>5 DEF AtFault, u
    <3> QED  BY <2>2, <3>1 DEF ConvertedFrom, installKeysHonoured
  <2>6. CASE f.rule = "QD042"
    <3>1. u.volumes # NoMount \/ u.imageKey = "image" \/ u.remap  BY <2>1, <2>6 DEF AtFault, u
    <3> QED  BY <2>2, <3>1 DEF ConvertedFrom
  <2> QED  BY <1>2, <2>3, <2>4, <2>5, <2>6 DEF SystemdRules
<1>3. ASSUME NEW c \in Containers, Expressible(p[c].port)
      PROVE  Published(prj[c].port) = AsPublished(p[c].port)
  <2>1. prj[c].port = PublishedPort(p[c].port) /\ p[c] \in Service  BY OriginIs DEF ConvertedFrom
  <2>2. p[c].port \in ComposePort  BY <2>1 DEF Service
  <2> QED  BY <1>3, <2>1, <2>2, PortConverted
<1> QED  BY <1>1, <1>2, <1>3 DEF KeptSoFar

\* A process that ends is followed by what compose would have done.
LEMMA MigratedEnds ==
  ASSUME MigInv, [Next]_vars, NEW p \in Origins
  PROVE  EndsAsAgreed(p)
<1> SUFFICES ASSUME NEW c \in Containers, state[c] \in {"up", "ready"}, state'[c] \in {"off", "waiting"}
             PROVE  /\ ComeBack(p[c].restart) => state'[c] = "waiting"
                    /\ StayAway(p[c].restart) => state'[c] = "off"
  BY DEF EndsAsAgreed
<1>0. state \in [Containers -> States] /\ NothingYet  BY DEF MigInv, TypeOK
<1>1. Exit(c)
  <2>1. CASE \E f \in Found : Mend(f)
    <3>1. state' = state  BY <2>1 DEF Mend
    <3> QED  BY <3>1
  <2>2. CASE Boot
    <3>1. phase = "lint"  BY <2>2 DEF Boot
    <3>2. state[c] = "off"  BY <1>0, <3>1 DEF NothingYet
    <3> QED  BY <3>2
  <2>3. ASSUME NEW d \in Containers,
               Launch(d) \/ StartByHand(d) \/ BecomeReady(d) \/ TimeOut(d) \/ Exit(d)
        PROVE  Exit(c)
    <3>1. CASE Launch(d) \/ StartByHand(d)
      <4>1. /\ state[d] \in {"off", "waiting"}
            /\ \E x : state' = [state EXCEPT ![d] = x]
        BY <3>1 DEF Launch, StartByHand
      <4>2. c # d  BY <4>1
      <4> QED  BY <1>0, <4>1, <4>2
    <3>2. CASE BecomeReady(d) \/ TimeOut(d)
      <4>1. state' = [state EXCEPT ![d] = "ready"] \/ state' = [state EXCEPT ![d] = "failed"]
        BY <3>2 DEF BecomeReady, TimeOut
      <4> QED  BY <1>0, <4>1
    <3>3. CASE Exit(d)
      <4>1. \E x : state' = [state EXCEPT ![d] = x]  BY <3>3 DEF Exit
      <4>2. c = d  BY <1>0, <4>1
      <4> QED  BY <3>3, <4>2
    <3> QED  BY <2>3, <3>1, <3>2, <3>3
  <2>4. CASE UNCHANGED vars
    <3>1. state' = state  BY <2>4 DEF vars
    <3> QED  BY <3>1
  <2> QED  BY <2>1, <2>2, <2>3, <2>4 DEF Next
<1>2. PICK badly \in BOOLEAN : state'[c] = IF Restarts(prj[c], badly) THEN "waiting" ELSE "off"
  BY <1>0, <1>1 DEF Exit
<1>3. prj[c].restart = renderRestart(p[c].restart)  BY OriginIs DEF ConvertedFrom
<1>4. ComeBack(p[c].restart) => prj[c].restart = "always"
  BY <1>3 DEF ComeBack, renderRestart
<1>5. StayAway(p[c].restart) => prj[c].restart = "no"
  BY <1>3 DEF StayAway, renderRestart
<1> QED  BY <1>2, <1>4, <1>5 DEF Restarts

\* For any compose project: what convert makes of it starts at boot, comes back
\* and stays away as compose has it, is published where compose publishes it,
\* holds none of systemd's traps, and what becomes of it otherwise was noted.
THEOREM BootMigration == Spec => MigrationKept
<1> DEFINE Agreed == \A p \in Origins : EndsAsAgreed(p)
           Migrated == \A p \in Origins : KeptSoFar(p)
<1>1. MigInv => Migrated  BY MigratedSoFar
<1>2. MigInv /\ [Next]_vars => [Agreed]_vars  BY MigratedEnds
<1> QED  BY <1>1, <1>2, MigInvInit, MigInvStep, PTL DEF Spec, MigrationKept
=============================================================================
