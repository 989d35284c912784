---------------------------- MODULE ParserProofs ----------------------------
(***************************************************************************)
(* The one-pass parser computes the declarative definition of UnitFile on  *)
(* every file, and what it yields renders to the file again.               *)
(***************************************************************************)
EXTENDS Parser, SequenceTheorems, WellFoundedInduction, TLAPS

-----------------------------------------------------------------------------
(* Induction over the naturals, with the property given as a set.          *)

\* A set of naturals that is not empty has a least element.
LEMMA LeastNumber ==
  ASSUME NEW T, T \subseteq Nat, T # {}
  PROVE  \E n \in T : \A m \in T : n <= m
<1>1. PICK n \in T : \A m \in T : ~(<<m, n>> \in OpToRel(<, Nat))
  BY NatLessThanWellFounded, WFMin
<1>2. \A m \in T : ~(m < n)  BY <1>1 DEF OpToRel
<1> QED  BY <1>2

\* A set that holds 0 and with every number the next one holds them all.
LEMMA SetInduction ==
  ASSUME NEW T, 0 \in T, \A n \in Nat : n \in T => n + 1 \in T
  PROVE  Nat \subseteq T
<1> SUFFICES ASSUME Nat \ T # {} PROVE FALSE  OBVIOUS
<1>1. PICK n \in Nat \ T : \A m \in Nat \ T : n <= m  BY LeastNumber
<1>2. n # 0 /\ n - 1 \in Nat /\ n - 1 \notin Nat \ T  BY <1>1
<1> QED  BY <1>2

-----------------------------------------------------------------------------
(* Flattening a sequence of sequences.                                     *)

\* The function FlattenSeq reads its result from.
Flattens(f, s, n) == f = [i \in 1..n |-> IF i = 1 THEN s[i] ELSE f[i - 1] \o s[i]]

\* It exists, whatever the sequences.
LEMMA FlattenExists ==
  ASSUME NEW s, NEW n \in Nat
  PROVE  \E f : Flattens(f, s, n)
<1> DEFINE T == {k \in Nat : \E f : Flattens(f, s, k)}
<1>1. 0 \in T
  <2>1. Flattens([i \in 1..0 |-> s[i]], s, 0)  BY DEF Flattens
  <2> QED  BY <2>1
<1>2. ASSUME NEW k \in Nat, k \in T PROVE k + 1 \in T
  <2>1. PICK f : Flattens(f, s, k)  BY <1>2
  <2> DEFINE g == [i \in 1..(k + 1) |->
                     IF i <= k THEN f[i] ELSE IF i = 1 THEN s[i] ELSE f[i - 1] \o s[i]]
  <2>2. \A i \in 1..k : g[i] = f[i]  OBVIOUS
  <2>3. \A i \in 1..(k + 1) : g[i] = IF i = 1 THEN s[i] ELSE g[i - 1] \o s[i]
    <3> TAKE i \in 1..(k + 1)
    <3>1. CASE i <= k
      <4>1. i \in 1..k /\ (i # 1 => i - 1 \in 1..k)  BY <3>1
      <4>2. f[i] = IF i = 1 THEN s[i] ELSE f[i - 1] \o s[i]  BY <2>1, <4>1 DEF Flattens
      <4> HIDE DEF g
      <4> QED  BY <2>2, <4>1, <4>2
    <3>2. CASE i = k + 1
      <4>1. g[i] = IF i = 1 THEN s[i] ELSE f[i - 1] \o s[i]  BY <3>2
      <4>2. i # 1 => i - 1 \in 1..k  BY <3>2
      <4> HIDE DEF g
      <4> QED  BY <2>2, <4>1, <4>2
    <3> QED  BY <3>1, <3>2
  <2>4. g = [i \in 1..(k + 1) |-> IF i = 1 THEN s[i] ELSE g[i - 1] \o s[i]]
    <3>1. g = [i \in 1..(k + 1) |-> g[i]]  OBVIOUS
    <3> HIDE DEF g
    <3> QED  BY <2>3, <3>1
  <2> HIDE DEF g
  <2>5. Flattens(g, s, k + 1)  BY <2>4 DEF Flattens
  <2> QED  BY <2>5
<1> HIDE DEF T
<1>3. n \in T  BY <1>1, <1>2, SetInduction
<1> QED  BY <1>3 DEF T

\* What FlattenSeq is read from.
LEMMA FlattenByFunction ==
  ASSUME NEW X, NEW s \in Seq(Seq(X)), s # <<>>
  PROVE  \E f : Flattens(f, s, Len(s)) /\ FlattenSeq(s) = f[Len(s)]
<1> DEFINE f == CHOOSE g : g = [i \in 1..Len(s) |-> IF i = 1 THEN s[i] ELSE g[i - 1] \o s[i]]
<1>1. Len(s) \in Nat /\ Len(s) # 0  BY EmptySeq
<1>2. FlattenSeq(s) = f[Len(s)]  BY <1>1 DEF FlattenSeq
<1>3. Flattens(f, s, Len(s))  BY <1>1, FlattenExists DEF Flattens
<1> HIDE DEF f
<1> QED  BY <1>2, <1>3

\* Every prefix is flattened alike, and to a sequence.
LEMMA FlattenPrefix ==
  ASSUME NEW X, NEW s \in Seq(Seq(X)), NEW t \in Seq(Seq(X)), NEW f, NEW g,
         Len(s) <= Len(t), \A i \in 1..Len(s) : s[i] = t[i],
         Flattens(f, s, Len(s)), Flattens(g, t, Len(t))
  PROVE  \A i \in 1..Len(s) : f[i] = g[i] /\ f[i] \in Seq(X)
<1> DEFINE T == {k \in Nat : k \in 1..Len(s) => f[k] = g[k] /\ f[k] \in Seq(X)}
<1>0. Len(s) \in Nat /\ Len(t) \in Nat /\ \A i \in 1..Len(s) : s[i] \in Seq(X)
  BY LenProperties, ElementOfSeq
<1>1. 0 \in T  OBVIOUS
<1>2. ASSUME NEW k \in Nat, k \in T PROVE k + 1 \in T
  <2> SUFFICES ASSUME k + 1 \in 1..Len(s)
               PROVE  f[k + 1] = g[k + 1] /\ f[k + 1] \in Seq(X)
    OBVIOUS
  <2>1. /\ f[k + 1] = IF k + 1 = 1 THEN s[k + 1] ELSE f[k] \o s[k + 1]
        /\ g[k + 1] = IF k + 1 = 1 THEN t[k + 1] ELSE g[k] \o t[k + 1]
    <3>1. k + 1 \in 1..Len(t) /\ (k + 1) - 1 = k  BY <1>0
    <3> QED  BY <3>1 DEF Flattens
  <2>2. k # 0 => f[k] = g[k] /\ f[k] \in Seq(X)  BY <1>0, <1>2
  <2>3. s[k + 1] = t[k + 1] /\ s[k + 1] \in Seq(X)  BY <1>0
  <2> QED  BY <2>1, <2>2, <2>3, ConcatProperties
<1> HIDE DEF T
<1>3. Nat \subseteq T  BY <1>1, <1>2, SetInduction
<1> QED  BY <1>0, <1>3 DEF T

\* What is appended is flattened behind the rest.
LEMMA FlattenAppend ==
  ASSUME NEW X, NEW s \in Seq(Seq(X)), NEW e \in Seq(X)
  PROVE  FlattenSeq(Append(s, e)) = FlattenSeq(s) \o e /\ FlattenSeq(s) \in Seq(X)
<1> DEFINE t == Append(s, e)
<1>1. /\ t \in Seq(Seq(X)) /\ t # <<>> /\ Len(t) = Len(s) + 1 /\ Len(s) \in Nat
      /\ t[Len(s) + 1] = e /\ \A i \in 1..Len(s) : t[i] = s[i]
  BY AppendProperties, LenProperties
<1> HIDE DEF t
<1>2. PICK g : Flattens(g, t, Len(t)) /\ FlattenSeq(t) = g[Len(t)]
  BY <1>1, FlattenByFunction
<1>3. g[Len(t)] = IF Len(t) = 1 THEN e ELSE g[Len(s)] \o e
  <2>1. Len(t) \in 1..Len(t) /\ Len(t) - 1 = Len(s)  BY <1>1
  <2> QED  BY <1>1, <1>2, <2>1 DEF Flattens
<1>4. CASE s = <<>>
  <2>1. FlattenSeq(s) = <<>> /\ Len(s) = 0  BY <1>4, EmptySeq DEF FlattenSeq
  <2> QED  BY <1>1, <1>2, <1>3, <2>1, EmptySeq, ConcatEmptySeq DEF t
<1>5. CASE s # <<>>
  <2>1. Len(s) \in 1..Len(s)  BY <1>5, EmptySeq
  <2>2. PICK f : Flattens(f, s, Len(s)) /\ FlattenSeq(s) = f[Len(s)]
    BY <1>5, FlattenByFunction
  <2>3. f[Len(s)] = g[Len(s)] /\ f[Len(s)] \in Seq(X)
    <3>1. Len(s) <= Len(t) /\ \A i \in 1..Len(s) : s[i] = t[i]  BY <1>1
    <3> QED  BY <1>1, <1>2, <2>1, <2>2, <3>1, FlattenPrefix
  <2> QED  BY <1>1, <1>2, <1>3, <2>1, <2>2, <2>3 DEF t
<1> QED  BY <1>4, <1>5

-----------------------------------------------------------------------------
(* Sequences.                                                              *)

\* An element goes in front of the rest, or behind what comes before it.
LEMMA AppendThenRest ==
  ASSUME NEW X, NEW s \in Seq(X), NEW e \in X, NEW t \in Seq(X)
  PROVE  s \o (<<e>> \o t) = Append(s, e) \o t
<1>1. <<e>> \in Seq(X)  OBVIOUS
<1>2. Append(s, e) = s \o <<e>>  BY AppendIsConcat
<1> DEFINE u == <<e>>
<1> HIDE DEF u
<1>3. (s \o u) \o t = s \o (u \o t)  BY <1>1, ConcatAssociative DEF u
<1> QED  BY <1>2, <1>3 DEF u

-----------------------------------------------------------------------------
(* What UnitFile's definitions say of a file.                              *)

PLine == [face : Faces, name : STRING, val : Seq(Atoms), bs : BOOLEAN]
NamesOf(phys) == {p.name : p \in ToSet(phys)} \cup {""}
Logical(phys) == {Line(g, n, s) : g \in Seq(PLine), n \in Nat, s \in NamesOf(phys)}

\* A logical line keeps its physical lines and its number; whether it opens a
\* section is decided by its first physical line.
LEMMA LineParts ==
  ASSUME NEW phys, NEW g \in Seq(PLine), g # <<>>, NEW n \in Nat, NEW s \in NamesOf(phys)
  PROVE  LET l == Line(g, n, s) IN
         /\ l \in Logical(phys) /\ l.raw = g /\ l.number = n
         /\ l.kind = "LineSection" <=> g[1].face = "section"
         /\ g[1].face = "section" => l.section = g[1].name
<1>1. g[1] \in PLine  BY EmptySeq, ElementOfSeq
<1>2. g[1].face \in Faces  BY <1>1 DEF PLine
<1>3. Line(g, n, s) \in Logical(phys)  BY DEF Logical
<1>4. Line(g, n, s).raw = g /\ Line(g, n, s).number = n /\ Line(g, n, s).kind = Kind(g)
  BY DEF Line
<1>5. Kind(g) = "LineSection" <=> g[1].face = "section"  BY <1>2 DEF Kind, Faces
<1>6. g[1].face = "section" => Line(g, n, s).section = g[1].name  BY <1>5 DEF Line
<1> QED  BY <1>3, <1>4, <1>5, <1>6

\* Every name of a file's lines is one of its names.
LEMMA NamesOfLines ==
  ASSUME NEW phys \in Seq(PLine)
  PROVE  /\ "" \in NamesOf(phys)
         /\ \A i \in 1..Len(phys) : phys[i].name \in NamesOf(phys) /\ phys[i] \in PLine
<1>1. DOMAIN phys = 1..Len(phys) /\ \A i \in 1..Len(phys) : phys[i] \in PLine
  BY LenProperties, ElementOfSeq
<1>2. \A i \in 1..Len(phys) : phys[i] \in ToSet(phys)  BY <1>1 DEF ToSet
<1> QED  BY <1>1, <1>2 DEF NamesOf

\* The last content line decides whether the entry may end here.
LEMMA EndsByLast ==
  ASSUME NEW phys, NEW i \in Nat, NEW j \in Nat, NEW k \in Content(phys, i, j),
         \A m \in Content(phys, i, j) : m <= k
  PROVE  Ends(phys, i, j) <=> ~phys[k].bs
<1> DEFINE P(n) == n \in Content(phys, i, j) /\ \A m \in Content(phys, i, j) : m <= n
           c == CHOOSE n \in Content(phys, i, j) : \A m \in Content(phys, i, j) : m <= n
<1>1. c \in Content(phys, i, j) /\ \A m \in Content(phys, i, j) : m <= c  OBVIOUS
<1>2. Content(phys, i, j) \subseteq Int  BY DEF Content
<1>3. Ends(phys, i, j) <=> ~phys[c].bs  BY DEF Ends
<1> HIDE DEF c
<1>4. c = k  BY <1>1, <1>2
<1> QED  BY <1>3, <1>4

\* An entry ends within its file.
LEMMA EndOfRange ==
  ASSUME NEW phys \in Seq(PLine), NEW i \in 1..Len(phys)
  PROVE  EndOf(phys, i) \in i..Len(phys)
<1>1. Len(phys) \in Nat  BY LenProperties
<1>2. CASE ~Continues(phys[i])  BY <1>1, <1>2 DEF EndOf
<1>3. CASE Continues(phys[i])
  <2> DEFINE stops == {j \in i..Len(phys) : Ends(phys, i, j)} \cup {Len(phys)}
             e     == CHOOSE j \in stops : \A k \in stops : j <= k
  <2>1. EndOf(phys, i) = e  BY <1>3 DEF EndOf
  <2>2. stops \subseteq i..Len(phys) /\ stops # {}  BY <1>1
  <2> HIDE DEF stops
  <2>3. \E j \in stops : \A k \in stops : j <= k
    <3>1. stops \subseteq Nat  BY <1>1, <2>2
    <3> QED  BY <2>2, <3>1, LeastNumber
  <2>4. e \in stops  BY <2>3
  <2> QED  BY <2>1, <2>2, <2>4
<1> QED  BY <1>2, <1>3

\* It ends at the first line that may end it, or at the end of the file.
LEMMA EndOfGroup ==
  ASSUME NEW phys \in Seq(PLine), NEW i \in 1..Len(phys), Continues(phys[i]),
         NEW n \in i..Len(phys), \A j \in i..(n - 1) : ~Ends(phys, i, j),
         Ends(phys, i, n) \/ n = Len(phys)
  PROVE  EndOf(phys, i) = n
<1> DEFINE stops == {j \in i..Len(phys) : Ends(phys, i, j)} \cup {Len(phys)}
           e     == CHOOSE j \in stops : \A k \in stops : j <= k
<1>1. Len(phys) \in Nat  BY LenProperties
<1>2. EndOf(phys, i) = e  BY DEF EndOf
<1>3. n \in stops /\ stops \subseteq Int /\ \A k \in stops : n <= k  BY <1>1
<1> HIDE DEF stops
<1>4. e \in stops /\ \A k \in stops : e <= k  BY <1>3
<1> HIDE DEF e
<1>5. e = n
  <2>1. e \in Int /\ n \in Int /\ e <= n /\ n <= e  BY <1>3, <1>4
  <2> QED  BY <2>1
<1> QED  BY <1>2, <1>5

-----------------------------------------------------------------------------
(* Parse is well defined: what follows line i is read from further on.     *)

After(f, phys, i) ==
  [s \in NamesOf(phys) |->
     IF i > Len(phys) THEN <<>>
     ELSE LET j    == EndOf(phys, i)
              line == Line(SubSeq(phys, i, j), i, s)
          IN  <<line>> \o f[j + 1][IF line.kind = "LineSection" THEN line.section ELSE s]]

\* Only what is read from further on matters.
LEMMA AfterLooksAhead ==
  ASSUME NEW phys \in Seq(PLine), NEW f, NEW g, NEW i \in 1..(Len(phys) + 1),
         \A j \in (i + 1)..(Len(phys) + 1) : f[j] = g[j]
  PROVE  After(f, phys, i) = After(g, phys, i)
<1>1. Len(phys) \in Nat  BY LenProperties
<1>2. CASE i > Len(phys)  BY <1>2 DEF After
<1>3. CASE ~(i > Len(phys))
  <2>1. EndOf(phys, i) + 1 \in (i + 1)..(Len(phys) + 1)  BY <1>1, <1>3, EndOfRange
  <2>2. f[EndOf(phys, i) + 1] = g[EndOf(phys, i) + 1]  BY <2>1
  <2> QED  BY <2>2 DEF After
<1> QED  BY <1>2, <1>3

\* The recursion has a solution, built from the end of the file.
LEMMA ParseFromExists ==
  ASSUME NEW phys \in Seq(PLine)
  PROVE  \E f : f = [i \in 1..(Len(phys) + 1) |-> After(f, phys, i)]
<1> DEFINE L == Len(phys)
           Solves(f, k) == f = [i \in (L + 1 - k)..(L + 1) |-> After(f, phys, i)]
           T == {k \in Nat : k <= L => \E f : Solves(f, k)}
<1>0. L \in Nat  BY LenProperties
<1> HIDE DEF L
<1>1. 0 \in T
  <2> DEFINE f == [i \in (L + 1 - 0)..(L + 1) |-> After(<<>>, phys, i)]
  <2>1. ASSUME NEW i \in (L + 1 - 0)..(L + 1) PROVE After(f, phys, i) = After(<<>>, phys, i)
    <3>1. i > L /\ i \in 1..(Len(phys) + 1)  BY <1>0 DEF L
    <3> HIDE DEF f
    <3> QED  BY <3>1 DEF After, L
  <2>2. \A i \in (L + 1 - 0)..(L + 1) : f[i] = After(f, phys, i)  BY <2>1
  <2>3. f = [i \in (L + 1 - 0)..(L + 1) |-> f[i]]  OBVIOUS
  <2> HIDE DEF f
  <2>4. Solves(f, 0)  BY <2>2, <2>3
  <2> QED  BY <2>4
<1>2. ASSUME NEW k \in Nat, k \in T PROVE k + 1 \in T
  <2> SUFFICES ASSUME k + 1 <= L PROVE \E f : Solves(f, k + 1)  OBVIOUS
  <2>1. PICK f : Solves(f, k)  BY <1>0, <1>2
  <2> DEFINE b == L - k
             g == [i \in b..(L + 1) |-> IF i = b THEN After(f, phys, i) ELSE f[i]]
  <2>2. b \in 1..L /\ L + 1 - k = b + 1 /\ L + 1 - (k + 1) = b  BY <1>0
  <2>3. f = [i \in (b + 1)..(L + 1) |-> After(f, phys, i)]  BY <2>1, <2>2
  <2> HIDE DEF b
  <2>4. \A i \in (b + 1)..(L + 1) : g[i] = f[i]  BY <2>2
  <2>5. \A i \in b..(L + 1) : g[i] = After(f, phys, i)
    <3> TAKE i \in b..(L + 1)
    <3>1. i = b \/ i \in (b + 1)..(L + 1)  BY <1>0, <2>2
    <3>2. i \in (b + 1)..(L + 1) => f[i] = After(f, phys, i)  BY <2>3
    <3>3. g[i] = IF i = b THEN After(f, phys, i) ELSE f[i]  OBVIOUS
    <3> HIDE DEF g
    <3> QED  BY <3>1, <3>2, <3>3
  <2>6. g = [i \in b..(L + 1) |-> g[i]]  OBVIOUS
  <2> HIDE DEF g
  <2>7. \A i \in b..(L + 1) : After(f, phys, i) = After(g, phys, i)
    <3> TAKE i \in b..(L + 1)
    <3>1. i \in 1..(Len(phys) + 1) /\ \A j \in (i + 1)..(Len(phys) + 1) : f[j] = g[j]
      BY <1>0, <2>2, <2>4 DEF L
    <3> QED  BY <3>1, AfterLooksAhead
  <2>8. g = [i \in b..(L + 1) |-> After(g, phys, i)]  BY <2>5, <2>6, <2>7
  <2>9. Solves(g, k + 1)  BY <2>2, <2>8
  <2> QED  BY <2>9
<1> HIDE DEF T
<1>3. L \in T  BY <1>0, <1>1, <1>2, SetInduction
<1>4. PICK f : Solves(f, L)  BY <1>0, <1>3 DEF T
<1>5. L + 1 - L = 1  BY <1>0
<1> QED  BY <1>4, <1>5 DEF L

\* Parse's function satisfies its equation.
LEMMA ParseFromSolves ==
  ASSUME NEW phys \in Seq(PLine)
  PROVE  ParseFrom(phys) = [i \in 1..(Len(phys) + 1) |-> After(ParseFrom(phys), phys, i)]
<1> DEFINE F == CHOOSE f : f = [i \in 1..(Len(phys) + 1) |-> After(f, phys, i)]
<1>1. ParseFrom(phys) = F  BY DEF ParseFrom, After, NamesOf
<1>2. F = [i \in 1..(Len(phys) + 1) |-> After(F, phys, i)]  BY ParseFromExists
<1> HIDE DEF F
<1> QED  BY <1>1, <1>2

\* What follows a line is a sequence of logical lines.
LEMMA ParseFromTyped ==
  ASSUME NEW phys \in Seq(PLine)
  PROVE  \A i \in 1..(Len(phys) + 1) : \A s \in NamesOf(phys) :
           ParseFrom(phys)[i][s] \in Seq(Logical(phys))
<1> DEFINE L == Len(phys)
           F == ParseFrom(phys)
           T == {k \in Nat : k <= L => \A i \in (L + 1 - k)..(L + 1) : \A s \in NamesOf(phys) :
                                          F[i][s] \in Seq(Logical(phys))}
<1>0. L \in Nat  BY LenProperties
<1>1. \A i \in 1..(L + 1) : F[i] = After(F, phys, i)  BY ParseFromSolves
<1> HIDE DEF F
<1>2. 0 \in T
  <2>1. \A i \in (L + 1 - 0)..(L + 1) : i \in 1..(L + 1) /\ i > L  BY <1>0
  <2>2. \A i \in (L + 1 - 0)..(L + 1) : \A s \in NamesOf(phys) : F[i][s] = <<>>
    BY <1>1, <2>1 DEF After
  <2> QED  BY <2>2, EmptySeq
<1>3. ASSUME NEW k \in Nat, k \in T PROVE k + 1 \in T
  <2> SUFFICES ASSUME k + 1 <= L, NEW i \in (L + 1 - (k + 1))..(L + 1), NEW s \in NamesOf(phys)
               PROVE  F[i][s] \in Seq(Logical(phys))
    OBVIOUS
  <2>1. \A j \in (L + 1 - k)..(L + 1) : \A t \in NamesOf(phys) : F[j][t] \in Seq(Logical(phys))
    BY <1>0, <1>3
  <2>2. CASE i \in (L + 1 - k)..(L + 1)  BY <2>1, <2>2
  <2>3. CASE i = L - k
    <3> DEFINE j    == EndOf(phys, i)
               g    == SubSeq(phys, i, j)
               line == Line(g, i, s)
               t    == IF line.kind = "LineSection" THEN line.section ELSE s
    <3>1. i \in 1..L /\ ~(i > L)  BY <1>0, <2>3
    <3>2. F[i][s] = <<line>> \o F[j + 1][t]
      <4>1. F[i] = After(F, phys, i)  BY <1>0, <1>1, <3>1
      <4>2. After(F, phys, i)[s] = <<line>> \o F[j + 1][t]  BY <3>1 DEF After
      <4> QED  BY <4>1, <4>2
    <3>3. j \in i..L  BY <3>1, EndOfRange
    <3>4. \A m \in i..j : phys[m] \in PLine
      <4> HIDE DEF j
      <4>1. \A m \in i..j : m \in 1..Len(phys)  BY <1>0, <3>1, <3>3
      <4> QED  BY <4>1, NamesOfLines
    <3>5. g \in Seq(PLine) /\ Len(g) = j - i + 1 /\ g[1] = phys[i]
      <4>1. i \in Int /\ j \in Int /\ i <= j  BY <1>0, <3>1, <3>3
      <4> HIDE DEF j
      <4>2. /\ g \in Seq(PLine) /\ Len(g) = j - i + 1
            /\ \A m \in 1..(j - i + 1) : g[m] = phys[i + m - 1]
        BY <3>4, <4>1, SubSeqProperties
      <4>3. 1 \in 1..(j - i + 1) /\ i + 1 - 1 = i  BY <4>1
      <4> QED  BY <4>2, <4>3
    <3> HIDE DEF g, j
    <3>6. g # <<>>  BY <1>0, <3>1, <3>3, <3>5, EmptySeq
    <3>7. line \in Logical(phys) /\ t \in NamesOf(phys)
      <4>1. i \in Nat  BY <1>0, <3>1
      <4>2. phys[i].name \in NamesOf(phys)  BY <3>1, NamesOfLines
      <4> QED  BY <3>5, <3>6, <4>1, <4>2, LineParts
    <3> HIDE DEF line, t
    <3>8. F[j + 1][t] \in Seq(Logical(phys))
      <4>1. j + 1 \in (L + 1 - k)..(L + 1)  BY <1>0, <2>3, <3>3
      <4> QED  BY <2>1, <3>7, <4>1
    <3>9. <<line>> \in Seq(Logical(phys))  BY <3>7
    <3> QED  BY <3>2, <3>8, <3>9, ConcatProperties
  <2> QED  BY <1>0, <2>2, <2>3
<1> HIDE DEF T
<1>4. L \in T  BY <1>0, <1>2, <1>3, SetInduction
<1>5. L + 1 - L = 1  BY <1>0
<1> QED  BY <1>0, <1>4, <1>5 DEF T, F

-----------------------------------------------------------------------------
(* The invariant.                                                          *)

\* Where the logical line starts that is read next, or is being gathered.
Start == next - Len(group)

ReadInv ==
  /\ physical \in Files
  /\ next \in 1..(Len(physical) + 1)
  /\ section \in NamesOf(physical)
  /\ lines \in Seq(Logical(physical))
  /\ group \in Seq(PLine) /\ Len(group) < next
  /\ group = SubSeq(physical, Start, next - 1)

\* No line gathered so far could end the entry but the last, and raw is the last
\* that has content.
GroupInv ==
  group # <<>> =>
    /\ Continues(physical[Start])
    /\ \E k \in Content(physical, Start, next - 1) :
         raw = physical[k] /\ \A m \in Content(physical, Start, next - 1) : m <= k
    /\ \A j \in Start..(next - 2) : ~Ends(physical, Start, j)

\* What has been read and what is still to read are Parse's lines.
AgreeInv == Parse(physical) = lines \o ParseFrom(physical)[Start][section]

RenderInv == Render(lines) = SubSeq(physical, 1, Start - 1)

Inv == ReadInv /\ GroupInv /\ Tiled /\ AgreeInv /\ RenderInv

-----------------------------------------------------------------------------
(* The steps.                                                              *)

\* What a file and the line in progress are.
LEMMA ReadFacts ==
  ASSUME ReadInv
  PROVE  /\ physical \in Seq(PLine) /\ Len(physical) \in Nat
         /\ Len(group) \in Nat /\ Len(lines) \in Nat /\ DOMAIN lines = 1..Len(lines)
         /\ next \in Nat /\ Start \in 1..next
         /\ group = <<>> <=> Len(group) = 0
         /\ \A i \in 1..Len(physical) : physical[i] \in PLine
<1>1. physical \in Seq(PLine)  BY FilesAssumption DEF ReadInv, PLine
<1>2. Len(physical) \in Nat /\ Len(group) \in Nat /\ Len(lines) \in Nat /\ DOMAIN lines = 1..Len(lines)
  BY <1>1, LenProperties DEF ReadInv
<1>3. group = <<>> <=> Len(group) = 0  BY EmptySeq DEF ReadInv
<1>4. next \in Nat /\ Start \in 1..next  BY <1>2 DEF ReadInv, Start
<1> QED  BY <1>1, <1>2, <1>3, <1>4, NamesOfLines

\* One more physical line joins those from i on.
LEMMA OneMore ==
  ASSUME NEW phys \in Seq(PLine), NEW n \in 1..Len(phys), NEW i \in 1..n
  PROVE  /\ Append(SubSeq(phys, i, n - 1), phys[n]) = SubSeq(phys, i, n)
         /\ SubSeq(phys, i, n) \in Seq(PLine) /\ Len(SubSeq(phys, i, n)) = n - i + 1
         /\ SubSeq(phys, i, n)[1] = phys[i] /\ SubSeq(phys, i, n) # <<>>
<1>0. Len(phys) \in Nat /\ i \in 1..Len(phys) /\ n \in i..Len(phys)  BY LenProperties
<1>1. \A m \in 1..Len(phys) : phys[m] \in PLine  BY NamesOfLines
<1>2. \A m \in i..n : phys[m] \in PLine  BY <1>0, <1>1
<1>3. \A m \in i..(n - 1) : phys[m] \in PLine  BY <1>0, <1>1
<1>4. /\ SubSeq(phys, i, n) \in Seq(PLine) /\ Len(SubSeq(phys, i, n)) = n - i + 1
      /\ \A m \in 1..(n - i + 1) : SubSeq(phys, i, n)[m] = phys[i + m - 1]
  BY <1>0, <1>2, SubSeqProperties
<1>5. SubSeq(phys, i, n - 1) \in Seq(PLine)  BY <1>0, <1>3, SubSeqProperties
<1>6. SubSeq(phys, i, n) = SubSeq(phys, i, n - 1) \o <<phys[n]>>
  BY <1>0, SubSeqRecursiveSecond
<1>7. Append(SubSeq(phys, i, n - 1), phys[n]) = SubSeq(phys, i, n - 1) \o <<phys[n]>>
  BY <1>0, <1>1, <1>5, AppendIsConcat
<1>8. SubSeq(phys, i, n)[1] = phys[i] /\ SubSeq(phys, i, n) # <<>>
  <2>1. 1 \in 1..(n - i + 1) /\ i + 1 - 1 = i  BY <1>0
  <2> QED  BY <1>4, <2>1, EmptySeq
<1> QED  BY <1>4, <1>6, <1>7, <1>8

\* It holds at the start of every file.
LEMMA InitInv == Init => Inv
<1> SUFFICES ASSUME Init PROVE Inv  OBVIOUS
<1>0. section = ""  BY DEF Init
<1>1. physical \in Files /\ next = 1 /\ group = <<>> /\ lines = <<>>  BY DEF Init
<1>2. physical \in Seq(PLine) /\ Len(physical) \in Nat /\ Len(group) = 0 /\ Start = 1
  <2>1. physical \in Seq(PLine)  BY <1>1, FilesAssumption DEF PLine
  <2>2. Len(physical) \in Nat  BY <2>1, LenProperties
  <2>3. Len(<<>>) = 0  OBVIOUS
  <2> QED  BY <1>1, <2>1, <2>2, <2>3 DEF Start
<1>3. SubSeq(physical, 1, 0) = <<>>  BY SubSeqEmpty
<1>a. section \in NamesOf(physical)  BY <1>0, <1>2, NamesOfLines
<1>4. ReadInv  BY <1>1, <1>2, <1>3, <1>a, EmptySeq DEF ReadInv
<1>5. GroupInv  BY <1>1 DEF GroupInv
<1>6. Tiled  BY <1>1, <1>2, EmptySeq DEF Tiled, Start
<1>7. AgreeInv
  <2>1. 1 \in 1..(Len(physical) + 1)  BY <1>2
  <2>2. ParseFrom(physical)[1][section] \in Seq(Logical(physical))
    BY <1>2, <1>a, <2>1, ParseFromTyped
  <2>3. Parse(physical) = ParseFrom(physical)[1][section]  BY <1>0 DEF Parse
  <2> QED  BY <1>1, <1>2, <2>2, <2>3, ConcatEmptySeq DEF AgreeInv
<1>8. RenderInv
  <2> DEFINE raws == [i \in DOMAIN lines |-> lines[i].raw]
  <2>1. raws \in Seq(Seq(PLine)) /\ raws = <<>>
    <3>1. DOMAIN lines = {}
      <4>1. <<>> \in Seq(PLine) /\ Len(<<>>) = 0  BY EmptySeq
      <4>2. DOMAIN <<>> = 1..0  BY <4>1, LenProperties
      <4> QED  BY <1>1, <4>2
    <3>2. raws = <<>>  BY <3>1
    <3> QED  BY <3>2, EmptySeq
  <2>2. FlattenSeq(raws) = <<>>  BY <2>1, EmptySeq DEF FlattenSeq
  <2> QED  BY <1>2, <1>3, <2>2 DEF RenderInv, Render
<1> QED  BY <1>4, <1>5, <1>6, <1>7, <1>8 DEF Inv

\* A logical line that reaches as far as Parse's lines reach is Parse's next line.
LEMMA EmitKeeps ==
  ASSUME Inv, NEW st \in 1..Len(physical), NEW n \in st..Len(physical), Start = st,
         EndOf(physical, st) = n,
         NEW line, line = Line(SubSeq(physical, st, n), st, section),
         lines' = Append(lines, line),
         section' = IF physical[st].face = "section" THEN physical[st].name ELSE section,
         next' = n + 1, group' = <<>>, physical' = physical
  PROVE  Inv'
<1> DEFINE g  == SubSeq(physical, st, n)
           ns == IF physical[st].face = "section" THEN physical[st].name ELSE section
           L  == Len(physical)
<1>1. /\ physical \in Seq(PLine) /\ L \in Nat /\ lines \in Seq(Logical(physical))
      /\ section \in NamesOf(physical) /\ Len(lines) \in Nat /\ DOMAIN lines = 1..Len(lines)
  BY ReadFacts DEF Inv, ReadInv
<1>2. st \in Nat /\ n \in Nat /\ st <= n /\ n \in 1..L /\ st \in 1..n  BY <1>1
<1>3. g \in Seq(PLine) /\ g # <<>> /\ g[1] = physical[st]  BY <1>1, <1>2, OneMore
<1>4. /\ line \in Logical(physical) /\ line.raw = g /\ line.number = st
      /\ ns = IF line.kind = "LineSection" THEN line.section ELSE section
  <2>1. line = Line(g, st, section)  OBVIOUS
  <2> HIDE DEF g
  <2>2. /\ line \in Logical(physical) /\ line.raw = g /\ line.number = st
        /\ line.kind = "LineSection" <=> g[1].face = "section"
        /\ g[1].face = "section" => line.section = g[1].name
    BY <1>1, <1>2, <1>3, <2>1, LineParts
  <2> QED  BY <1>3, <2>2
<1>5. ns \in NamesOf(physical)  BY <1>1, NamesOfLines
<1> HIDE DEF ns, g
<1>6. section' = ns  BY DEF ns
<1>7. Start' = n + 1
  <2>1. Len(<<>>) = 0  OBVIOUS
  <2> QED  BY <1>2, <2>1 DEF Start
<1>8. /\ lines' \in Seq(Logical(physical)) /\ Len(lines') = Len(lines) + 1
      /\ DOMAIN lines' = 1..(Len(lines) + 1) /\ lines'[Len(lines) + 1] = line
      /\ \A k \in 1..Len(lines) : lines'[k] = lines[k]
  <2>1. Append(lines, line) \in Seq(Logical(physical))  BY <1>1, <1>4, AppendProperties
  <2> QED  BY <1>1, <1>4, <2>1, AppendProperties, LenProperties
<1>9. ReadInv'
  <2>1. SubSeq(physical, n + 1, (n + 1) - 1) = <<>>  BY <1>2, SubSeqEmpty
  <2>2. <<>> \in Seq(PLine) /\ Len(<<>>) = 0  BY EmptySeq
  <2>3. physical \in Files  BY DEF Inv, ReadInv
  <2> QED  BY <1>1, <1>2, <1>5, <1>6, <1>7, <1>8, <2>1, <2>2, <2>3 DEF ReadInv
<1>10. GroupInv'  BY DEF GroupInv
<1>11. Tiled'
  <2> DEFINE start(k)  == IF k <= Len(lines) THEN lines[k].number ELSE next - Len(group)
             start2(k) == IF k <= Len(lines') THEN lines'[k].number ELSE next' - Len(group')
  <2>1. /\ start(1) = 1
        /\ \A k \in 1..Len(lines) : /\ start(k) < start(k + 1)
                                    /\ lines[k].raw = SubSeq(physical, start(k), start(k + 1) - 1)
    BY <1>1 DEF Inv, Tiled
  <2>2. /\ \A k \in 1..(Len(lines) + 1) : start2(k) = start(k)
        /\ start2(Len(lines) + 2) = n + 1 /\ start(Len(lines) + 1) = st
    <3>1. next - Len(group) = st /\ next' - Len(group') = n + 1  BY <1>7 DEF Start
    <3>2. ~(Len(lines) + 1 <= Len(lines)) /\ ~(Len(lines) + 2 <= Len(lines'))
      BY <1>1, <1>8
    <3>3. start(Len(lines) + 1) = st /\ start2(Len(lines) + 2) = n + 1  BY <3>1, <3>2
    <3>4. start2(Len(lines) + 1) = st  BY <1>1, <1>4, <1>8
    <3>5. ASSUME NEW k \in 1..Len(lines) PROVE start2(k) = start(k)  BY <1>1, <1>8
    <3> QED  BY <1>1, <3>3, <3>4, <3>5
  <2> HIDE DEF start, start2
  <2>3. start2(1) = 1  BY <1>1, <2>1, <2>2
  <2>4. ASSUME NEW k \in 1..(Len(lines) + 1)
        PROVE  /\ start2(k) < start2(k + 1)
               /\ lines'[k].raw = SubSeq(physical, start2(k), start2(k + 1) - 1)
    <3>1. CASE k \in 1..Len(lines)
      <4>1. start2(k) = start(k) /\ start2(k + 1) = start(k + 1)  BY <1>1, <2>2, <3>1
      <4> QED  BY <1>8, <2>1, <3>1, <4>1
    <3>2. CASE k = Len(lines) + 1
      <4>1. start2(k) = st /\ start2(k + 1) = n + 1 /\ (n + 1) - 1 = n
        BY <1>1, <1>2, <2>2, <3>2
      <4> QED  BY <1>2, <1>4, <1>8, <3>2, <4>1 DEF g
    <3> QED  BY <1>1, <3>1, <3>2
  <2>5. /\ start2(1) = 1
        /\ \A k \in DOMAIN lines' :
             /\ start2(k) < start2(k + 1)
             /\ lines'[k].raw = SubSeq(physical', start2(k), start2(k + 1) - 1)
    BY <1>8, <2>3, <2>4
  <2> QED  BY <2>5 DEF Tiled, start2
<1>12. AgreeInv'
  <2> DEFINE F == ParseFrom(physical)
  <2>1. F[st] = After(F, physical, st)
    <3>1. st \in 1..(L + 1)  BY <1>1, <1>2
    <3> QED  BY <1>1, <3>1, ParseFromSolves
  <2>2. F[n + 1][ns] \in Seq(Logical(physical))
    <3>1. n + 1 \in 1..(L + 1)  BY <1>1, <1>2
    <3> QED  BY <1>1, <1>5, <3>1, ParseFromTyped
  <2> HIDE DEF F
  <2>3. After(F, physical, st)[section] = <<line>> \o F[n + 1][ns]
    <3>1. ~(st > Len(physical))  BY <1>1, <1>2
    <3> QED  BY <1>1, <1>4, <3>1 DEF After, g
  <2>5. Parse(physical) = lines \o (<<line>> \o F[n + 1][ns])
    BY <2>1, <2>3 DEF Inv, AgreeInv, F
  <2>6. lines \o (<<line>> \o F[n + 1][ns]) = Append(lines, line) \o F[n + 1][ns]
    <3> DEFINE S == Logical(physical)
               R == F[n + 1][ns]
    <3>1. lines \in Seq(S) /\ line \in S /\ R \in Seq(S)  BY <1>1, <1>4, <2>2
    <3> HIDE DEF S, R
    <3>2. lines \o (<<line>> \o R) = Append(lines, line) \o R
      BY ONLY <3>1, AppendThenRest, SMTT(30)
    <3> QED  BY <3>2 DEF R
  <2>8. Parse(physical) = lines' \o F[n + 1][ns]  BY <2>5, <2>6
  <2> QED  BY <1>6, <1>7, <2>8 DEF AgreeInv, F
<1>13. RenderInv'
  <2> DEFINE raws  == [i \in DOMAIN lines |-> lines[i].raw]
             raws2 == [i \in DOMAIN lines' |-> lines'[i].raw]
  <2>1. raws \in Seq(Seq(PLine)) /\ Len(raws) = Len(lines)
    <3>1. \A i \in 1..Len(lines) : lines[i].raw \in Seq(PLine)
      <4> TAKE i \in 1..Len(lines)
      <4>1. lines[i] \in Logical(physical)  BY <1>1, ElementOfSeq
      <4>2. PICK h \in Seq(PLine), m \in Nat, z \in NamesOf(physical) : lines[i] = Line(h, m, z)
        BY <4>1 DEF Logical
      <4>3. Line(h, m, z).raw = h  BY DEF Line
      <4> QED  BY <4>2, <4>3
    <3>2. raws \in [1..Len(lines) -> Seq(PLine)]  BY <1>1, <3>1
    <3> HIDE DEF raws
    <3>3. raws \in Seq(Seq(PLine))
      <4> DEFINE S == Seq(PLine)
      <4>1. Seq(S) = UNION {[1..k -> S] : k \in Nat}  BY SeqDef
      <4>2. raws \in [1..Len(lines) -> S]  BY <3>2
      <4> HIDE DEF S
      <4>3. raws \in Seq(S)  BY <1>1, <4>1, <4>2
      <4> QED  BY <4>3 DEF S
    <3> QED  BY <1>1, <3>2, <3>3, LenProperties
  <2>2. raws2 = Append(raws, g)
    <3>1. Append(raws, g) \in Seq(Seq(PLine)) /\ Len(Append(raws, g)) = Len(lines) + 1
      BY <1>3, <2>1, AppendProperties
    <3>2. DOMAIN Append(raws, g) = 1..(Len(lines) + 1)  BY <3>1, LenProperties
    <3>3. ASSUME NEW i \in 1..(Len(lines) + 1) PROVE raws2[i] = Append(raws, g)[i]
      <4>1. raws2[i] = lines'[i].raw  BY <1>8
      <4>2. CASE i \in 1..Len(lines)
        <5>1. raws[i] = lines[i].raw /\ lines'[i] = lines[i]  BY <1>1, <1>8, <4>2
        <5> HIDE DEF raws, raws2
        <5> QED  BY <1>3, <2>1, <4>1, <4>2, <5>1, AppendProperties
      <4>3. CASE i = Len(lines) + 1
        <5> HIDE DEF raws, raws2
        <5> QED  BY <1>3, <1>4, <1>8, <2>1, <4>1, <4>3, AppendProperties
      <4> QED  BY <1>1, <4>2, <4>3
    <3>4. DOMAIN raws2 = 1..(Len(lines) + 1) /\ raws2 = [i \in DOMAIN raws2 |-> raws2[i]]
      BY <1>8
    <3>5. Append(raws, g) = [i \in DOMAIN Append(raws, g) |-> Append(raws, g)[i]]
      <4> HIDE DEF raws
      <4> QED  BY <3>1, LenProperties
    <3> HIDE DEF raws, raws2
    <3> QED  BY <3>2, <3>3, <3>4, <3>5
  <2>3. Render(lines') = FlattenSeq(raws2) /\ Render(lines) = FlattenSeq(raws)  BY DEF Render
  <2> HIDE DEF raws, raws2
  <2>4. Render(lines') = SubSeq(physical, 1, st - 1) \o SubSeq(physical, st, n)
    <3>1. Render(lines) = SubSeq(physical, 1, st - 1)  BY DEF Inv, RenderInv
    <3>2. FlattenSeq(Append(raws, g)) = FlattenSeq(raws) \o g
      BY <1>3, <2>1, FlattenAppend
    <3> QED  BY <2>2, <2>3, <3>1, <3>2 DEF g
  <2>5. SubSeq(physical, 1, st - 1) \o SubSeq(physical, st, n) = SubSeq(physical, 1, n)
    <3>1. /\ 1 \in 1..(L + 1) /\ st - 1 \in (1 - 1)..L /\ n \in (st - 1)..L
          /\ (st - 1) + 1 = st
      BY <1>1, <1>2
    <3> QED  BY <1>1, <3>1, ConcatAdjacentSubSeq
  <2>6. Start' - 1 = n  BY <1>2, <1>7
  <2> QED  BY <2>4, <2>5, <2>6 DEF RenderInv
<1> QED  BY <1>9, <1>10, <1>11, <1>12, <1>13 DEF Inv

\* A line of its own ends where it starts.
LEMMA SingleKeeps == ASSUME Inv, Single PROVE Inv'
<1>1. ReadInv  BY DEF Inv
<1>2. /\ group = <<>> /\ next <= Len(physical) /\ ~Continues(physical[next])
      /\ lines' = Append(lines, Line(<<physical[next]>>, next, section))
      /\ section' = IF physical[next].face = "section" THEN physical[next].name ELSE section
      /\ next' = next + 1 /\ physical' = physical /\ group' = group
  BY DEF Single, Reading
<1>3. PICK n \in 1..Len(physical) : n = next  BY <1>1, <1>2, ReadFacts
<1>4. Start = n  BY <1>1, <1>2, <1>3, ReadFacts DEF Start
<1>5. EndOf(physical, n) = n  BY <1>2, <1>3 DEF EndOf
<1>6. SubSeq(physical, n, n) = <<physical[n]>>
  <2>1. /\ physical \in Seq(PLine) /\ n \in n..Len(physical) /\ n \in 1..n
        /\ physical[n] \in PLine
    BY <1>1, <1>3, ReadFacts
  <2>2. SubSeq(physical, n, n - 1) = <<>>  BY <2>1, SubSeqEmpty
  <2>3. SubSeq(physical, n, n) = Append(<<>>, physical[n])  BY <2>1, <2>2, <1>3, OneMore
  <2> QED  BY <2>1, <2>3
<1> DEFINE line == Line(SubSeq(physical, n, n), n, section)
<1>7. lines' = Append(lines, line)  BY <1>2, <1>3, <1>6
<1>8. n \in n..Len(physical)  BY <1>1, <1>3, ReadFacts
<1> HIDE DEF line
<1>9. line = Line(SubSeq(physical, n, n), n, section)  BY DEF line
<1> QED  BY <1>2, <1>3, <1>4, <1>5, <1>7, <1>8, <1>9, EmitKeeps

\* An entry that is ended reaches as far as Parse's entry does.
LEMMA EndKeeps == ASSUME Inv, End PROVE Inv'
<1>1. ReadInv /\ GroupInv  BY DEF Inv
<1>2. /\ group # <<>> /\ (~raw.bs \/ next > Len(physical))
      /\ lines' = Append(lines, Line(group, next - Len(group), section))
      /\ group' = <<>> /\ physical' = physical /\ next' = next /\ section' = section
  <2>1. ~(next <= Len(physical)) => next > Len(physical)  BY <1>1, ReadFacts DEF ReadInv
  <2> QED  BY <2>1 DEF End, More
<1>3. PICK n \in 1..Len(physical) : n = next - 1
  BY <1>1, <1>2, ReadFacts DEF ReadInv, Start
<1>4. PICK st \in 1..n : st = Start  BY <1>1, <1>2, <1>3, ReadFacts DEF Start
<1>5. /\ physical \in Seq(PLine) /\ Len(physical) \in Nat /\ next \in Nat
      /\ st \in 1..Len(physical) /\ n \in st..Len(physical) /\ physical[st] \in PLine
  BY <1>1, <1>3, <1>4, ReadFacts
<1>6. Continues(physical[st])  BY <1>1, <1>2, <1>4 DEF GroupInv
<1>7. EndOf(physical, st) = n
  <2>1. \A j \in st..(n - 1) : ~Ends(physical, st, j)
    <3>1. n - 1 = next - 2  BY <1>3, <1>5
    <3> QED  BY <1>1, <1>2, <1>4, <3>1 DEF GroupInv
  <2>2. PICK k \in Content(physical, st, n) :
          raw = physical[k] /\ \A m \in Content(physical, st, n) : m <= k
    BY <1>1, <1>2, <1>3, <1>4 DEF GroupInv
  <2>3. Ends(physical, st, n) <=> ~raw.bs  BY <1>5, <2>2, EndsByLast
  <2>4. Ends(physical, st, n) \/ n = Len(physical)  BY <1>2, <1>3, <1>5, <2>3
  <2> QED  BY <1>5, <1>6, <2>1, <2>4, EndOfGroup
<1> DEFINE line == Line(SubSeq(physical, st, n), st, section)
<1>8. lines' = Append(lines, line)
  BY <1>1, <1>2, <1>3, <1>4 DEF ReadInv, Start
<1>9. ~(physical[st].face = "section")  BY <1>6 DEF Continues
<1>10. section' = IF physical[st].face = "section" THEN physical[st].name ELSE section
  BY <1>2, <1>9
<1>11. next' = n + 1  BY <1>2, <1>3, <1>5
<1> HIDE DEF line
<1>12. line = Line(SubSeq(physical, st, n), st, section)  BY DEF line
<1> QED  BY <1>2, <1>4, <1>5, <1>7, <1>8, <1>10, <1>11, <1>12, EmitKeeps

\* While an entry is gathered nothing is emitted: the rest of the invariant is
\* about where the entry starts, which stays.
LEMMA GatheringKeeps ==
  ASSUME Inv, NEW st, Start = st, Start' = st,
         UNCHANGED <<physical, section, lines>>, ReadInv', GroupInv'
  PROVE  Inv'
<1>1. Tiled'
  <2>1. next - Len(group) = st /\ next' - Len(group') = st  BY DEF Start
  <2>2. Tiled  BY DEF Inv
  <2> QED  BY <2>1, <2>2 DEF Tiled
<1>2. AgreeInv'  BY DEF Inv, AgreeInv
<1>3. RenderInv'  BY DEF Inv, RenderInv
<1> QED  BY <1>1, <1>2, <1>3 DEF Inv

\* An entry begins with a line that has content.
LEMMA BeginKeeps == ASSUME Inv, Begin PROVE Inv'
<1>1. ReadInv  BY DEF Inv
<1>2. /\ group = <<>> /\ next <= Len(physical) /\ Continues(physical[next])
      /\ group' = <<physical[next]>> /\ raw' = physical[next] /\ next' = next + 1
      /\ UNCHANGED <<physical, section, lines>>
  BY DEF Begin, Reading
<1>3. PICK n \in 1..Len(physical) : n = next  BY <1>1, <1>2, ReadFacts
<1>4. /\ physical \in Seq(PLine) /\ physical[n] \in PLine /\ Start = n /\ n \in 1..n
      /\ Len(physical) \in Nat
  BY <1>1, <1>2, <1>3, ReadFacts DEF Start
<1>5. <<physical[n]>> = SubSeq(physical, n, n) /\ SubSeq(physical, n, n) \in Seq(PLine)
      /\ Len(SubSeq(physical, n, n)) = 1
  <2>1. SubSeq(physical, n, n - 1) = <<>>  BY <1>4, SubSeqEmpty
  <2>2. /\ SubSeq(physical, n, n) = Append(<<>>, physical[n])
        /\ SubSeq(physical, n, n) \in Seq(PLine) /\ Len(SubSeq(physical, n, n)) = n - n + 1
    BY <1>3, <1>4, <2>1, OneMore
  <2> QED  BY <1>4, <2>2
<1>6. group' = SubSeq(physical, n, n) /\ Len(group') = 1 /\ Start' = n
  <2>1. group' = SubSeq(physical, n, n) /\ Len(group') = 1  BY <1>2, <1>3, <1>5
  <2> QED  BY <1>2, <1>3, <2>1 DEF Start
<1>7. next' = n + 1 /\ next' \in 1..(Len(physical) + 1) /\ next' - 1 = n /\ next' - 2 = n - 1
  BY <1>2, <1>3, <1>4
<1>8. ReadInv'
  <2>1. 1 < n + 1  BY <1>3
  <2> QED  BY <1>1, <1>2, <1>5, <1>6, <1>7, <2>1 DEF ReadInv
<1>9. GroupInv'
  <2>1. Content(physical, n, n) = {n}
    BY <1>2, <1>3 DEF Content, skipped, Continues
  <2>2. /\ Continues(physical[n]) /\ n \in Content(physical, n, n) /\ raw' = physical[n]
        /\ \A m \in Content(physical, n, n) : m <= n
        /\ \A j \in n..(n - 1) : ~Ends(physical, n, j)
    BY <1>2, <1>3, <2>1
  <2> QED  BY <1>2, <1>6, <1>7, <2>2 DEF GroupInv
<1> QED  BY <1>2, <1>4, <1>6, <1>8, <1>9, GatheringKeeps

\* A line that is gathered could not end the entry, since the last content line
\* before it is open.
LEMMA GatherKeeps == ASSUME Inv, Gather PROVE Inv'
<1>1. ReadInv /\ GroupInv  BY DEF Inv
<1>2. /\ group # <<>> /\ raw.bs /\ next <= Len(physical)
      /\ group' = Append(group, physical[next])
      /\ raw' = IF skipped(physical[next]) THEN raw ELSE physical[next]
      /\ next' = next + 1 /\ UNCHANGED <<physical, section, lines>>
  BY DEF Gather, More, LastOf
<1>3. PICK n \in 1..Len(physical) : n = next  BY <1>1, <1>2, ReadFacts
<1>4. PICK st \in 1..(n - 1) : st = Start
  <2>1. Start \in 1..n /\ Len(group) \in Nat /\ Len(group) # 0  BY <1>1, <1>2, <1>3, ReadFacts
  <2>2. Start = n - Len(group)  BY <1>3 DEF Start
  <2>3. Start \in 1..(n - 1)  BY <2>1, <2>2
  <2> QED  BY <2>3
<1>5. /\ physical \in Seq(PLine) /\ Len(physical) \in Nat /\ st \in 1..n /\ n - 1 \in Nat
      /\ group = SubSeq(physical, st, n - 1) /\ Len(group) = n - st
  BY <1>1, <1>3, <1>4, ReadFacts DEF ReadInv, Start
<1>6. group' = SubSeq(physical, st, n) /\ group' \in Seq(PLine) /\ Len(group') = n - st + 1
  BY <1>2, <1>3, <1>5, OneMore
<1>7. /\ next' = n + 1 /\ next' \in 1..(Len(physical) + 1) /\ next' - 1 = n
      /\ next' - 2 = n - 1 /\ Start' = st
  <2>1. next' = n + 1  BY <1>2, <1>3
  <2>2. next' \in 1..(Len(physical) + 1) /\ next' - 1 = n /\ next' - 2 = n - 1
    BY <1>3, <1>5, <2>1
  <2>3. Start' = st  BY <1>3, <1>4, <1>6, <2>1 DEF Start
  <2> QED  BY <2>1, <2>2, <2>3
<1>8. ReadInv'
  <2>1. Len(group') < next'  BY <1>3, <1>4, <1>6, <1>7
  <2> QED  BY <1>1, <1>2, <1>6, <1>7, <2>1 DEF ReadInv
<1>9. GroupInv'
  <2>1. PICK k \in Content(physical, st, n - 1) :
          raw = physical[k] /\ \A m \in Content(physical, st, n - 1) : m <= k
    BY <1>1, <1>2, <1>3, <1>4 DEF GroupInv
  <2>2. Continues(physical[st]) /\ \A j \in st..(n - 2) : ~Ends(physical, st, j)
    BY <1>1, <1>2, <1>3, <1>4 DEF GroupInv
  <2>3. \A j \in st..(n - 1) : ~Ends(physical, st, j)
    <3>1. Ends(physical, st, n - 1) <=> ~raw.bs  BY <1>4, <1>5, <2>1, EndsByLast
    <3>2. \A j \in st..(n - 1) : j \in st..(n - 2) \/ j = n - 1  BY <1>4
    <3> QED  BY <1>2, <2>2, <3>1, <3>2
  <2>4. Content(physical, st, n) =
          Content(physical, st, n - 1) \cup (IF skipped(physical[n]) THEN {} ELSE {n})
    <3>1. st..n = (st..(n - 1)) \cup {n}  BY <1>4
    <3> QED  BY <3>1 DEF Content
  <2>5. \E h \in Content(physical, st, n) :
          raw' = physical[h] /\ \A m \in Content(physical, st, n) : m <= h
    <3>1. CASE skipped(physical[n])  BY <1>2, <1>3, <2>1, <2>4, <3>1
    <3>2. CASE ~skipped(physical[n])
      <4>1. n \in Content(physical, st, n) /\ raw' = physical[n]  BY <1>2, <1>3, <2>4, <3>2
      <4>2. \A m \in Content(physical, st, n) : m <= n  BY <1>4 DEF Content
      <4> QED  BY <4>1, <4>2
    <3> QED  BY <3>1, <3>2
  <2> QED  BY <1>2, <1>7, <2>2, <2>3, <2>5 DEF GroupInv
<1> QED  BY <1>2, <1>4, <1>7, <1>8, <1>9, GatheringKeeps

\* The invariant is inductive.
LEMMA InvStep == Inv /\ [Next]_vars => Inv'
<1> SUFFICES ASSUME Inv, [Next]_vars PROVE Inv'  OBVIOUS
<1>1. CASE UNCHANGED vars
  <2>1. ReadInv' /\ GroupInv' /\ Start' = Start
    BY <1>1 DEF vars, Inv, ReadInv, GroupInv, Start
  <2>2. Tiled' /\ AgreeInv' /\ RenderInv'
    BY <1>1, <2>1 DEF vars, Inv, Tiled, AgreeInv, RenderInv
  <2> QED  BY <2>1, <2>2 DEF Inv
<1> QED  BY <1>1, SingleKeeps, BeginKeeps, GatherKeeps, EndKeeps DEF Next

\* It holds throughout.
LEMMA InvHolds == Spec => []Inv
BY InitInv, InvStep, PTL DEF Spec

-----------------------------------------------------------------------------
(* The theorems.                                                           *)

\* The line in progress is what the parser has read of the file since its start.
THEOREM ParserTyped == Spec => []TypeOK
<1>1. ASSUME Inv PROVE TypeOK
  <2>1. /\ ReadInv /\ physical \in Files /\ next \in 1..(Len(physical) + 1) /\ Len(group) < next
        /\ group = SubSeq(physical, Start, next - 1) /\ group \in Seq(PLine)
    BY <1>1 DEF Inv, ReadInv
  <2>2. Start \in 1..next /\ next \in Nat /\ Len(group) \in Nat /\ Len(physical) \in Nat
    BY <2>1, ReadFacts
  <2>3. \A i \in DOMAIN group : group[i] = physical[next - Len(group) - 1 + i]
    <3>1. \A m \in Start..(next - 1) : physical[m] \in PLine  BY <2>1, <2>2, ReadFacts
    <3>2. \A i \in 1..((next - 1) - Start + 1) :
            SubSeq(physical, Start, next - 1)[i] = physical[Start + i - 1]
      BY <2>2, <3>1, SubSeqProperties
    <3>3. DOMAIN group = 1..Len(group)  BY <2>1, LenProperties
    <3>4. ASSUME NEW i \in 1..Len(group)
          PROVE  i \in 1..((next - 1) - Start + 1) /\ Start + i - 1 = next - Len(group) - 1 + i
      BY <2>2 DEF Start
    <3> QED  BY <2>1, <3>2, <3>3, <3>4
  <2> QED  BY <2>1, <2>3 DEF TypeOK
<1> QED  BY <1>1, InvHolds, PTL

\* At every moment the logical lines and the one in progress tile what has been
\* read of the file: a file that is not changed is written back as it was.
THEOREM LinesTileTheFile == Spec => []Tiled
<1>1. Inv => Tiled  BY DEF Inv
<1> QED  BY <1>1, InvHolds, PTL

\* One pass, with a continuation gathered line by line, yields what Parse is
\* defined to be, and rendering that yields the file, of any length.
THEOREM ParserAgreesWithParse == Spec => []AgreesWithParse
<1>1. ASSUME Inv, Done PROVE lines = Parse(physical) /\ Render(lines) = physical
  <2>1. ReadInv /\ AgreeInv /\ RenderInv /\ group = <<>>  BY <1>1 DEF Inv, Done
  <2>2. /\ physical \in Seq(PLine) /\ Len(physical) \in Nat /\ lines \in Seq(Logical(physical))
        /\ section \in NamesOf(physical) /\ Start = Len(physical) + 1
    BY <1>1, <2>1, ReadFacts DEF Done, ReadInv, Start
  <2>3. ParseFrom(physical)[Len(physical) + 1][section] = <<>>
    <3> DEFINE F == ParseFrom(physical)
               i == Len(physical) + 1
    <3>1. i \in 1..(Len(physical) + 1) /\ i > Len(physical)  BY <2>2
    <3>2. F = [j \in 1..(Len(physical) + 1) |-> After(F, physical, j)]
      BY <2>2, ParseFromSolves
    <3> HIDE DEF F, i
    <3>3. F[i] = After(F, physical, i)  BY <3>1, <3>2
    <3>4. After(F, physical, i)[section] = <<>>  BY <2>2, <3>1 DEF After
    <3> QED  BY <3>3, <3>4 DEF F, i
  <2>4. lines = Parse(physical)
    BY <2>1, <2>2, <2>3, ConcatEmptySeq DEF AgreeInv
  <2>5. Render(lines) = SubSeq(physical, 1, Len(physical))
    <3>1. Start - 1 = Len(physical)  BY <2>2
    <3> QED  BY <2>1, <3>1 DEF RenderInv
  <2> QED  BY <2>2, <2>4, <2>5, SubSeqFull
<1>2. Inv => AgreesWithParse  BY <1>1 DEF AgreesWithParse
<1> QED  BY <1>2, InvHolds, PTL
=============================================================================
