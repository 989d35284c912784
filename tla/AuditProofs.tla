---------------------------- MODULE AuditProofs -----------------------------
(***************************************************************************)
(* What the lint's two parsers of flags, its configuration and its         *)
(* directives come to, for every command line, configuration and text.     *)
(***************************************************************************)
EXTENDS Audit, SequenceTheorems, WellFoundedInduction, TLAPS

-----------------------------------------------------------------------------
(* Induction over the naturals, with the property given as a set.          *)

\* A set of naturals that is not empty has a least element.
LEMMA LeastNumber ==
  ASSUME NEW T, T \subseteq Nat, T # {}
  PROVE  \E n \in T : \A m \in T : n <= m
<1>1. PICK n \in T : \A m \in T : ~(<<m, n>> \in OpToRel(<, Nat))
  BY NatLessThanWellFounded, WFMin
<1>2. \A m \in T : ~(m < n)  BY <1>1 DEF OpToRel
<1> QED  BY <1>2

\* A set that holds 0 and with every number the next one holds them all.
LEMMA SetInduction ==
  ASSUME NEW T, 0 \in T, \A n \in Nat : n \in T => n + 1 \in T
  PROVE  Nat \subseteq T
<1> SUFFICES ASSUME Nat \ T # {} PROVE FALSE  OBVIOUS
<1>1. PICK n \in Nat \ T : \A m \in Nat \ T : n <= m  BY LeastNumber
<1>2. n # 0 /\ n - 1 \in Nat /\ n - 1 \notin Nat \ T  BY <1>1
<1> QED  BY <1>2

\* A set of integers that is not empty and bounded has a greatest element.
LEMMA GreatestNumber ==
  ASSUME NEW b \in Int, NEW T, T \subseteq Int, T # {}, \A n \in T : n <= b
  PROVE  \E n \in T : \A m \in T : m <= n
<1> DEFINE D == {b - n : n \in T}
<1>1. D \subseteq Nat /\ D # {}
  <2>1. \A n \in T : b - n \in Nat /\ b - n \in D  OBVIOUS
  <2> QED  BY <2>1
<1>2. PICK d \in D : \A e \in D : d <= e  BY <1>1, LeastNumber
<1>3. PICK n \in T : d = b - n  BY <1>2
<1>4. ASSUME NEW m \in T PROVE m <= n
  <2>1. b - n <= b - m  BY <1>2, <1>3
  <2> QED  BY <2>1
<1> QED  BY <1>4

-----------------------------------------------------------------------------
(* What an argument is.                                                    *)

\* The role of argument k, from the role of the one before it.
Role(before, list, k) ==
  IF before \in {"end", "rest"} THEN "rest"
  ELSE IF before = "takes" THEN "value"
  ELSE IF list[k] = "--" THEN "end"
  ELSE IF list[k] \in ValueFlags /\ k < Len(list) THEN "takes"
  ELSE IF list[k] \in Dashed THEN "flag"
  ELSE "path"

\* The roles of the first n arguments.
Solves(role, list, n) ==
  role = [k \in 0..n |-> IF k = 0 THEN "path" ELSE Role(role[k - 1], list, k)]

\* They can be told from left to right, however many arguments there are.
LEMMA RolesExist ==
  ASSUME NEW list, NEW n \in Nat
  PROVE  \E role : Solves(role, list, n)
<1> DEFINE T == {m \in Nat : \E role : Solves(role, list, m)}
<1>1. 0 \in T
  <2>1. Solves([k \in 0..0 |-> "path"], list, 0)  BY DEF Solves
  <2> QED  BY <2>1
<1>2. ASSUME NEW m \in Nat, m \in T PROVE m + 1 \in T
  <2>1. PICK f : Solves(f, list, m)  BY <1>2
  <2> DEFINE g == [k \in 0..(m + 1) |-> IF k <= m THEN f[k] ELSE Role(f[k - 1], list, k)]
  <2>2. \A k \in 0..m : g[k] = f[k]  OBVIOUS
  <2>3. \A k \in 0..(m + 1) : g[k] = IF k = 0 THEN "path" ELSE Role(g[k - 1], list, k)
    <3> TAKE k \in 0..(m + 1)
    <3>1. CASE k <= m
      <4>1. k \in 0..m /\ (k # 0 => k - 1 \in 0..m)  BY <3>1
      <4>2. f[k] = IF k = 0 THEN "path" ELSE Role(f[k - 1], list, k)
        BY <2>1, <4>1 DEF Solves
      <4> HIDE DEF g
      <4> QED  BY <2>2, <4>1, <4>2
    <3>2. CASE k = m + 1
      <4>1. g[k] = Role(f[k - 1], list, k)  BY <3>2
      <4>2. k - 1 \in 0..m /\ k # 0  BY <3>2
      <4> HIDE DEF g
      <4> QED  BY <2>2, <4>1, <4>2
    <3> QED  BY <3>1, <3>2
  <2>4. g = [k \in 0..(m + 1) |-> g[k]]  OBVIOUS
  <2> HIDE DEF g
  <2>5. Solves(g, list, m + 1)  BY <2>3, <2>4 DEF Solves
  <2> QED  BY <2>5
<1> HIDE DEF T
<1>3. n \in T  BY <1>1, <1>2, SetInduction
<1> QED  BY <1>3 DEF T

\* Roles satisfies its equation.
LEMMA RolesSolve ==
  ASSUME NEW list \in Seq(STRING)
  PROVE  /\ Roles(list)[0] = "path"
         /\ \A k \in 1..Len(list) : Roles(list)[k] = Role(Roles(list)[k - 1], list, k)
<1> DEFINE F == CHOOSE f : f = [k \in 0..Len(list) |->
                             IF k = 0 THEN "path" ELSE Role(f[k - 1], list, k)]
<1>1. Roles(list) = F  BY DEF Roles, Role
<1>2. Len(list) \in Nat  BY LenProperties
<1>3. F = [k \in 0..Len(list) |-> IF k = 0 THEN "path" ELSE Role(F[k - 1], list, k)]
  BY <1>2, RolesExist DEF Solves
<1> HIDE DEF F
<1>4. F[0] = "path"  BY <1>2, <1>3
<1>5. \A k \in 1..Len(list) : F[k] = Role(F[k - 1], list, k)
  <2> TAKE k \in 1..Len(list)
  <2>1. k \in 0..Len(list) /\ k # 0  BY <1>2
  <2> QED  BY <1>3, <2>1
<1> QED  BY <1>1, <1>4, <1>5

\* A value follows what takes it, and what is a flag is written as one.
LEMMA RoleOf ==
  ASSUME NEW list \in Seq(STRING), NEW k \in 1..Len(list)
  PROVE  LET R == Roles(list) IN
         /\ R[k] \in {"flag", "takes", "value", "end", "rest", "path"}
         /\ R[k] = "value" <=> R[k - 1] = "takes"
         /\ R[k] = "takes" => list[k] \in ValueFlags /\ k < Len(list)
         /\ R[k] = "flag" => list[k] \in Dashed \ {"--"}
         /\ R[k] = "flag" /\ list[k] \in ValueFlags => k = Len(list)
<1>1. Len(list) \in Nat  BY LenProperties
<1>2. Roles(list)[k] = Role(Roles(list)[k - 1], list, k)  BY RolesSolve
<1> DEFINE r == Roles(list)[k]  b == Roles(list)[k - 1]
<1>3. ~(k < Len(list)) => k = Len(list)  BY <1>1
<1> HIDE DEF r, b
<1>4. r = Role(b, list, k)  BY <1>2 DEF r, b
<1>5. /\ r \in {"flag", "takes", "value", "end", "rest", "path"}
      /\ r = "value" <=> b = "takes"
      /\ r = "takes" => list[k] \in ValueFlags /\ k < Len(list)
      /\ r = "flag" => list[k] \in Dashed /\ list[k] # "--"
      /\ r = "flag" /\ list[k] \in ValueFlags => ~(k < Len(list))
  BY <1>4 DEF Role
<1> QED  BY <1>3, <1>5 DEF r, b

\* Everything after the end of the flags is a path.
LEMMA RestIsPaths ==
  ASSUME NEW list \in Seq(STRING), NEW e \in 1..Len(list), Roles(list)[e] = "end"
  PROVE  \A k \in (e + 1)..Len(list) : Roles(list)[k] = "rest"
<1> DEFINE T == {m \in Nat : e + 1 + m <= Len(list) => Roles(list)[e + 1 + m] = "rest"}
<1>0. Len(list) \in Nat  BY LenProperties
<1>1. 0 \in T
  <2> SUFFICES ASSUME e + 1 <= Len(list) PROVE Roles(list)[e + 1] = "rest"  OBVIOUS
  <2>1. e + 1 \in 1..Len(list) /\ (e + 1) - 1 = e  BY <1>0
  <2>2. Roles(list)[e + 1] = Role(Roles(list)[e], list, e + 1)  BY <2>1, RolesSolve
  <2> QED  BY <2>2 DEF Role
<1>2. ASSUME NEW m \in Nat, m \in T PROVE m + 1 \in T
  <2> DEFINE k == e + 1 + (m + 1)
  <2> SUFFICES ASSUME k <= Len(list) PROVE Roles(list)[k] = "rest"  OBVIOUS
  <2>1. k \in 1..Len(list) /\ k - 1 = e + 1 + m /\ e + 1 + m <= Len(list)  BY <1>0
  <2>2. Roles(list)[k - 1] = "rest"  BY <1>2, <2>1
  <2> HIDE DEF k
  <2>3. Roles(list)[k] = Role(Roles(list)[k - 1], list, k)  BY <2>1, RolesSolve
  <2> QED  BY <2>2, <2>3 DEF Role
<1> HIDE DEF T
<1>3. Nat \subseteq T  BY <1>1, <1>2, SetInduction
<1>4. ASSUME NEW k \in (e + 1)..Len(list) PROVE Roles(list)[k] = "rest"
  <2>1. k - (e + 1) \in Nat /\ e + 1 + (k - (e + 1)) = k  BY <1>0
  <2>2. k - (e + 1) \in T  BY <1>3, <2>1
  <2> QED  BY <1>0, <2>1, <2>2 DEF T
<1> QED  BY <1>4

-----------------------------------------------------------------------------
(* Lists that hold some of the arguments in order.                         *)

Points(A, pos, list, positions) ==
  /\ pos \in [1..Len(list) -> positions]
  /\ \A i, j \in 1..Len(list) : i < j => pos[i] < pos[j]
  /\ \A k \in positions : \E i \in 1..Len(list) : pos[i] = k
  /\ \A i \in 1..Len(list) : list[i] = A[pos[i]]

InOrder(A, list, positions) == \E pos : Points(A, pos, list, positions)

Upto(A, n, roles) == {k \in 1..n : Roles(A)[k] \in roles}

\* The arguments that follow go behind those the list holds.
LEMMA InOrderConcat ==
  ASSUME NEW A, NEW list \in Seq(STRING), NEW more \in Seq(STRING), NEW i \in Nat,
         NEW S, S \subseteq 1..i, InOrder(A, list, S), NEW b \in Nat, i <= b,
         \A k \in 1..Len(more) : more[k] = A[b + k]
  PROVE  InOrder(A, list \o more, S \cup ((b + 1)..(b + Len(more))))
<1> DEFINE n == Len(list)  m == Len(more)  all == list \o more
           U == S \cup ((b + 1)..(b + m))
<1>1. n \in Nat /\ m \in Nat /\ Len(all) = n + m  BY LenProperties, ConcatProperties
<1>2. \A k \in 1..n : all[k] = list[k]  BY <1>1, ConcatProperties
<1>3. \A k \in (n + 1)..(n + m) : all[k] = more[k - n]  BY <1>1, ConcatProperties
<1>4. PICK pos : Points(A, pos, list, S)  BY DEF InOrder
<1> HIDE DEF n, m, all
<1> DEFINE q == [k \in 1..(n + m) |-> IF k <= n THEN pos[k] ELSE b + (k - n)]
<1>5. /\ \A k \in 1..n : q[k] = pos[k] /\ pos[k] \in S /\ pos[k] <= b /\ pos[k] \in Int
      /\ \A k \in (n + 1)..(n + m) : q[k] = b + (k - n)
  <2>1. \A k \in 1..n : pos[k] \in S  BY <1>4 DEF Points, n
  <2>2. \A s \in S : s \in Int /\ s <= b  OBVIOUS
  <2>3. \A k \in 1..n : k \in 1..(n + m) /\ k <= n  BY <1>1
  <2>4. \A k \in (n + 1)..(n + m) : k \in 1..(n + m) /\ ~(k <= n)  BY <1>1
  <2> HIDE DEF U
  <2>5. \A k \in 1..n : q[k] = pos[k]  BY <2>3
  <2>6. \A k \in (n + 1)..(n + m) : q[k] = b + (k - n)  BY <2>4
  <2> QED  BY <2>1, <2>2, <2>5, <2>6
<1>6. q \in [1..(n + m) -> U]
  <2>1. \A k \in (n + 1)..(n + m) : b + (k - n) \in (b + 1)..(b + m)  BY <1>1
  <2>2. \A k \in 1..(n + m) : k \in 1..n \/ k \in (n + 1)..(n + m)  BY <1>1
  <2>3. \A k \in 1..(n + m) : q[k] \in U  BY <1>5, <2>1, <2>2
  <2>4. q = [k \in 1..(n + m) |-> q[k]]  OBVIOUS
  <2> HIDE DEF q, U
  <2> QED  BY <2>3, <2>4
<1> HIDE DEF q
<1>7. \A k, l \in 1..(n + m) : k < l => q[k] < q[l]
  <2> SUFFICES ASSUME NEW k \in 1..(n + m), NEW l \in 1..(n + m), k < l PROVE q[k] < q[l]
    OBVIOUS
  <2>1. CASE l <= n
    <3>1. k \in 1..n /\ l \in 1..n  BY <1>1, <2>1
    <3>2. pos[k] < pos[l]  BY <1>4, <3>1 DEF Points, n
    <3> QED  BY <1>5, <3>1, <3>2
  <2>2. CASE ~(l <= n)
    <3>1. l \in (n + 1)..(n + m) /\ (k \in 1..n \/ k \in (n + 1)..(n + m))  BY <1>1, <2>2
    <3> QED  BY <1>1, <1>5, <3>1
  <2> QED  BY <2>1, <2>2
<1>8. \A s \in U : \E k \in 1..(n + m) : q[k] = s
  <2> TAKE s \in U
  <2>1. CASE s \in S
    <3>1. PICK k \in 1..n : pos[k] = s  BY <1>4, <2>1 DEF Points, n
    <3>2. k \in 1..(n + m) /\ q[k] = s  BY <1>1, <1>5, <3>1
    <3> QED  BY <3>2
  <2>2. CASE s \in (b + 1)..(b + m)
    <3> DEFINE k == n + (s - b)
    <3>1. k \in (n + 1)..(n + m) /\ k \in 1..(n + m) /\ b + (k - n) = s  BY <1>1, <2>2
    <3> HIDE DEF k
    <3>2. q[k] = s  BY <1>5, <3>1
    <3> QED  BY <3>1, <3>2
  <2> QED  BY <2>1, <2>2
<1>9. \A k \in 1..(n + m) : all[k] = A[q[k]]
  <2> TAKE k \in 1..(n + m)
  <2>1. CASE k \in 1..n  BY <1>2, <1>4, <1>5, <2>1 DEF Points, n
  <2>2. CASE k \in (n + 1)..(n + m)
    <3>1. k - n \in 1..m  BY <1>1, <2>2
    <3>2. more[k - n] = A[b + (k - n)]  BY <3>1 DEF m
    <3> QED  BY <1>3, <1>5, <2>2, <3>2
  <2> QED  BY <1>1, <2>1, <2>2
<1>10. Points(A, q, all, U)  BY <1>1, <1>6, <1>7, <1>8, <1>9 DEF Points
<1> QED  BY <1>10 DEF InOrder, all, m

\* An empty list holds no argument.
LEMMA InOrderEmpty ==
  ASSUME NEW A
  PROVE  InOrder(A, <<>>, {})
<1> DEFINE e == <<>>
<1>1. Len(e) = 0  OBVIOUS
<1> HIDE DEF e
<1>2. Points(A, [k \in 1..0 |-> k], e, {})  BY <1>1 DEF Points
<1> QED  BY <1>2 DEF InOrder, e

\* What the list holds grows with the arguments that are looked at.
LEMMA UptoNext ==
  ASSUME NEW A, NEW n \in Nat, NEW roles
  PROVE  /\ Roles(A)[n + 1] \in roles => Upto(A, n + 1, roles) = Upto(A, n, roles) \cup {n + 1}
         /\ Roles(A)[n + 1] \notin roles => Upto(A, n + 1, roles) = Upto(A, n, roles)
<1>1. \A k : k \in 1..(n + 1) <=> (k \in 1..n \/ k = n + 1)  OBVIOUS
<1>2. Upto(A, n + 1, roles) = {k \in 1..(n + 1) : Roles(A)[k] \in roles}  BY DEF Upto
<1>3. Upto(A, n, roles) = {k \in 1..n : Roles(A)[k] \in roles}  BY DEF Upto
<1> QED  BY <1>1, <1>2, <1>3

-----------------------------------------------------------------------------
(* parseArgs: after i arguments, todo is what remains, the flags and their *)
(* values are one list in order, and the paths the other.                  *)

Kinds     == {"flag", "takes", "value"}
PathRoles == {"path", "rest"}

Remains(rest, list, i) ==
  /\ Len(rest) + i = Len(list)
  /\ \A k \in 1..Len(rest) : rest[k] = list[i + k]

ArgsAt(A, rest, fl, ps, i) ==
  /\ i \in Nat
  /\ Remains(rest, A, i)
  /\ Roles(A)[i] # "takes"
  /\ Roles(A)[i] \in {"end", "rest"} => rest = <<>>
  /\ InOrder(A, fl, Upto(A, i, Kinds))
  /\ InOrder(A, ps, Upto(A, i, PathRoles))

\* What remains after the first of what remains.
LEMMA RemainsTail ==
  ASSUME NEW X, NEW list \in Seq(X), NEW rest \in Seq(X), NEW i \in Nat,
         Remains(rest, list, i), rest # <<>>
  PROVE  /\ Head(rest) = list[i + 1] /\ i + 1 \in 1..Len(list)
         /\ Tail(rest) \in Seq(X) /\ Remains(Tail(rest), list, i + 1)
         /\ Tail(rest) = <<>> <=> i + 1 = Len(list)
<1> DEFINE t == Tail(rest)
<1>1. /\ Len(rest) \in Nat /\ Len(list) \in Nat /\ Len(rest) # 0
      /\ t \in Seq(X) /\ Len(t) = Len(rest) - 1
      /\ \A k \in 1..Len(t) : t[k] = rest[k + 1]
      /\ Head(rest) = rest[1]
  BY LenProperties, EmptySeq, HeadTailProperties
<1>2. t = <<>> <=> Len(t) = 0  BY <1>1, EmptySeq
<1> HIDE DEF t
<1>3. Len(rest) + i = Len(list) /\ \A k \in 1..Len(rest) : rest[k] = list[i + k]
  BY DEF Remains
<1>4. Remains(t, list, i + 1)
  <2>1. \A k \in 1..Len(t) : t[k] = list[(i + 1) + k]
    <3> TAKE k \in 1..Len(t)
    <3>1. k + 1 \in 1..Len(rest) /\ i + (k + 1) = (i + 1) + k  BY <1>1
    <3> QED  BY <1>1, <1>3, <3>1
  <2>2. Len(t) + (i + 1) = Len(list)
    <3>1. Len(rest) + i = Len(list) /\ Len(t) = Len(rest) - 1 /\ Len(rest) \in Nat  BY <1>1, <1>3
    <3> DEFINE x == Len(t)  y == Len(rest)  z == Len(list)
    <3> HIDE DEF x, y, z
    <3>2. y + i = z /\ x = y - 1 /\ y \in Nat  BY <3>1 DEF x, y, z
    <3>3. x + (i + 1) = z  BY <3>2
    <3> QED  BY <3>3 DEF x, z
  <2> DEFINE b == i + 1
  <2> HIDE DEF b
  <2>3. Remains(t, list, b)  BY <2>1, <2>2 DEF Remains, b
  <2> QED  BY <2>3 DEF b
<1>5. Head(rest) = list[i + 1]
  <2>1. 1 \in 1..Len(rest)  BY <1>1
  <2> QED  BY <1>1, <1>3, <2>1
<1> QED  BY <1>1, <1>2, <1>3, <1>4, <1>5 DEF t

\* One element or two are a sequence.
LEMMA ShortSequences ==
  ASSUME NEW X, NEW x \in X, NEW y \in X
  PROVE  /\ <<x>> \in Seq(X) /\ Len(<<x>>) = 1 /\ <<x>>[1] = x
         /\ <<x, y>> \in Seq(X) /\ Len(<<x, y>>) = 2 /\ <<x, y>>[1] = x /\ <<x, y>>[2] = y
OBVIOUS

\* One turn of parseArgs's loop.
LEMMA ArgsStep ==
  ASSUME NEW A \in Seq(STRING), NEW rest \in Seq(STRING), NEW fl \in Seq(STRING),
         NEW ps \in Seq(STRING), NEW i, ArgsAt(A, rest, fl, ps, i), rest # <<>>
  PROVE  LET a == Head(rest)  t == Tail(rest)
             takes == takesValue(a) /\ t # <<>>
         IN  /\ a = "--" => ArgsAt(A, <<>>, fl, ps \o t, Len(A))
             /\ a \in Dashed \ {"--"} /\ takes =>
                  ArgsAt(A, Tail(t), fl \o <<a, Head(t)>>, ps, i + 2)
             /\ a \in Dashed \ {"--"} /\ ~takes => ArgsAt(A, t, fl \o <<a>>, ps, i + 1)
             /\ a \notin Dashed => ArgsAt(A, t, fl, Append(ps, a), i + 1)
<1> DEFINE a == Head(rest)  t == Tail(rest)  n == Len(A)  R == Roles(A)
           F == Upto(A, i, Kinds)  P == Upto(A, i, PathRoles)
           takes == takesValue(a) /\ t # <<>>
<1>1. /\ i \in Nat /\ Remains(rest, A, i) /\ R[i] # "takes" /\ R[i] \notin {"end", "rest"}
      /\ InOrder(A, fl, F) /\ InOrder(A, ps, P) /\ n \in Nat
  BY LenProperties DEF ArgsAt
<1>2. /\ a = A[i + 1] /\ i + 1 \in 1..n /\ t \in Seq(STRING) /\ Remains(t, A, i + 1)
      /\ t = <<>> <=> i + 1 = n
  BY <1>1, RemainsTail
<1>3. F \subseteq 1..i /\ P \subseteq 1..i  BY DEF Upto
<1>4. R[i + 1] = Role(R[i], A, i + 1)
  <2>1. (i + 1) - 1 = i  BY <1>1
  <2> QED  BY <1>2, <2>1, RolesSolve
<1>5. /\ a = "--" => R[i + 1] = "end"
      /\ a \in Dashed \ {"--"} /\ takes => R[i + 1] = "takes"
      /\ a \in Dashed \ {"--"} /\ ~takes => R[i + 1] = "flag"
      /\ a \notin Dashed => R[i + 1] = "path"
  <2>1. i + 1 < n <=> t # <<>>  BY <1>2
  <2>2. "--" \in Dashed /\ ValueFlags \subseteq Dashed  BY DEF Dashed
  <2>3. takes <=> a \in ValueFlags /\ i + 1 < n  BY <2>1 DEF takesValue
  <2>4. "--" \notin ValueFlags  BY DEF ValueFlags
  <2> DEFINE r == R[i + 1]  b == R[i]  more == i + 1 < n
  <2>5. r = Role(b, A, i + 1) /\ A[i + 1] = a /\ (i + 1 < Len(A) <=> more)  BY <1>2, <1>4
  <2>6. b # "takes" /\ b \notin {"end", "rest"}  BY <1>1
  <2> HIDE DEF r, b, more, a, n, takes
  <2> QED  BY <2>2, <2>3, <2>4, <2>5, <2>6 DEF Role, r, more
<1> HIDE DEF a, t, n, R, F, P, takes
<1>6. ASSUME a = "--" PROVE ArgsAt(A, <<>>, fl, ps \o t, n)
  <2>1. R[i + 1] = "end"  BY <1>5, <1>6
  <2>2. \A k \in (i + 2)..n : R[k] = "rest"
    <3>1. \A k \in ((i + 1) + 1)..n : R[k] = "rest"  BY <1>2, <2>1, RestIsPaths DEF R, n
    <3>2. (i + 1) + 1 = i + 2  BY <1>1
    <3> QED  BY <3>1, <3>2
  <2>3. Upto(A, n, Kinds) = F
    <3>1. \A k \in 1..n : k \in 1..i \/ k = i + 1 \/ k \in (i + 2)..n  BY <1>1, <1>2
    <3>2. \A k \in 1..i : k \in 1..n  BY <1>1, <1>2
    <3> QED  BY <2>1, <2>2, <3>1, <3>2 DEF Upto, F, Kinds, R
  <2>4. Upto(A, n, PathRoles) = P \cup ((i + 2)..n)
    <3>1. \A k \in 1..n : k \in 1..i \/ k = i + 1 \/ k \in (i + 2)..n  BY <1>1, <1>2
    <3>2. \A k : k \in 1..i \/ k \in (i + 2)..n => k \in 1..n  BY <1>1, <1>2
    <3>3. \A k \in 1..n : R[k] \in PathRoles <=>
            (k \in 1..i /\ R[k] \in PathRoles) \/ k \in (i + 2)..n
      BY <2>1, <2>2, <3>1 DEF PathRoles
    <3> QED  BY <3>2, <3>3 DEF Upto, P, R
  <2>5. InOrder(A, ps \o t, P \cup (((i + 1) + 1)..((i + 1) + Len(t))))
    <3>1. \A k \in 1..Len(t) : t[k] = A[(i + 1) + k]  BY <1>2 DEF Remains
    <3>2. i <= i + 1 /\ i + 1 \in Nat  BY <1>1
    <3> QED  BY <1>1, <1>2, <1>3, <3>1, <3>2, InOrderConcat
  <2>6. (i + 1) + 1 = i + 2 /\ (i + 1) + Len(t) = n
    <3>1. Len(t) \in Nat /\ Len(t) + (i + 1) = n  BY <1>2, LenProperties DEF Remains, n
    <3> QED  BY <1>1, <3>1
  <2>7. R[n] # "takes"
    <3>1. n = i + 1 \/ n \in (i + 2)..n  BY <1>1, <1>2
    <3> QED  BY <2>1, <2>2, <3>1
  <2>8. Remains(<<>>, A, n)
    <3> DEFINE e == <<>>
    <3>1. Len(e) = 0  OBVIOUS
    <3> HIDE DEF e
    <3>2. Remains(e, A, n)  BY <1>1, <3>1 DEF Remains, n
    <3> QED  BY <3>2 DEF e
  <2>9. InOrder(A, ps \o t, Upto(A, n, PathRoles))  BY <2>4, <2>5, <2>6
  <2>10. InOrder(A, fl, Upto(A, n, Kinds))  BY <1>1, <2>3
  <2> QED  BY <1>1, <2>7, <2>8, <2>9, <2>10 DEF ArgsAt, R
<1>7. ASSUME a \in Dashed \ {"--"}, takes
      PROVE  ArgsAt(A, Tail(t), fl \o <<a, Head(t)>>, ps, i + 2)
  <2>1. R[i + 1] = "takes"  BY <1>5, <1>7
  <2>2. t # <<>> /\ i + 1 \in Nat /\ (i + 1) + 1 = i + 2  BY <1>1, <1>7 DEF takes
  <2>3. /\ Head(t) = A[(i + 1) + 1] /\ (i + 1) + 1 \in 1..Len(A)
        /\ Remains(Tail(t), A, (i + 1) + 1)
    BY <1>2, <2>2, RemainsTail
  <2>4. Head(t) = A[i + 2] /\ i + 2 \in 1..n /\ Remains(Tail(t), A, i + 2)
    BY <2>2, <2>3 DEF n
  <2>5. R[i + 2] = "value"
    <3>1. (i + 2) - 1 = i + 1  BY <1>1
    <3> QED  BY <2>1, <2>4, <3>1, RoleOf DEF R, n
  <2>6. Upto(A, i + 2, Kinds) = F \cup {i + 1, i + 2}
    <3>1. Upto(A, i + 1, Kinds) = F \cup {i + 1}  BY <1>1, <2>1, UptoNext DEF F, R, Kinds
    <3>2. Upto(A, (i + 1) + 1, Kinds) = Upto(A, i + 1, Kinds) \cup {(i + 1) + 1}
      <4> DEFINE b == i + 1
      <4>1. b \in Nat /\ b + 1 = i + 2  BY <2>2
      <4> HIDE DEF b
      <4>2. Roles(A)[b + 1] \in Kinds  BY <2>5, <4>1 DEF R, Kinds
      <4>3. Upto(A, b + 1, Kinds) = Upto(A, b, Kinds) \cup {b + 1}  BY <4>1, <4>2, UptoNext
      <4> QED  BY <4>3 DEF b
    <3> QED  BY <2>2, <3>1, <3>2
  <2>7. Upto(A, i + 2, PathRoles) = P
    <3>1. Upto(A, i + 1, PathRoles) = P  BY <1>1, <2>1, UptoNext DEF P, R, PathRoles
    <3>2. Upto(A, (i + 1) + 1, PathRoles) = Upto(A, i + 1, PathRoles)
      BY <2>2, <2>5, UptoNext DEF R, PathRoles
    <3> QED  BY <2>2, <3>1, <3>2
  <2>8. InOrder(A, fl \o <<a, Head(t)>>, F \cup {i + 1, i + 2})
    <3> DEFINE two == <<a, Head(t)>>
    <3>1. a \in STRING /\ Head(t) \in STRING  BY <1>2, <2>4, ElementOfSeq DEF n
    <3>2. two \in Seq(STRING) /\ Len(two) = 2 /\ two[1] = a /\ two[2] = Head(t)
      BY <3>1, ShortSequences
    <3>3. \A k \in 1..Len(two) : two[k] = A[i + k]
      <4>1. \A k \in 1..2 : k = 1 \/ k = 2  OBVIOUS
      <4> HIDE DEF two
      <4> QED  BY <1>2, <2>4, <3>2, <4>1
    <3>4. (i + 1)..(i + 2) = {i + 1, i + 2}  BY <1>1
    <3>5. i <= i  BY <1>1
    <3> HIDE DEF two
    <3>6. InOrder(A, fl \o two, F \cup ((i + 1)..(i + Len(two))))
      BY <1>1, <1>3, <3>2, <3>3, <3>5, InOrderConcat
    <3> QED  BY <3>2, <3>4, <3>6 DEF two
  <2>9. i + 2 \in Nat /\ R[i + 2] # "takes" /\ R[i + 2] \notin {"end", "rest"}
    BY <1>1, <2>5
  <2>10. InOrder(A, fl \o <<a, Head(t)>>, Upto(A, i + 2, Kinds))  BY <2>6, <2>8
  <2>11. InOrder(A, ps, Upto(A, i + 2, PathRoles))  BY <1>1, <2>7
  <2> QED  BY <2>4, <2>9, <2>10, <2>11 DEF ArgsAt, R
<1>8. /\ InOrder(A, fl \o <<a>>, F \cup {i + 1})
      /\ InOrder(A, Append(ps, a), P \cup {i + 1})
  <2> DEFINE one == <<a>>
  <2>1. a \in STRING  BY <1>2, ElementOfSeq DEF n
  <2>2. one \in Seq(STRING) /\ Len(one) = 1 /\ one[1] = a  BY <2>1, ShortSequences
  <2>3. Append(ps, a) = ps \o one  BY <2>1, AppendIsConcat
  <2>4. i <= i /\ (i + 1)..(i + 1) = {i + 1}  BY <1>1
  <2> HIDE DEF one
  <2>5. \A k \in 1..Len(one) : one[k] = A[i + k]
    <3>1. \A k \in 1..1 : k = 1  OBVIOUS
    <3> QED  BY <1>2, <2>2, <3>1
  <2>6. InOrder(A, fl \o one, F \cup ((i + 1)..(i + Len(one))))
    BY <1>1, <1>3, <2>2, <2>4, <2>5, InOrderConcat
  <2>7. InOrder(A, ps \o one, P \cup ((i + 1)..(i + Len(one))))
    BY <1>1, <1>3, <2>2, <2>4, <2>5, InOrderConcat
  <2> QED  BY <2>2, <2>3, <2>4, <2>6, <2>7 DEF one
<1>9. ASSUME a \in Dashed \ {"--"}, ~takes PROVE ArgsAt(A, t, fl \o <<a>>, ps, i + 1)
  <2>1. R[i + 1] = "flag"  BY <1>5, <1>9
  <2>2. Upto(A, i + 1, Kinds) = F \cup {i + 1} /\ Upto(A, i + 1, PathRoles) = P
    BY <1>1, <2>1, UptoNext, ZenonT(40) DEF F, P, R, Kinds, PathRoles
  <2>3. i + 1 \in Nat  BY <1>1
  <2> QED  BY <1>1, <1>2, <1>8, <2>1, <2>2, <2>3 DEF ArgsAt, R
<1>10. ASSUME a \notin Dashed PROVE ArgsAt(A, t, fl, Append(ps, a), i + 1)
  <2>1. R[i + 1] = "path"  BY <1>5, <1>10
  <2>2. Upto(A, i + 1, Kinds) = F /\ Upto(A, i + 1, PathRoles) = P \cup {i + 1}
    BY <1>1, <2>1, UptoNext, ZenonT(40) DEF F, P, R, Kinds, PathRoles
  <2>3. i + 1 \in Nat  BY <1>1
  <2> QED  BY <1>1, <1>2, <1>8, <2>1, <2>2, <2>3 DEF ArgsAt, R
<1> QED  BY <1>6, <1>7, <1>9, <1>10 DEF a, t, n, takes

-----------------------------------------------------------------------------
(* flag.Parse: after j entries of its list, rest is what remains, and the  *)
(* options are those of the entries read.                                  *)

AtIn(A, roles) == Upto(A, Len(A), roles)

ValuedIn(A)   == AtIn(A, {"value"}) \cup {k \in AtIn(A, {"flag"}) : A[k] = Joined.disable}
ValueIn(A, k) == IF Roles(A)[k] = "value" THEN A[k] ELSE Joined.value

\* What the last of the first j entries that sets --disable sets it to.
Says(A, pos, dis, j) ==
  \/ dis = "" /\ \A m \in 1..j : pos[m] \notin ValuedIn(A)
  \/ \E m \in 1..j : /\ pos[m] \in ValuedIn(A) /\ dis = ValueIn(A, pos[m])
                     /\ \A l \in 1..j : pos[l] \in ValuedIn(A) => l <= m

FlagsAt(A, pos, fl, rest, js, dis, j) ==
  /\ j \in Nat
  /\ Remains(rest, fl, j)
  /\ j # 0 => Roles(A)[pos[j]] # "takes"
  /\ js <=> \E m \in 1..j : pos[m] \in AtIn(A, {"flag"}) /\ fl[m] \in BoolFlags
  /\ \A m \in 1..j : pos[m] \in AtIn(A, {"flag"}) => fl[m] \in BoolFlags \cup {Joined.disable}
  /\ Says(A, pos, dis, j)

\* An entry that sets nothing leaves what was said, and one that sets it says
\* what it is now.
LEMMA SaysNext ==
  ASSUME NEW A, NEW pos, NEW dis, NEW j \in Nat, Says(A, pos, dis, j)
  PROVE  /\ pos[j + 1] \notin ValuedIn(A) => Says(A, pos, dis, j + 1)
         /\ pos[j + 1] \in ValuedIn(A) => Says(A, pos, ValueIn(A, pos[j + 1]), j + 1)
<1>1. \A m : m \in 1..(j + 1) <=> (m \in 1..j \/ m = j + 1)  OBVIOUS
<1>2. \A m \in 1..(j + 1) : m <= j + 1  OBVIOUS
<1>3. j + 1 \in 1..(j + 1)  OBVIOUS
<1> DEFINE V == ValuedIn(A)  none == dis = ""  I == 1..j  I1 == 1..(j + 1)  k == j + 1
           last(m) == pos[m] \in V /\ dis = ValueIn(A, pos[m])
<1>4. (none /\ \A m \in I : pos[m] \notin V)
      \/ \E m \in I : last(m) /\ \A l \in I : pos[l] \in V => l <= m
  BY DEF Says
<1> HIDE DEF none, I, I1, V, last
<1>5. ASSUME pos[j + 1] \notin ValuedIn(A) PROVE Says(A, pos, dis, j + 1)
  <2>1. \/ none /\ \A m \in I1 : pos[m] \notin V
        \/ \E m \in I1 : last(m) /\ \A l \in I1 : pos[l] \in V => l <= m
    <3>1. pos[k] \notin V  BY <1>5 DEF V
    <3>2. \A m : m \in I1 <=> m \in I \/ m = k  BY <1>1 DEF I, I1
    <3> HIDE DEF k
    <3> QED  BY <1>4, <3>1, <3>2
  <2> QED  BY <2>1 DEF Says, none, I1, V, last
<1>6. ASSUME pos[j + 1] \in ValuedIn(A) PROVE Says(A, pos, ValueIn(A, pos[j + 1]), j + 1)
  <2> DEFINE v == ValueIn(A, pos[k])
  <2>1. k \in I1 /\ \A l \in I1 : l <= k  BY <1>2, <1>3 DEF I1
  <2> HIDE DEF k
  <2>2. \E m \in I1 : /\ pos[m] \in ValuedIn(A) /\ v = ValueIn(A, pos[m])
                      /\ \A l \in I1 : pos[l] \in ValuedIn(A) => l <= m
    BY <1>6, <2>1 DEF k
  <2> QED  BY <2>2 DEF Says, I1, k
<1> QED  BY <1>5, <1>6

\* The next entry is a flag, and if it takes a value the one after is that value.
LEMMA NextFlag ==
  ASSUME NEW A \in Seq(STRING), NEW fl \in Seq(STRING), NEW pos,
         Points(A, pos, fl, AtIn(A, Kinds)), NEW j \in Nat, j + 1 \in 1..Len(fl),
         j # 0 => Roles(A)[pos[j]] # "takes"
  PROVE  LET p == pos[j + 1] IN
         /\ p \in 1..Len(A) /\ fl[j + 1] = A[p] /\ Roles(A)[p] \in {"flag", "takes"}
         /\ Roles(A)[p] = "takes" =>
              /\ j + 2 \in 1..Len(fl) /\ pos[j + 2] = p + 1 /\ fl[j + 2] = A[p + 1]
              /\ p + 1 \in 1..Len(A) /\ Roles(A)[p + 1] = "value"
         /\ Roles(A)[p] = "flag" /\ fl[j + 1] \in ValueFlags => j + 1 = Len(fl)
<1> DEFINE p == pos[j + 1]  n == Len(A)  L == Len(fl)  R == Roles(A)  S == AtIn(A, Kinds)
<1>1. n \in Nat /\ L \in Nat  BY LenProperties
<1>2. /\ \A m \in 1..L : pos[m] \in S /\ fl[m] = A[pos[m]]
      /\ \A l, m \in 1..L : l < m => pos[l] < pos[m]
      /\ \A k \in S : \E m \in 1..L : pos[m] = k
  BY DEF Points
<1>3. \A k : k \in S <=> k \in 1..n /\ R[k] \in Kinds  BY DEF AtIn, Upto
<1> HIDE DEF n, L, R, S
<1>4. j + 1 \in 1..L  BY DEF L
<1>5. p \in 1..n /\ R[p] \in Kinds /\ fl[j + 1] = A[p]  BY <1>2, <1>3, <1>4
<1> HIDE DEF p
<1>6. R[p] # "value"
  <2> SUFFICES ASSUME R[p] = "value" PROVE FALSE  OBVIOUS
  <2>1. R[p - 1] = "takes"  BY <1>5, RoleOf DEF R, n
  <2>2. R[0] = "path"  BY RolesSolve DEF R
  <2>3. p - 1 \in 1..n
    <3>1. p - 1 # 0  BY <2>1, <2>2
    <3> QED  BY <1>5, <1>1, <3>1
  <2>4. PICK m \in 1..L : pos[m] = p - 1  BY <1>2, <1>3, <2>1, <2>3 DEF Kinds
  <2>5. m = j
    <3>1. CASE m > j
      <4>1. m = j + 1 \/ j + 1 < m  BY <1>4, <3>1
      <4>2. j + 1 < m => p < pos[m]  BY <1>2, <1>4 DEF p
      <4>3. m = j + 1 => p = pos[m]  BY DEF p
      <4>4. p - 1 < p /\ p \in Int  BY <1>5
      <4> DEFINE y == pos[m]
      <4>5. y = p - 1 /\ (y = p \/ p < y)  BY <2>4, <4>1, <4>2, <4>3
      <4> HIDE DEF y
      <4> QED  BY <4>4, <4>5
    <3>2. CASE m < j
      <4>1. j \in 1..L /\ j < j + 1  BY <1>1, <1>4, <3>2
      <4>2. pos[m] < pos[j] /\ pos[j] < p  BY <1>2, <1>4, <3>2, <4>1 DEF p
      <4>3. pos[j] \in Int  BY <1>2, <1>3, <4>1
      <4> DEFINE x == pos[j]
      <4>4. p - 1 < x /\ x < p /\ x \in Int /\ p \in Int  BY <1>5, <2>4, <4>2, <4>3
      <4> HIDE DEF x
      <4> QED  BY <4>4
    <3> QED  BY <3>1, <3>2
  <2>6. j # 0  BY <2>5
  <2> QED  BY <2>1, <2>4, <2>5, <2>6 DEF R
<1>7. R[p] \in {"flag", "takes"}  BY <1>5, <1>6 DEF Kinds
<1>8. ASSUME R[p] = "takes"
      PROVE  /\ j + 2 \in 1..L /\ pos[j + 2] = p + 1 /\ fl[j + 2] = A[p + 1]
             /\ p + 1 \in 1..n /\ R[p + 1] = "value"
  <2>1. p < n  BY <1>5, <1>8, RoleOf DEF R, n
  <2>2. p + 1 \in 1..n /\ (p + 1) - 1 = p  BY <1>1, <1>5, <2>1
  <2>3. R[p + 1] = "value"
    <3> DEFINE q == p + 1
    <3>1. q \in 1..Len(A) /\ q - 1 = p  BY <2>2 DEF n
    <3> HIDE DEF q
    <3>2. Roles(A)[q] = "value"  BY <1>8, <3>1, RoleOf DEF R
    <3> QED  BY <3>2 DEF q, R
  <2>4. PICK m \in 1..L : pos[m] = p + 1  BY <1>2, <1>3, <2>2, <2>3 DEF Kinds
  <2>5. m = j + 2
    <3>1. CASE m <= j + 1
      <4>1. m < j + 1 \/ m = j + 1  BY <3>1
      <4>2. m < j + 1 => pos[m] < p  BY <1>2, <1>4 DEF p
      <4>3. m = j + 1 => pos[m] = p  BY DEF p
      <4> DEFINE y == pos[m]
      <4>4. y = p + 1 /\ (y = p \/ y < p) /\ p \in Int  BY <1>5, <2>4, <4>1, <4>2, <4>3
      <4> HIDE DEF y
      <4> QED  BY <4>4
    <3>2. CASE m > j + 2
      <4>1. j + 2 \in 1..L /\ j + 1 < j + 2 /\ j + 2 < m  BY <1>1, <1>4, <3>2
      <4> DEFINE k == j + 2  x == pos[k]
      <4> HIDE DEF k
      <4>2. p < x /\ x < pos[m]  BY <1>2, <1>4, <4>1 DEF p, k
      <4>3. x \in Int  BY <1>2, <1>3, <4>1 DEF k
      <4>4. p < x /\ x < p + 1 /\ x \in Int /\ p \in Int  BY <1>5, <2>4, <4>2, <4>3
      <4> HIDE DEF x
      <4> QED  BY <4>4
    <3>3. m <= j + 1 \/ m = j + 2 \/ m > j + 2  BY <1>1
    <3> QED  BY <3>1, <3>2, <3>3
  <2>6. fl[m] = A[p + 1]  BY <1>2, <2>4
  <2> QED  BY <2>2, <2>3, <2>4, <2>5, <2>6
<1>9. ASSUME R[p] = "flag", fl[j + 1] \in ValueFlags PROVE j + 1 = L
  <2>1. p = n  BY <1>5, <1>9, RoleOf DEF R, n
  <2> SUFFICES ASSUME j + 1 # L PROVE FALSE  OBVIOUS
  <2>2. L \in 1..L /\ j + 1 < L  BY <1>1, <1>4
  <2>3. p < pos[L] /\ pos[L] \in 1..n  BY <1>2, <1>3, <1>4, <2>2 DEF p
  <2> QED  BY <1>1, <2>1, <2>3
<1> QED  BY <1>5, <1>7, <1>8, <1>9 DEF p, n, L, R

\* A flag and its value are two entries that set --disable.
LEMMA FlagsValue ==
  ASSUME NEW A \in Seq(STRING), NEW fl \in Seq(STRING), NEW rest \in Seq(STRING),
         NEW pos, Points(A, pos, fl, AtIn(A, Kinds)), NEW js, NEW dis, NEW j,
         FlagsAt(A, pos, fl, rest, js, dis, j), rest # <<>>, ~Wrong(rest), ~Stops(rest),
         Head(rest) \in ValueFlags
  PROVE  FlagsAt(A, pos, fl, Tail(Tail(rest)), js, rest[2], j + 2)
<1> DEFINE a == Head(rest)  t == Tail(rest)  L == Len(fl)  R == Roles(A)  p == pos[j + 1]
<1>1. /\ j \in Nat /\ Remains(rest, fl, j) /\ L \in Nat
      /\ j # 0 => R[pos[j]] # "takes"
  BY LenProperties DEF FlagsAt
<1>2. /\ a = fl[j + 1] /\ j + 1 \in 1..L /\ t \in Seq(STRING) /\ Remains(t, fl, j + 1)
      /\ t = <<>> <=> j + 1 = L
  BY <1>1, RemainsTail
<1>3. t # <<>>
  <2>1. Len(rest) # 1  BY DEF Wrong
  <2>2. Len(rest) + j = L  BY <1>1 DEF Remains
  <2>3. j + 1 # L
    <3> DEFINE y == Len(rest)
    <3>1. y \in Nat /\ y # 1 /\ y + j = L  BY <2>1, <2>2, LenProperties
    <3> HIDE DEF y, L
    <3> QED  BY <1>1, <3>1
  <2> QED  BY <1>2, <2>3
<1>4. /\ p \in 1..Len(A) /\ R[p] \in {"flag", "takes"} /\ fl[j + 1] = A[p]
      /\ R[p] = "takes" =>
           /\ j + 2 \in 1..L /\ pos[j + 2] = p + 1 /\ fl[j + 2] = A[p + 1]
           /\ p + 1 \in 1..Len(A) /\ R[p + 1] = "value"
      /\ R[p] = "flag" /\ fl[j + 1] \in ValueFlags => j + 1 = L
  BY <1>1, <1>2, NextFlag
<1>5. R[p] = "takes"  BY <1>2, <1>3, <1>4
<1>6. /\ j + 2 \in 1..L /\ pos[j + 2] = p + 1 /\ fl[j + 2] = A[p + 1]
      /\ p + 1 \in 1..Len(A) /\ R[p + 1] = "value"
  BY <1>4, <1>5
<1> HIDE DEF a, t, L, R, p
<1>7. Remains(Tail(t), fl, j + 2) /\ rest[2] = fl[j + 2]
  <2>1. j + 1 \in Nat /\ (j + 1) + 1 = j + 2  BY <1>1
  <2>2. Remains(Tail(t), fl, (j + 1) + 1)  BY <1>2, <1>3, <2>1, RemainsTail
  <2>3. 2 \in 1..Len(rest)
    <3>1. Len(rest) + j = L /\ Len(rest) \in Nat  BY <1>1, LenProperties DEF Remains, L
    <3>2. j + 2 <= L  BY <1>6
    <3> DEFINE y == Len(rest)
    <3> HIDE DEF y
    <3>3. y + j = L /\ y \in Nat  BY <3>1 DEF y
    <3>4. 2 <= y  BY <1>1, <3>2, <3>3
    <3>5. 2 \in 1..y  BY <3>3, <3>4
    <3> QED  BY <3>5 DEF y
  <2>4. rest[2] = fl[j + 2]  BY <1>1, <2>3 DEF Remains
  <2> QED  BY <2>1, <2>2, <2>4
<1>8. /\ pos[j + 1] \notin AtIn(A, {"flag"}) /\ pos[j + 1] \notin ValuedIn(A)
      /\ pos[j + 2] \notin AtIn(A, {"flag"}) /\ pos[j + 2] \in ValuedIn(A)
      /\ ValueIn(A, pos[j + 2]) = rest[2]
  <2>1. pos[j + 1] = p  BY DEF p
  <2>2. p \notin AtIn(A, {"flag"}) /\ p \notin AtIn(A, {"value"})  BY <1>5 DEF AtIn, Upto, R
  <2>3. p + 1 \in AtIn(A, {"value"}) /\ p + 1 \notin AtIn(A, {"flag"})
    BY <1>6 DEF AtIn, Upto, R
  <2>4. ValueIn(A, pos[j + 2]) = rest[2]  BY <1>6, <1>7 DEF ValueIn, R
  <2> QED  BY <1>6, <2>1, <2>2, <2>3, <2>4 DEF ValuedIn
<1>9. Says(A, pos, rest[2], j + 2)
  <2>1. Says(A, pos, dis, j)  BY DEF FlagsAt
  <2>2. Says(A, pos, dis, j + 1)  BY <1>1, <1>8, <2>1, SaysNext
  <2> DEFINE k == j + 1
  <2>3. k \in Nat /\ k + 1 = j + 2  BY <1>1
  <2>4. Says(A, pos, dis, k)  BY <2>2
  <2> HIDE DEF k
  <2>5. pos[k + 1] \in ValuedIn(A)  BY <1>8, <2>3
  <2>6. Says(A, pos, ValueIn(A, pos[k + 1]), k + 1)  BY <2>3, <2>4, <2>5, SaysNext
  <2> QED  BY <1>8, <2>3, <2>6
<1>10. \A m \in 1..(j + 2) : m \in 1..j \/ m = j + 1 \/ m = j + 2  BY <1>1
<1>11. \A m \in 1..j : m \in 1..(j + 2)  BY <1>1
<1>12. js <=> \E m \in 1..(j + 2) : pos[m] \in AtIn(A, {"flag"}) /\ fl[m] \in BoolFlags
  <2>1. js <=> \E m \in 1..j : pos[m] \in AtIn(A, {"flag"}) /\ fl[m] \in BoolFlags
    BY DEF FlagsAt
  <2> QED  BY <1>8, <1>10, <1>11, <2>1
<1>13. \A m \in 1..(j + 2) : pos[m] \in AtIn(A, {"flag"}) =>
                               fl[m] \in BoolFlags \cup {Joined.disable}
  BY <1>8, <1>10 DEF FlagsAt
<1>14. j + 2 \in Nat /\ Roles(A)[pos[j + 2]] # "takes"  BY <1>1, <1>6 DEF R
<1> QED  BY <1>7, <1>9, <1>12, <1>13, <1>14 DEF FlagsAt, t

\* Any other flag is one entry.
LEMMA FlagsSingle ==
  ASSUME NEW A \in Seq(STRING), NEW fl \in Seq(STRING), NEW rest \in Seq(STRING),
         NEW pos, Points(A, pos, fl, AtIn(A, Kinds)), NEW js, NEW dis, NEW j,
         FlagsAt(A, pos, fl, rest, js, dis, j), rest # <<>>, ~Wrong(rest), ~Stops(rest),
         Head(rest) \notin ValueFlags
  PROVE  FlagsAt(A, pos, fl, Tail(rest), js \/ Head(rest) \in BoolFlags,
                 IF Head(rest) = Joined.disable THEN Joined.value ELSE dis, j + 1)
<1> DEFINE a == Head(rest)  t == Tail(rest)  L == Len(fl)  R == Roles(A)  p == pos[j + 1]
           said == IF a = Joined.disable THEN Joined.value ELSE dis
<1>1. /\ j \in Nat /\ Remains(rest, fl, j) /\ L \in Nat
      /\ j # 0 => R[pos[j]] # "takes"
  BY LenProperties DEF FlagsAt
<1>2. a = fl[j + 1] /\ j + 1 \in 1..L /\ Remains(t, fl, j + 1)
  BY <1>1, RemainsTail
<1>3. p \in 1..Len(A) /\ R[p] \in {"flag", "takes"} /\ fl[j + 1] = A[p]
  BY <1>1, <1>2, NextFlag
<1>4. R[p] = "flag"
  <2>1. R[p] = "takes" => A[p] \in ValueFlags  BY <1>3, RoleOf
  <2> QED  BY <1>2, <1>3, <2>1
<1>5. a \in BoolFlags \cup {Joined.disable}  BY DEF Stops, Wrong, Dashed
<1> HIDE DEF a, t, L, R, p, said
<1>6. /\ pos[j + 1] = p /\ p \in AtIn(A, {"flag"})
      /\ p \in ValuedIn(A) <=> a = Joined.disable
      /\ ValueIn(A, p) = Joined.value
  <2>1. pos[j + 1] = p  BY DEF p
  <2>2. p \in AtIn(A, {"flag"}) /\ p \notin AtIn(A, {"value"})
    BY <1>3, <1>4 DEF AtIn, Upto, R
  <2>3. ValueIn(A, p) = Joined.value  BY <1>4 DEF ValueIn, R
  <2> QED  BY <1>2, <1>3, <2>1, <2>2, <2>3 DEF ValuedIn
<1>7. Says(A, pos, said, j + 1)
  <2>1. Says(A, pos, dis, j)  BY DEF FlagsAt
  <2>2. pos[j + 1] \notin ValuedIn(A) => Says(A, pos, dis, j + 1)  BY <1>1, <2>1, SaysNext
  <2>3. pos[j + 1] \in ValuedIn(A) => Says(A, pos, ValueIn(A, pos[j + 1]), j + 1)
    BY <1>1, <2>1, SaysNext
  <2>4. CASE a = Joined.disable
    <3>1. said = Joined.value  BY <2>4 DEF said
    <3> QED  BY <1>6, <2>3, <2>4, <3>1
  <2>5. CASE a # Joined.disable
    <3>1. said = dis  BY <2>5 DEF said
    <3> QED  BY <1>6, <2>2, <2>5, <3>1
  <2> QED  BY <2>4, <2>5
<1>8. \A m : m \in 1..(j + 1) <=> m \in 1..j \/ m = j + 1  BY <1>1
<1>9. (js \/ a \in BoolFlags) <=>
         \E m \in 1..(j + 1) : pos[m] \in AtIn(A, {"flag"}) /\ fl[m] \in BoolFlags
  <2>1. js <=> \E m \in 1..j : pos[m] \in AtIn(A, {"flag"}) /\ fl[m] \in BoolFlags
    BY DEF FlagsAt
  <2> QED  BY <1>2, <1>6, <1>8, <2>1
<1>10. \A m \in 1..(j + 1) : pos[m] \in AtIn(A, {"flag"}) =>
                               fl[m] \in BoolFlags \cup {Joined.disable}
  <2>1. \A m \in 1..j : pos[m] \in AtIn(A, {"flag"}) =>
                          fl[m] \in BoolFlags \cup {Joined.disable}
    BY DEF FlagsAt
  <2> QED  BY <1>2, <1>5, <1>8, <2>1
<1>11. j + 1 \in Nat /\ Roles(A)[pos[j + 1]] # "takes"  BY <1>1, <1>4, <1>6 DEF R
<1>12. FlagsAt(A, pos, fl, t, js \/ a \in BoolFlags, said, j + 1)
  BY <1>2, <1>7, <1>9, <1>10, <1>11 DEF FlagsAt
<1> QED  BY <1>12 DEF a, t, said

\* What a command line means, of the options alone.
OptionsOf(A, js, dis) ==
  /\ \A k \in AtIn(A, {"flag"}) : A[k] \in BoolFlags \cup {Joined.disable}
  /\ js <=> \E k \in AtIn(A, {"flag"}) : A[k] \in BoolFlags
  /\ \/ dis = "" /\ ValuedIn(A) = {}
     \/ \E k \in ValuedIn(A) : dis = ValueIn(A, k) /\ \A l \in ValuedIn(A) : l <= k

\* Without a lone dash the flag package stops only at the end of its list, with
\* the options that are meant.
LEMMA FlagsDone ==
  ASSUME NEW A \in Seq(STRING), NEW fl \in Seq(STRING), NEW rest \in Seq(STRING),
         NEW pos, Points(A, pos, fl, AtIn(A, Kinds)), NEW js, NEW dis, NEW j,
         FlagsAt(A, pos, fl, rest, js, dis, j), Stops(rest), "-" \notin ToSet(A)
  PROVE  OptionsOf(A, js, dis)
<1> DEFINE L == Len(fl)
<1>1. /\ j \in Nat /\ Remains(rest, fl, j) /\ L \in Nat /\ Len(rest) \in Nat
      /\ j # 0 => Roles(A)[pos[j]] # "takes"
  BY LenProperties DEF FlagsAt
<1>2. rest = <<>>
  <2> SUFFICES ASSUME rest # <<>> PROVE FALSE  OBVIOUS
  <2>1. Head(rest) = fl[j + 1] /\ j + 1 \in 1..L  BY <1>1, RemainsTail
  <2> DEFINE p == pos[j + 1]
  <2>2. p \in 1..Len(A) /\ Roles(A)[p] \in {"flag", "takes"} /\ fl[j + 1] = A[p]
    BY <1>1, <2>1, NextFlag
  <2> HIDE DEF p
  <2>3. Head(rest) \in Dashed /\ Head(rest) # "--"
    <3>1. Roles(A)[p] = "takes" => A[p] \in ValueFlags  BY <2>2, RoleOf
    <3>2. Roles(A)[p] = "flag" => A[p] \in Dashed \ {"--"}  BY <2>2, RoleOf
    <3>3. ValueFlags \subseteq Dashed \ {"--"}  BY DEF ValueFlags, Dashed
    <3> QED  BY <2>1, <2>2, <3>1, <3>2, <3>3
  <2>4. Head(rest) # "-"
    <3>1. A[p] \in ToSet(A)
      <4>1. DOMAIN A = 1..Len(A)  BY LenProperties
      <4> QED  BY <2>2, <4>1 DEF ToSet
    <3> QED  BY <2>1, <2>2, <3>1
  <2> QED  BY <2>3, <2>4 DEF Stops
<1>3. j = L
  <2>1. Len(rest) = 0  BY <1>2, EmptySeq
  <2>2. Len(rest) + j = L  BY <1>1 DEF Remains
  <2> QED  BY <1>1, <2>1, <2>2
<1>4. /\ \A m \in 1..L : pos[m] \in AtIn(A, Kinds) /\ fl[m] = A[pos[m]]
      /\ \A l, m \in 1..L : l < m => pos[l] < pos[m]
      /\ \A k \in AtIn(A, Kinds) : \E m \in 1..L : pos[m] = k
  BY DEF Points
<1>5. /\ AtIn(A, {"flag"}) \subseteq AtIn(A, Kinds) /\ ValuedIn(A) \subseteq AtIn(A, Kinds)
      /\ AtIn(A, Kinds) \subseteq Int
  BY DEF AtIn, Upto, Kinds, ValuedIn
<1> HIDE DEF L
<1>6. /\ js <=> \E m \in 1..L : pos[m] \in AtIn(A, {"flag"}) /\ fl[m] \in BoolFlags
      /\ \A m \in 1..L : pos[m] \in AtIn(A, {"flag"}) => fl[m] \in BoolFlags \cup {Joined.disable}
      /\ Says(A, pos, dis, L)
  BY <1>3 DEF FlagsAt
<1>7. \A k \in AtIn(A, {"flag"}) : A[k] \in BoolFlags \cup {Joined.disable}
  BY <1>4, <1>5, <1>6, SMTT(30)
<1>8. js <=> \E k \in AtIn(A, {"flag"}) : A[k] \in BoolFlags  BY <1>4, <1>5, <1>6
<1> DEFINE I == 1..L  none == dis = ""
<1>9. \A m \in I, l \in I : l <= m => pos[l] <= pos[m]
  <2> TAKE m \in I, l \in I
  <2> HAVE l <= m
  <2>1. l = m \/ l < m  BY <1>1
  <2>2. pos[l] \in Int /\ pos[m] \in Int  BY <1>4, <1>5
  <2> QED  BY <1>4, <2>1, <2>2
<1>10. (none /\ \A m \in I : pos[m] \notin ValuedIn(A))
       \/ \E m \in I : /\ pos[m] \in ValuedIn(A) /\ dis = ValueIn(A, pos[m])
                       /\ \A l \in I : pos[l] \in ValuedIn(A) => l <= m
  BY <1>6 DEF Says
<1>11. \A k \in ValuedIn(A) : \E m \in I : pos[m] = k  BY <1>4, <1>5
<1> HIDE DEF I, none
<1>12. (none /\ ValuedIn(A) = {})
       \/ \E k \in ValuedIn(A) : dis = ValueIn(A, k) /\ \A l \in ValuedIn(A) : l <= k
  <2>1. CASE none /\ \A m \in I : pos[m] \notin ValuedIn(A)  BY <1>11, <2>1
  <2>2. CASE \E m \in I : /\ pos[m] \in ValuedIn(A) /\ dis = ValueIn(A, pos[m])
                          /\ \A l \in I : pos[l] \in ValuedIn(A) => l <= m
    <3>1. PICK m \in I : /\ pos[m] \in ValuedIn(A) /\ dis = ValueIn(A, pos[m])
                         /\ \A l \in I : pos[l] \in ValuedIn(A) => l <= m
      BY <2>2
    <3>2. \A k \in ValuedIn(A) : k <= pos[m]  BY <1>9, <1>11, <3>1
    <3> QED  BY <3>1, <3>2
  <2> QED  BY <1>10, <2>1, <2>2
<1> QED  BY <1>7, <1>8, <1>12 DEF OptionsOf, none

-----------------------------------------------------------------------------
(* The configuration: after i lines, rest is what remains, off the rules a *)
(* line switched off, and sev what the last line for each rule asks for.   *)

Pair(line, values) == line.kind = "pair" /\ line.value \in values

OffIn(C, n)        == {C[k].key : k \in {m \in 1..n : Pair(C[m], Off)}}
Asking(C, rule, n) == {k \in 1..n : Pair(C[k], Severities) /\ C[k].key = rule}

LastSays(C, sev, n) ==
  /\ DOMAIN sev \subseteq Rules
  /\ \A r \in Rules :
       /\ r \in DOMAIN sev <=> Asking(C, r, n) # {}
       /\ \A k \in Asking(C, r, n) :
            (\A m \in Asking(C, r, n) : m <= k) => sev[r] = C[k].value

ConfigAt(C, rest, off, sev, i) ==
  /\ i \in Nat
  /\ Remains(rest, C, i)
  /\ off = OffIn(C, i)
  /\ LastSays(C, sev, i)

\* What one line more adds.
LEMMA LineAdds ==
  ASSUME NEW C, NEW n \in Nat, NEW rule
  PROVE  /\ Pair(C[n + 1], Off) => OffIn(C, n + 1) = OffIn(C, n) \cup {C[n + 1].key}
         /\ ~Pair(C[n + 1], Off) => OffIn(C, n + 1) = OffIn(C, n)
         /\ Pair(C[n + 1], Severities) /\ C[n + 1].key = rule =>
              Asking(C, rule, n + 1) = Asking(C, rule, n) \cup {n + 1}
         /\ ~(Pair(C[n + 1], Severities) /\ C[n + 1].key = rule) =>
              Asking(C, rule, n + 1) = Asking(C, rule, n)
<1> DEFINE k == n + 1  I == 1..n  J == 1..(n + 1)
<1>1. k \in J /\ \A m : m \in J <=> m \in I \/ m = k  OBVIOUS
<1>2. /\ OffIn(C, n + 1) = {C[m].key : m \in {l \in J : Pair(C[l], Off)}}
      /\ OffIn(C, n) = {C[m].key : m \in {l \in I : Pair(C[l], Off)}}
  BY DEF OffIn
<1>3. /\ Asking(C, rule, n + 1) = {m \in J : Pair(C[m], Severities) /\ C[m].key = rule}
      /\ Asking(C, rule, n) = {m \in I : Pair(C[m], Severities) /\ C[m].key = rule}
  BY DEF Asking
<1> HIDE DEF k, I, J
<1>4. /\ Pair(C[k], Off) => OffIn(C, n + 1) = OffIn(C, n) \cup {C[k].key}
      /\ ~Pair(C[k], Off) => OffIn(C, n + 1) = OffIn(C, n)
  BY <1>1, <1>2
<1>5. /\ Pair(C[k], Severities) /\ C[k].key = rule =>
           Asking(C, rule, n + 1) = Asking(C, rule, n) \cup {k}
      /\ ~(Pair(C[k], Severities) /\ C[k].key = rule) =>
           Asking(C, rule, n + 1) = Asking(C, rule, n)
  BY <1>1, <1>3
<1> QED  BY <1>4, <1>5 DEF k

\* One line more that sets no severity.
LEMMA LastSaysSame ==
  ASSUME NEW C, NEW sev, NEW n \in Nat, LastSays(C, sev, n), ~Pair(C[n + 1], Severities)
  PROVE  LastSays(C, sev, n + 1)
<1>1. \A r : Asking(C, r, n + 1) = Asking(C, r, n)  BY LineAdds
<1> QED  BY <1>1 DEF LastSays

\* One line more that sets one.
LEMMA LastSaysNew ==
  ASSUME NEW C, NEW sev, NEW n \in Nat, LastSays(C, sev, n), Pair(C[n + 1], Severities),
         C[n + 1].key \in Rules
  PROVE  LastSays(C, [r \in DOMAIN sev \cup {C[n + 1].key} |->
                        IF r = C[n + 1].key THEN C[n + 1].value ELSE sev[r]], n + 1)
<1> DEFINE key == C[n + 1].key  val == C[n + 1].value
           new == [r \in DOMAIN sev \cup {key} |-> IF r = key THEN val ELSE sev[r]]
<1>1. /\ DOMAIN new = DOMAIN sev \cup {key} /\ new[key] = val
      /\ \A r \in DOMAIN sev : r # key => new[r] = sev[r]
  OBVIOUS
<1>2. /\ Asking(C, key, n + 1) = Asking(C, key, n) \cup {n + 1}
      /\ \A r : r # key => Asking(C, r, n + 1) = Asking(C, r, n)
  BY LineAdds
<1>3. DOMAIN new \subseteq Rules  BY <1>1 DEF LastSays
<1> HIDE DEF new
<1>4. ASSUME NEW r \in Rules
      PROVE  /\ r \in DOMAIN new <=> Asking(C, r, n + 1) # {}
             /\ \A k \in Asking(C, r, n + 1) :
                  (\A m \in Asking(C, r, n + 1) : m <= k) => new[r] = C[k].value
  <2>1. CASE r = key
    <3>1. \A k \in Asking(C, r, n + 1) : n + 1 <= k => k = n + 1
      <4>1. Asking(C, r, n + 1) \subseteq 1..(n + 1)  BY DEF Asking
      <4> QED  BY <4>1
    <3>2. n + 1 \in Asking(C, r, n + 1)  BY <1>2, <2>1
    <3> QED  BY <1>1, <2>1, <3>1, <3>2
  <2>2. CASE r # key
    <3>1. Asking(C, r, n + 1) = Asking(C, r, n)  BY <1>2, <2>2
    <3>2. /\ r \in DOMAIN sev <=> Asking(C, r, n) # {}
          /\ \A k \in Asking(C, r, n) :
               (\A m \in Asking(C, r, n) : m <= k) => sev[r] = C[k].value
      BY DEF LastSays
    <3>3. r \in DOMAIN new <=> r \in DOMAIN sev  BY <1>1, <2>2
    <3>4. r \in DOMAIN sev => new[r] = sev[r]  BY <1>1, <2>2
    <3> QED  BY <3>1, <3>2, <3>3, <3>4
  <2> QED  BY <2>1, <2>2
<1> QED  BY <1>3, <1>4 DEF LastSays, new

\* The severity asked for is the one the configuration ends up with.
LEMMA AskedIsConfigured ==
  ASSUME NEW C \in Seq(Line), C = input.config, LastSays(C, severity, Len(C)),
         NEW r \in Rules, NEW default
  PROVE  Asked(r, default) = Configured(r, default)
<1> DEFINE L == Asking(C, r, Len(C))
           top == CHOOSE x \in L : \A y \in L : x >= y
<1>1. Len(C) \in Nat /\ DOMAIN C = 1..Len(C)  BY LenProperties
<1>2. L = {i \in DOMAIN C : /\ C[i].kind = "pair" /\ C[i].key = r
                            /\ C[i].value \in Severities}
  BY <1>1 DEF Asking, Pair
<1>3. Asked(r, default) = IF L = {} THEN default ELSE C[top].value
  BY <1>2 DEF Asked, Max
<1>4. /\ r \in DOMAIN severity <=> L # {}
      /\ \A k \in L : (\A m \in L : m <= k) => severity[r] = C[k].value
  BY DEF LastSays
<1>5. ASSUME L # {} PROVE top \in L /\ \A m \in L : m <= top
  <2> DEFINE b == Len(C)
  <2>1. b \in Int /\ L \subseteq Int /\ \A m \in L : m <= b  BY <1>1 DEF Asking
  <2> HIDE DEF L, b
  <2>2. PICK k \in L : \A m \in L : m <= k
    BY <1>5, <2>1, GreatestNumber
  <2>3. \A m \in L : k >= m  BY <2>1, <2>2
  <2>4. top \in L /\ \A m \in L : top >= m  BY <2>3
  <2> QED  BY <2>1, <2>4
<1> HIDE DEF L, top
<1> QED  BY <1>3, <1>4, <1>5 DEF Configured

-----------------------------------------------------------------------------
(* The inductive invariant.                                                *)

\* The options are those the command line means, and the paths are its paths.
Understood ==
  /\ OptionsOf(input.args, json, disable)
  /\ InOrder(input.args, positional, AtIn(input.args, PathRoles))

\* The configuration is read, and --disable added to what it switches off.
Settled ==
  /\ disabled = OffIn(input.config, Len(input.config)) \cup ({disable} \cap Rules)
  /\ LastSays(input.config, severity, Len(input.config))

\* What the engine lets through, and what the directives make of it.
Passed ==
  {[f EXCEPT !.severity = Configured(f.rule, @)] :
     f \in {g \in input.raised : g.rule \notin disabled}}
Hidden(f) == \E s \in Suppressions(f.unit) : s.reason /\ Covers(s, f.rule)
Shown     == {f \in Passed : ~Hidden(f)} \cup Unreasoned

Typed ==
  /\ TypeOK
  /\ input \in Inputs
  /\ flags \in Seq(STRING) /\ positional \in Seq(STRING)
  /\ phase \in {"args", "flags"} => todo \in Seq(STRING)
  /\ phase = "config" => todo \in Seq(Line)

ArgsInv ==
  phase = "args" =>
    /\ json = FALSE /\ disable = ""
    /\ \E i : ArgsAt(input.args, todo, flags, positional, i)

FlagsInv ==
  phase = "flags" =>
    /\ InOrder(input.args, positional, AtIn(input.args, PathRoles))
    /\ \E pos, j : /\ Points(input.args, pos, flags, AtIn(input.args, Kinds))
                   /\ FlagsAt(input.args, pos, flags, todo, json, disable, j)

ConfigInv ==
  /\ phase \in {"args", "flags"} => disabled = {} /\ severity = << >>
  /\ phase = "config" => \E i : ConfigAt(input.config, todo, disabled, severity, i)
  /\ phase \in {"rules", "suppress"} => Settled /\ engine = disabled

ReadyInv ==
  phase \in {"config", "rules", "suppress"} =>
    positional # <<>> /\ ("-" \notin ToSet(input.args) => Understood)

ReportInv ==
  /\ phase \notin {"suppress", "done"} => report = {}
  /\ phase = "suppress" => report = Passed

DoneInv ==
  phase = "done" =>
    \/ report = {} /\ exit = 2 /\ ~Audited
    \/ /\ report = Shown /\ exit = ExitCode(report)
       /\ Settled /\ positional # <<>> /\ ("-" \notin ToSet(input.args) => Understood)

Inv == Typed /\ ArgsInv /\ FlagsInv /\ ConfigInv /\ ReadyInv /\ ReportInv /\ DoneInv

\* What an input is.
LEMMA InputTyped ==
  ASSUME NEW i \in Inputs
  PROVE  /\ i.args \in Seq(STRING) /\ i.config \in Seq(Line) /\ i.raised \subseteq Finding
         /\ \A f \in i.raised : f.rule # "QD000"
         /\ \A u \in Units : i.texts[u] \subseteq Seq(STRING)
BY InputsAssumption

\* The first state satisfies it.
LEMMA InitInv == Init => Inv
<1> SUFFICES ASSUME Init PROVE Inv  OBVIOUS
<1>1. input \in Inputs /\ input.args \in Seq(STRING)  BY InputTyped DEF Init
<1> DEFINE A == input.args  e == <<>>
<1>2. e \in Seq(STRING) /\ Len(e) = 0 /\ DOMAIN e = {}  OBVIOUS
<1>3. A \in Seq(STRING) /\ todo = A /\ flags = e /\ positional = e /\ severity = e  BY <1>1 DEF Init
<1>4. Typed
  <2>1. Range(severity) = {}  BY <1>2, <1>3 DEF Range
  <2>2. /\ phase = "args" /\ json = FALSE /\ section = "" /\ disabled = {} /\ engine = {}
        /\ report = {} /\ exit = 0
    BY DEF Init
  <2> HIDE DEF e, A
  <2>3. TypeOK
    <3>1. DOMAIN severity = {}  BY <1>2, <1>3
    <3>2. exit \in 0..2
      <4>1. exit = 0  BY <2>2
      <4> QED  BY <4>1
    <3>3. section \in {"", "rules", "other"}  BY <2>2
    <3> QED  BY <2>1, <2>2, <3>1, <3>2, <3>3 DEF TypeOK
  <2> QED  BY <1>1, <1>2, <1>3, <2>2, <2>3 DEF Typed
<1>5. ArgsAt(A, A, e, e, 0)
  <2>1. Upto(A, 0, Kinds) = {} /\ Upto(A, 0, PathRoles) = {}  BY DEF Upto
  <2>2. InOrder(A, e, {})  BY InOrderEmpty
  <2>3. Roles(A)[0] = "path"  BY <1>3, RolesSolve
  <2>4. Remains(A, A, 0)
    <3>1. Len(A) \in Nat  BY <1>3, LenProperties
    <3> HIDE DEF A
    <3>2. Len(A) + 0 = Len(A) /\ \A k \in 1..Len(A) : 0 + k = k  BY <3>1
    <3> QED  BY <3>2 DEF Remains
  <2> HIDE DEF A, e
  <2> QED  BY <2>1, <2>2, <2>3, <2>4 DEF ArgsAt
<1>6. ArgsInv  BY <1>3, <1>5 DEF ArgsInv, Init
<1>7. phase = "args" /\ disabled = {} /\ severity = << >> /\ report = {}  BY DEF Init
<1>8. FlagsInv /\ ConfigInv /\ ReadyInv /\ ReportInv /\ DoneInv
  BY <1>7 DEF FlagsInv, ConfigInv, ReadyInv, ReportInv, DoneInv
<1> QED  BY <1>4, <1>6, <1>8 DEF Inv

\* A failure ends the lint with status 2 and reports nothing.
LEMMA FailInv ==
  ASSUME Inv, Fail, phase \notin {"suppress", "done"},
         todo # <<>> \/ positional = <<>> \/ ~(ToSet(positional) \subseteq Paths)
  PROVE  Inv'
<1>1. /\ phase' = "done" /\ exit' = 2 /\ report' = {}
      /\ todo' = todo /\ positional' = positional /\ flags' = flags /\ input' = input
      /\ json' = json /\ section' = section /\ disabled' = disabled /\ severity' = severity
      /\ engine' = engine
  BY DEF Fail, Inv, ReportInv, args, options, settings
<1>2. ~Audited'  BY <1>1 DEF Audited
<1>3. Typed'
  <2>1. exit' \in 0..2 /\ report' \subseteq Finding  BY <1>1
  <2> QED  BY <1>1, <2>1 DEF Inv, Typed, TypeOK
<1>4. ArgsInv' /\ FlagsInv' /\ ConfigInv' /\ ReadyInv' /\ ReportInv' /\ DoneInv'
  BY <1>1, <1>2 DEF ArgsInv, FlagsInv, ConfigInv, ReadyInv, ReportInv, DoneInv
<1> QED  BY <1>3, <1>4 DEF Inv

\* Reading an argument.
LEMMA ReadArgInv == Inv /\ ReadArg => Inv'
<1> SUFFICES ASSUME Inv, ReadArg PROVE Inv'  OBVIOUS
<1> DEFINE A == input.args  a == Head(todo)  t == Tail(todo)  takes == takesValue(a) /\ t # <<>>
<1>1. /\ phase = "args" /\ todo # <<>> /\ phase' = "args" /\ input' = input
      /\ json' = json /\ disable' = disable /\ section' = section /\ disabled' = disabled
      /\ severity' = severity /\ engine' = engine /\ report' = report /\ exit' = exit
  BY DEF ReadArg, options, settings
<1>2. /\ A \in Seq(STRING) /\ todo \in Seq(STRING) /\ flags \in Seq(STRING)
      /\ positional \in Seq(STRING)
  BY <1>1, InputTyped DEF Inv, Typed
<1>3. PICK i : ArgsAt(A, todo, flags, positional, i)  BY <1>1 DEF Inv, ArgsInv
<1>4. t \in Seq(STRING) /\ a \in STRING
  BY <1>1, <1>2, EmptySeq, HeadTailProperties, ElementOfSeq
<1>5. /\ a = "--" => ArgsAt(A, <<>>, flags, positional \o t, Len(A))
      /\ a \in Dashed \ {"--"} /\ takes =>
           ArgsAt(A, Tail(t), flags \o <<a, Head(t)>>, positional, i + 2)
      /\ a \in Dashed \ {"--"} /\ ~takes => ArgsAt(A, t, flags \o <<a>>, positional, i + 1)
      /\ a \notin Dashed => ArgsAt(A, t, flags, Append(positional, a), i + 1)
  BY <1>1, <1>2, <1>3, ArgsStep
<1>6. \/ a = "--" /\ positional' = positional \o t /\ todo' = <<>> /\ flags' = flags
      \/ /\ a \in Dashed \ {"--"} /\ takes /\ flags' = flags \o <<a, Head(t)>>
         /\ todo' = Tail(t) /\ positional' = positional
      \/ /\ a \in Dashed \ {"--"} /\ ~takes /\ flags' = flags \o <<a>>
         /\ todo' = t /\ positional' = positional
      \/ a \notin Dashed /\ positional' = Append(positional, a) /\ todo' = t /\ flags' = flags
  <2> HIDE DEF A
  <2> QED  BY DEF ReadArg
<1>7. takes => Tail(t) \in Seq(STRING) /\ Head(t) \in STRING
  BY <1>4, EmptySeq, HeadTailProperties, ElementOfSeq
<1> HIDE DEF A, a, t, takes
<1>8. flags' \in Seq(STRING) /\ positional' \in Seq(STRING) /\ todo' \in Seq(STRING)
  <2>1. CASE a = "--"
    <3>1. positional \o t \in Seq(STRING)  BY <1>2, <1>4, ConcatProperties
    <3>2. <<>> \in Seq(STRING)  OBVIOUS
    <3> QED  BY <1>2, <1>6, <2>1, <3>1, <3>2 DEF Dashed
  <2>2. CASE a \in Dashed \ {"--"} /\ takes
    <3>1. <<a, Head(t)>> \in Seq(STRING)  BY <1>4, <1>7, <2>2, ShortSequences
    <3>2. flags \o <<a, Head(t)>> \in Seq(STRING)  BY <1>2, <3>1, ConcatProperties
    <3> QED  BY <1>2, <1>6, <1>7, <2>2, <3>2
  <2>3. CASE a \in Dashed \ {"--"} /\ ~takes
    <3>1. <<a>> \in Seq(STRING)  BY <1>4, ShortSequences
    <3>2. flags \o <<a>> \in Seq(STRING)  BY <1>2, <3>1, ConcatProperties
    <3> QED  BY <1>2, <1>4, <1>6, <2>3, <3>2
  <2>4. CASE a \notin Dashed
    <3>1. Append(positional, a) \in Seq(STRING)  BY <1>2, <1>4, AppendProperties
    <3> QED  BY <1>2, <1>4, <1>6, <2>4, <3>1 DEF Dashed
  <2> QED  BY <2>1, <2>2, <2>3, <2>4
<1>9. \E k : ArgsAt(A, todo', flags', positional', k)  BY <1>5, <1>6
<1>10. Typed'  BY <1>1, <1>8 DEF Inv, Typed, TypeOK
<1>11. ArgsInv'  BY <1>1, <1>9 DEF Inv, ArgsInv, A
<1>12. FlagsInv' /\ ConfigInv' /\ ReadyInv' /\ ReportInv' /\ DoneInv'
  BY <1>1 DEF Inv, FlagsInv, ConfigInv, ReadyInv, ReportInv, DoneInv
<1> QED  BY <1>10, <1>11, <1>12 DEF Inv

\* Handing the flags to the flag package.
LEMMA ArgsReadInv == Inv /\ ArgsRead => Inv'
<1> SUFFICES ASSUME Inv, ArgsRead PROVE Inv'  OBVIOUS
<1> DEFINE A == input.args  S == AtIn(A, Kinds)
<1>1. /\ phase = "args" /\ todo = <<>> /\ phase' = "flags" /\ todo' = flags /\ input' = input
      /\ flags' = flags /\ positional' = positional
      /\ json' = json /\ disable' = disable /\ section' = section /\ disabled' = disabled
      /\ severity' = severity /\ engine' = engine /\ report' = report /\ exit' = exit
  BY DEF ArgsRead, args, options, settings
<1>2. A \in Seq(STRING) /\ flags \in Seq(STRING) /\ positional \in Seq(STRING)
  BY InputTyped DEF Inv, Typed
<1>3. PICK i : ArgsAt(A, todo, flags, positional, i)  BY <1>1 DEF Inv, ArgsInv
<1>4. json = FALSE /\ disable = ""  BY <1>1 DEF Inv, ArgsInv
<1> HIDE DEF A
<1>5. i = Len(A)
  <2>1. Len(todo) = 0  BY <1>1, EmptySeq
  <2>2. Len(todo) + i = Len(A) /\ i \in Nat  BY <1>3 DEF ArgsAt, Remains
  <2> QED  BY <2>1, <2>2
<1>6. InOrder(A, flags, S) /\ InOrder(A, positional, AtIn(A, PathRoles))
  BY <1>3, <1>5 DEF ArgsAt, AtIn
<1>7. PICK pos : Points(A, pos, flags, S)  BY <1>6 DEF InOrder
<1>8. FlagsAt(A, pos, flags, flags, json, disable, 0)
  <2>1. Remains(flags, flags, 0)
    <3>1. Len(flags) \in Nat  BY <1>2, LenProperties
    <3>2. Len(flags) + 0 = Len(flags) /\ \A k \in 1..Len(flags) : 0 + k = k  BY <3>1
    <3> QED  BY <3>2 DEF Remains
  <2>2. Says(A, pos, disable, 0)
    <3>1. \A m \in 1..0 : FALSE  OBVIOUS
    <3>2. \A m \in 1..0 : pos[m] \notin ValuedIn(A)  BY <3>1
    <3> QED  BY <1>4, <3>2 DEF Says
  <2>3. \A m \in 1..0 : FALSE  OBVIOUS
  <2>4. json <=> \E m \in 1..0 : pos[m] \in AtIn(A, {"flag"}) /\ flags[m] \in BoolFlags
    BY <1>4, <2>3
  <2>5. \A m \in 1..0 : pos[m] \in AtIn(A, {"flag"}) => flags[m] \in BoolFlags \cup {Joined.disable}
    BY <2>3
  <2> QED  BY <2>1, <2>2, <2>4, <2>5 DEF FlagsAt
<1>9. Typed'  BY <1>1, <1>2 DEF Inv, Typed, TypeOK
<1>10. FlagsInv'  BY <1>1, <1>6, <1>7, <1>8 DEF FlagsInv, A
<1>11. ArgsInv' /\ ConfigInv' /\ ReadyInv' /\ ReportInv' /\ DoneInv'
  BY <1>1 DEF Inv, ArgsInv, ConfigInv, ReadyInv, ReportInv, DoneInv
<1> QED  BY <1>9, <1>10, <1>11 DEF Inv

\* Reading a flag.
LEMMA ReadFlagInv == Inv /\ ReadFlag => Inv'
<1> SUFFICES ASSUME Inv, ReadFlag PROVE Inv'  OBVIOUS
<1> DEFINE A == input.args  a == Head(todo)  takes == a \in ValueFlags
<1>1. /\ phase = "flags" /\ ~Stops(todo) /\ ~Wrong(todo) /\ phase' = "flags" /\ input' = input
      /\ flags' = flags /\ positional' = positional
      /\ section' = section /\ disabled' = disabled /\ severity' = severity
      /\ engine' = engine /\ report' = report /\ exit' = exit
  BY DEF ReadFlag, args, settings
<1>2. A \in Seq(STRING) /\ flags \in Seq(STRING) /\ todo \in Seq(STRING) /\ json \in BOOLEAN
  BY <1>1, InputTyped DEF Inv, Typed, TypeOK
<1>3. todo # <<>>  BY <1>1 DEF Stops
<1>4. PICK pos, j : /\ Points(A, pos, flags, AtIn(A, Kinds))
                    /\ FlagsAt(A, pos, flags, todo, json, disable, j)
  BY <1>1 DEF Inv, FlagsInv
<1>5. /\ json' = (json \/ a \in BoolFlags)
      /\ disable' = IF takes THEN todo[2] ELSE IF a = Joined.disable THEN Joined.value ELSE disable
      /\ todo' = IF takes THEN Tail(Tail(todo)) ELSE Tail(todo)
  BY DEF ReadFlag
<1>6. Tail(todo) \in Seq(STRING)  BY <1>2, <1>3, HeadTailProperties
<1>7. ASSUME takes PROVE /\ todo' \in Seq(STRING)
                         /\ FlagsAt(A, pos, flags, todo', json', disable', j + 2)
  <2>1. FlagsAt(A, pos, flags, Tail(Tail(todo)), json, todo[2], j + 2)
    BY <1>1, <1>2, <1>3, <1>4, <1>7, FlagsValue
  <2>2. json' = json  BY <1>2, <1>5, <1>7 DEF ValueFlags, BoolFlags
  <2>3. Tail(todo) # <<>>
    <3>1. Len(todo) # 1  BY <1>1, <1>7 DEF Wrong
    <3>2. Len(Tail(todo)) = Len(todo) - 1 /\ Len(todo) \in Nat
      BY <1>2, <1>3, HeadTailProperties, LenProperties
    <3>3. Len(Tail(todo)) # 0
      <4> DEFINE x == Len(Tail(todo))  y == Len(todo)
      <4>1. x = y - 1 /\ y \in Nat /\ y # 1  BY <3>1, <3>2
      <4> HIDE DEF x, y
      <4>2. x # 0  BY <4>1
      <4> QED  BY <4>2 DEF x
    <3> QED  BY <1>6, <3>3, EmptySeq
  <2>4. Tail(Tail(todo)) \in Seq(STRING)  BY <1>6, <2>3, HeadTailProperties
  <2> QED  BY <1>5, <1>7, <2>1, <2>2, <2>4
<1>8. ASSUME ~takes PROVE /\ todo' \in Seq(STRING)
                          /\ FlagsAt(A, pos, flags, todo', json', disable', j + 1)
  <2>1. FlagsAt(A, pos, flags, Tail(todo), json \/ a \in BoolFlags,
                IF a = Joined.disable THEN Joined.value ELSE disable, j + 1)
    BY <1>1, <1>2, <1>3, <1>4, <1>8, FlagsSingle
  <2> DEFINE js == json \/ a \in BoolFlags
  <2> HIDE DEF js
  <2>2. FlagsAt(A, pos, flags, Tail(todo), js,
                IF a = Joined.disable THEN Joined.value ELSE disable, j + 1)
    BY <2>1 DEF js
  <2>3. json' = js  BY <1>5 DEF js
  <2> QED  BY <1>5, <1>6, <1>8, <2>2, <2>3
<1> HIDE DEF A, a, takes
<1>9. todo' \in Seq(STRING) /\ \E k : FlagsAt(A, pos, flags, todo', json', disable', k)
  BY <1>7, <1>8
<1>10. Typed'
  <2>1. json' \in BOOLEAN  BY <1>5
  <2> QED  BY <1>1, <1>9, <2>1 DEF Inv, Typed, TypeOK
<1>11. FlagsInv'
  <2>1. InOrder(A, positional, AtIn(A, PathRoles))  BY <1>1 DEF Inv, FlagsInv, A
  <2> QED  BY <1>1, <1>4, <1>9, <2>1 DEF FlagsInv, A
<1>12. ArgsInv' /\ ConfigInv' /\ ReadyInv' /\ ReportInv' /\ DoneInv'
  BY <1>1 DEF Inv, ArgsInv, ConfigInv, ReadyInv, ReportInv, DoneInv
<1> QED  BY <1>10, <1>11, <1>12 DEF Inv

\* Reading the configuration, once the flags are read and there is a path.
LEMMA FlagsReadInv == Inv /\ FlagsRead => Inv'
<1> SUFFICES ASSUME Inv, FlagsRead PROVE Inv'  OBVIOUS
<1> DEFINE A == input.args  C == input.config
<1>1. /\ phase = "flags" /\ Stops(todo) /\ positional # <<>> /\ phase' = "config"
      /\ todo' = C /\ input' = input /\ flags' = flags /\ positional' = positional
      /\ json' = json /\ disable' = disable /\ section' = section /\ disabled' = disabled
      /\ severity' = severity /\ engine' = engine /\ report' = report /\ exit' = exit
  BY DEF FlagsRead, args, options, settings
<1>2. /\ A \in Seq(STRING) /\ C \in Seq(Line) /\ flags \in Seq(STRING)
      /\ todo \in Seq(STRING)
  BY <1>1, InputTyped DEF Inv, Typed
<1>3. "-" \notin ToSet(A) => Understood
  <2>1. PICK pos, j : /\ Points(A, pos, flags, AtIn(A, Kinds))
                      /\ FlagsAt(A, pos, flags, todo, json, disable, j)
    BY <1>1 DEF Inv, FlagsInv
  <2>2. InOrder(A, positional, AtIn(A, PathRoles))  BY <1>1 DEF Inv, FlagsInv
  <2>3. "-" \notin ToSet(A) => OptionsOf(A, json, disable)
    BY <1>1, <1>2, <2>1, FlagsDone
  <2> QED  BY <2>2, <2>3 DEF Understood
<1>4. ConfigAt(C, C, disabled, severity, 0)
  <2>1. disabled = {} /\ severity = << >>  BY <1>1 DEF Inv, ConfigInv
  <2>2. \A m \in 1..0 : FALSE  OBVIOUS
  <2>3. OffIn(C, 0) = {} /\ \A r : Asking(C, r, 0) = {}  BY <2>2 DEF OffIn, Asking
  <2>4. DOMAIN severity = {}
    <3> DEFINE e == << >>
    <3>1. DOMAIN e = {}  OBVIOUS
    <3> QED  BY <2>1, <3>1
  <2>5. LastSays(C, severity, 0)  BY <2>3, <2>4 DEF LastSays
  <2>6. Remains(C, C, 0)
    <3> HIDE DEF C
    <3>1. Len(C) \in Nat  BY <1>2, LenProperties
    <3>2. Len(C) + 0 = Len(C) /\ \A k \in 1..Len(C) : 0 + k = k  BY <3>1
    <3> QED  BY <3>2 DEF Remains
  <2> QED  BY <2>1, <2>3, <2>5, <2>6 DEF ConfigAt
<1>5. Typed'  BY <1>1, <1>2 DEF Inv, Typed, TypeOK
<1>6. ConfigInv'  BY <1>1, <1>4 DEF ConfigInv
<1>7. ReadyInv'
  <2>1. Understood' = Understood  BY <1>1 DEF Understood
  <2> QED  BY <1>1, <1>3, <2>1 DEF ReadyInv
<1>8. ArgsInv' /\ FlagsInv' /\ ReportInv' /\ DoneInv'
  BY <1>1 DEF Inv, ArgsInv, FlagsInv, ReportInv, DoneInv
<1> QED  BY <1>5, <1>6, <1>7, <1>8 DEF Inv

\* Reading a line of the configuration.
LEMMA ReadLineInv == Inv /\ ReadLine => Inv'
<1> SUFFICES ASSUME Inv, ReadLine PROVE Inv'  OBVIOUS
<1> DEFINE C == input.config  line == Head(todo)
<1>1. /\ phase = "config" /\ todo # <<>> /\ ~Refused(line) /\ phase' = "config"
      /\ todo' = Tail(todo) /\ input' = input /\ flags' = flags /\ positional' = positional
      /\ json' = json /\ disable' = disable
      /\ engine' = engine /\ report' = report /\ exit' = exit
  BY DEF ReadLine, args, options
<1>2. C \in Seq(Line) /\ todo \in Seq(Line)  BY <1>1, InputTyped DEF Inv, Typed
<1>3. PICK i : ConfigAt(C, todo, disabled, severity, i)  BY <1>1 DEF Inv, ConfigInv
<1>4. /\ i \in Nat /\ Remains(todo, C, i) /\ disabled = OffIn(C, i)
      /\ LastSays(C, severity, i)
  BY <1>3 DEF ConfigAt
<1>5. /\ line = C[i + 1] /\ Tail(todo) \in Seq(Line) /\ Remains(Tail(todo), C, i + 1)
      /\ line \in Line /\ i + 1 \in Nat
  <2>1. line = C[i + 1] /\ i + 1 \in 1..Len(C)  BY <1>1, <1>2, <1>4, RemainsTail
  <2>2. line \in Line  BY <1>2, <2>1, ElementOfSeq
  <2> QED  BY <1>1, <1>2, <1>4, <2>1, <2>2, RemainsTail
<1>6. /\ line.kind = "section" => line.name \in {"", "rules", "other"}
      /\ line.kind = "pair" => line.key \in Rules
  BY <1>1, <1>5 DEF Line, Refused
<1>7. \A v \in Off : v \notin Severities  BY DEF Off, Severities
<1>8. \/ /\ line.kind \in {"blank", "section"}
         /\ section' \in {section, line.name} /\ (section' # section => line.kind = "section")
         /\ disabled' = disabled /\ severity' = severity
      \/ /\ Pair(line, Off)
         /\ disabled' = disabled \cup {line.key} /\ section' = section /\ severity' = severity
      \/ /\ Pair(line, Severities)
         /\ severity' = [r \in DOMAIN severity \cup {line.key} |->
                           IF r = line.key THEN line.value ELSE severity[r]]
         /\ section' = section /\ disabled' = disabled
  BY DEF ReadLine, settings, Pair
<1>9. disabled' = OffIn(C, i + 1) /\ LastSays(C, severity', i + 1)
  <2>1. CASE /\ line.kind \in {"blank", "section"}
             /\ disabled' = disabled /\ severity' = severity
    <3>1. ~Pair(C[i + 1], Off) /\ ~Pair(C[i + 1], Severities)  BY <1>5, <2>1 DEF Pair
    <3> QED  BY <1>4, <2>1, <3>1, LineAdds, LastSaysSame
  <2>2. CASE /\ Pair(line, Off)
             /\ disabled' = disabled \cup {line.key} /\ severity' = severity
    <3>1. Pair(C[i + 1], Off) /\ ~Pair(C[i + 1], Severities)
      BY <1>5, <1>7, <2>2 DEF Pair
    <3>2. disabled' = OffIn(C, i) \cup {C[i + 1].key}  BY <1>4, <1>5, <2>2
    <3> QED  BY <1>4, <2>2, <3>1, <3>2, LineAdds, LastSaysSame
  <2>3. CASE /\ Pair(line, Severities)
             /\ severity' = [r \in DOMAIN severity \cup {line.key} |->
                               IF r = line.key THEN line.value ELSE severity[r]]
             /\ disabled' = disabled
    <3>1. ~Pair(C[i + 1], Off) /\ Pair(C[i + 1], Severities) /\ C[i + 1].key \in Rules
      BY <1>5, <1>6, <1>7, <2>3 DEF Pair
    <3>2. severity' = [r \in DOMAIN severity \cup {C[i + 1].key} |->
                         IF r = C[i + 1].key THEN C[i + 1].value ELSE severity[r]]
      BY <1>5, <2>3
    <3>3. LastSays(C, severity', i + 1)  BY <1>4, <3>1, <3>2, LastSaysNew
    <3> QED  BY <1>4, <2>3, <3>1, <3>3, LineAdds
  <2> QED  BY <1>8, <2>1, <2>2, <2>3
<1> HIDE DEF C, line
<1>10. ConfigAt(C, todo', disabled', severity', i + 1)
  BY <1>1, <1>5, <1>9 DEF ConfigAt
<1>11. /\ section' \in {"", "rules", "other"} /\ disabled' \subseteq Rules
       /\ DOMAIN severity' \subseteq Rules /\ Range(severity') \subseteq Severities
  <2>1. /\ section \in {"", "rules", "other"} /\ disabled \subseteq Rules
        /\ DOMAIN severity \subseteq Rules
        /\ \A r \in DOMAIN severity : severity[r] \in Severities
    BY DEF Inv, Typed, TypeOK, Range
  <2>2. section' \in {"", "rules", "other"}  BY <1>6, <1>8, <2>1
  <2>3. disabled' \subseteq Rules  BY <1>6, <1>8, <2>1 DEF Pair
  <2>4. CASE severity' = severity  BY <2>1, <2>2, <2>3, <2>4 DEF Range
  <2>5. CASE /\ Pair(line, Severities)
             /\ severity' = [r \in DOMAIN severity \cup {line.key} |->
                               IF r = line.key THEN line.value ELSE severity[r]]
    <3>1. line.key \in Rules /\ line.value \in Severities  BY <1>6, <2>5 DEF Pair
    <3>2. DOMAIN severity' \subseteq Rules  BY <2>1, <2>5, <3>1
    <3>3. \A r \in DOMAIN severity' : severity'[r] \in Severities  BY <2>1, <2>5, <3>1
    <3>4. Range(severity') \subseteq Severities  BY <3>3 DEF Range
    <3> QED  BY <2>2, <2>3, <3>2, <3>4
  <2> QED  BY <1>8, <2>4, <2>5
<1>12. Typed'  BY <1>1, <1>5, <1>11 DEF Inv, Typed, TypeOK
<1>13. ConfigInv'  BY <1>1, <1>10 DEF ConfigInv, C
<1>14. ReadyInv'
  <2>1. Understood' = Understood  BY <1>1 DEF Understood
  <2> QED  BY <1>1, <2>1 DEF Inv, ReadyInv
<1>15. ArgsInv' /\ FlagsInv' /\ ReportInv' /\ DoneInv'
  BY <1>1 DEF Inv, ArgsInv, FlagsInv, ReportInv, DoneInv
<1> QED  BY <1>12, <1>13, <1>14, <1>15 DEF Inv

\* --disable joins what the configuration switches off.
LEMMA ConfigReadInv == Inv /\ ConfigRead => Inv'
<1> SUFFICES ASSUME Inv, ConfigRead PROVE Inv'  OBVIOUS
<1> DEFINE C == input.config  off == {disable} \cap Rules
<1>1. /\ phase = "config" /\ todo = <<>> /\ phase' = "rules" /\ engine' = disabled \cup off
      /\ disabled' = disabled \cup off /\ severity' = severity /\ section' = section
      /\ todo' = todo /\ input' = input /\ flags' = flags /\ positional' = positional
      /\ json' = json /\ disable' = disable /\ report' = report /\ exit' = exit
  BY DEF ConfigRead, SharedMap, args, options
<1>2. C \in Seq(Line)  BY InputTyped DEF Inv, Typed
<1>3. PICK i : ConfigAt(C, todo, disabled, severity, i)  BY <1>1 DEF Inv, ConfigInv
<1>4. i = Len(C)
  <2>1. Len(todo) = 0  BY <1>1, EmptySeq
  <2>2. Len(todo) + i = Len(C) /\ i \in Nat  BY <1>3 DEF ConfigAt, Remains
  <2> QED  BY <2>1, <2>2
<1>5. disabled = OffIn(C, Len(C)) /\ LastSays(C, severity, Len(C))
  BY <1>3, <1>4 DEF ConfigAt
<1>6. Typed'  BY <1>1 DEF Inv, Typed, TypeOK
<1>7. ConfigInv'
  <2>1. Settled'  BY <1>1, <1>5 DEF Settled
  <2> QED  BY <1>1, <2>1 DEF ConfigInv
<1>8. ReadyInv'
  <2>1. Understood' = Understood  BY <1>1 DEF Understood
  <2> QED  BY <1>1, <2>1 DEF Inv, ReadyInv
<1>9. ArgsInv' /\ FlagsInv' /\ ReportInv' /\ DoneInv'
  BY <1>1 DEF Inv, ArgsInv, FlagsInv, ReportInv, DoneInv
<1> QED  BY <1>6, <1>7, <1>8, <1>9 DEF Inv

\* A severity is one of the three, whether configured or the rule's own.
LEMMA ConfiguredTyped ==
  ASSUME Inv, NEW r, NEW default \in Severities
  PROVE  Configured(r, default) \in Severities
BY DEF Inv, Typed, TypeOK, Range, Configured

\* What is let through is a set of findings.
LEMMA PassedTyped ==
  ASSUME Inv
  PROVE  Passed \subseteq Finding
<1>1. input.raised \subseteq Finding  BY InputTyped DEF Inv, Typed
<1>2. ASSUME NEW f \in input.raised
      PROVE  [f EXCEPT !.severity = Configured(f.rule, @)] \in Finding
  <2>1. f \in Finding /\ f.severity \in Severities  BY <1>1 DEF Finding
  <2>2. Configured(f.rule, f.severity) \in Severities  BY <2>1, ConfiguredTyped
  <2> QED  BY <2>1, <2>2 DEF Finding
<1> QED  BY <1>2 DEF Passed

\* Running the rules.
LEMMA RunRulesInv == Inv /\ RunRules => Inv'
<1> SUFFICES ASSUME Inv, RunRules PROVE Inv'  OBVIOUS
<1>1. /\ phase = "rules" /\ phase' = "suppress" /\ disabled' = disabled
      /\ severity' = severity /\ section' = section /\ engine' = engine
      /\ todo' = todo /\ input' = input /\ flags' = flags /\ positional' = positional
      /\ json' = json /\ disable' = disable /\ exit' = exit
  BY DEF RunRules, args, options, settings
<1>2. Settled /\ engine = disabled  BY <1>1 DEF Inv, ConfigInv
<1>3. report' = Passed  BY <1>2 DEF RunRules, Passed
<1>4. Passed' = Passed  BY <1>1 DEF Passed, Configured
<1>5. Typed'
  <2>1. report' \subseteq Finding  BY <1>3, PassedTyped
  <2> QED  BY <1>1, <2>1 DEF Inv, Typed, TypeOK
<1>6. ConfigInv'
  <2>1. Settled'  BY <1>1, <1>2 DEF Settled
  <2> QED  BY <1>1, <1>2, <2>1 DEF ConfigInv
<1>7. ReadyInv'
  <2>1. Understood' = Understood  BY <1>1 DEF Understood
  <2> QED  BY <1>1, <2>1 DEF Inv, ReadyInv
<1>8. ReportInv'  BY <1>1, <1>3, <1>4 DEF ReportInv
<1>9. ArgsInv' /\ FlagsInv' /\ DoneInv'
  BY <1>1 DEF Inv, ArgsInv, FlagsInv, DoneInv
<1> QED  BY <1>5, <1>6, <1>7, <1>8, <1>9 DEF Inv

\* Applying the directives.
LEMMA ApplySuppressionsInv == Inv /\ ApplySuppressions => Inv'
<1> SUFFICES ASSUME Inv, ApplySuppressions PROVE Inv'  OBVIOUS
<1>1. /\ phase = "suppress" /\ phase' = "done" /\ disabled' = disabled
      /\ severity' = severity /\ section' = section /\ engine' = engine
      /\ todo' = todo /\ input' = input /\ flags' = flags /\ positional' = positional
      /\ json' = json /\ disable' = disable /\ exit' = ExitCode(report')
  BY DEF ApplySuppressions, args, options, settings
<1>2. report' = Shown
  <2>1. report = Passed  BY <1>1 DEF Inv, ReportInv
  <2> QED  BY <2>1 DEF ApplySuppressions, Shown, Hidden
<1>3. Shown' = Shown
  <2>1. Passed' = Passed  BY <1>1 DEF Passed, Configured
  <2>2. \A f : Hidden(f)' <=> Hidden(f)  BY <1>1 DEF Hidden, Suppressions
  <2>3. Unreasoned' = Unreasoned
    BY <1>1 DEF Unreasoned, Suppressions, QD000Severity, Configured
  <2> QED  BY <2>1, <2>2, <2>3 DEF Shown
<1>4. Typed'
  <2>1. report' \subseteq Finding
    <3>1. Unreasoned \subseteq Finding
      <4>1. "warning" \in Severities  BY DEF Severities
      <4>2. QD000Severity \in Severities  BY <4>1, ConfiguredTyped DEF QD000Severity
      <4>3. "QD000" \in Rules  BY RulesAssumption
      <4> QED  BY <4>2, <4>3 DEF Unreasoned, Finding
    <3> QED  BY <1>2, <3>1, PassedTyped DEF Shown
  <2>2. exit' \in 0..2
    <3>1. exit' = 0 \/ exit' = 1 \/ exit' = 2  BY <1>1 DEF ExitCode
    <3> QED  BY <3>1
  <2> QED  BY <1>1, <2>1, <2>2 DEF Inv, Typed, TypeOK
<1>5. DoneInv'
  <2>1. Settled' /\ positional # <<>> /\ ("-" \notin ToSet(input.args) => Understood)
    BY <1>1 DEF Inv, ConfigInv, ReadyInv, Settled
  <2>2. Understood' = Understood  BY <1>1 DEF Understood
  <2>3. ExitCode(report)' = ExitCode(report')  BY DEF ExitCode
  <2> QED  BY <1>1, <1>2, <1>3, <2>1, <2>2, <2>3 DEF DoneInv
<1>6. ArgsInv' /\ FlagsInv' /\ ConfigInv' /\ ReadyInv' /\ ReportInv'
  BY <1>1 DEF Inv, ArgsInv, FlagsInv, ConfigInv, ReadyInv, ReportInv
<1> QED  BY <1>4, <1>5, <1>6 DEF Inv

\* Every step preserves it.
LEMMA NextInv == Inv /\ [Next]_vars => Inv'
<1> SUFFICES ASSUME Inv, [Next]_vars PROVE Inv'  OBVIOUS
<1>1. CASE ReadArg  BY <1>1, ReadArgInv
<1>2. CASE ArgsRead  BY <1>2, ArgsReadInv
<1>3. CASE ReadFlag  BY <1>3, ReadFlagInv
<1>4. CASE FlagsRefused
  <2>1. todo # <<>>  BY <1>4 DEF FlagsRefused, Wrong, Stops
  <2> QED  BY <1>4, <2>1, FailInv DEF FlagsRefused
<1>5. CASE NoPaths  BY <1>5, FailInv DEF NoPaths
<1>6. CASE FlagsRead  BY <1>6, FlagsReadInv
<1>7. CASE ReadLine  BY <1>7, ReadLineInv
<1>8. CASE LineRefused  BY <1>8, FailInv DEF LineRefused
<1>9. CASE ConfigRead  BY <1>9, ConfigReadInv
<1>10. CASE PathMissing
  <2>1. ~(ToSet(positional) \subseteq Paths)  BY <1>10 DEF PathMissing
  <2> QED  BY <1>10, <2>1, FailInv DEF PathMissing
<1>11. CASE RunRules  BY <1>11, RunRulesInv
<1>12. CASE ApplySuppressions  BY <1>12, ApplySuppressionsInv
<1>13. CASE UNCHANGED vars
  <2>1. /\ phase' = phase /\ todo' = todo /\ input' = input /\ flags' = flags
        /\ positional' = positional /\ json' = json /\ disable' = disable
        /\ section' = section /\ disabled' = disabled /\ severity' = severity
        /\ engine' = engine /\ report' = report /\ exit' = exit
    BY <1>13 DEF vars, args, options, settings
  <2>2. Typed'  BY <2>1 DEF Inv, Typed, TypeOK
  <2>3. ArgsInv' /\ FlagsInv'  BY <2>1 DEF Inv, ArgsInv, FlagsInv
  <2>4. Settled' = Settled /\ Understood' = Understood  BY <2>1 DEF Settled, Understood
  <2>5. ConfigInv' /\ ReadyInv'  BY <2>1, <2>4 DEF Inv, ConfigInv, ReadyInv
  <2>6. Passed' = Passed  BY <2>1 DEF Passed, Configured
  <2>7. Shown' = Shown
    <3>1. \A f : Hidden(f)' <=> Hidden(f)  BY <2>1 DEF Hidden, Suppressions
    <3>2. Unreasoned' = Unreasoned
      BY <2>1 DEF Unreasoned, Suppressions, QD000Severity, Configured
    <3> QED  BY <2>6, <3>1, <3>2 DEF Shown
  <2>8. ReportInv'  BY <2>1, <2>6 DEF Inv, ReportInv
  <2>9. DoneInv'
    <3>1. Audited' = Audited  BY <2>1 DEF Audited
    <3>2. ExitCode(report)' = ExitCode(report)  BY <2>1 DEF ExitCode
    <3> QED  BY <2>1, <2>4, <2>7, <3>1, <3>2 DEF Inv, DoneInv
  <2> QED  BY <2>2, <2>3, <2>5, <2>8, <2>9 DEF Inv
<1> QED
  BY <1>1, <1>2, <1>3, <1>4, <1>5, <1>6, <1>7, <1>8, <1>9, <1>10, <1>11, <1>12, <1>13 DEF Next

\* It holds of every behaviour.
LEMMA SpecInv == Spec => []Inv
<1>1. Init => Inv  BY InitInv
<1>2. Inv /\ [Next]_vars => Inv'  BY NextInv
<1> QED  BY <1>1, <1>2, PTL DEF Spec

-----------------------------------------------------------------------------
(* The types, the command line, and what is switched off.                  *)

\* Every variable keeps its type, the exit status 0, 1 or 2 among them, whatever
\* is on the command line, in the configuration and in the directives.
THEOREM AuditTyped == Spec => []TypeOK
<1>1. Inv => TypeOK  BY DEF Inv, Typed
<1> QED  BY <1>1, SpecInv, PTL

\* What is understood is what the command line means.
LEMMA UnderstoodIsMeant ==
  ASSUME Inv, Understood
  PROVE  /\ Meant.ok /\ json = Meant.json /\ disable = Meant.disable
         /\ Holds(positional, Meant.paths)
<1> DEFINE A == input.args
<1>1. A \in Seq(STRING) /\ json \in BOOLEAN  BY InputTyped DEF Inv, Typed, TypeOK
<1>2. \A roles : At(roles) = AtIn(A, roles)  BY DEF At, AtIn, Upto
<1>3. Valued = ValuedIn(A) /\ \A k : ValueAt(k) = ValueIn(A, k)
  BY <1>2 DEF Valued, ValuedIn, ValueAt, ValueIn
<1>4. Meant.ok  BY <1>2 DEF Meant, Understood, OptionsOf
<1>5. json = Meant.json  BY <1>1, <1>2 DEF Meant, Understood, OptionsOf
<1>6. disable = Meant.disable
  <2> DEFINE V == ValuedIn(A)  top == CHOOSE x \in V : \A y \in V : x >= y
             none == disable = ""
  <2>1. Meant.disable = IF V = {} THEN "" ELSE ValueIn(A, top)
    <3>1. Meant.disable = IF Valued = {} THEN "" ELSE ValueAt(Max(Valued))  BY DEF Meant
    <3>2. Max(Valued) = top  BY <1>3 DEF Max
    <3>3. Valued = V /\ ValueAt(Max(Valued)) = ValueIn(A, top)  BY <1>3, <3>2
    <3> QED  BY <3>1, <3>3
  <2>2. \/ none /\ V = {}
        \/ \E k \in V : disable = ValueIn(A, k) /\ \A l \in V : l <= k
    BY DEF Understood, OptionsOf
  <2>3. V \subseteq Int  BY DEF ValuedIn, AtIn, Upto
  <2>4. CASE none /\ V = {}  BY <2>1, <2>4
  <2> HIDE DEF V, none
  <2>5. CASE \E k \in V : disable = ValueIn(A, k) /\ \A l \in V : l <= k
    <3>1. PICK k \in V : disable = ValueIn(A, k) /\ \A l \in V : l <= k  BY <2>5
    <3>2. \A y \in V : k >= y  BY <2>3, <3>1
    <3>3. top \in V /\ \A y \in V : top >= y  BY <3>1, <3>2
    <3> HIDE DEF top
    <3>4. top = k  BY <2>3, <3>1, <3>3
    <3> QED  BY <2>1, <3>1, <3>4
  <2> QED  BY <2>2, <2>4, <2>5
<1>7. Holds(positional, Meant.paths)
  <2>1. Meant.paths = AtIn(A, PathRoles)  BY <1>2 DEF Meant, PathRoles
  <2>2. PICK pos : Points(A, pos, positional, AtIn(A, PathRoles))
    BY DEF Understood, InOrder
  <2> QED  BY <2>1, <2>2 DEF Holds, Points
<1> QED  BY <1>4, <1>5, <1>6, <1>7

\* parseArgs and the flag package agree on what every argument is, for every
\* command line without a lone dash: the options are those given anywhere on it,
\* and the paths are its other arguments in order.
THEOREM FlagsMayStandAnywhere == Spec => []FlagsCountAnywhere
<1>1. ASSUME Inv, "-" \notin ToSet(input.args), phase \in {"config", "rules", "suppress"}
      PROVE  /\ Meant.ok /\ json = Meant.json /\ disable = Meant.disable
             /\ Holds(positional, Meant.paths)
  <2>1. Understood  BY <1>1 DEF Inv, ReadyInv
  <2> QED  BY <1>1, <2>1, UnderstoodIsMeant
<1>2. ASSUME Inv, "-" \notin ToSet(input.args), phase = "done"
      PROVE  exit = 2 \/ (Meant.ok /\ Meant.paths # {})
  <2> SUFFICES ASSUME exit # 2 PROVE Meant.ok /\ Meant.paths # {}  OBVIOUS
  <2>1. Understood /\ positional # <<>>  BY <1>2 DEF Inv, DoneInv
  <2>2. Meant.ok /\ Holds(positional, Meant.paths)  BY <1>2, <2>1, UnderstoodIsMeant
  <2>3. Meant.paths # {}
    <3>1. PICK pos \in [1..Len(positional) -> Meant.paths] : TRUE  BY <2>2 DEF Holds
    <3>2. positional \in Seq(STRING)  BY <1>2 DEF Inv, Typed
    <3>3. Len(positional) \in Nat /\ Len(positional) # 0
      BY <2>1, <3>2, LenProperties, EmptySeq
    <3>4. 1 \in 1..Len(positional)  BY <3>3
    <3> QED  BY <3>1, <3>4
  <2> QED  BY <2>2, <2>3
<1>3. Inv => FlagsCountAnywhere  BY <1>1, <1>2 DEF FlagsCountAnywhere
<1> QED  BY <1>3, SpecInv, PTL

\* The rules the lines switch off.
LEMMA OffIsOff ==
  ASSUME Inv, Settled
  PROVE  disabled = OffInConfig \cup ({disable} \cap Rules)
<1> DEFINE C == input.config
<1>1. C \in Seq(Line)  BY InputTyped DEF Inv, Typed
<1>2. DOMAIN C = 1..Len(C)  BY <1>1, LenProperties
<1>3. OffIn(C, Len(C)) = OffInConfig
  <2>1. ASSUME NEW x PROVE x \in OffIn(C, Len(C)) <=> x \in OffInConfig
    <3>1. x \in OffIn(C, Len(C)) <=> \E k \in DOMAIN C : Pair(C[k], Off) /\ x = C[k].key
      BY <1>2 DEF OffIn
    <3>2. x \in OffInConfig <=> \E l \in ToSet(C) : Pair(l, Off) /\ x = l.key
      BY DEF OffInConfig, Pair
    <3>3. \A l : l \in ToSet(C) <=> \E k \in DOMAIN C : l = C[k]  BY DEF ToSet
    <3> QED  BY <3>1, <3>2, <3>3
  <2> QED  BY <2>1
<1> QED  BY <1>3 DEF Settled

\* What is reported at the end, and by whom.
LEMMA ReportOf ==
  ASSUME Inv, phase = "done", report # {} \/ Audited
  PROVE  /\ report = Shown /\ exit = ExitCode(report)
         /\ disabled = OffInConfig \cup ({disable} \cap Rules)
         /\ \A r \in Rules : \A default : Asked(r, default) = Configured(r, default)
<1>1. report = Shown /\ exit = ExitCode(report) /\ Settled  BY DEF Inv, DoneInv
<1>2. input.config \in Seq(Line)  BY InputTyped DEF Inv, Typed
<1>3. LastSays(input.config, severity, Len(input.config))  BY <1>1 DEF Settled
<1>4. \A r \in Rules : \A default : Asked(r, default) = Configured(r, default)
  BY <1>2, <1>3, AskedIsConfigured
<1> QED  BY <1>1, <1>4, OffIsOff

\* What a rule that any line of the configuration or --disable switches off
\* finds is never reported, by the engine or by the directives.
THEOREM WhatIsOffIsSilent == Spec => []SwitchedOffIsSilent
<1>1. ASSUME Inv, NEW f \in report, phase = "done"
      PROVE  f.rule \notin OffInConfig \cup {disable}
  <2>1. report = Shown /\ disabled = OffInConfig \cup ({disable} \cap Rules)
    BY <1>1, ReportOf
  <2>2. f.rule \in Rules  BY <1>1 DEF Inv, Typed, TypeOK, Finding
  <2>3. f.rule \notin disabled
    <3>1. CASE f \in Unreasoned  BY <3>1 DEF Unreasoned
    <3>2. CASE f \in Passed
      <4>1. PICK g \in input.raised : /\ g.rule \notin disabled
                                     /\ f = [g EXCEPT !.severity = Configured(g.rule, @)]
        BY <3>2 DEF Passed
      <4>2. g \in Finding  BY <1>1, InputTyped DEF Inv, Typed
      <4>3. f.rule = g.rule  BY <4>1, <4>2 DEF Finding
      <4> QED  BY <4>1, <4>3
    <3> QED  BY <1>1, <2>1, <3>1, <3>2 DEF Shown
  <2> QED  BY <2>1, <2>2, <2>3
<1>2. Inv => SwitchedOffIsSilent  BY <1>1 DEF SwitchedOffIsSilent
<1> QED  BY <1>2, SpecInv, PTL

-----------------------------------------------------------------------------
(* The directives.                                                         *)

\* The set of a part of a sequence.
LEMMA SubSeqSet ==
  ASSUME NEW s \in Seq(STRING), NEW m \in 1..(Len(s) + 1), NEW n \in Nat, n <= Len(s)
  PROVE  LET b == SubSeq(s, m, n) IN
         /\ b \in Seq(STRING) /\ Len(b) = IF m <= n THEN n - m + 1 ELSE 0
         /\ \A k \in 1..Len(b) : b[k] = s[m + k - 1]
         /\ \A x : x \in ToSet(b) <=> \E k \in m..n : x = s[k]
<1> DEFINE b == SubSeq(s, m, n)  L == Len(b)
<1>1. Len(s) \in Nat  BY LenProperties
<1>2. /\ b \in Seq(STRING) /\ L = IF m <= n THEN n - m + 1 ELSE 0
      /\ \A k \in 1..L : b[k] = s[m + k - 1]
  <2>1. \A k \in m..n : k \in 1..Len(s)  BY <1>1
  <2> QED  BY <1>1, <2>1, SubSeqProperties
<1>3. \A x : x \in ToSet(b) <=> \E k \in 1..L : x = b[k]
  <2>1. DOMAIN b = 1..L  BY <1>2, LenProperties
  <2> QED  BY <2>1 DEF ToSet
<1> HIDE DEF L, b
<1>4. ASSUME NEW x PROVE (\E k \in 1..L : x = b[k]) <=> \E k \in m..n : x = s[k]
  <2>1. ASSUME NEW k \in 1..L, x = b[k] PROVE \E j \in m..n : x = s[j]
    <3>1. m + k - 1 \in m..n  BY <1>1, <1>2, <2>1
    <3> QED  BY <1>2, <2>1, <3>1
  <2>2. ASSUME NEW k \in m..n, x = s[k] PROVE \E j \in 1..L : x = b[j]
    <3> DEFINE j == k - m + 1
    <3>1. j \in 1..L /\ m + j - 1 = k  BY <1>1, <1>2, <2>2
    <3> HIDE DEF j
    <3>2. x = b[j]  BY <1>2, <2>2, <3>1
    <3> QED  BY <3>1, <3>2
  <2> QED  BY <2>1, <2>2
<1>5. \A x : x \in ToSet(b) <=> \E k \in m..n : x = s[k]  BY <1>3, <1>4
<1> QED  BY <1>2, <1>5 DEF b, L

Blank(x) == x = " "

\* Trimming takes only blanks away, and leaves none in front.
LEMMA TrimOf ==
  ASSUME NEW text \in Seq(STRING)
  PROVE  /\ Trim(text) \in Seq(STRING)
         /\ ToSet(Trim(text)) \subseteq ToSet(text)
         /\ \A x \in ToSet(text) : ~Blank(x) => x \in ToSet(Trim(text))
         /\ Trim(text) # <<>> => ~Blank(Trim(text)[1])
<1> DEFINE K  == {i \in DOMAIN text : ~Blank(text[i])}
           lo == CHOOSE x \in K : \A y \in K : x <= y
           hi == CHOOSE x \in K : \A y \in K : x >= y
           b  == SubSeq(text, lo, hi)
<1>1. Len(text) \in Nat /\ DOMAIN text = 1..Len(text)  BY LenProperties
<1>2. Trim(text) = IF K = {} THEN <<>> ELSE b  BY DEF Trim, Min, Max, Blank
<1>3. \A x : x \in ToSet(text) <=> \E k \in 1..Len(text) : x = text[k]  BY <1>1 DEF ToSet
<1>4. CASE K = {}
  <2>1. Trim(text) = <<>>  BY <1>2, <1>4
  <2>2. \A x \in ToSet(text) : Blank(x)  BY <1>1, <1>3, <1>4
  <2> DEFINE e == <<>>
  <2>3. e \in Seq(STRING) /\ ToSet(e) = {}  BY DEF ToSet
  <2> HIDE DEF e
  <2>4. Trim(text) = e  BY <2>1 DEF e
  <2> QED  BY <2>1, <2>2, <2>3, <2>4
<1>5. CASE K # {}
  <2>1. K \subseteq Nat /\ \A x \in K : x <= Len(text)  BY <1>1
  <2>2. \A k \in K : k \in 1..Len(text) /\ ~Blank(text[k])  BY <1>1
  <2>3. \A k \in 1..Len(text) : ~Blank(text[k]) => k \in K  BY <1>1
  <2> DEFINE n == Len(text)
  <2> HIDE DEF K
  <2>4. PICK l \in K : \A y \in K : l <= y  BY <1>5, <2>1, LeastNumber
  <2>5. PICK h \in K : \A y \in K : y <= h
    <3>1. n \in Int /\ K \subseteq Int /\ \A x \in K : x <= n  BY <1>1, <2>1
    <3> HIDE DEF n
    <3> QED  BY <1>5, <3>1, GreatestNumber
  <2>6. lo \in K /\ \A y \in K : lo <= y  BY <2>4
  <2>7. hi \in K /\ \A y \in K : hi >= y
    <3>1. \A y \in K : h >= y  BY <2>1, <2>5
    <3> QED  BY <2>5, <3>1
  <2> HIDE DEF lo, hi
  <2>8. lo \in 1..(Len(text) + 1) /\ hi \in Nat /\ hi <= Len(text) /\ lo <= hi
    BY <1>1, <2>2, <2>6, <2>7
  <2>9. /\ b \in Seq(STRING) /\ Len(b) = hi - lo + 1
        /\ \A k \in 1..Len(b) : b[k] = text[lo + k - 1]
        /\ \A x : x \in ToSet(b) <=> \E k \in lo..hi : x = text[k]
    BY <2>8, SubSeqSet
  <2>10. b[1] = text[lo]
    <3>1. 1 \in 1..(hi - lo + 1) /\ lo + 1 - 1 = lo  BY <2>8
    <3> QED  BY <2>9, <3>1
  <2> HIDE DEF b
  <2>11. ToSet(b) \subseteq ToSet(text)
    <3>1. \A k \in lo..hi : k \in 1..Len(text)  BY <1>1, <2>8
    <3> QED  BY <1>3, <2>9, <3>1
  <2>12. \A x \in ToSet(text) : ~Blank(x) => x \in ToSet(b)
    <3> TAKE x \in ToSet(text)
    <3> HAVE ~Blank(x)
    <3>1. PICK k \in 1..Len(text) : x = text[k]  BY <1>3
    <3>2. k \in K  BY <2>3, <3>1
    <3>3. k \in lo..hi  BY <2>1, <2>6, <2>7, <3>2
    <3> QED  BY <2>9, <3>1, <3>3
  <2>13. ~Blank(b[1])  BY <2>2, <2>6, <2>10
  <2> QED  BY <1>2, <1>5, <2>9, <2>11, <2>12, <2>13
<1> QED  BY <1>4, <1>5

\* Where the first space is.
LEMMA SpaceOf ==
  ASSUME NEW text \in Seq(STRING)
  PROVE  /\ Space(text) \in 1..(Len(text) + 1)
         /\ Space(text) <= Len(text) => Blank(text[Space(text)])
         /\ \A k \in 1..Len(text) : Blank(text[k]) => Space(text) <= k
<1> DEFINE S == {i \in DOMAIN text : Blank(text[i])} \cup {Len(text) + 1}
           least == CHOOSE x \in S : \A y \in S : x <= y
<1>1. Len(text) \in Nat /\ DOMAIN text = 1..Len(text)  BY LenProperties
<1>2. Space(text) = least  BY DEF Space, Min, Blank
<1>3. /\ S \subseteq Nat /\ S # {}
      /\ \A x \in S : x \in 1..(Len(text) + 1) /\ (x <= Len(text) => Blank(text[x]))
      /\ \A k \in 1..Len(text) : Blank(text[k]) => k \in S
  BY <1>1
<1> HIDE DEF S
<1>4. PICK l \in S : \A y \in S : l <= y  BY <1>3, LeastNumber
<1>5. least \in S /\ \A y \in S : least <= y  BY <1>4
<1> HIDE DEF least
<1> QED  BY <1>2, <1>3, <1>5

\* What stands before the first space, and what after it.
LEMMA AroundSpace ==
  ASSUME NEW text \in Seq(STRING)
  PROVE  /\ BeforeSpace(text) \in Seq(STRING) /\ AfterSpace(text) \in Seq(STRING)
         /\ \A x : x \in ToSet(BeforeSpace(text)) <=>
                     \E k \in 1..Len(text) : k < Space(text) /\ x = text[k]
         /\ \A x : x \in ToSet(AfterSpace(text)) <=>
                     \E k \in 1..Len(text) : k > Space(text) /\ x = text[k]
<1> DEFINE n == Len(text)  sp == Space(text)
<1>1. n \in Nat /\ sp \in 1..(n + 1)  BY LenProperties, SpaceOf
<1>2. BeforeSpace(text) = SubSeq(text, 1, sp - 1)  BY DEF BeforeSpace
<1>3. AfterSpace(text) = SubSeq(text, sp + 1, n)  BY DEF AfterSpace
<1> HIDE DEF sp
<1>4. /\ BeforeSpace(text) \in Seq(STRING)
      /\ \A x : x \in ToSet(BeforeSpace(text)) <=> \E k \in 1..(sp - 1) : x = text[k]
  <2> DEFINE lo == 1  hi == sp - 1
  <2>1. lo \in 1..(n + 1) /\ hi \in Nat /\ hi <= n  BY <1>1
  <2>2. BeforeSpace(text) = SubSeq(text, lo, hi)  BY <1>2
  <2> HIDE DEF lo, hi
  <2>3. /\ BeforeSpace(text) \in Seq(STRING)
        /\ \A x : x \in ToSet(BeforeSpace(text)) <=> \E k \in lo..hi : x = text[k]
    BY <2>1, <2>2, SubSeqSet
  <2> QED  BY <2>3 DEF lo, hi
<1>5. \A k : k \in 1..(sp - 1) <=> k \in 1..n /\ k < sp  BY <1>1
<1>6. /\ AfterSpace(text) \in Seq(STRING)
      /\ \A x : x \in ToSet(AfterSpace(text)) <=> \E k \in (sp + 1)..n : x = text[k]
  <2>1. CASE sp <= n
    <3> DEFINE lo == sp + 1  hi == n
    <3>1. lo \in 1..(n + 1) /\ hi \in Nat /\ hi <= n  BY <1>1, <2>1
    <3>2. AfterSpace(text) = SubSeq(text, lo, hi)  BY <1>3
    <3> HIDE DEF lo, hi
    <3>3. /\ AfterSpace(text) \in Seq(STRING)
          /\ \A x : x \in ToSet(AfterSpace(text)) <=> \E k \in lo..hi : x = text[k]
      BY <3>1, <3>2, SubSeqSet
    <3> QED  BY <3>3 DEF lo, hi
  <2>2. CASE sp = n + 1
    <3>1. n < sp + 1 /\ sp + 1 \in Int /\ n \in Int  BY <1>1, <2>2
    <3> DEFINE e == <<>>
    <3>2. e \in Seq(STRING) /\ ToSet(e) = {}  BY DEF ToSet
    <3>3. AfterSpace(text) = e  BY <1>3, <3>1, SubSeqEmpty
    <3>4. \A k \in (sp + 1)..n : FALSE  BY <1>1, <2>2
    <3> HIDE DEF e
    <3> QED  BY <3>2, <3>3, <3>4
  <2> QED  BY <1>1, <2>1, <2>2
<1>7. \A k : k \in (sp + 1)..n <=> k \in 1..n /\ k > sp  BY <1>1
<1> QED  BY <1>4, <1>5, <1>6, <1>7 DEF sp, n

\* The list behind a mark, and the text behind the list.
LEMMA BehindTheMark ==
  ASSUME NEW body \in Seq(STRING), Len(body) > 1, ~Blank(body[2])
  PROVE  LET t == Tail(body) IN
         /\ body[2] \in ToSet(BeforeSpace(t))
         /\ ToSet(BeforeSpace(t)) \subseteq ToSet(body)
         /\ AfterSpace(t) \in Seq(STRING)
         /\ ToSet(AfterSpace(t)) \subseteq ToSet(AfterSpace(body))
         /\ ToSet(AfterSpace(body)) \subseteq ToSet(body)
<1> DEFINE t == Tail(body)  n == Len(t)  m == Len(body)  sp == Space(t)  bs == Space(body)
<1>1. m \in Nat /\ m > 1 /\ DOMAIN body = 1..m  BY LenProperties
<1>2. t \in Seq(STRING) /\ n = m - 1 /\ \A k \in 1..n : t[k] = body[k + 1]
  <2>1. body # <<>>
    <3>1. m # 0  BY <1>1
    <3> QED  BY <3>1, EmptySeq
  <2> QED  BY <2>1, HeadTailProperties
<1> HIDE DEF t
<1>3. /\ sp \in 1..(n + 1) /\ (sp <= n => Blank(t[sp]))
      /\ \A k \in 1..n : Blank(t[k]) => sp <= k
  BY <1>2, SpaceOf
<1>4. /\ bs \in 1..(m + 1)
      /\ \A k \in 1..m : Blank(body[k]) => bs <= k
  BY SpaceOf
<1>5. /\ AfterSpace(t) \in Seq(STRING)
      /\ \A x : x \in ToSet(BeforeSpace(t)) <=> \E k \in 1..n : k < sp /\ x = t[k]
      /\ \A x : x \in ToSet(AfterSpace(t)) <=> \E k \in 1..n : k > sp /\ x = t[k]
  BY <1>2, AroundSpace
<1>6. \A x : x \in ToSet(AfterSpace(body)) <=> \E k \in 1..m : k > bs /\ x = body[k]
  BY AroundSpace
<1>7. \A x : x \in ToSet(body) <=> \E k \in 1..m : x = body[k]  BY <1>1 DEF ToSet
<1> HIDE DEF n, m, sp, bs
<1>8. \A k \in 1..n : k + 1 \in 1..m  BY <1>1, <1>2
<1>9. body[2] \in ToSet(BeforeSpace(t))
  <2>1. 1 \in 1..n /\ 1 + 1 = 2  BY <1>1, <1>2
  <2>2. t[1] = body[2]  BY <1>2, <2>1
  <2>3. sp # 1  BY <1>3, <2>1, <2>2
  <2>4. 1 < sp  BY <1>3, <2>3
  <2> QED  BY <1>5, <2>1, <2>2, <2>4
<1>10. ToSet(BeforeSpace(t)) \subseteq ToSet(body)  BY <1>2, <1>5, <1>7, <1>8
<1>11. \A k \in 1..n : k > sp => k + 1 > bs
  <2> TAKE k \in 1..n
  <2> HAVE k > sp
  <2>1. sp \in 1..n /\ sp <= n  BY <1>1, <1>2, <1>3
  <2>2. Blank(body[sp + 1]) /\ sp + 1 \in 1..m  BY <1>2, <1>3, <1>8, <2>1
  <2>3. bs <= sp + 1  BY <1>4, <2>2
  <2> QED  BY <1>3, <1>4, <2>1, <2>3
<1>12. ToSet(AfterSpace(t)) \subseteq ToSet(AfterSpace(body))
  <2> SUFFICES ASSUME NEW x \in ToSet(AfterSpace(t)) PROVE x \in ToSet(AfterSpace(body))
    OBVIOUS
  <2>1. PICK k \in 1..n : k > sp /\ x = t[k]  BY <1>5
  <2>2. k + 1 \in 1..m /\ k + 1 > bs /\ x = body[k + 1]  BY <1>2, <1>8, <1>11, <2>1
  <2> QED  BY <1>6, <2>2
<1>13. ToSet(AfterSpace(body)) \subseteq ToSet(body)  BY <1>6, <1>7
<1> QED  BY <1>5, <1>9, <1>10, <1>12, <1>13 DEF t

\* The first of a text is in it.
LEMMA FirstIsIn ==
  ASSUME NEW s \in Seq(STRING), s # <<>>
  PROVE  s[1] \in ToSet(s) /\ (Len(s) = 1 \/ Len(s) > 1)
<1>1. Len(s) \in Nat /\ Len(s) # 0 /\ DOMAIN s = 1..Len(s)  BY EmptySeq, LenProperties
<1>2. 1 \in 1..Len(s)  BY <1>1
<1> QED  BY <1>1, <1>2 DEF ToSet

\* A directive that gives a reason says why, and one that covers a rule with a
\* reason names the rule or no rule.
LEMMA DirectiveOf ==
  ASSUME NEW text \in Seq(STRING), WellPut(text), NEW rule \in Rules,
         ParseSuppression(text).reason
  PROVE  /\ "why" \in ToSet(text)
         /\ Covers(ParseSuppression(text), rule) => Excuses(text, rule)
<1> DEFINE body == Trim(text)  t == Tail(body)  list == BeforeSpace(t)  after == AfterSpace(t)
           s == ParseSuppression(text)
<1>1. /\ body \in Seq(STRING) /\ ToSet(body) \subseteq ToSet(text)
      /\ \A x \in ToSet(text) : ~Blank(x) => x \in ToSet(body)
      /\ body # <<>> => ~Blank(body[1])
  BY TrimOf
<1>2. Rules \cap {"why", "=", ",", " "} = {}  BY RulesAssumption
<1>3. s = IF body # <<>> /\ body[1] = "="
          THEN [rules |-> Listed(list), all |-> ToSet(list) \subseteq {","},
                reason |-> Trim(after) # <<>>]
          ELSE [rules |-> {}, all |-> TRUE,
                reason |-> body # <<>> /\ ~malformedDisable(body)]
  BY DEF ParseSuppression
<1>4. \/ ToSet(body) \subseteq {"why", " "}
      \/ body[1] \in Rules /\ (Len(body) > 1 => body[2] \in {" ", ","})
      \/ /\ body[1] = "=" /\ Len(body) > 1 /\ body[2] \in Rules
         /\ ToSet(AfterSpace(body)) \subseteq {"why", " "}
  BY DEF WellPut
<1> HIDE DEF body, s
<1>5. s.reason /\ (Covers(ParseSuppression(text), rule) <=> Covers(s, rule))  BY DEF s
<1>6. body # <<>>  BY <1>3, <1>5
<1>7. body[1] \in ToSet(body) /\ (Len(body) = 1 \/ Len(body) > 1)  BY <1>1, <1>6, FirstIsIn
<1>8. CASE ToSet(body) \subseteq {"why", " "}
  <2>1. body[1] = "why"  BY <1>1, <1>6, <1>7, <1>8 DEF Blank
  <2>2. "why" \in ToSet(text)  BY <1>1, <1>7, <2>1
  <2>3. IDs(text) = {}  BY <1>1, <1>2, <1>8 DEF IDs, Blank
  <2> QED  BY <2>2, <2>3 DEF Excuses
<1>9. CASE body[1] \in Rules /\ (Len(body) > 1 => body[2] \in {" ", ","})
  <2>1. body[1] # "="  BY <1>2, <1>9
  <2>2. malformedDisable(body)  BY <1>6, <1>7, <1>9 DEF malformedDisable
  <2> QED  BY <1>3, <1>5, <2>1, <2>2
<1>10. CASE /\ body[1] = "=" /\ Len(body) > 1 /\ body[2] \in Rules
            /\ ToSet(AfterSpace(body)) \subseteq {"why", " "}
  <2>1. ~Blank(body[2])  BY <1>2, <1>10 DEF Blank
  <2>2. /\ body[2] \in ToSet(list) /\ ToSet(list) \subseteq ToSet(body)
        /\ after \in Seq(STRING) /\ ToSet(after) \subseteq ToSet(AfterSpace(body))
        /\ ToSet(AfterSpace(body)) \subseteq ToSet(body)
    BY <1>1, <1>10, <2>1, BehindTheMark
  <2> HIDE DEF list, after
  <2>3. s.rules = Listed(list) /\ (s.all <=> ToSet(list) \subseteq {","}) /\ Trim(after) # <<>>
    BY <1>3, <1>5, <1>6, <1>10
  <2>4. ~s.all  BY <1>2, <1>10, <2>2, <2>3
  <2>5. Listed(list) \subseteq IDs(text)
    <3>1. \A x \in Listed(list) : x \in ToSet(list) /\ x \in Rules  BY DEF Listed, ToSet
    <3> QED  BY <1>1, <2>2, <3>1 DEF IDs
  <2>6. "why" \in ToSet(after)
    <3> DEFINE r == Trim(after)
    <3>1. r \in Seq(STRING) /\ ToSet(r) \subseteq ToSet(after) /\ ~Blank(r[1]) /\ r # <<>>
      BY <2>2, <2>3, TrimOf
    <3> HIDE DEF r
    <3>2. r[1] \in ToSet(r)  BY <3>1, FirstIsIn
    <3> QED  BY <1>10, <2>2, <3>1, <3>2 DEF Blank
  <2> QED  BY <1>1, <1>5, <2>2, <2>3, <2>4, <2>5, <2>6 DEF Covers, Excuses
<1> QED  BY <1>4, <1>8, <1>9, <1>10

\* For every set of well-put directives and whatever the rules raise: a finding
\* that is neither reported nor switched off is excused by a directive of its own
\* file that gives a reason and names its rule or no rule, and a directive
\* without a reason is reported in its place.
THEOREM WhatIsHiddenIsExplained == Spec => []HiddenIsExplained
<1>1. ASSUME Inv, Audited, \A u \in Units : \A text \in input.texts[u] : WellPut(text),
             NEW f \in input.raised
      PROVE  \/ f.rule \in OffInConfig \cup {disable}
             \/ \E g \in report : g.rule = f.rule /\ g.unit = f.unit
             \/ \E text \in input.texts[f.unit] : Excuses(text, f.rule)
  <2>1. report = Shown /\ disabled = OffInConfig \cup ({disable} \cap Rules)
    BY <1>1, ReportOf DEF Audited
  <2> SUFFICES ASSUME f.rule \notin disabled
               PROVE  \/ \E g \in report : g.rule = f.rule /\ g.unit = f.unit
                      \/ \E text \in input.texts[f.unit] : Excuses(text, f.rule)
    BY <2>1
  <2> DEFINE g == [f EXCEPT !.severity = Configured(f.rule, @)]
  <2>2. f \in Finding  BY <1>1, InputTyped DEF Inv, Typed
  <2>3. f.rule \in Rules /\ f.unit \in Units /\ g.rule = f.rule /\ g.unit = f.unit
    BY <2>2 DEF Finding
  <2>4. g \in Passed  BY DEF Passed
  <2> HIDE DEF g
  <2>5. CASE ~Hidden(g)  BY <2>1, <2>3, <2>4, <2>5 DEF Shown
  <2>6. CASE Hidden(g)
    <3>1. PICK s \in Suppressions(f.unit) : s.reason /\ Covers(s, f.rule)
      BY <2>3, <2>6 DEF Hidden
    <3>2. PICK text \in input.texts[f.unit] : s = ParseSuppression(text)
      BY <3>1 DEF Suppressions
    <3>3. text \in Seq(STRING) /\ WellPut(text)
      BY <1>1, <2>3, <3>2, InputTyped DEF Inv, Typed
    <3>4. Excuses(text, f.rule)  BY <2>3, <3>1, <3>2, <3>3, DirectiveOf
    <3> QED  BY <3>4
  <2> QED  BY <2>5, <2>6
<1>2. ASSUME Inv, Audited, \A u \in Units : \A text \in input.texts[u] : WellPut(text),
             NEW u \in Units, NEW text \in input.texts[u]
      PROVE  \/ "why" \in ToSet(text)
             \/ "QD000" \in OffInConfig \cup {disable}
             \/ \E g \in report : g.rule = "QD000" /\ g.unit = u
  <2>1. report = Shown /\ disabled = OffInConfig \cup ({disable} \cap Rules)
    BY <1>2, ReportOf DEF Audited
  <2> SUFFICES ASSUME "why" \notin ToSet(text), "QD000" \notin disabled
               PROVE  \E g \in report : g.rule = "QD000" /\ g.unit = u
    BY <2>1
  <2>2. text \in Seq(STRING) /\ WellPut(text)  BY <1>2, InputTyped DEF Inv, Typed
  <2>3. ~ParseSuppression(text).reason
    <3>1. "QD000" \in Rules  BY RulesAssumption
    <3> QED  BY <2>2, <3>1, DirectiveOf
  <2>4. \E s \in Suppressions(u) : ~s.reason  BY <2>3 DEF Suppressions
  <2> DEFINE g == [rule |-> "QD000", unit |-> u, severity |-> QD000Severity]
  <2>5. g \in Unreasoned  BY <2>4 DEF Unreasoned
  <2>6. g.rule = "QD000" /\ g.unit = u  OBVIOUS
  <2> HIDE DEF g
  <2> QED  BY <2>1, <2>5, <2>6 DEF Shown
<1>3. Inv => HiddenIsExplained  BY <1>1, <1>2 DEF HiddenIsExplained
<1> QED  BY <1>3, SpecInv, PTL

\* The status is that of the severities asked for.
LEMMA StatusOfAsked ==
  ASSUME Inv, Audited
  PROVE  LET asked == {Asked(f.rule, "warning") : f \in {g \in report : g.rule = "QD000"}}
               \cup {Asked(f.rule, f.severity) : f \in
                      {g \in input.raised : \E h \in report : h.rule = g.rule /\ h.unit = g.unit}}
         IN  /\ exit = 2 <=> "error" \in asked
             /\ exit = 0 <=> asked \subseteq {"note"}
<1> DEFINE kept  == {g \in input.raised : \E h \in report : h.rule = g.rule /\ h.unit = g.unit}
           mine  == {g \in report : g.rule = "QD000"}
           asked == {Asked(f.rule, "warning") : f \in mine} \cup {Asked(f.rule, f.severity) : f \in kept}
           shown == {f.severity : f \in report}
<1>1. /\ report = Shown /\ exit = ExitCode(report)
      /\ \A r \in Rules : \A default : Asked(r, default) = Configured(r, default)
  BY ReportOf DEF Audited
<1>2. "QD000" \in Rules  BY RulesAssumption
<1>3. \A f \in input.raised : f \in Finding /\ f.rule # "QD000"
  BY InputTyped DEF Inv, Typed
<1>4. \A f \in Unreasoned : f.rule = "QD000" /\ f.severity = Configured("QD000", "warning")
  BY DEF Unreasoned, QD000Severity
<1>5. ASSUME NEW f \in Passed
      PROVE  \E g \in input.raised : /\ g.rule \notin disabled /\ f.rule = g.rule /\ f.unit = g.unit
                                     /\ f.severity = Configured(g.rule, g.severity)
  <2>1. PICK g \in input.raised : /\ g.rule \notin disabled
                                  /\ f = [g EXCEPT !.severity = Configured(g.rule, @)]
    BY DEF Passed
  <2> QED  BY <1>3, <2>1 DEF Finding
<1>6. ASSUME NEW g \in input.raised, g.rule \notin disabled
      PROVE  \E f \in Passed : /\ f.rule = g.rule /\ f.unit = g.unit
                               /\ f.severity = Configured(g.rule, g.severity)
  <2> DEFINE f == [g EXCEPT !.severity = Configured(g.rule, @)]
  <2>1. f \in Passed  BY <1>6 DEF Passed
  <2>2. f.rule = g.rule /\ f.unit = g.unit /\ f.severity = Configured(g.rule, g.severity)
    BY <1>3 DEF Finding
  <2> HIDE DEF f
  <2> QED  BY <2>1, <2>2
<1>7. shown \subseteq asked
  <2> SUFFICES ASSUME NEW f \in report PROVE f.severity \in asked  OBVIOUS
  <2>1. CASE f \in Unreasoned
    <3>1. f \in mine /\ f.severity = Asked(f.rule, "warning")  BY <1>1, <1>2, <1>4, <2>1
    <3> QED  BY <3>1
  <2>2. CASE f \in Passed
    <3>1. PICK g \in input.raised : /\ f.rule = g.rule /\ f.unit = g.unit
                                    /\ f.severity = Configured(g.rule, g.severity)
      BY <1>5, <2>2
    <3>2. g \in kept /\ g.rule \in Rules  BY <1>3, <3>1 DEF Finding
    <3>3. f.severity = Asked(g.rule, g.severity)  BY <1>1, <3>1, <3>2
    <3> QED  BY <3>2, <3>3
  <2> QED  BY <1>1, <2>1, <2>2 DEF Shown
<1>8. asked \subseteq shown
  <2>1. ASSUME NEW f \in mine PROVE Asked(f.rule, "warning") \in shown
    <3>1. f \notin Passed  BY <1>3, <1>5
    <3>2. f \in Unreasoned  BY <1>1, <3>1 DEF Shown
    <3>3. f.severity = Asked(f.rule, "warning")  BY <1>1, <1>2, <1>4, <3>2
    <3> QED  BY <3>3
  <2>2. ASSUME NEW g \in kept PROVE Asked(g.rule, g.severity) \in shown
    <3>1. PICK h \in report : h.rule = g.rule /\ h.unit = g.unit  OBVIOUS
    <3>2. g \in input.raised /\ g.rule \in Rules /\ g.rule # "QD000"  BY <1>3 DEF Finding
    <3> HIDE DEF kept
    <3>3. h \notin Unreasoned  BY <1>4, <3>1, <3>2
    <3>4. h \in Passed /\ ~Hidden(h)  BY <1>1, <3>3 DEF Shown
    <3>5. g.rule \notin disabled  BY <1>5, <3>1, <3>4
    <3>6. PICK f \in Passed : /\ f.rule = g.rule /\ f.unit = g.unit
                              /\ f.severity = Configured(g.rule, g.severity)
      BY <1>6, <3>2, <3>5
    <3>7. ~Hidden(f)  BY <3>1, <3>4, <3>6 DEF Hidden
    <3>8. f \in report  BY <1>1, <3>6, <3>7 DEF Shown
    <3>9. f.severity = Asked(g.rule, g.severity)  BY <1>1, <3>2, <3>6
    <3> QED  BY <3>8, <3>9
  <2> QED  BY <2>1, <2>2
<1>9. shown \subseteq Severities  BY DEF Inv, Typed, TypeOK, Finding
<1>10. exit = IF "error" \in shown THEN 2 ELSE IF "warning" \in shown THEN 1 ELSE 0
  BY <1>1 DEF ExitCode
<1> HIDE DEF shown
<1>11. exit = 2 <=> "error" \in shown  BY <1>10
<1>12. exit = 0 <=> "error" \notin shown /\ "warning" \notin shown  BY <1>10
<1>13. "error" \notin shown /\ "warning" \notin shown <=> shown \subseteq {"note"}
  BY <1>9 DEF Severities
<1> QED  BY <1>7, <1>8, <1>11, <1>12, <1>13

\* The status is what the reported findings amount to at the severities the last
\* lines of the configuration ask for: 2 with an error, 0 with notes alone.
THEOREM ExitStatusIsEarned == Spec => []StatusIsEarned
<1>1. Inv => StatusIsEarned  BY StatusOfAsked DEF StatusIsEarned
<1> QED  BY <1>1, SpecInv, PTL
=============================================================================
