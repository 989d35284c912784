-------------------------------- MODULE Diff --------------------------------
(***************************************************************************)
(* fix.Diff: the preview of a change, and the only thing a person sees     *)
(* before they run fix again with --write. The longest common subsequence  *)
(* is read off a table; then both files are walked along it.               *)
(***************************************************************************)
EXTENDS Integers, Sequences, SequencesExt

CONSTANTS
  Texts,     \* the lines a file may consist of
  MaxLength  \* bound: lines of a file

ASSUME LengthAssumption == MaxLength \in Nat

Files == BoundedSeq(Texts, MaxLength)

VARIABLES
  before, after, table, lcs,
  i, j,  \* the next line of either file, in longestCommonSubsequence and then in diffLines
  out, pc

vars == <<before, after, table, lcs, i, j, out, pc>>

-----------------------------------------------------------------------------
(* longestCommonSubsequence: the table, and the walk along it.             *)

Cells(a, b)   == (1..(Len(a) + 1)) \X (1..(Len(b) + 1))
NextOfA(c)    == <<c[1] + 1, c[2]>>
NextOfB(c)    == <<c[1], c[2] + 1>>
NextOfBoth(c) == <<c[1] + 1, c[2] + 1>>

\* Mutant: only one of the two continuations is tried.
OneSided(a, b) ==
  LET t[c \in Cells(a, b)] ==
        IF c[1] > Len(a) \/ c[2] > Len(b) THEN 0
        ELSE IF a[c[1]] = b[c[2]] THEN t[NextOfBoth(c)] + 1 ELSE t[NextOfB(c)]
  IN  t

\* In each cell: how many lines a and b have in common from there on.
Table(a, b) ==
  LET t[c \in Cells(a, b)] ==
        IF c[1] > Len(a) \/ c[2] > Len(b) THEN 0
        ELSE IF a[c[1]] = b[c[2]] THEN t[NextOfBoth(c)] + 1
        ELSE IF t[NextOfA(c)] >= t[NextOfB(c)] THEN t[NextOfA(c)] ELSE t[NextOfB(c)]
  IN  t

Init ==
  /\ before \in Files /\ after \in Files
  /\ table = Table(before, after)
  /\ lcs = <<>> /\ out = <<>>
  /\ i = 1 /\ j = 1 /\ pc = "match"

Inside == i <= Len(before) /\ j <= Len(after)

Match ==
  /\ pc = "match" /\ Inside /\ before[i] = after[j]
  /\ lcs' = Append(lcs, before[i]) /\ i' = i + 1 /\ j' = j + 1
  /\ UNCHANGED <<before, after, table, out, pc>>

PassBefore ==
  /\ pc = "match" /\ Inside /\ before[i] # after[j]
  /\ table[<<i + 1, j>>] >= table[<<i, j + 1>>]
  /\ i' = i + 1
  /\ UNCHANGED <<before, after, table, lcs, j, out, pc>>

PassAfter ==
  /\ pc = "match" /\ Inside /\ before[i] # after[j]
  /\ ~(table[<<i + 1, j>>] >= table[<<i, j + 1>>])
  /\ j' = j + 1
  /\ UNCHANGED <<before, after, table, lcs, i, out, pc>>

Matched ==
  /\ pc = "match" /\ ~Inside
  /\ pc' = "walk" /\ i' = 1 /\ j' = 1
  /\ UNCHANGED <<before, after, table, lcs, out>>

-----------------------------------------------------------------------------
(* diffLines.                                                              *)

Emit(sign, text) == out' = Append(out, [sign |-> sign, text |-> text])

\* A line of one side only; when the common lines are used up, what is left.
Ahead(file, at) == at <= Len(file) /\ (lcs # <<>> => file[at] # Head(lcs))

Removed ==
  /\ pc = "walk" /\ Ahead(before, i)
  /\ Emit("-", before[i]) /\ i' = i + 1
  /\ UNCHANGED <<before, after, table, j, lcs, pc>>

Added ==
  /\ pc = "walk" /\ ~Ahead(before, i) /\ Ahead(after, j)
  /\ Emit("+", after[j]) /\ j' = j + 1
  /\ UNCHANGED <<before, after, table, i, lcs, pc>>

\* Mutant: a common line is not taken from the second file.
CommonNotTaken ==
  /\ pc = "walk" /\ ~Ahead(before, i) /\ ~Ahead(after, j) /\ lcs # <<>>
  /\ Emit(" ", Head(lcs)) /\ lcs' = Tail(lcs) /\ i' = i + 1
  /\ UNCHANGED <<before, after, table, j, pc>>

Common ==
  /\ pc = "walk" /\ ~Ahead(before, i) /\ ~Ahead(after, j) /\ lcs # <<>>
  /\ Emit(" ", Head(lcs)) /\ lcs' = Tail(lcs) /\ i' = i + 1 /\ j' = j + 1
  /\ UNCHANGED <<before, after, table, pc>>

Done ==
  /\ pc = "walk" /\ i > Len(before) /\ j > Len(after) /\ lcs = <<>>
  /\ pc' = "done"
  /\ UNCHANGED <<before, after, table, i, j, lcs, out>>

Next == Match \/ PassBefore \/ PassAfter \/ Matched \/ Removed \/ Added \/ Common \/ Done

Spec == Init /\ [][Next]_vars
-----------------------------------------------------------------------------
(* Properties.                                                             *)

\* The texts of the lines of the preview that carry one of the signs.
Shown(signs) ==
  FlattenSeq([k \in DOMAIN out |-> IF out[k].sign \in signs THEN <<out[k].text>> ELSE <<>>])

\* The preview tells the truth: at every moment of the walk its unsigned and "-"
\* lines are the file as it is, its unsigned and "+" lines the file as it will be,
\* as far as either has been walked, and both are walked to the end.
Truthful ==
  pc # "match" =>
    /\ Shown({" ", "-"}) = SubSeq(before, 1, i - 1) /\ i <= Len(before) + 1
    /\ Shown({" ", "+"}) = SubSeq(after, 1, j - 1) /\ j <= Len(after) + 1
    /\ pc = "done" => i = Len(before) + 1 /\ j = Len(after) + 1

\* n of the positions p..m, in order.
Rising(n, p, m) == {f \in [1..n -> p..m] : \A k \in 1..n : k > 1 => f[k - 1] < f[k]}

\* It is a shortest such preview: no common subsequence of the two files is longer
\* than the unsigned lines. The comment at fix.go:443-445 says that diffLines "is not
\* a minimal edit script"; counted in lines removed and added, it always is one.
Shortest ==
  pc = "done" =>
    \A n \in 0..Len(before) :
      (\E f \in Rising(n, 1, Len(before)), g \in Rising(n, 1, Len(after)) :
         \A k \in 1..n : before[f[k]] = after[g[k]])
      => n <= Len(Shown({" "}))
=============================================================================
