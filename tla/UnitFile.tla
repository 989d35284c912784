------------------------------ MODULE UnitFile ------------------------------
(***************************************************************************)
(* A unit file line by line, and what quadlet.Parse makes of it: physical  *)
(* lines, the logical lines they form, and the accessors over them.        *)
(*                                                                         *)
(* A physical line is reduced to what the parser looks at: what its first  *)
(* and last characters make of it (face), the section or key it names, the *)
(* atoms of its value, and whether it ends in a backslash. White space is  *)
(* left out, and so is the final newline, which Render reproduces.         *)
(***************************************************************************)
EXTENDS Naturals, Sequences, SequencesExt

CONSTANT Atoms  \* the pieces of text values are made of

Faces == {"blank", "comment", "section", "entry", "text"}

\* "text" is a line that is none of the others: no "=", or nothing before it.
Blank          == [face |-> "blank", name |-> "", val |-> <<>>, bs |-> FALSE]
Comment        == [face |-> "comment", name |-> "", val |-> <<>>, bs |-> FALSE]
Header(name)   == [face |-> "section", name |-> name, val |-> <<>>, bs |-> FALSE]
Assign(k, v)   == [face |-> "entry", name |-> k, val |-> v, bs |-> FALSE]
Open(line)     == [line EXCEPT !.bs = TRUE]

\* What a line contributes to the value of the entry it continues: all of it.
Text(line) ==
  IF line.face = "section" THEN <<"[", line.name, "]">>
  ELSE IF line.face = "entry" THEN <<line.name, "=">> \o line.val
  ELSE line.val

\* A blank or comment line inside a continuation.
skipped(line) == line.face \in {"blank", "comment"}

Content(phys, i, j) == {k \in i..j : ~skipped(phys[k])}

-----------------------------------------------------------------------------
(* Logical lines.                                                          *)

Kind(group) ==
  CASE group[1].face = "blank"   -> "LineBlank"
    [] group[1].face = "comment" -> "LineComment"
    [] group[1].face = "section" -> "LineSection"
    [] group[1].face = "entry"   -> "LineEntry"
    [] group[1].face = "text"    -> "LineUnknown"

\* The value of a group: that of its first line and the text of every further
\* line that is not skipped, with nothing in between.
Joined(group) ==
  FoldLeft(LAMBDA v, line : IF skipped(line) THEN v ELSE v \o Text(line),
           group[1].val, Tail(group))

splitEntry(group) == [key |-> group[1].name, value |-> Joined(group)]

Line(group, number, section) ==
  LET kind == Kind(group) IN
  [kind    |-> kind,
   raw     |-> group,
   number  |-> number,
   section |-> CASE kind = "LineSection" -> group[1].name
                 [] kind = "LineEntry"   -> section
                 [] OTHER                -> "",
   key     |-> IF kind = "LineEntry" THEN splitEntry(group).key ELSE "",
   value   |-> IF kind = "LineEntry" THEN splitEntry(group).value ELSE <<>>]

\* Where the logical line that starts at i ends: entries and unknown lines
\* reach up to the first line after which the last content line is not open.
Continues(line) == line.face \in {"entry", "text"}

Ends(phys, i, j) ==
  ~phys[CHOOSE k \in Content(phys, i, j) :
          \A m \in Content(phys, i, j) : m <= k].bs

EndOf(phys, i) ==
  IF ~Continues(phys[i]) THEN i
  ELSE LET stops == {j \in i..Len(phys) : Ends(phys, i, j)} \cup {Len(phys)}
       IN  CHOOSE j \in stops : \A k \in stops : j <= k

\* The logical lines of a file from line i on, within a section.
ParseFrom(phys) ==
  LET from[i \in 1..(Len(phys) + 1)] ==
        [section \in {p.name : p \in ToSet(phys)} \cup {""} |->
           IF i > Len(phys) THEN <<>>
           ELSE LET j    == EndOf(phys, i)
                    line == Line(SubSeq(phys, i, j), i, section)
                IN  <<line>> \o
                    from[j + 1][IF line.kind = "LineSection" THEN line.section
                                                             ELSE section]]
  IN  from

\* Every logical line of a file, in order.
Parse(phys) == ParseFrom(phys)[1][""]

Render(lines) == FlattenSeq([i \in DOMAIN lines |-> lines[i].raw])

-----------------------------------------------------------------------------
(* Accessors.                                                              *)

Entries(lines) == SelectSeq(lines, LAMBDA l : l.kind = "LineEntry")

Section(lines, name) == SelectSeq(Entries(lines), LAMBDA l : l.section = name)

\* Nothing is left open at the end of the file.
Terminated(phys) ==
  \A i \in DOMAIN phys :
    (Content(phys, i, Len(phys)) = {i} /\ Continues(phys[i])) => ~phys[i].bs
=============================================================================
