------------------------------- MODULE Parser -------------------------------
(***************************************************************************)
(* quadlet.Parse as it runs: one pass over the physical lines, gathering   *)
(* an entry's continuation line by line. UnitFile says what the result     *)
(* should be; here it is shown to be that.                                 *)
(***************************************************************************)
EXTENDS UnitFile

CONSTANT Files  \* the files that are parsed

ASSUME FilesAssumption == \A f \in Files : f \in Seq([face : Faces, name : STRING, val : Seq(Atoms), bs : BOOLEAN])

VARIABLES
  physical,  \* the lines of the file
  next,      \* the next physical line to read
  section,   \* the section in force
  group,     \* the physical lines of the entry being gathered
  raw,       \* its last content line
  lines      \* the logical lines so far

vars == <<physical, next, section, group, raw, lines>>

Init ==
  /\ physical \in Files
  /\ next = 1 /\ section = "" /\ group = <<>> /\ raw = Blank /\ lines = <<>>

Reading == group = <<>> /\ next <= Len(physical)

\* A blank line, a comment or a section header is a logical line of its own.
Single ==
  /\ Reading /\ ~Continues(physical[next])
  /\ lines' = Append(lines, Line(<<physical[next]>>, next, section))
  /\ section' = IF physical[next].face = "section" THEN physical[next].name
                                                  ELSE section
  /\ next' = next + 1
  /\ UNCHANGED <<physical, group, raw>>

Begin ==
  /\ Reading /\ Continues(physical[next])
  /\ group' = <<physical[next]>> /\ raw' = physical[next]
  /\ next' = next + 1
  /\ UNCHANGED <<physical, section, lines>>

\* The last content line is open: take the next line, whatever it is.
More == raw.bs /\ next <= Len(physical)

\* Mutant: a comment inside a continuation counts as content.
LastAny(line, before) == line

LastOf(line, before) == IF skipped(line) THEN before ELSE line

\* Mutant: comments inside a continuation are dropped.
GatherContent ==
  /\ group # <<>> /\ More
  /\ group' = IF skipped(physical[next]) THEN group ELSE Append(group, physical[next])
  /\ raw' = LastOf(physical[next], raw)
  /\ next' = next + 1
  /\ UNCHANGED <<physical, section, lines>>

Gather ==
  /\ group # <<>> /\ More
  /\ group' = Append(group, physical[next])
  /\ raw' = LastOf(physical[next], raw)
  /\ next' = next + 1
  /\ UNCHANGED <<physical, section, lines>>

\* Mutant: an entry cites its last line.
EndCitesLast ==
  /\ group # <<>> /\ ~More
  /\ lines' = Append(lines, Line(group, next - 1, section))
  /\ group' = <<>> /\ raw' = Blank
  /\ UNCHANGED <<physical, next, section>>

\* Mutant: a file may not end inside a continuation.
EndWhenClosed ==
  /\ group # <<>> /\ ~raw.bs
  /\ lines' = Append(lines, Line(group, next - Len(group), section))
  /\ group' = <<>> /\ raw' = Blank
  /\ UNCHANGED <<physical, next, section>>

End ==
  /\ group # <<>> /\ ~More
  /\ lines' = Append(lines, Line(group, next - Len(group), section))
  /\ group' = <<>> /\ raw' = Blank
  /\ UNCHANGED <<physical, next, section>>

Next == Single \/ Begin \/ Gather \/ End

Spec == Init /\ [][Next]_vars /\ WF_vars(Next)

-----------------------------------------------------------------------------
Done == group = <<>> /\ next > Len(physical)

TypeOK ==
  /\ physical \in Files
  /\ next \in 1..(Len(physical) + 1)
  /\ Len(group) < next
  /\ \A i \in DOMAIN group : group[i] = physical[next - Len(group) - 1 + i]

\* "For an unmodified file the result is byte-identical to the input": at every
\* moment the logical lines and the group being gathered tile the physical
\* lines read so far, each citing the line it starts at, with nothing dropped
\* or taken twice.
Tiled ==
  LET start(k) == IF k <= Len(lines) THEN lines[k].number
                                     ELSE next - Len(group)
  IN  /\ start(1) = 1
      /\ \A k \in DOMAIN lines :
           /\ start(k) < start(k + 1)
           /\ lines[k].raw = SubSeq(physical, start(k), start(k + 1) - 1)

\* The loop computes the declarative definition: an entry ends where its last
\* content line is not open, and comments inside do not count as content.
AgreesWithParse == Done => lines = Parse(physical) /\ Render(lines) = physical

\* Parsing ends, on any file.
Terminates == <>Done
=============================================================================
