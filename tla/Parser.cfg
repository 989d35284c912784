\* All files of up to four lines.
CONSTANTS
  Atoms <- MCAtoms
  Files <- MCFiles
SPECIFICATION Spec
INVARIANTS TypeOK Tiled AgreesWithParse
PROPERTY Terminates
\* Parsing stops at the end of the file.
CHECK_DEADLOCK FALSE
