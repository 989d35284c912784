\* Every pair of files of up to four lines.
CONSTANTS
  Texts <- MCTexts
  MaxLength = 4
SPECIFICATION Spec
INVARIANTS Truthful Shortest
\* A preview is finished.
CHECK_DEADLOCK FALSE
