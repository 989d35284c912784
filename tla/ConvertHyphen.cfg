SPECIFICATION Spec
CONSTANTS
  Projects <- MCHyphens
  ComposeFiles <- MCHyphenFiles
  Invalid = Invalid
  NoRun = NoRun
  Rank <- MCRank
  PodFlags = {FALSE}
  MaxRuns = 2
  MaxEdits = 0
  MaxFaults = 0
CHECK_DEADLOCK FALSE
INVARIANTS ProjectsDoNotCollide
