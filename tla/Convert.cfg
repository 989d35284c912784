SPECIFICATION Spec
CONSTANTS
  Projects <- MCProjects
  ComposeFiles <- MCFiles
  Invalid = Invalid
  NoRun = NoRun
  Rank <- MCRank
  PodFlags = {FALSE, TRUE}
  MaxRuns = 3
  MaxEdits = 2
  MaxFaults = 1
CHECK_DEADLOCK FALSE
INVARIANTS TypeOK EndsAsItSays KeepsIsolation Resolves
