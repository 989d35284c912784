\* Directories and named files, writing and previewing, invocation after invocation,
\* while a person edits the directory.
CONSTANTS
  Containers <- MCContainers
  Networks = {"shared.network"}
  Sources = {"/data", "/etc", "/logs"}
  SystemSources = {"/etc"}
  Slots = {1}
  Absent = Absent
  NoMount = NoMount
  Shared = "shared.network"
  NoNet = NoNet
  Rank <- MCRankOne
  Contents <- MCContents
  Invocations <- MCMixed
  NoRun = NoRun
  MaxRuns = 3
  MaxEdits = 1
  MaxFaults = 0
SPECIFICATION Spec
INVARIANTS NothingNewNothingForgotten Idempotent
PROPERTY CreatedNeverClobbers
\* The runs end when MaxRuns invocations have.
CHECK_DEADLOCK FALSE
