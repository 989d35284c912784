\* The whole directory, with failures and kills but nobody else at work.
CONSTANTS
  Containers <- MCContainers
  Networks = {"infra.network", "shared.network"}
  Sources = {"/data", "/etc", "/logs"}
  SystemSources = {"/etc"}
  Slots = {1, 2}
  Absent = Absent
  NoMount = NoMount
  Shared = "shared.network"
  NoNet = NoNet
  Rank <- MCRank
  Contents <- MCContentsTwo
  Invocations <- MCWhole
  NoRun = NoRun
  MaxRuns = 2
  MaxEdits = 0
  MaxFaults = 1
SPECIFICATION SpecClean
INVARIANTS TypeOK NoPrivateOnShared WritesArePrefix
PROPERTIES Termination ImplementsStore
\* The runs end when MaxRuns invocations have.
CHECK_DEADLOCK FALSE
