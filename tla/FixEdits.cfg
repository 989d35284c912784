\* fix twice over every short file whose last entry is complete, saved anew or not
\* between the audit and the fix.
CONSTANTS
  Atoms <- MCAtoms
  Files <- MCFiles
  Saved <- MCSaved
  HostPaths <- MCHostPaths
  SharedSources <- MCShared
  NetworkUnit <- MCNetworkUnit
SPECIFICATION Spec
INVARIANTS LinesKept ReadsBackAsEdited Idempotent FixedOrReported
\* The second run is the last.
CHECK_DEADLOCK FALSE
