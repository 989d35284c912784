\* A capture, cut short or not, of a changing host, and a lint run that asks the host or the directory meanwhile.
CONSTANTS
  Tables = {"table"}
  Ports = {"80"}
  Ranges = {"r1", "r2"}
  UnitPaths = {"a.container"}
  Missing = Missing
  Unknown = Unknown
  Unread = Unread
  Asked = {"enforce", "units", "rootless"}
  Hosts <- MCHosts
  OldDirs <- MCLegacy
  MaxChanges = 1
  MaxCaptures = 1
  MaxReaders = 1
SPECIFICATION Spec
INVARIANTS TypeOK ReplayAgrees CaptureIsPrefix OneAnswer
\* The host, the captures and the lint runs are bounded.
CHECK_DEADLOCK FALSE
