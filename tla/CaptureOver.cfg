\* The same directory is captured into again.
CONSTANTS
  Tables = {"table"}
  Ports = {"80"}
  Ranges = {"r1", "r2"}
  UnitPaths = {"a.container"}
  Missing = Missing
  Unknown = Unknown
  Unread = Unread
  Asked = {"enforce", "units", "rootless"}
  Hosts <- MCOneHost
  OldDirs <- MCEmpty
  MaxChanges = 1
  MaxCaptures = 2
  MaxReaders = 0
SPECIFICATION Spec
INVARIANT SameAbsence
\* The host, the captures and the lint runs are bounded.
CHECK_DEADLOCK FALSE
