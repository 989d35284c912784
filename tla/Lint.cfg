\* Configuration, directives and the SELinux mode, and every finding mended as it
\* advises, in any order.
CONSTANTS
  Containers <- MCContainers
  Networks = {}
  Sources = {"/data", "/db", "/web", "/etc"}
  SystemSources = {"/etc"}
  Slots = {1, 2}
  Absent = Absent
  NoMount = NoMount
  NoNet = NoNet
  Units <- MCUnits
  Modes = {"unknown", "disabled", "permissive"}
  Filesystems <- MCEither
  OwnSource <- MCOwn
  Settings <- MCSettings
  Comments <- MCComments
  NoFinding = NoFinding
  MaxMends = 15
SPECIFICATION Spec
INVARIANTS AdviceHolds Settles HostWins
\* Nothing is left to mend, or the bound is reached.
CHECK_DEADLOCK FALSE
