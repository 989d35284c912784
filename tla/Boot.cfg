\* Mending findings, converted or not, and booting what comes of it.
SPECIFICATION Spec
CONSTANTS
  a = a
  b = b
  Containers = {a, b}
  Target = Target
  Lines = {"l1", "l2"}
  LateLine = "l2"
  Sources = {"data.volume", "data", "srv.volume", "/srv"}
  HostPaths = {"/srv"}
  Devices = {"srv.volume"}
  Colon = Colon
  Dash = Dash
  Slash = Slash
  Open = Open
  Close = Close
  V4 = V4
  Tcp = Tcp
  Udp = Udp
  NoMount = NoMount
  NoImage = NoImage
  NoID = NoID
  NamedID = NamedID
  Situations <- MCSituations
  PlaceOf <- MCPlaceOf
  ComposeProjects <- MCComposeProjects
  Volumes <- MCVolumes
  VolumeUnit <- MCVolumeUnit
  HostPlaces = {"srv"}
  Fresh = Fresh
  ImageUser = 33
  MaxMends = 2
INVARIANTS TypeOK FailuresAreForetold MendedStaysMended
PROPERTIES RemediesRaiseNothing ExposureKept MigrationKept
\* Once everything is off or failed the machine may stay that way.
CHECK_DEADLOCK FALSE
