SPECIFICATION Spec
CONSTANTS
  base = base
  images = images
  config = config
  managed = managed
  Releases = {base, images, config, managed}
  NoRelease = NoRelease
  Policy <- MCPolicy
  MaxFaults = 3
INVARIANTS
  TypeOK
  ContainersHaveCredential
PROPERTIES
  PinsFollowContainers
  MarkerSealsRelease
  OnlyPlannedContainers
CHECK_DEADLOCK FALSE
