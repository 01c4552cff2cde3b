SPECIFICATION Spec
CONSTANTS
  base = base
  images = images
  config = config
  managed = managed
  Releases = {base, images, config, managed}
  NoRelease = NoRelease
  Policy <- MCPolicy
  MaxFaults = 0
INVARIANTS
  StoppedIsNoEvidenceError
CHECK_DEADLOCK FALSE
