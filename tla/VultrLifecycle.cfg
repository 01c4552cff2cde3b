SPECIFICATION Spec
CONSTANTS
  MaxObjects = 4
  MaxFaults = 2
  Attempts = 2
INVARIANTS
  TypeOK
  AtMostOneMachine
  DestroyStaysWithinAuthority
  CleanupSparesBoundGroups
  ReleaseIsComplete
  VpcDeleteSparesAttachments
