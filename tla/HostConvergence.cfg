SPECIFICATION Spec
CONSTANTS
  Releases = {r1, r2}
  NoRelease = NoRelease
INVARIANTS
  TypeOK
  UnprovenReadbackBlocks
  RunTargetHasPriority
  ProposalsValidate
  NoopMeansConverged
PROPERTY
  OneEffectConverges
