SPECIFICATION Spec
CONSTANTS
  start = start
  stop = stop
  apply = apply
  recover = recover
  r1 = r1
  r2 = r2
  NoRelease = NoRelease
  NoOp = NoOp
  NoNet = NoNet
  Ops = {start, stop, apply, recover}
  Releases = {r1, r2}
  Nets = {n1, n2}
  ActionOf <- MCActionOf
  Targets <- MCTargets
INVARIANTS
  TypeOK
  CaptureHasBaseline
  OneEffectPerOperation
  VerifiedStartStopHappened
PROPERTIES
  CaptureDecidedOverRecordedNetwork
  BaselineRetiredRestored
