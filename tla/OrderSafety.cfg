SPECIFICATION SafetySpec
CONSTANTS
  Reqs = {r1, r2}
  Orders = {o1, o2}
  NoOrder = NoOrder
  Ops = {"place", "modify", "cancel"}
  GuardConfigured = TRUE
  MaxCrashes = 1
SYMMETRY Symmetry
PROPERTY
  ImplementsPromise
INVARIANTS
  TypeOK
  AuditSound
  AuditComplete
  EventProtocol
  FreezeBarrier
  RealTimeSequence
