SPECIFICATION FairSpec
CONSTANTS
  Reqs = {r1, r2}
  Orders = {o1}
  NoOrder = NoOrder
  Ops = {"place", "cancel"}
  GuardConfigured = FALSE
  MaxCrashes = 1
PROPERTIES
  RequestReturns
  SuccessIsAudited
CHECK_DEADLOCK FALSE
