SPECIFICATION Spec
CONSTANTS
  Reqs = {r1}
  Orders = {o1}
  NoOrder = NoOrder
  Ops = {"place"}
  GuardConfigured = TRUE
  MaxCrashes = 0
INVARIANT
  RejectedWasNeverPlaced
