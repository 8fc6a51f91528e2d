SPECIFICATION MixedSpec
CONSTANTS
  u1 = u1
  u2 = u2
  u3 = u3
  c1 = c1
  c2 = c2
  c3 = c3
  Users = {u1, u2}
  Calls = {c1, c2, c3}
  Ops = {"suspend", "role", "delete", "login"}
  Wiped <- TwoStores
  Fallible = {"paper"}
SYMMETRY Symmetry
INVARIANTS
  TypeOK
  BanLogsOut
  SuspensionFreezes
  NothingOutlivesDeletion
PROPERTY
  GuardKeepsAnAdmin
CHECK_DEADLOCK FALSE
