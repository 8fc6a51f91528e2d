SPECIFICATION Spec
CONSTANTS
  u1 = u1
  u2 = u2
  u3 = u3
  c1 = c1
  c2 = c2
  c3 = c3
  Users = {u1}
  Calls = {c1}
  Ops = {"delete"}
  Wiped <- OneStore
  Fallible = {"paper"}
INVARIANT
  OffboardedIsTerminal
CHECK_DEADLOCK FALSE
