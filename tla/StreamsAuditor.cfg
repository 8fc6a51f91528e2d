SPECIFICATION Spec
CONSTANTS
  c1 = c1
  c2 = c2
  c3 = c3
  a1 = a1
  a2 = a2
  NoCall = NoCall
  Calls = {c1, c2}
  Args = {a1}
  Kinds = {"update", "revoke"}
INVARIANT
  AuditorCorrect
CHECK_DEADLOCK FALSE
