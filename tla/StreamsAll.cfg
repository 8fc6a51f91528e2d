SPECIFICATION Spec
CONSTANTS
  c1 = c1
  c2 = c2
  c3 = c3
  a1 = a1
  a2 = a2
  NoCall = NoCall
  Calls = {c1, c2, c3}
  Args = {a1, a2}
  Kinds <- AllKinds
SYMMETRY Symmetry
INVARIANTS
  TypeOK
  RowsInOrder
  StreamTellsStore
  EventsTellStore
  SnapshotsHold
  OneListPerName
  NoStaleToken
CHECK_DEADLOCK FALSE
