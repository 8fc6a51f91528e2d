\* Three commands on one book of two things, or logins of two users, two at a time, with two
\* keys and an administrator.
CONSTANTS
  Calls = {c1, c2, c3}
  Ids = {i1, i2}
  NoId = NoId
  MaxMoves = 1
  Users = {u1, u2}
  Keys = {k1, k2}
  Logins = {l1, l2}
  Empty = Empty
SPECIFICATION Spec
SYMMETRY Symmetry
\* Every call comes to its end.
CHECK_DEADLOCK FALSE
INVARIANTS
  TrailTellsBook
  OneOutcome
  NothingAfterRemoval
  OneActiveKey
PROPERTIES
  OnlyAdminRevives
