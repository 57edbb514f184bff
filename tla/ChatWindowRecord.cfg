\* Two windows, two sessions.
SPECIFICATION Spec
CONSTANTS
  w1 = w1
  w2 = w2
  Windows = {w1, w2}
  alice = alice
  bob = bob
  Users = {alice}
  UserOf <- MCOneUser
  Sessions = {s1, s2}
  MaxTurns = 2
  MaxLoads = 2
  None = None
CHECK_DEADLOCK FALSE
SYMMETRY SessionSymmetry
INVARIANT CompleteRecord
