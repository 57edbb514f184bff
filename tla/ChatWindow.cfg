\* Two windows, two sessions.
SPECIFICATION Spec
CONSTANTS
  w1 = w1
  w2 = w2
  Windows = {w1, w2}
  alice = alice
  bob = bob
  Users = {alice, bob}
  UserOf <- MCTwoUsers
  Sessions = {s1, s2}
  MaxTurns = 2
  MaxLoads = 2
  None = None
CHECK_DEADLOCK FALSE
SYMMETRY TwoUsersSymmetry
INVARIANTS TypeOK SessionsPrivate WindowMatchesHistory
PROPERTY HistoryNeverRegresses
