\* Three requests of two users, three in flight, no faults: the quota and the books.
SPECIFICATION Spec
CONSTANTS
  Users = {"alice", "bob"}
  Models <- MCModels
  SessionIds = {"s1"}
  NoSession = "none"
  ApiKeys = {"k1", "k2"}
  NoKey = "no key"
  InitialQuotas <- MCTwoQuotas
  SyncModels = {"gpt"}
  SeededModels = {"gpt"}
  Labels = {"manual"}
  InitialCredentials <- MCAccounts
  InitialNextId = 3
  Hash <- MCHash
  Requests = {r1, r2, r3}
  Routes = {"gpt"}
  Uuids = {"s1"}
  NilUuid = "nil"
  Bodies <- MCAllBodies
  Usages <- MCUsages
  Config <- MCNoKeys
  MaxTokens = 2
  MaxInFlight = 3
  MaxFaults = 0
  MaxCrashes = 0
  None = None
CHECK_DEADLOCK FALSE
SYMMETRY RequestSymmetry
INVARIANTS TypeOK OverspendBounded RefusalIsFinal BooksBalance
