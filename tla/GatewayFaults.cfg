\* Two requests under fairness; statements fail, the process crashes, totals do not add up.
SPECIFICATION FairSpec
CONSTANTS
  Users = {"alice", "bob"}
  Models <- MCModels
  SessionIds = {"s1"}
  NoSession = "none"
  ApiKeys = {"k1", "k2"}
  NoKey = "no key"
  InitialQuotas <- MCTwoQuotas
  SyncModels = {"gpt"}
  SeededModels = {"gpt"}
  Labels = {"manual"}
  InitialCredentials <- MCAccounts
  InitialNextId = 3
  Hash <- MCHash
  Requests = {r1, r2}
  Routes = {"gpt"}
  Uuids = {"s1"}
  NilUuid = "nil"
  Bodies <- MCAllBodies
  Usages <- MCOddUsages
  Config <- MCKeys
  MaxTokens = 3
  MaxInFlight = 2
  MaxFaults = 2
  MaxCrashes = 1
  None = None
CHECK_DEADLOCK FALSE
INVARIANTS LedgerConserved AnswerAndBillAgree LogFollowsCharge
PROPERTIES ImplementsAudit SettlementEnds CompleteEnds
