\* Two processes with the same, another or no key, failed synchronisations, an
\* edit, and concurrent picks with and without a session.
SPECIFICATION Spec
CONSTANTS
  Models <- MCModels
  SessionIds = {"s1"}
  NoSession = "none"
  ApiKeys = {"k1", "k2", "k3"}
  NoKey = "no key"
  SyncModels <- MCModels
  SeededModels = {"gpt"}
  Labels = {"manual"}
  InitialCredentials <- MCCredentials
  InitialNextId = 3
  Hash <- MCHash
  Pickers = {p1, p2}
  Configs <- MCConfigs
  MaxEdits = 2
  MaxRestarts = 2
  MaxPicks = 3
INVARIANTS TypeOK ConfigRowsMatch IndexInRange RoundRobinBalanced
PROPERTIES SyncKeepsRoutes ManualRowsKept StickyWhileServing
