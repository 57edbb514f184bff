\* An account is added after the first start; later the process restarts once,
\* with the same configuration and an untouched table.
SPECIFICATION Spec
CONSTANTS
  Models <- MCOneModel
  SessionIds = {"s1", "s2"}
  NoSession = "none"
  ApiKeys = {"k1", "k2"}
  NoKey = "no key"
  SyncModels <- MCOneModel
  SeededModels = {"gpt"}
  Labels = {"manual"}
  InitialCredentials = {}
  InitialNextId = 1
  Hash <- MCHash
  Pickers = {p1, p2}
  Configs <- MCOneConfig
  MaxEdits = 1
  MaxRestarts = 1
  MaxPicks = 0
PROPERTY SessionKeepsCredential
