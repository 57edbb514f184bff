\* Two-phase and strict callers on one row and next to an overspent one.
SPECIFICATION Spec
CONSTANTS
  Users <- MCUsers
  Models <- MCModelsWide
  InitialQuotas <- MCQuotasWide
  SessionIds = {}  NoSession = NoSession  ApiKeys = {}  NoKey = NoKey
  TwoPhase = {c1, c2}
  Strict = {s1, s2}
  MaxTokens = 2
  NoCall = NoCall
INVARIANTS TypeOK OverspendBounded RefusalIsFinal
