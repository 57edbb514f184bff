\* One page, an earlier session and two new ones, two requests, and others' spending.
SPECIFICATION Spec
CONSTANTS
  old = old
  new1 = new1
  new2 = new2
  Models <- MCModels
  SessionIds = {old, new1, new2}
  NoSession = NoSession
  ApiKeys = {"k1"}
  NoKey = "no key"
  Users = {"alice"}
  InitialQuotas <- MCQuotas
  PageUser = "alice"
  NoModel = "no model"
  LastRows <- MCLastRows
  Costs <- MCCosts
  MaxTurns = 2
  get1 = get1
  get2 = get2
  Slots = {get1, get2}
  MaxUsed = 1
CHECK_DEADLOCK FALSE
SYMMETRY Symmetry
INVARIANTS TypeOK ListingIsOptimistic ChargedAsDisplayed OneModelPerSession
