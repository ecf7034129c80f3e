SPECIFICATION Spec
CONSTANTS
  b1 = b1
  b2 = b2
  b3 = b3
  Gateways = {"g1"}
  Branches = {b1, b2, b3}
  GatewayType <- AllInclusive
  Choices <- AnyPaths
  Base <- MCBase
  BranchVars <- MCBranchVars
  MaxCrashes = 1
  MaxRepublish = 1
  MayCancel = TRUE
INVARIANTS AwaitsAllExpected JoinsOnce MergesEveryChange
