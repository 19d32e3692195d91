CHECK_DEADLOCK FALSE
SPECIFICATION FairSpec
CONSTANTS
  x = x
  github = github
  bearer = bearer
  first = first
  rebuilt = rebuilt
  second = second
  codeA = codeA
  codeB = codeB
  elsewhere = elsewhere
  None = None
  Platform <- PlatformVal
  Launch <- LaunchVal
  Circuit = {bearer}
  CircuitOf <- CircuitOfVal
  Binary <- BinaryVal
  Release = {1, 2, 3}
  Version <- VersionVal
  Code = {codeA, codeB}
  Vendored <- VendoredVal
  Foreign = {elsewhere}
  ForeignCode <- ForeignCodeVal
  Target = second
  MaxRuns = 3
  MaxAborts = 2
  MaxDrift = 1
INVARIANTS
  TypeOK
  OkPlanMeansUsable
  SuccessMeansUsable
PROPERTIES
  KeepsVendored
  StaysVendored
  OkPlanSendsNothing
  AdviceConverges
