CHECK_DEADLOCK FALSE
SPECIFICATION FairSpec
CONSTANTS
  host = host
  ci = ci
  notary = notary
  circuit = circuit
  platform = platform
  deployer = deployer
  safe = safe
  None = None
  Run <- RunVal
  Name <- NameVal
  Bare = {circuit}
  Late = {circuit, platform}
  Order <- OrderVal
  Account <- AccountVal
  Deployer = deployer
  Desired <- DesiredVal
  Confirm = {host}
  MaxFailures = 1
  MaxHandbacks = 2
INVARIANTS
  TypeOK
  SuccessMeansDeployed
  ProxyHasImplementation
  CanaryHolds
  HandedOver
PROPERTIES
  KeepsPromise
  EveryRunEnds
