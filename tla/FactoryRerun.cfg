CHECK_DEADLOCK FALSE
SPECIFICATION RerunSpec
CONSTANTS
  host = host
  ci = ci
  notary = notary
  circuit = circuit
  platform = platform
  deployer = deployer
  safe = safe
  None = None
  Run <- SoloRun
  Name <- NameVal
  Bare = {circuit}
  Late = {circuit, platform}
  Order <- SoloOrder
  Account <- AccountVal
  Deployer = deployer
  Desired <- SoloDesired
  Confirm = {ci}
  MaxFailures = 3
  MaxHandbacks = 1
PROPERTY
  RerunsConverge
