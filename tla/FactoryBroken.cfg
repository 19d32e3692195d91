CHECK_DEADLOCK FALSE
SPECIFICATION Spec
CONSTANTS
  host = host
  ci = ci
  notary = notary
  circuit = circuit
  platform = platform
  deployer = deployer
  safe = safe
  None = None
  Run <- RunVal
  Name <- NameVal
  Bare = {circuit}
  Late = {circuit, platform}
  Order <- OrderVal
  Account <- AccountVal
  Deployer = deployer
  Desired <- DesiredVal
  Confirm = {host}
  MaxFailures = 1
  MaxHandbacks = 1
INVARIANT
  BrokenMeansMismatch
