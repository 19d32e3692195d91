CHECK_DEADLOCK FALSE
SPECIFICATION QueuedSpec
CONSTANTS
  host = host
  ci = ci
  notary = notary
  circuit = circuit
  platform = platform
  deployer = deployer
  safe = safe
  None = None
  Run <- RunVal
  Name <- NameVal
  Bare = {circuit}
  Late = {circuit, platform}
  Order <- OrderVal
  Account <- AccountVal
  Deployer = deployer
  Desired <- DesiredEdit
  Confirm = {host}
  MaxFailures = 0
  MaxHandbacks = 0
INVARIANT
  LastFileWins
