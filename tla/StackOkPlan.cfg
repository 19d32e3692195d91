CHECK_DEADLOCK FALSE
SPECIFICATION Spec
CONSTANTS
  a = a
  b = b
  Files <- FilesVal
  None = None
  Default = Default
  Canonical = Canonical
  Elsewhere = Elsewhere
  Generations <- GenerationsVal
  Upgrades <- UpgradesVal
  MaxTurns = 1
  MaxAborts = 0
  MaxDrift = 1
INVARIANTS
  OkPlanSendsNothing
