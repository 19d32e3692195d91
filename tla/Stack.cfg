CHECK_DEADLOCK FALSE
SPECIFICATION FairSpec
CONSTANTS
  a = a
  b = b
  Files <- FilesVal
  None = None
  Default = Default
  Canonical = Canonical
  Elsewhere = Elsewhere
  Generations <- GenerationsVal
  Upgrades <- UpgradesVal
  MaxTurns = 1
  MaxAborts = 1
  MaxDrift = 1
INVARIANTS
  TypeOK
  DoneMeansConverged
  PlanForetellsSends
  PlanForetellsTheEnd
  NoDanglingPointer
  EveryUpgradeHasItsSection
PROPERTIES
  KeepsPromise
  AdviceConverges
