CHECK_DEADLOCK FALSE
SPECIFICATION ClosingSpec
CONSTANTS
  deployer = deployer
  alice = alice
  bob = bob
  Owner <- OwnerVal
  Sentinel = sentinel
  Proc = {host, ci}
  Deployer = deployer
  Declarable <- DeclarableVal
  None = None
  TheSafe = TheSafe
  MaxAborts = 1
  MaxChanges = 1
INVARIANTS
  ClosingTypeOK
  HandedOverWhole
  AuthorityStands
  StaysReachable
PROPERTIES
  OkOrWarnSendsNothing
  RerunsSettle
