CHECK_DEADLOCK FALSE
SPECIFICATION Spec
CONSTANTS
  main = main
  test = test
  rpcMain = rpcMain
  rpcTest = rpcTest
  deployer = deployer
  other = other
  kmsKey = kmsKey
  kmsDenied = kmsDenied
  hexKey = hexKey
  hexShort = hexShort
  Chain = {main, test}
  Url <- UrlVal
  Garbage = Garbage
  Account = {deployer, other}
  Signer <- SignerVal
  None = None
  At <- AtVal
  Shape <- ShapeVal
  SignsAs <- SignsAsVal
  Files <- FilesVal
  Job = {1, 2, 3}
  Host = {host}
INVARIANTS
  TypeOK
  RightChain
  PlanStaysTrue
PROPERTIES
  DoneMeansItsFile
  EveryDispatchEnds
