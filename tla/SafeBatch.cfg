CHECK_DEADLOCK FALSE
SPECIFICATION Spec
CONSTANTS
  a = a
  b = b
  c = c
  d = d
  Owner <- OwnerVal
  Start <- StartVal
  Sentinel = sentinel
INVARIANTS
  TypeOK
  NeverRefused
  BatchConverges
  NoWastedCall
PROPERTIES
  KeepsShared
