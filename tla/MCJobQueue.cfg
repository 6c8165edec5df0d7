SPECIFICATION Spec
CONSTANTS
  a = a
  b = b
  Units <- MCUnits
  After <- MCAfter
  Owners = {}
  NoOwner = NoOwner
  IdMax = 3
  ClientKinds = {"start", "stop", "restart"}
  Returning = {a}
  MaxInternal = 1
INVARIANTS
  TypeOK
  NoJobLost
  OrderRespected
  SomeJobUnblocked
  SignalsInOrder
  OrderingMirrored
