SPECIFICATION Spec
CONSTANTS
  a = a
  b = b
  Units = {a}
  Owners = {}
  NoOwner = NoOwner
  IdMax = 4
  After <- AloneAfter
  ClientKinds = {"start", "stop"}
  Returning = {}
  MaxInternal = 0
INVARIANTS
  SettledJobsFinished
