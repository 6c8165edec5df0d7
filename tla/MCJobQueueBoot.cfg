SPECIFICATION FairSpec
CONSTANTS
  a = a
  b = b
  Units <- MCUnits
  Owners = {}
  NoOwner = NoOwner
  IdMax = 3
  After <- MCAfter
  ClientKinds = {"start", "stop", "reload"}
  Returning = {a}
  MaxInternal = 0
PROPERTIES
  
  CancelPreventsRun
