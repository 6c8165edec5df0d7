SPECIFICATION ActivationSpec
CONSTANTS
  MaxStarts = 2
  Listeners = {l1}
  Services <- SomeServices
  MaxQueue = 1
INVARIANTS
  TypesOK
  SocketsQuiet
PROPERTIES
  NameCompletesStart
  ConnectionServed
