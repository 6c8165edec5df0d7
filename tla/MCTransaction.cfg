SPECIFICATION Spec
CONSTANTS
  Units <- MCUnits
  Owners = {}
  NoOwner = NoOwner
  IdMax = 4
  Targets <- MCTargets
  Requires <- MCRequires
  After <- OrderedAfter
  StartOrder <- MCStartOrder
  Ignored = {}
  Restarting = {"s1"}
  Returning = {"s1"}
  ShutdownTarget = "shutdown"
  Usable = {TRUE, FALSE}
  Boot <- MCBoot
  ClientJobs <- SomeJobs
  MaxRestarts = 1
  MaxShutdowns = 1
INVARIANTS TypeOK QuietShutdownStops
CHECK_DEADLOCK FALSE
