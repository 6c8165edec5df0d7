SPECIFICATION Spec
CONSTANTS
  Units <- TwoServices
  Owners = {}
  NoOwner = NoOwner
  IdMax = 4
  Targets <- MCTargets
  Requires <- TwoRequires
  After <- MCAfter
  StartOrder <- MCStartOrder
  Ignored = {}
  Restarting = {}
  Returning = {}
  ShutdownTarget = "shutdown"
  Usable = {FALSE}
  Boot <- MCBoot
  ClientJobs = {}
  MaxRestarts = 0
  MaxShutdowns = 1
INVARIANTS ShutdownStopsAll
CHECK_DEADLOCK FALSE
