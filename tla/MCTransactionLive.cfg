SPECIFICATION FairSpec
CONSTANTS
  Units <- MCUnits
  Owners = {}
  NoOwner = NoOwner
  IdMax = 4
  Targets <- MCTargets
  Requires <- MCRequires
  After <- MCAfter
  StartOrder <- MCStartOrder
  Ignored = {}
  Restarting = {"s1"}
  Returning = {"s1"}
  ShutdownTarget = "shutdown"
  Usable = {TRUE}
  Boot <- MCBoot
  ClientJobs <- StopJobs
  MaxRestarts = 1
  MaxShutdowns = 1
PROPERTIES ShutdownFinishes TargetSettles
CHECK_DEADLOCK FALSE
