SPECIFICATION FairSpec
CONSTANTS
  Pids = {1}
  Sources = {1, 2, 3, 4, 5}
  Confs <- LiveConfs
  Burst = 1
  MaxSocket = 1
  MaxDelayed = 1
  MaxTimers = 3
PROPERTIES StopCompletes StartCompletes RestartContinues
