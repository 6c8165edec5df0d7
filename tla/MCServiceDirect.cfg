SPECIFICATION FairSpec
CONSTANTS
  Pids = {1}
  Sources = {1, 2, 3, 4, 5}
  Confs <- DirectConfs
  Burst = 1
  MaxSocket = 0
  MaxDelayed = 1
  MaxTimers = 3
PROPERTIES RestartActivates
