SPECIFICATION Spec
CONSTANTS
  Pids = {1, 2}
  Sources = {1, 2, 3, 4, 5}
  Confs <- AllConfs
  Burst = 1
  MaxSocket = 1
  MaxDelayed = 1
  MaxTimers = 1
INVARIANTS TypeOK TimersOwned ActivationBounded StopEscalates TrackedKnown
PROPERTIES SpawnWhenGone StopRespected OomRecognised
