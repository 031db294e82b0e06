\* Liveness, with two processes and enough tokens.  A release that fails is left
\* out (GivesUpTheRow would not hold), and so are failures that repeat for ever.
CONSTANTS
  Servers = {s1, s2}
  NoServer = NoServer
  MaxFence = 3
  Playback = TRUE
  Faults = {"acquire", "renew", "reconcile", "lifecycle", "crash"}
SPECIFICATION ControlFairSpec
CHECK_DEADLOCK FALSE
PROPERTIES OvertakenStepsDown GivesUpTheRow StandbyTakesOver
