\* Three processes and every fault of the lease and its tasks: two grants exhaust the
\* fence.  Without playback, whose task MCLiveControlLive.cfg has.
CONSTANTS
  Servers = {s1, s2, s3}
  NoServer = NoServer
  MaxFence = 2
  Playback = FALSE
  Faults = {"acquire", "renew", "release", "setup", "reconcile", "reap", "crash", "slow"}
SPECIFICATION ControlSpec
SYMMETRY Symmetry
CHECK_DEADLOCK FALSE
INVARIANTS ControlTypeOK ReadyIsFenced
PROPERTIES FailClosed
