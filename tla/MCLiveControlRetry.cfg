\* No fault at all: a standby's acquire races with the owner's release.
CONSTANTS
  Servers = {s1, s2}
  NoServer = NoServer
  MaxFence = 3
  Playback = TRUE
  Faults = {}
SPECIFICATION ControlFairSpec
CHECK_DEADLOCK FALSE
PROPERTIES RetriesAfterFailure
