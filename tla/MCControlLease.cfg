\* Two instances of two tasks each; two grants exhaust the fence.  A lease can expire, be
\* taken over and expire again, and a renewal, a release by the other task of its instance
\* and a takeover can overlap.
CONSTANTS
  Servers = {s1, s2}
  NoServer = NoServer
  MaxFence = 2
  Ttl = 2
  MaxTime = 5
SPECIFICATION Spec
SYMMETRY Symmetry
INVARIANTS TypeOK KeptUntilGivenUp
PROPERTIES NoEarlyTakeover Fenced
