\* Two requests for three keys, two of which share a circuit, and a circuit table with
\* room for one.
CONSTANTS
  k1 = k1
  k2 = k2
  k3 = k3
  c1 = c1
  c2 = c2
  Requests = {r1, r2}
  Keys = {k1, k2, k3}
  NoFlight = NoFlight
  Circuits = {c1, c2}
  CircuitOf <- TwoCircuits
  Threshold = 1
  MaxEntries = 1
SPECIFICATION FairSpec
CHECK_DEADLOCK FALSE
INVARIANTS OneLoader AbandonedIsCancelled ProbeOrLost
PROPERTIES EveryWaiterAnswered
