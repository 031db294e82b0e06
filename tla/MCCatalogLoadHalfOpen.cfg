\* Liveness: three requests for one key.
CONSTANTS
  k1 = k1
  k2 = k2
  k3 = k3
  c1 = c1
  c2 = c2
  Requests = {r1, r2, r3}
  Keys = {k1}
  NoFlight = NoFlight
  Circuits = {c1, c2}
  CircuitOf <- OneCircuit
  Threshold = 1
  MaxEntries = 1
SPECIFICATION FairSpec
CHECK_DEADLOCK FALSE
PROPERTIES HalfOpenEnds
