\* PostgreSQL, creates through the handler, whose lock lets one at a time of a
\* key into the only server: two keys of one user, two different requests under each.
CONSTANTS
  Servers = {s1}
  NoServer = NoServer
  MaxFence = 1
  Sessions = {x1, x2, x3}
  NoSession = NoSession
  Requests = {r1, r2}
  k1 = k1
  k2 = k2
  u1 = u1
  u2 = u2
  Keys = {k1, k2}
  Bodies = {b1, b2}
  Users = {u1, u2}
  UserOf <- MCOneUser
  ServerTotal = 2
  PerUser = 1
  SessionTtl = 1
  HardTtl = 2
  ReplayTtl = 2
  Snapshot = FALSE
  CreateLock = TRUE
  MaxTime = 3
  MaxRevision = 1
SPECIFICATION Spec
SYMMETRY CreateSymmetry
PROPERTIES AdmissionRespectsCapacity DuplicateGetsReplay
