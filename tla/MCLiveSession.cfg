\* One session under two concurrent requests and a takeover of the lease: the
\* revision leaves room for any three mutations, the clock for the session and
\* its replay row to expire.
\* PostgreSQL without the handler's lock, the weaker of the isolations.
CONSTANTS
  Servers = {s1}
  NoServer = NoServer
  MaxFence = 2
  Sessions = {x1}
  NoSession = NoSession
  Requests = {r1, r2}
  k1 = k1
  k2 = k2
  u1 = u1
  u2 = u2
  Keys = {k1}
  Bodies = {b1}
  Users = {u1, u2}
  UserOf <- MCUserOf
  ServerTotal = 2
  PerUser = 2
  SessionTtl = 2
  HardTtl = 3
  ReplayTtl = 1
  Snapshot = FALSE
  CreateLock = FALSE
  MaxTime = 3
  MaxRevision = 6
SPECIFICATION LifeSpec
SYMMETRY Symmetry
INVARIANTS TypeOK ReplayValid JobOfCurrentServer
PROPERTIES FencedWrites SessionOrder
