\* SQLite, creates of one key by any servers of a takeover, without the handler's
\* lock.  Sessions do not change after their creation except by expiring: three of
\* them, and a clock that lets the key be used again after its replay row expired,
\* and the second session expire before its own replay row does.
CONSTANTS
  Servers = {s1}
  NoServer = NoServer
  MaxFence = 2
  Sessions = {x1, x2, x3}
  NoSession = NoSession
  Requests = {r1, r2}
  k1 = k1
  k2 = k2
  u1 = u1
  u2 = u2
  Keys = {k1}
  Bodies = {b1}
  Users = {u1, u2}
  UserOf <- MCUserOf
  ServerTotal = 1
  PerUser = 1
  SessionTtl = 1
  HardTtl = 2
  ReplayTtl = 2
  Snapshot = TRUE
  CreateLock = FALSE
  MaxTime = 4
  MaxRevision = 1
SPECIFICATION Spec
SYMMETRY CreateSymmetry
PROPERTIES DuplicateGetsReplay OneSessionPerKey
