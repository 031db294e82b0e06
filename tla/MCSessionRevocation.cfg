\* A server that polls and one that does not, one session, one revocation, one request
\* at a time: every order of takeover, drain, claim expiry and request.
CONSTANTS
  s1 = s1
  s2 = s2
  t1 = t1
  t2 = t2
  Servers = {s1, s2}
  NoServer = NoServer
  MaxFence = 2
  MaxSessions = 1
  ListLimit = 1
  MaxEvents = 1
  NoEvent = NoEvent
  Drains = {t1, t2}
  ServerOf <- MCServerOf
  Tasks = {t1, t2}
  Polls = {s1}
  Requests = {r1}
  Retries = 2
SPECIFICATION FairSpec
CHECK_DEADLOCK FALSE
INVARIANTS AcknowledgedEnds AdoptionComplete StartupUndisturbed
PROPERTIES RevokedEnds EventuallyApplied
