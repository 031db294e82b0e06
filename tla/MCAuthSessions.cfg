\* One session whose revision can grow twice, and two calls: a token, its replacement
\* and the next one.
CONSTANTS
  Calls = {c1, c2}
  NoCall = NoCall
  Sessions = {s1}
  NoSession = NoSession
  MaxTokens = 3
  Profiles = {p1, p2}
  OwnProfile = p1
  MaxCsrf = 3
SPECIFICATION FairSpec
INVARIANTS TypeOK RevokedIsDead OneLine AnnouncedOnce
PROPERTIES NothingUndone ProfileLeftIsAnnounced EveryCallEnds
