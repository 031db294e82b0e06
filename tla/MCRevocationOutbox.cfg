\* Three drains of two servers (two share an owner), two revocations, a consumer whose
\* receipts they race for and another that only registers; one fault.
CONSTANTS
  w1 = w1
  w2 = w2
  w3 = w3
  o1 = o1
  o2 = o2
  c1 = c1
  c2 = c2
  Events = {1, 2}
  Consumers = {c1, c2}
  Owners = {o1, o2}
  NoOwner = NoOwner
  Workers = {w1, w2, w3}
  OwnerOf <- SharedOwner
  ConsumerOf <- OneConsumer
  ClaimScan = 1
  MaxAttempts = 3
  MaxFaults = 1
SPECIFICATION FairSpec
CHECK_DEADLOCK FALSE
INVARIANTS ReceiptsComplete AtLeastOnce
PROPERTIES NoEventLost HolderKeepsClaim EventuallyAcknowledged
