SPECIFICATION FairSpec
CONSTANTS
  Threads = {t1, t2}
  Sessions = {s1, s2, s3}
  None = None
  Faults = TRUE
INVARIANTS
  TypeOK
  SingleOwner
  NoUseAfterDelete
  AcceptorArmed
PROPERTY SentIsServed
CHECK_DEADLOCK FALSE
