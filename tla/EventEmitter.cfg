CONSTANTS
  Tasks = {t1, t2}
  QueueSize = 2
  MaxEvents = 3
  MaxSubs = 2
SPECIFICATION FairSpec
INVARIANTS DeliveredOnlyAccepted
PROPERTIES QueuedDoneEndsStream ImplementsLog
CHECK_DEADLOCK FALSE
