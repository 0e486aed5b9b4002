SPECIFICATION FairSpec
CONSTANTS
  t1 = t1  t2 = t2  l1 = l1  None = None
  Ticks = {t1, t2}  Listener = l1  Rows = {1}  Emails = {2}
  MaxAttempts = 2  MaxMailAttempts = 2  Limit = 1
  MaxFaults = 1  MaxChanges = 1
INVARIANTS RepeatsExplained BarredNotSent EmailHeldOnce
PROPERTY EveryNotificationEnds
CHECK_DEADLOCK FALSE
