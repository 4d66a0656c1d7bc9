SPECIFICATION FairSpec
CONSTANTS
  Threads = {t1, t2}
  Appenders = {a1, a2}
  Levels = {100, 400}
  Fatal = 400
  NoThread = NoThread
  MaxHold = 5
  MaxCalls = 1
PROPERTIES EveryCallReturns
\* The threads stop after MaxCalls calls or wait for a lock that is never released.
CHECK_DEADLOCK FALSE
