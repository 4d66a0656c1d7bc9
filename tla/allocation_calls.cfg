SPECIFICATION FairSpec
CONSTANTS
  Parts = {"central_calls", "hook_calls", "first_call", "queue_calls", "atomic_calls"}
  t1 = t1
  t2 = t2
  t3 = t3
  c1 = c1
  c2 = c2
  s1 = s1
  s2 = s2
  a1 = a1
  a2 = a2
  f1 = f1
  hook1 = hook1
  hook2 = hook2
  r1 = r1
  r2 = r2
  o1 = o1
  NoHook = NoHook
  NoThread = NoThread
  NoBlock = NoBlock
  Failed = Failed
  Null = Null
  NotUsed = NotUsed
  Threads = {t1, t2}
  Spans = {1, 2}
  Classes = {c1, c2}
  ObjectsPerSpan = 2
  Batch = 2
  cache_size0 = 1
  max_cache_size = 2
  MaxOwned = 2
PROPERTIES CallsReturn
CHECK_DEADLOCK FALSE
