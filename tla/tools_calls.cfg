SPECIFICATION FairSpec
CONSTANTS
  Parts = {"region_calls", "profiler_calls", "checker_calls", "libc_calls", "flood_calls", "decoder_calls", "maps_calls", "processors_calls"}
  t1 = t1
  t2 = t2
  o1 = o1
  o2 = o2
  o3 = o3
  c1 = c1
  c2 = c2
  whole_program = whole_program
  none = none
  Null = Null
  NotUsed = NotUsed
  Threads = {t1, t2}
  Hooks = {h1, h2}
  kHookListMaxValues = 3
  NoHook = NoHook
  NoThread = NoThread
PROPERTIES CallsReturn
CHECK_DEADLOCK FALSE
