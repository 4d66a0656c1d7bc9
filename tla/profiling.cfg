SPECIFICATION AllSpec
CONSTANTS
  Parts = {"hook_list", "address_map", "table_files", "table_marks", "flood", "region_threads", "region_all", "region_cut", "profiler_switch", "profiler_dumps", "profiler_runs", "checker_life", "checker_leaks", "checker_threads"}
  t1 = t1
  t2 = t2
  o1 = o1
  o2 = o2
  o3 = o3
  c1 = c1
  c2 = c2
  whole_program = whole_program
  none = none
  Null = Null
  NotUsed = NotUsed
  Threads = {t1, t2}
  Hooks = {h1, h2}
  kHookListMaxValues = 3
  NoHook = NoHook
  NoThread = NoThread
INVARIANTS TablesExact LiveExact RegionsComplete ProfileExact ChecksSound
PROPERTIES ImplementsHookBag SnapshotsExact
CHECK_DEADLOCK FALSE
