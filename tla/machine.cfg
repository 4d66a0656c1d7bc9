SPECIFICATION AllSpec
CONSTANTS
  Parts = {"decoder", "patcher", "unpatcher", "libcs", "libc_threads", "maps", "maps_backing", "processors"}
  t1 = t1
  t2 = t2
  o1 = o1
  o2 = o2
  o3 = o3
  c1 = c1
  c2 = c2
  whole_program = whole_program
  none = none
  Null = Null
  NotUsed = NotUsed
  Threads = {t1, t2}
  Hooks = {h1, h2}
  kHookListMaxValues = 3
  NoHook = NoHook
  NoThread = NoThread
INVARIANTS DecodingRight StubsSound LibcsPatched SystemFilesRead
PROPERTIES UnpatchRestores
CHECK_DEADLOCK FALSE
