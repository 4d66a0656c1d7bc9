# A TLA+ model of MBT_java

MBT_java is two programs in one repository.

* A **model-based test generator** in Java (`src/ARH/`).  A tester writes a class
  whose annotated methods are *test steps* and *scenarios*; the loader turns it into
  an XML model, the model into a graph, the graph into paths, paths and parameter
  values into case documents, and those into the sources of a test framework.
* **tprofiler** (`src/PrecisionTest/TProfile/tprofiler/tprofiler-src/src/`), the C++
  profiler that finds out which functions a generated test reaches: a derivative
  of gperftools with a thread-caching allocator, hooks on every allocation, a
  debugging allocator, a heap profiler, a leak checker, and a patcher that installs
  all this in a running Windows process.

This directory holds TLA+ modules for the parts of both programs that compute or
keep state, TLC configurations that check them on small instances, and theorems that
TLAPS checks.  Java paths below are relative to
`src/MBT_JavaRefactoring_Proj/src/ARH/`, C++ paths to the tprofiler directory.

## 1. Inventory

### The test generator

| component | source | state | operations |
|---|---|---|---|
| loader | `loader/MTestLoader`, `common/generate/MGenMbtXml`, `MGenAction`, `MGenMbt`, `framework/dynamic/*` | path variables of `run`, files on disk, the step log | the stages of `run`, its early returns, handler and finally block |
| graph | `common/generate/MGenGraph`, `framework/graph/MGraph` | two node tables, step table, parallel adjacency lists, counters | `addNode`, `addEdge`, getters |
| path algorithms | `common/path/*` | the graph's remaining repeat times, the path, distance and temporary lists of objects that live as long as the JVM | `genPath` and `dfs` of eight algorithms, deletions and filters |
| data and documents | `common/data/*`, `common/generate/MGenReplacedStep`, `MGenDocMap`, ... | the lists of the data algorithms, replaced steps, documents | `genData`, `genPathParamSet`, `genReplacedStep`, `genDocMap` |
| logger | `framework/logger/MLogger` | appender list, levels, a reentrant lock | `addAppender`, `removeAppender`, `setLogLevel`, `info` ... |
| views, drawing, XML, JSON, files | `common/view`, `framework/**` | none of their own | text and library calls |

The loader is one thread that calls the others in a fixed order.  What makes it hard
to test is state that outlives the call that made it: the graph is shared by all
scenarios and written by the searches; algorithm objects are created once and keep
their lists; a data algorithm keeps a reference to its caller's set; the step log
survives a run that fails or is killed; and a logger is shared by threads.

### tprofiler

| component | source | state | what is hard |
|---|---|---|---|
| page heap, page map | `page_heap.cc`, `pagemap.h`, `span.cc` | spans, lists per length, a tree from page to span that keeps stale entries | merging trusts neighbours in the map; readers without a lock |
| system allocator | `system-alloc.cc`, `memfs_malloc.cc` | the break, failed flags, a file of huge pages | the program moves the break between two calls; wrapped sizes |
| size classes | `common.cc` | class tables | a constant that the construction has to meet exactly |
| central lists | `central_freelist.cc` | spans with free objects, transfer cache | locks that are dropped in the middle of an operation |
| thread caches | `thread_cache.cc` | lists with marks and limits, one list of caches that divide one size | malloc comes back while a cache is half installed |
| atomic operations | `base/atomicops*` | one word | every load, store and fence of eight platform headers |
| entry points | `tcmalloc.cc`, `windows/patch_functions.cc` | the new handler, the profiler's view | hooks and allocation in an order another thread can see |
| hooks | `malloc_hook*.{cc,h}` | lists read without a lock, the initial hooks | registration while hooks run, the first call in two threads |
| debugging allocator | `debugallocation.cc` | headers, trailers, a map, a queue of freed blocks | misuse must be found and correct programs never accused |
| address map, profile table | `addressmap-inl.h`, `heap-profile-table.cc` | objects and buckets, live marks, snapshots | search at block boundaries, marks left by the last check |
| region map | `memory_region_map.cc` | a recursive lock, a set of regions that allocates while it grows | hooks of several threads report in another order than the kernel |
| heap profiler | `heap-profiler.cc` | on/off, dump marks, files | started and stopped while threads allocate |
| leak checker | `heap-checker.cc` | stages of the process, checkers, disablers, ignored objects, the set of live objects | order of hooks, constructors, checks, cleaners, forks |
| system files | `base/sysinfo.cc` | a buffer over a file, the clock rate | reads cut lines anywhere |
| disassembler, patcher, function patching | `windows/*` | instruction bytes, stubs, the modules of a process | wrong offsets, hooks on hooks, modules that come and go in threads |
| parts that are not modelled | section 6 | | |

`PROJECT.json` lists under "hazards" the places where one of these can go wrong, with
the properties that watch it.

## 2. Modules

### How they are put together

Every component is a module of its own with its variables, `Init`, one action per
operation or per step of an operation, `Next`, and its properties.  Four modules
give them small instances:

```
MCPathSearch  = MPathSearch (EXTENDS; it EXTENDS MPathAlgo), MPathRepeat, MPathRoute
MCGraph       = MGraph + MGenDocMap
MCAllocation  = CentralFreeList (EXTENDS), PageHeap PageMap SystemAlloc SizeMap
                ThreadCacheLists ThreadCacheHeaps AllocEntryPoints HookList MallocHook
                DebugAllocation FreeQueue AtomicOps(-> AtomicWord, AtomicPlatforms)
                AtomicBarriers(AtomicPlatforms)
MCTools       = HookList(-> HookBag) (EXTENDS), AddressMap HeapProfileTable LiveFlood
                MemoryRegionMap HeapProfiler HeapChecker MiniDisassembler
                PreamblePatcher PatchFunctions ProcMaps SystemInfo
MTestLoader and MLogger are checked as they are
*_proofs      = proofs about MPathSearch, MGraph, MTestLoader, MLogger, HookList,
                CentralFreeList; AtomicOps and MemoryRegionMap have theirs at their end
```

`MCPathSearch`, `MCGraph`, `MCAllocation` and `MCTools` hold several instances each.
The initial state picks one `part`, and a behaviour is a behaviour of that part's
instance: `Next` is that instance's `Next`, the variables of the others keep the
value `Unused`.  A component that a bundle extends instead of instantiating
(`CentralFreeList`, `HookList`) has variables and constants of its own there, so that
the invariant the run checks is, by name, the one a theorem states.  A run explores the
disjoint union of its parts' state spaces.  No module is weakened by that; a property of the bundle is the conjunction, over the parts, of
the properties that the component module states.  Where a component has several
instances (`DebugAllocation` for a correct program, one that makes mistakes, two
threads, and fenced pages) each is a part, so that each bound is only as large as its
question needs.

An operator whose comment begins with *Mutant* is a plausible bug in the definition
that follows it.  It is not used by the model; it is what shows that the property
it is paired with in `PROJECT.json` can fail.

### The test generator

`MPathAlgo`, `MPathSearch`: the graph as a sequence of edges, and "all", "long",
"short", "longn2n", "shortn2n" and "least" as one depth-first search.  The recursion
is a stack with one activation per state of the path; there is one action per piece of
`dfs` (`DfsStop`, `DfsEnter`, `Follow`, `Skip`, `Restore`, `DfsExhausted`, `DfsDone`), and the
algorithms differ in the tests and in three `Finish` actions.  What belongs to the
graph and to algorithm objects is not reset between scenarios, because the code does
not.  The end of `MPathSearch` says what is to be delivered without a search: the walks
of the graph that use no edge more often than its repeat time (`Walks`), which of them are
complete (`Complete`), and which the scenario asks for (`Expected`).  `MCPathSearch` does
the same for the other two algorithms.
`MPathRepeat` marks used edges with repeat time 0 in the shared graph; `MPathRoute`
searches each route on the repeat times the one before it left, and throws for an
overall route without a known state.

`MGraph` is `MGenGraph.addEdge` with its three loops.  `MGenDocMap` is the data
algorithms, one step per row or loop iteration, and their callers up to the case
documents.  `MTestLoader` has one action per stage of `run` and each way it can end; the
steps are first sorted by number, one number per step (`SortStep`), then invoked; runs
follow each other on one disk, and `Killed` ends the process anywhere.
`MLogger` has a step each for taking the lock, looking through the list, changing it and
giving the lock back, so only the lock keeps two threads apart; `MaxHold` is the limit
of the JDK's lock, at which `lock()` throws.

### The allocator

`PageHeap` is the heap under `pageheap_lock`: a record of spans by page, free lists
per length, the page map with its stale entries, the byte counts; `New`, `Delete`,
`Split`, the scavenger and `GrowHeap` are one step each.  `PageMap` has the array, the
two-level and the three-level tree; `Ensure` publishes one node per step, since `get`
reads without the lock.  `SystemAlloc` is one call of the sbrk, mmap, default or
huge-page allocator at a time, in steps between which the program may move the
break.  `SizeMap` runs `SizeMap::Init` with the code's own constants.
`CentralFreeList` has a step per stretch of code between two changes of a lock.
`ThreadCacheLists` is the arithmetic of lengths, low-water marks and limits of one
cache; `ThreadCacheHeaps` the creation, recursion, idling, stealing and deletion of
caches.  `AllocEntryPoints` has every `tc_` and `Perftools_` function as a short
program of steps over an abstract allocator, sizes wrapping at `SizeT`.

### Hooks, debugging allocator, atomic operations

`HookList` is `Add`, `Remove` and the lock-free `Traverse` at the level of single loads
and stores; `HookBag` is the bag of hooks that it implements, a function from the numbers
of copies to hooks, with `Add` and `Remove` atomic.  `MallocHook` is the invocation of
hooks: a call is a stack of tasks, the initial hook redispatches, wrappers ask
replacements; hooks and replacements come and go at any time, before the first call too.  `DebugAllocation` is memory as
an array of words with headers, trailers, fills, the map and the queue; freeing is
three steps, between which another thread may free the same block.  `FreeQueue` is the
queue with its lock given up between batches.

`AtomicPlatforms` is a table: which primitive, loop and fences each header gives each
operation.  `AtomicOps` interleaves the memory accesses of two threads on one word
and refines `AtomicWord`, where each operation is one step between call and return.
`AtomicBarriers` lets the processor perform accesses in any order its memory model
allows across those fences.

### The profiling tools

`AddressMap` has the hash of clusters, blocks and entries; the search back from an
inner address is translated step by step.  `HeapProfileTable` records objects in
buckets per stack, refreshes mmap data, marks live objects, takes snapshots, and
fills a profile buffer that may be too small.  `LiveFlood` is the search for live
objects as a list of tasks over a memory of half words.  `MemoryRegionMap` has the
recursive lock with its owner, the hooks per thread, and saved regions of nested
maps.  `HeapProfiler` and `HeapChecker` are the life of the tool in a process: start,
hooks set one by one, dumps and checks, stop, with threads that allocate; files
survive the process.  `HeapChecker` takes from `LiveFlood` only its result.

### The machine

`MiniDisassembler` has the opcode tables as classes of opcodes that agree in what the
decoder reads, and the decoder function by function; memory is revealed byte by byte,
so a run is a decoding of one possible instruction.  `IsaLength` is a reference written
from the structure of the instruction set.  `PreamblePatcher` relocates instructions by
arithmetic on addresses, and the `Trace` of code says what it does.  `PatchFunctions` has
the modules of a process, among them one that re-exports the functions of another,
`LoadLibraryExW` and `FreeLibrary` in two threads, listings of the modules that fail, and
the slots.  `ProcMaps` and `SystemInfo` read files character by character in pieces that
the read decides.

## 3. Runs

| run | parts | asks |
|---|---|---|
| `path_search` | search, repeat, route | what each of eight algorithms delivers, what it leaves to the next scenario, that it ends |
| `graph_build` | graph, docs | the graph of every small model; the documents of paths, combinations and rows |
| `logger_shared` | two threads | no appender twice; who owns the lock; which calls return |
| `loader_runs` | three runs on a disk | files left behind; damage by a stale log; that a run ends |
| `allocator` | page heap, page map, system, size map, central, two of the caches (7 parts) | each layer's consistency |
| `debug_hooks` | entries, hook list, wrappers, debugging heap, queue, atomic words, barriers (13 parts) | blocks and hooks of the entries; hooks see every event; misuse is caught, correctness never accused; the refinement of the atomic word |
| `allocation_calls` | central, hooks, first call, queue, atomic words | calls return under a fair scheduler |
| `profiling` | hook list, address map, table, flood, region map, profiler, checker (14 parts) | the refinement of the bag of hooks; what is recorded, reported and kept is right |
| `machine` | decoder, patcher, libraries, system files (8 parts) | instructions, stubs, modules, lines |
| `tools_calls` | region map, profiler, checker, libraries, flood, decoder, maps, processors | calls return under a fair scheduler |
| `logger_add_blocks` | two threads, one call each | violated: `EveryCallReturns` |
| `region_mremap` | two threads with mremap | violated: `RegionsComplete` |

### What the passing runs show

*Generator.* `SearchDelivers`: "all", "long" and "short" deliver exactly the walks the
reference names, each once, "long" and "short" only for the through states and steps they
are given; the N2N searches every best walk between two states, and else nothing but
best walks that an earlier scenario with the same algorithm has asked for; "least" walks
that together have every step.  `CleanBetweenScenarios`: graph and distance lists are as
new when a scenario begins.
`LongNeverPrunes`: the distance test of "long" never rejects an edge.
`DeliverExactly`: so do "repeat" and "route", each path as often as due, and in every
search the three lists of the path are one walk that accounts for the marks and repeat
times changed in the graph.  `SearchesReturn`: cycles notwithstanding, a search ends.
`AdjacencyIsGraph`, `StepNumIsLast`, `CasesComplete`: nothing is lost or mixed up from the
model to the cases.  `NoTmpFileLeft`: only a killed run leaves files;
`LogLeftByFailure`: a log is found only when the run before did not finish;
`LaterStepsIntact`: it damages at most the first step written, and none when the run
started clean; the steps are the methods that the sort takes, which are all of them when
their numbers are 1 to n; `RunEnds`.  `NoDuplicateAppender`: although the list is looked
through in one step and changed in another, no appender is in it twice;
`AppenderPinsLock`; `CallReturnsOrLockIsKept`: a call waits for ever only for a lock that
another thread has kept after its call returned.

The references record behaviour a reader may not expect, as the code has it: "long"
and "short" without through states and steps deliver nothing, although their comments
("used to generate longest paths", `MPathAlgoCovLong.java:20`) know no such condition;
"least" is a greedy cover; "repeat" lists a path twice when it ends in a state without
outgoing edges; an overall route is matched by the *number* of its different steps.

*Allocator.* `PageHeapConsistent`: spans tile the memory, the neighbours a merge reads
are live, no two free spans of one kind touch, counts match.  `MapsExact`: `get`
answers what was set last, also past the end and during `Ensure`; `Next` finds the first
set key; the size classes waste at most an eighth, are aligned and as many as the
constant says.  `SystemAllocSafe`: what is returned has room (but for `RaisedWraps`) and alignment and
is nobody else's.  `ObjectsAccounted`: every object is in a span, a slot or one thread's hands,
counts agree, no thread waits for a lock while it holds one.  `CachesAccounted`: sizes
are sums, the space of all caches adds up, the steal pointer is a cache of the list.

*Hooks and debugging.* `EntriesSound`: hooks alternate per address; blocks have room and
sizes that wrap fail, but for those of `tc_pvalloc` in `PvallocWraps`; handlers are the
ones set, only `new` throws.
`HooksSeeExactly`: every event is seen once by each hook that is registered throughout,
and twice only if it is that of a first call (`TimesDue`); the munmap replacement is asked
while there is an mmap replacement.
`NoFalseAlarm`, `MisuseCaught`: a correct program that does not resize aligned blocks is
never accused; a double or mismatched free and a write outside a block are.
`BarriersHold`: what each barrier orders, but for `KnownGaps`.  `ImplementsAtomicWord`: every operation of every header but one takes effect
in one step.

*Tools.* `ImplementsHookBag`: the lock-free list behaves as a bag; what a traversal gives
was in the bag.  `TablesExact`, `LiveExact` (exactly what the roots reach), `RegionsComplete`
(exactly what is mapped, between calls, where section 4 names no exception), `ProfileExact` (exactly the objects allocated
since the start and in use; no dump due or missed; no file of an earlier run),
`ChecksSound` (with correct use no check of the checker on itself stops the program; its
arena is accounted for), and the action property `SnapshotsExact` (what a snapshot or check
reports is right at that moment; no file is written twice).

*Machine.* `DecodingRight`: outside `KnownGap` an instruction has the length of the
architecture.  `StubsSound`: a stub does what the function did, unless one of its
instructions is `MovedWrongly`; whatever they are, a call of the function reaches its
replacement.  `UnpatchRestores` (action property): so does the function again after an
unpatch, unless one of its instructions `ComesBackWrong`.  `LibcsPatched`: the C libraries
are patched whenever the modules could be listed; once each, and with a slot of their
own, while `SlotsStayApart`.  `SystemFilesRead`.

### Bounds

All bounds are constants of the instances in the four bundling modules and are named
there.  They are chosen so that each case of the code occurs:

* path search: graphs of four edges with branch, join, cycle, self loop, parallel
  edges, sink, several sources and repeat time 2; two scenarios, since interaction goes
  through state one earlier scenario can leave;
* page heap: four pages, two exact lists, so that merging on both sides, carving,
  splitting and the large list all happen; page maps: eight pages with ranges across
  leaf, node and end;
* threads: two everywhere except for the thread caches, where stealing needs a third;
  a lock has one owner and a second thread is the one that comes between;
* central lists: two spans of two objects and two classes, so that each class can evict
  from the other; hook lists: three slots and two hooks, so that there are holes;
* sizes and addresses: small rings where wrap-around (`SizeT`, `W`) is a few units from the
  requests; the size classes and the opcode tables have the source's own values;
* calls (`MaxCalls`, `MaxOps`, `MaxChanges`): two to seven (region map 3 to 5 with one or two
  nested maps, heap profiler up to 7, heap checker 4 or 5 with at most one unusual thing in
  its environment, entries in threads on one address); each is large enough for
  the hazards of the component to be reached, which the mutants show, and only bounds
  the state space;
* patcher: every kind of instruction, two to a function; libraries: five modules, one of
  each kind and two of the commonest, and one failed listing;
* files of maps and processors: two or three lines around a buffer of five or six
  characters: shorter, exact and longer lines at every offset.

### Fairness

The searches, document generation, flood, decoder and file readers are one thread
that never waits: weak fairness of `Next` (in `FairSpec` of the bundles it is strong
fairness of `Advance`, which for an action that stays enabled is the same).  The loader has
weak fairness of `Stage` only: no failure, exception or kill is ever due.  The logger has
weak fairness of each thread's `Step`: the JVM grants a lock that stays free.  In
`allocation_calls` and `tools_calls` each thread has **strong** fairness: a spin lock or
mutex that is free again and again is had in the end, which the sleeping spin lock of
`base/spinlock.cc` and the fair-enough mutexes of the systems provide.  `Succeed` is strong
fairness of a store-conditional: hardware does not let a reservation be lost for
ever, and without it no LL/SC loop ends.  `GoesOn` lets the heap checker's process go on.

Deadlock is checked in `path_search`, `graph_build` and `loader_runs`.  In the others it is
not: an instance stops at its bound on calls, when a file has been read, when the
program has ended, or, in the logger, when a thread waits for a lock that is kept.
That nobody waits for ever where calls do return is what `CallsReturn` says.

## 4. Findings

Two disagreements between the code and its own comments are runs:

1. `framework/logger/MLogger.java:84`: `addAppender` locks twice and never unlocks
   (`logger_add_blocks`).
2. `memory_region_map.cc:617`: the hook of mremap runs after the kernel; another thread's new
   mapping of the old place is forgotten (`region_mremap`).

While modelling, others were seen.  The models have the code's behaviour.  Where a passing
run would show it, the property or the instance leaves the case out, and the comment of the
property says so; what does it, an operator of the module or a parameter of the instance,
is named here in brackets.  The others contradict a comment of the
code and no property:

* generator: the N2N algorithms never empty their temporary lists and deliver paths of an
  earlier scenario (`MPathAlgoCovShortN2N.java:88`; these are the paths `AskedFor` an earlier
  scenario in `N2NDeliversBest`); a method whose step number another one has, or that is
  larger than the count of methods, is dropped without a word (`MGenMbtXml.java:244`,
  `Taken`); a stale step log is read as part of the next
  model (`MGenMbtXml.java:270`); `dataMap` is never cleared (`MDataAlgoDiscards.java:76`); a step
  used twice on a path gets its second choice in both places
  (`MGenReplacedStep.java:137`, which `CasesComplete` states as "last choice").
* allocation: rounding in `SbrkSysAllocator` can wrap for sizes its comment excludes
  (`system-alloc.cc:215`), because the alignment is raised (481) after the test for overflow
  (471) (`RaisedWraps`); `tc_pvalloc` wraps and returns a block without the room
  (`tcmalloc.cc:1628`, `PvallocWraps`).
* atomic operations: the 64-bit PowerPC compare looks at 32 bits
  (`atomicops-internals-linuxppc.h:240`, header left out of `AtomicHeaders`); the barrier
  increment of ARM and the re-read after a failed compare-and-swap (`KnownGaps` of
  `MCAllocation`).
* hooks and debugging: a hook registered before the first call sees that event twice
  (`malloc_hook.cc:115`, `TimesDue`); the munmap replacement is asked only if there is an mmap
  replacement (`malloc_hook-inl.h:263`, stated in `MunmapReplacementAsked`); `realloc` of an
  aligned debug block copies from the wrong place (`debugallocation.cc:1205`,
  `ReallocAligned`) and its allocated size is too large (1050).
* tables: the bucket list is longer than its count after regions go
  (`heap-profile-table.cc:365`), mmap buckets displace malloc buckets (442), the wrong map is
  destroyed (159), a leak at a reused address is hidden (495, the guard of `Alloc` in
  `HeapChecker`); ignored objects may have two records (`heap-checker.cc:1103`).
* region map: `LockIsHeld` may answer for the owner before (`memory_region_map.cc:294`), an
  address at the border of two regions is not found (303), the start of a region cut in
  the middle is dropped (545; `Ranges` of all instances but `region_cut`), `sbrk` in two
  threads loses a region (627) and so does `mremap` (617; `Calls`), a late hook allocates
  from a deleted arena (503; `Calls`: no `shutdown` with two threads).
* profiler and checker: file names begin at 1 (`heap-profiler.cc:225`); a requested dump does
  not move the marks (518); hooks are not unset around symbolization
  (`heap-checker.cc:1834`); an early checker does nothing or stops the program (1580, 1741;
  `LeaksExact` speaks of checks while the tool is on); `BytesLeaked` after a disabled check stops the program (1727) and so do
  the ranges of a library in the place of another (2336; two values of `fate` that `NeverStops`
  does not name); cleaners run without checking (1923).
* machine: `KnownGap` of `MiniDisassembler` lists the encodings with a wrong length
  (`mini_disassembler.cc:410`); errors leave the count alone (77); no page near is only
  asserted (`preamble_patcher.cc:443`).
* stubs (`MovedWrongly`): the offset of a backward short jump is read as unsigned
  (`preamble_patcher.cc:578`); a call through a register is taken for a short jump (535); a
  32-bit call through memory has its absolute address moved like an offset (611); a
  RIP-relative instruction other than the MOV is copied as it is
  (`preamble_patcher_with_stub.cc:181`).
* unpatching (`ComesBackWrong`): the bytes of the relative MOV are not counted, so the next
  instruction is written over it and `SUCCESS` returned (`preamble_patcher.cc:365`); a short
  jump, and any branch near enough, comes back in the short form with the offset of the long
  one, against the comment at 338 (614); a call through a register comes back as the jump
  the stub has.
* libraries (`SlotsStayApart`): a re-exported function is patched twice
  (`patch_functions.cc:488`), which the test at 507 is meant to prevent but compares with
  the functions of the modules, not with the patched ones; a failed `EnumProcessModules`
  forgets the modules, which get slots again, perhaps those of others; both together can
  make a function jump to itself; a reloaded module stays unpatched (717, `rejected`).
* system files: a line that fills the buffer is left out by `DumpProcSelfMaps`
  (`base/sysinfo.cc:978`); a rate of zero survives (325), and a late bogomips of zero
  replaces a good one (366).

## 5. Proofs

The theorems hold for every value of the constants that satisfies the named
assumptions, which TLC evaluates for the instances of the runs: any states, steps and
graphs with positive repeat times (`SearchAssumption`), fewer states than
`MAX_PATH_DIST` = 99999999, the distance that stands for "not reached" (`DistAssumption`;
from there on the shortest path searches would pass edges they should follow), any model (`LoaderAssumption`,
`GraphAssumption`), any number of threads, appenders and levels (`LoggerAssumption`), any
hooks and any length of the list (`SizeAssumption`), any threads, classes and finite set
of spans, any batch and any sizes of spans and caches (`CentralConstants`), any word of two
equal halves, threads and arguments (`WordConstants`; `WholeWords` leaves out the 64-bit
PowerPC header, whose compare looks at one half, section 4), any threads, calls and
ranges (`RegionConstants`).

| module | theorems | inductive invariant |
|---|---|---|
| `MPathSearch_proofs` | `SearchCorrect`, `CoverProgresses`, `TypeCorrect`, `WalkCorrect`, `BudgetKept`, `CleanScenarios`, `LongExploresAll` | `IndInv`: the stack and the path have the same length; each activation remembers the repeat time and the distance it has to restore; the distance list of a state on the path is its position, and extreme elsewhere. `FindInv`: each walk searched for is recorded, or its start state is still to come, or it is ahead of the search; the lists of the N2N searches hold walks of the running round and what this or an earlier scenario has asked for, as best ones (`AskedInv`) |
| `MGraph_proofs` | `TypeCorrect`, `NodesCorrect`, `AdjacencyCorrect`, `PairsCorrect`, `StepLookup` | the position in the three loops determines which edges exist, in which order and with which data |
| `MTestLoader_proofs` | `TypeCorrect`, `DiskClean`, `StaleLogMeansFailure`, `StepsAreInXml` | the sorted list has the first method of each number looked for so far, in the order of the numbers (`SortInv`); the path variables set at each stage; every file of the current run is known to one of them; the log is gone after the stage that reads it; the log is what the stale one held and the steps written so far, in order, and how the XML is laid out from it (`LaidOut`) |
| `MLogger_proofs` | `TypeCorrect`, `AppendersDistinct`, `LockPinned` | a thread in the locked part of any operation owns the lock; what a thread that is about to append has seen of the list is still so; an attached appender accounts for one hold nobody gives back |
| `HookList_proofs` | `ListIsBag`, `TypeCorrect`, `EndTight`, `PastEndEmpty`, `TraversalComplete` | only the holder of the spin lock is inside a critical section, and what it has read there is still so (`HolderKnows`); a traversal has seen every hook that was there all the time at the slots behind it (`TraverseSeen`) |
| `CentralFreeList_proofs` | `NoneLostNoneTwice`, `AllAccounted`, `RefcountsCorrect`, `CountersCorrect`, `CachesBounded`, `LocksInverted`, `TypeCorrect` | a place is a span's list, a slot, a caller's hands or the list a thread is working on; no two places share an object (`Disjoint`), together they are the objects of the listed spans (`Covered`), and each place holds objects of one class; what a thread holds at each line between two changes of a lock (`CallsOK`) |
| `AtomicOps` | `TakesEffectAtOnce`, `TypeCorrect` | a reservation vouches for the value loaded; a loop keeps what it computed from the value it read; a compare-and-swap keeps its arguments (`CallOK`); the tables of the headers give loops and primitives only in sound combinations (`CodeIsSound`) |
| `MemoryRegionMap` | `LockIsRecursive`, `LockChecksNeverFail`, `SavedRegionsAreInserted` | the tasks of a thread are brackets: from the state the thread is in, every prefix has a state, its depth in the lock and what is known of the saved regions; tasks that need the lock have depth one or more, and outside all is clean (`ThreadNests`) |

`SearchCorrect` is the result a user of the generator relies on, and its invariant speaks of
walks, not of calls: a walk is *ahead* when it leaves the path under construction at a
later edge than the one followed there, or goes on from its end (`Later`, `Onward`).
Following an edge, returning over it and passing one leave the set of walks ahead as it
is; only recording a path takes a walk out of it, namely that path (`AheadFollow`,
`AheadRestore`, `AheadSkip`, `RecordEffect`).  Passing an edge is sound because a walk that
goes on over it would break its repeat time or, for the shortest paths, visit a state twice
(`PassedOver`, with the distances of `IndInv`); "no usable neighbour" is sound because the
flag of the activation says which edges were used up when (`OkInv`).  The N2N searches also
need that a round's best distance is that of a path to the same last state (`RoundDist`)
and, for that nothing else is delivered, that no walk the search has passed in the round is
better than the distance it holds (`RoundBound`): what a finished round leaves in the list is
then a best walk of the graph, and stays one for every later scenario.
The walks are finite in number because a walk's k-th edge is a use of that edge no other
position has (`WalkBound`); where a list's next position is needed, it is the smallest of
its upper bounds, by a minimal counterexample in the well-founded order of the naturals
instead of an induction.

`EdgeBudget` is not inductive by itself: what `Restore` puts back was saved when the edge
was followed, so the invariant says what every activation has saved.  `NoTmpFileLeft`
needs that a path variable is set *before* the file is written, the order of statements
in `run`.  `LaterStepsIntact` needs the whole layout of the log: a step is read back
complete because what precedes it ends where it begins, and only the first
step follows a stale end.  That the steps are those of the model needs the sort: a method
is passed over exactly if another one before it has its number or the number is larger
than the count.  `NoDuplicateAppender` is the lock's doing: between the look and the change
another thread would have to own what this one holds.  `AppenderPinsLock` needs the hold count: a removal gives back
its own hold and not the one the addition left behind.

`ObjectsAccounted` needs the places: while `EvictRandomSizeClass` and `ShrinkCache` give up
one lock and take another, the objects on their way are in no list, and only `CallsOK`
says whose they are.  In `ListIsBag` the bag is the hooks in the slots by the numbers of
the slots; the step that adds or takes a copy is the store into the slot, and the move of
`priv_end` stutters.  In `TakesEffectAtOnce` an operation takes effect at its locked
instruction, its successful store-conditional, the load that shows a compare-and-swap
that it must fail, or its plain access; every other step, the loads of
a loop that starts over among them, stutters.  `LockIsRecursive` cannot speak of the
holder alone: a hook that runs inside an insertion puts `Lock` and `Unlock` of its own in
front of what the thread has still to do, so the invariant says that all of it is
balanced, and each step's lemma that what it puts in front is.
`SavedRegionsAreInserted` follows the same list: `insert` leads from `clean` or `dirty` to
`clean` because what it puts in front ends by emptying `saved_regions`, and from `flag` to
`flag` because within an insertion it only saves (`Turns`).  It needs no bound on how often
the allocator maps memory of its own, and none on the buffer: where `saved_regions` or the
nesting overflows, the program stops in a check (that it never does is `failure = "none"` in
`RecursionEnds`, which depends on the allocator and is model-checked).

Only model-checked, and why:

* liveness (`SearchesReturn`, `RunEnds`, `CallReturnsOrLockIsKept`, `CallsReturn`), like
  `ENABLED`, is out of the prover's reach;
* what "repeat", "route" and the document generation deliver (`DeliverExactly`,
  `CasesComplete`): the first repeats edges in sequences of computed length and the last
  enumerates combinations, an induction over data, and the library's induction theorems
  take an operator the provers cannot instantiate;
* what needs the value of a fold, a power or a sorted enumeration, for the same
  reason: the slots of all central lists and the sums of the thread caches (`SlotsConserved`,
  `SizeIsSum`, `SpaceAddsUp`), the release loops of
  `PageHeap`, the tree of `PageMap`, the flood in `LiveExact`;
* that the region map is complete (`RegionsComplete`): it is false with `mremap` in two
  threads, so it holds of the instances that stay clear of that;
* the remaining modules of tprofiler, where a small instance already meets every
  encoding, line or sequence of calls the module distinguishes.

## 6. Not modelled

Parts: the text of views, `MDraw` and `MDot`, XML and JSON parsing, `MLogMag` and the
appenders, `MGenCase` beyond handing documents over, the scripts of `PrecisionTest`; of
tprofiler the CPU profiler (signals), `low_level_alloc`, `spinlock`, the thread lister and
system calls in assembler, ELF and vdso parsing, stack unwinding and symbolization,
logging, the Windows port and its tools, `malloc_extension`, the sampler and statistics,
the packed cache, the page numbers of mmap offsets, and the search for the caller in a
stack trace.

Inside modelled parts:

* `DevMemSysAllocator` (never instantiated), the test for kernel TLS, the rounding of floating
  point in the release rate, statistics;
* patching while other threads execute the patched bytes (out of contract,
  `preamble_patcher.h:98`), unpatching at exit (`#if 0`), modules that were rejected once;
* the trace file of the debugging allocator; the sides of aligned debug objects, which the
  code does not guard; writes after a block has left the queue;
* hash values of stacks, symbol tables, removal of old profiles by pattern;
* sizes in sum and call stacks of the region map; mmap logging of the heap profiler;
* reads of `/proc/cpuinfo` that fail; what `sscanf` accepts beyond "can be parsed";
* in the heap checker the test of its own double initialization, file names, and objects at
  reused addresses between two checkers;
* hooks of mremap with two threads in `debug_hooks` (its race is `region_mremap`);
* integer width where no counter can reach it; it is modelled where it can (sizes,
  `MaxHold`, packed fields of the processor's signature).

## 7. Plan

Done: the generator with its proofs; allocator, hooks, debugging allocator, atomic
operations, profiling tools, the machine; proofs about the hook list, the central lists,
the atomic operations and the lock of the region map.  Next, in this order:

1. theorems about the queue of freed blocks, the alternation of hooks in
   `AllocEntryPoints` and the switching of `HeapProfiler`;
2. composition of `ThreadCacheLists` with `CentralFreeList`, and of `AllocEntryPoints`
   with both;
3. the profile handler with its signal as an asynchronous step;
4. the spin lock with its futex, and strong fairness of the calls derived from it;
5. `MLogMag` and the file appender, and a case that fails in `MGenCase`.
