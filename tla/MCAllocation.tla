---------------------------- MODULE MCAllocation -----------------------------
(* The parts of the allocator, of its hooks and of its debugging version,   *)
(* each in a small instance.  Every behaviour is of one part: `part` says   *)
(* which, and v1, v2, ... are the variables of its component.  The central  *)
(* lists are the module that is extended, with variables of their own, so   *)
(* that the invariant of the run is the one that is proved; they keep their *)
(* initial values while another part runs.                                  *)
EXTENDS CentralFreeList

CONSTANTS Parts,                 \* the parts that a run explores
          t1, t2, t3,            \* threads
          c1, c2,                \* size classes
          s1, s2,                \* descriptors
          a1, a2, f1,            \* addresses
          hook1, hook2,                \* hooks
          r1, r2, o1,            \* ranges of the kernel, and of a replacement
          NoHook, NoThread, NoBlock, Failed, Null, NotUsed

VARIABLES part,
          v1, v2, v3, v4, v5, v6, v7, v8, v9, v10, v11, v12, v13, v14, v15

-----------------------------------------------------------------------------
(* The kinds of allocation, by the marks of debugallocation.cc.                *)
kMallocType == -10
kNewType == -11
kArrayNewType == -12

AtomicHeaders == {"x86", "x86_64/64", "i386/64", "arm_v6", "arm_v6/64", "arm_v6_no_ldrexd/64",
                  "arm_generic", "arm_generic/64", "ppc", "mac", "mac/64", "mac_i386/64",
                  "windows", "win64/64", "win32/64"}
BarrierHeaders == {"x86", "x86_64/64", "i386/64", "arm_v6", "arm_v6/64", "arm_generic", "ppc",
                   "ppc/64", "mac", "mac/64", "mac_i386/64", "windows", "win64/64"}

(* Around the edges of family 15, models 32 to 63; every AMD processor of     *)
(* that family has SSE2.                                                      *)
X86Cpus == {c \in [amd : BOOLEAN, family : {6, 15}, ext_family : {0, 1}, model : {0, 15},
                   ext_model : {1, 2, 3, 4}, sse2 : BOOLEAN] :
              c.amd /\ c.family = 15 => c.sse2}

(* The increment of ARM has no barrier where the definition of the barrier    *)
(* needs one, and a compare-and-swap that fails loads the value again after   *)
(* its barrier.                                                               *)
KnownGaps ==
  ({"arm_v6", "arm_v6/64"} \X {"Barrier_AtomicIncrement"} \X {"succeeds"})
    \cup ({"ppc", "ppc/64", "mac", "mac/64", "arm_generic"}
            \X {"Acquire_CompareAndSwap", "Release_CompareAndSwap"} \X {"fails"})

(* The page heap: four pages; lengths from two on share the large lists.    *)
PH == INSTANCE PageHeap WITH
        NPages <- 4, kMaxPages <- 2, kMaxValidPages <- 3, MaxSlack <- 1,
        kDefaultReleaseDelay <- 1, kMaxReleaseDelay <- 1, ReleaseMult <- 1,
        ReleaseAsks <- {2}, heap <- v1, rate <- v2
ASSUME PH!PageHeapConstants

(* The page maps: eight pages; ranges inside a leaf, across leaves and      *)
(* nodes, and past the end.                                                 *)
PM == INSTANCE PageMap WITH
        NULL <- Null, BITS <- 3, ROOT_BITS <- 2, INTERIOR_BITS <- 1, Values <- {s1, s2},
        Ranges <- {<<0, 3>>, <<3, 3>>, <<6, 3>>}, Starts <- {0, 1, 5}, kind <- v1,
        nodes <- v2, leaves <- v3, op <- v4, flat <- v5, ensured <- v6
ASSUME PM!PageMapConstants

(* The system allocators: heap growth asks with the page alignment and      *)
(* wants actual_size, metadata asks with none; one size wraps in the test   *)
(* for overflow, one only after it.                                         *)
SA == INSTANCE SystemAlloc WITH
        W <- 64, BrkStart <- 1, BrkLimit <- 14, MmapLo <- 16, MmapHi <- 48, MinAlign <- 2,
        pagesize <- 4, BigPage <- 8, Limit <- 24, MaxRegions <- 2, MaxForeign <- 1,
        Requests <- {<<3, 4, TRUE>>, <<3, 0, FALSE>>, <<5, 16, TRUE>>, <<62, 4, TRUE>>,
                     <<63, 0, TRUE>>},
        brk <- v1, mapped <- v2, foreign <- v3, allocs <- v4, failed <- v5, huge <- v6,
        files <- v7, call <- v8, given <- v9, released <- v10
ASSUME SA!SystemAllocConstants

(* The size map, with the constants of the code.                            *)
SM == INSTANCE SizeMap WITH
        kPageShift <- v1, pc <- v2, size <- v3, class_to_size <- v4, class_to_pages <- v5,
        class_array <- v6

(* The central lists of two size classes, two objects to a span; the calls  *)
(* with batches of one.                                                     *)
CC == INSTANCE CentralFreeList WITH
        Threads <- {t1, t2}, Spans <- {1, 2}, Classes <- {c1, c2}, ObjectsPerSpan <- 2,
        Batch <- 1, cache_size0 <- 1, max_cache_size <- 2, MaxOwned <- 1, central <- v1,
        span <- v2, th <- v3, owned <- v4
ASSUME CentralConstants /\ CC!CentralConstants

(* The lists of one thread cache: classes of one and of three bytes.        *)
CL == INSTANCE ThreadCacheLists WITH
        Classes <- {1, 2}, ByteSize <- <<1, 3>>, BatchSize <- <<3, 2>>,
        kMaxDynamicFreeListLength <- 7, kMaxOverages <- 1, kStealAmount <- 2,
        MaxSizes <- {5, 7, 9}, MaxInUse <- 5, list <- v1, size <- v2, max_size <- v3,
        inuse <- v4
ASSUME CL!ListConstants

(* The caches of three threads.                                             *)
TH == INSTANCE ThreadCacheHeaps WITH
        Threads <- {t1, t2, t3}, kMinThreadCacheSize <- 2, kMaxThreadCacheSize <- 4,
        kStealAmount <- 1, kStealTries <- 2, OverallSizes <- {0, 5},
        kDefaultOverallThreadCacheSize <- 4, tsd_inited <- v1, heaps <- v2, max_size <- v3,
        steal <- v4, unclaimed <- v5, overall <- v6, per_thread <- v7, key <- v8, tls <- v9,
        pc <- v10
ASSUME TH!HeapConstants

(* The entry points: every one with one size by one thread, a few by two,   *)
(* and every size up to the largest size_t.                                 *)
AE == INSTANCE AllocEntryPoints WITH
        Addresses <- {a1, a2}, SizeT <- 16, Threads <- {t1}, Foreign <- {f1},
        Mix <- "entries", Biggest <- 9, MaxCalls <- 3, block <- v1, known <- v2,
        tc_new_mode <- v3, handler <- v4, installed <- v5, hlock <- v6, todo <- v7,
        call <- v8, result <- v9, nh <- v10, bad <- v11, outcome <- v12, calls <- v13
AT == INSTANCE AllocEntryPoints WITH
        Addresses <- {a1}, SizeT <- 16, Threads <- {t1, t2}, Foreign <- {f1},
        Mix <- "threads", Biggest <- 9, MaxCalls <- 3, block <- v1, known <- v2,
        tc_new_mode <- v3, handler <- v4, installed <- v5, hlock <- v6, todo <- v7,
        call <- v8, result <- v9, nh <- v10, bad <- v11, outcome <- v12, calls <- v13
AS == INSTANCE AllocEntryPoints WITH
        Addresses <- {a1, a2}, SizeT <- 16, Threads <- {t1}, Foreign <- {}, Mix <- "sizes",
        Biggest <- 12, MaxCalls <- 2, block <- v1, known <- v2, tc_new_mode <- v3,
        handler <- v4, installed <- v5, hlock <- v6, todo <- v7, call <- v8, result <- v9,
        nh <- v10, bad <- v11, outcome <- v12, calls <- v13
ASSUME AE!EntryBounds /\ AT!EntryBounds /\ AS!EntryBounds

(* A list for three hooks, or for two, with two threads and two hooks.      *)
HL == INSTANCE HookList WITH
        Threads <- {t1, t2}, Hooks <- {hook1, hook2}, kHookListMaxValues <- 3,
        priv_end <- v1, priv_data <- v2, hooklist_spinlock <- v3, pc <- v4, value <- v5,
        index <- v6, hooks_end <- v7, output <- v8, kept <- v9
HC == INSTANCE HookList WITH
        Threads <- {t1, t2}, Hooks <- {hook1, hook2}, kHookListMaxValues <- 2,
        priv_end <- v1, priv_data <- v2, hooklist_spinlock <- v3, pc <- v4, value <- v5,
        index <- v6, hooks_end <- v7, output <- v8, kept <- v9
ASSUME HL!SizeAssumption /\ HC!SizeAssumption

(* The wrappers of Linux by one thread, those of FreeBSD by two, and the    *)
(* first calls of two threads.                                              *)
MH == INSTANCE MallocHook WITH
        Threads <- {t1}, Platform <- "linux", Hooks <- {"watch", "swap"},
        Ranges <- {r1, r2}, OwnRanges <- {o1},
        Ops <- {"new", "delete", "mmap", "mmap64", "munmap", "mremap", "sbrk", "sbrk0",
                "UnhookedMMap", "UnhookedMUnmap"},
        HookedKinds <- {"delete", "premmap", "sbrk"},
        StandingKinds <- {"mmap", "munmap", "mremap"},
        MaxCalls <- 3, MaxChanges <- 2, lists <- v1,
        single <- v2, replacement <- v3, once <- v4, stack <- v5, arg <- v6, result <- v7,
        mapped <- v8, reported <- v9, called <- v10, due <- v11, asked <- v12,
        initialized <- v13, calls <- v14, changes <- v15
MT == INSTANCE MallocHook WITH
        Threads <- {t1, t2}, Platform <- "freebsd", Hooks <- {"watch", "swap"},
        Ranges <- {r1}, OwnRanges <- {}, Ops <- {"mmap", "munmap", "sbrk"},
        HookedKinds <- {"premmap", "presbrk"}, StandingKinds <- {"mmap", "munmap"},
        MaxCalls <- 3, MaxChanges <- 1, lists <- v1, single <- v2, replacement <- v3,
        once <- v4, stack <- v5, arg <- v6, result <- v7, mapped <- v8, reported <- v9,
        called <- v10, due <- v11, asked <- v12, initialized <- v13, calls <- v14,
        changes <- v15
MF == INSTANCE MallocHook WITH
        Threads <- {t1, t2}, Platform <- "other", Hooks <- {"swap"}, Ranges <- {r1},
        OwnRanges <- {}, Ops <- {"new", "UnhookedMMap", "UnhookedMUnmap"},
        HookedKinds <- {"new"}, StandingKinds <- {}, MaxCalls <- 3, MaxChanges <- 1, lists <- v1,
        single <- v2, replacement <- v3, once <- v4, stack <- v5, arg <- v6, result <- v7,
        mapped <- v8, reported <- v9, called <- v10, due <- v11, asked <- v12,
        initialized <- v13, calls <- v14, changes <- v15

(* The debugging allocator: a correct program, one that makes mistakes, two *)
(* threads, and pages fenced.                                               *)
DH == INSTANCE DebugAllocation WITH
        pagesize <- 4, FLAGS_malloc_page_fence <- FALSE,
        FLAGS_malloc_reclaim_memory <- TRUE, FLAGS_max_free_queue_size <- 1, MaxOps <- 5,
        ReallocAligned <- FALSE, Threads <- {1}, Words <- 30, Starts <- {0, 8, 16, 22},
        Sizes <- {0, 2}, Alignments <- {4}, Types <- {kMallocType, kNewType},
        MayMisuse <- FALSE, mem <- v1, regions <- v2, fenced <- v3, alloc_map <- v4,
        free_queue <- v5, objects <- v6, freed <- v7, pc <- v8, fatal <- v9, ops <- v10
DM == INSTANCE DebugAllocation WITH
        pagesize <- 4, FLAGS_malloc_page_fence <- FALSE,
        FLAGS_malloc_reclaim_memory <- TRUE, FLAGS_max_free_queue_size <- 1, MaxOps <- 5,
        ReallocAligned <- FALSE, Threads <- {1}, Words <- 22, Starts <- {0, 8, 14},
        Sizes <- {1, 2}, Alignments <- {2}, Types <- {kMallocType, kNewType, kArrayNewType},
        MayMisuse <- TRUE, mem <- v1, regions <- v2, fenced <- v3, alloc_map <- v4,
        free_queue <- v5, objects <- v6, freed <- v7, pc <- v8, fatal <- v9, ops <- v10
DT == INSTANCE DebugAllocation WITH
        pagesize <- 4, FLAGS_malloc_page_fence <- FALSE,
        FLAGS_malloc_reclaim_memory <- TRUE, FLAGS_max_free_queue_size <- 1, MaxOps <- 5,
        ReallocAligned <- FALSE, Threads <- {1, 2}, Words <- 18, Starts <- {0, 8},
        Sizes <- {2}, Alignments <- {}, Types <- {kMallocType, kNewType}, MayMisuse <- TRUE,
        mem <- v1, regions <- v2, fenced <- v3, alloc_map <- v4, free_queue <- v5,
        objects <- v6, freed <- v7, pc <- v8, fatal <- v9, ops <- v10
DF == INSTANCE DebugAllocation WITH
        pagesize <- 4, FLAGS_malloc_page_fence <- TRUE, FLAGS_malloc_reclaim_memory <- TRUE,
        FLAGS_max_free_queue_size <- 1, MaxOps <- 5, ReallocAligned <- FALSE,
        Threads <- {1}, Words <- 36, Starts <- {8, 12, 16, 24}, Sizes <- {0, 3},
        Alignments <- {2}, Types <- {kMallocType}, MayMisuse <- FALSE, mem <- v1,
        regions <- v2, fenced <- v3, alloc_map <- v4, free_queue <- v5, objects <- v6,
        freed <- v7, pc <- v8, fatal <- v9, ops <- v10

(* The queue of freed blocks, the odd ones large.                           *)
FQ == INSTANCE FreeQueue WITH
        Threads <- {t1, t2}, EntrySize <- 1, Batch <- 2, MaxChecks <- 1,
        Blocks <- {1, 2, 3, 4, 6},
        SizeOf <- [b \in {1, 2, 3, 4, 6} |-> IF b % 2 = 1 THEN 5 ELSE 1],
        kFreeQueueSize <- 4, max_free_queue_size <- 8, q_ <- v1, q_front_ <- v2,
        q_back_ <- v3, free_queue_size_ <- v4, free_queue_lock_ <- v5, held <- v6,
        released <- v7, pc <- v8, entries <- v9, adding <- v10, limit <- v11, checks <- v12
FC == INSTANCE FreeQueue WITH
        Threads <- {t1, t2}, EntrySize <- 1, Batch <- 2, MaxChecks <- 1,
        Blocks <- {1, 2, 4}, SizeOf <- [b \in {1, 2, 4} |-> IF b % 2 = 1 THEN 5 ELSE 1],
        kFreeQueueSize <- 3, max_free_queue_size <- 6, q_ <- v1, q_front_ <- v2,
        q_back_ <- v3, free_queue_size_ <- v4, free_queue_lock_ <- v5, held <- v6,
        released <- v7, pc <- v8, entries <- v9, adding <- v10, limit <- v11, checks <- v12
ASSUME FQ!SizeAssumption /\ FC!SizeAssumption

(* The atomic operations of every header but that of 64-bit PowerPC.        *)
AO == INSTANCE AtomicOps WITH
        Threads <- {t1, t2}, Size <- 4, Half <- 2, UsedPlatforms <- AtomicHeaders,
        UsedOps <- {"Acquire_CompareAndSwap", "NoBarrier_AtomicExchange", "Barrier_AtomicIncrement",
                    "Release_Store", "Acquire_Load"},
        OldValues <- {0, 1}, NewValues <- {0, 1}, platform <- v1, word <- v2, th <- v3
AL == INSTANCE AtomicOps WITH
        Threads <- {t1, t2}, Size <- 4, Half <- 2,
        UsedPlatforms <- {"x86", "arm_v6", "ppc", "mac"},
        UsedOps <- {"Acquire_CompareAndSwap", "NoBarrier_AtomicExchange", "Barrier_AtomicIncrement",
                    "Release_Store", "Acquire_Load"},
        OldValues <- {0, 1}, NewValues <- {0, 1}, platform <- v1, word <- v2, th <- v3
ASSUME AO!WordConstants /\ AL!WordConstants /\ AO!WholeWords /\ AL!WholeWords

(* The barriers of the atomic operations, but for the known gaps.           *)
AB == INSTANCE AtomicBarriers WITH
        UsedPlatforms <- BarrierHeaders, Cpus <- X86Cpus, Gaps <- KnownGaps, program <- v1,
        performed <- v2, about <- v3

-----------------------------------------------------------------------------
(* The variables that a component with so many of its own leaves alone.        *)
Rest13 == <<v14, v15>>
Rest12 == <<v13, Rest13>>
Rest10 == <<v11, v12, Rest12>>
Rest9 == <<v10, Rest10>>
Rest6 == <<v7, v8, v9, Rest9>>
Rest4 == <<v5, v6, Rest6>>
Rest3 == <<v4, Rest4>>
Rest2 == <<v3, Rest3>>
NotUsed13 == /\ v14 = NotUsed /\ v15 = NotUsed
NotUsed12 == /\ v13 = NotUsed /\ NotUsed13
NotUsed10 == /\ v11 = NotUsed /\ v12 = NotUsed /\ NotUsed12
NotUsed9 == /\ v10 = NotUsed /\ NotUsed10
NotUsed6 == /\ v7 = NotUsed /\ v8 = NotUsed /\ v9 = NotUsed /\ NotUsed9
NotUsed4 == /\ v5 = NotUsed /\ v6 = NotUsed /\ NotUsed6
NotUsed3 == /\ v4 = NotUsed /\ NotUsed4
NotUsed2 == /\ v3 = NotUsed /\ NotUsed3

PageHeapInit ==
    /\ part = "page_heap" /\ PH!Init
    /\ NotUsed2

PageMapInit ==
    /\ part = "page_map" /\ PM!Init
    /\ NotUsed6

SystemInit ==
    /\ part = "system_alloc" /\ SA!Init
    /\ NotUsed10

SizeMapInit ==
    /\ part = "size_map" /\ SM!Init
    /\ NotUsed6

CentralInit ==
    \/ /\ part = "central"
       /\ v1 = NotUsed /\ v2 = NotUsed /\ NotUsed2
    \/ /\ part = "central_calls" /\ CC!Init
       /\ NotUsed4

CacheListsInit ==
    /\ part = "cache_lists" /\ CL!Init
    /\ NotUsed4

CachesInit ==
    /\ part = "caches" /\ TH!Init
    /\ NotUsed10

EntryInit ==
    /\ \/ part = "entries" /\ AE!Init
       \/ part = "entry_threads" /\ AT!Init
       \/ part = "entry_sizes" /\ AS!Init
    /\ NotUsed13

HookListInit ==
    /\ \/ part = "hook_list" /\ HL!Init
       \/ part = "hook_calls" /\ HC!Init
    /\ NotUsed9

WrapperInit ==
    /\ \/ part = "wrappers" /\ MH!Init
       \/ part = "wrapper_threads" /\ MT!Init
       \/ part = "first_call" /\ MF!Init

DebugInit ==
    /\ \/ part = "debug_heap" /\ DH!Init
       \/ part = "debug_misuse" /\ DM!Init
       \/ part = "debug_threads" /\ DT!Init
       \/ part = "debug_fence" /\ DF!Init
    /\ NotUsed10

QueueInit ==
    /\ \/ part = "free_queue" /\ FQ!Init
       \/ part = "queue_calls" /\ FC!Init
    /\ NotUsed12

AtomicInit ==
    /\ \/ part = "atomic_words" /\ AO!Init
       \/ part = "atomic_calls" /\ AL!Init
    /\ NotUsed3

BarrierInit ==
    /\ part = "barriers" /\ AB!Init
    /\ NotUsed3

AllInit ==
    /\ part \in Parts /\ Init
    /\ \/ PageHeapInit
       \/ PageMapInit
       \/ SystemInit
       \/ SizeMapInit
       \/ CentralInit
       \/ CacheListsInit
       \/ CachesInit
       \/ EntryInit
       \/ HookListInit
       \/ WrapperInit
       \/ DebugInit
       \/ QueueInit
       \/ AtomicInit
       \/ BarrierInit

PageHeapStep ==
    /\ UNCHANGED <<part, vars, Rest2>>
    /\ part = "page_heap" /\ PH!Next

PageMapStep ==
    /\ UNCHANGED <<part, vars, Rest6>>
    /\ part = "page_map" /\ PM!Next

SystemStep ==
    /\ UNCHANGED <<part, vars, Rest10>>
    /\ part = "system_alloc" /\ SA!Next

SizeMapStep ==
    /\ UNCHANGED <<part, vars, Rest6>>
    /\ part = "size_map" /\ SM!Next

CentralStep ==
    \/ /\ part = "central" /\ Next
       /\ UNCHANGED <<part, v1, v2, Rest2>>
    \/ /\ part = "central_calls" /\ CC!Next
       /\ UNCHANGED <<part, vars, Rest4>>

CacheListsStep ==
    /\ UNCHANGED <<part, vars, Rest4>>
    /\ part = "cache_lists" /\ CL!Next

CachesStep ==
    /\ UNCHANGED <<part, vars, Rest10>>
    /\ part = "caches" /\ TH!Next

EntryStep ==
    /\ UNCHANGED <<part, vars, Rest13>>
    /\ \/ part = "entries" /\ AE!Next
       \/ part = "entry_threads" /\ AT!Next
       \/ part = "entry_sizes" /\ AS!Next

HookListStep ==
    /\ UNCHANGED <<part, vars, Rest9>>
    /\ \/ part = "hook_list" /\ HL!Next
       \/ part = "hook_calls" /\ HC!Next

WrapperStep ==
    /\ UNCHANGED <<part, vars>>
    /\ \/ part = "wrappers" /\ MH!Next
       \/ part = "wrapper_threads" /\ MT!Next
       \/ part = "first_call" /\ MF!Next

DebugStep ==
    /\ UNCHANGED <<part, vars, Rest10>>
    /\ \/ part = "debug_heap" /\ DH!Next
       \/ part = "debug_misuse" /\ DM!Next
       \/ part = "debug_threads" /\ DT!Next
       \/ part = "debug_fence" /\ DF!Next

QueueStep ==
    /\ UNCHANGED <<part, vars, Rest12>>
    /\ \/ part = "free_queue" /\ FQ!Next
       \/ part = "queue_calls" /\ FC!Next

AtomicStep ==
    /\ UNCHANGED <<part, vars, Rest3>>
    /\ \/ part = "atomic_words" /\ AO!Next
       \/ part = "atomic_calls" /\ AL!Next

BarrierStep ==
    /\ UNCHANGED <<part, vars, Rest3>>
    /\ part = "barriers" /\ AB!Next

AllNext ==
    \/ PageHeapStep
    \/ PageMapStep
    \/ SystemStep
    \/ SizeMapStep
    \/ CentralStep
    \/ CacheListsStep
    \/ CachesStep
    \/ EntryStep
    \/ HookListStep
    \/ WrapperStep
    \/ DebugStep
    \/ QueueStep
    \/ AtomicStep
    \/ BarrierStep

(* The variables that the properties of this module look at.                  *)
central_th == v3
list_pc == v4
queue_pc == v8
word == v2
atomic_th == v3

all == <<part, vars, v1, v2, v3, v4, v5, v6, v7, v8, v9, v10, v11, v12, v13, v14, v15>>
AllSpec == AllInit /\ [][AllNext]_all

(* The scheduler runs every thread, and a spin lock that is free again and    *)
(* again is had in the end.  A store conditional that is tried for ever       *)
(* succeeds at last.                                                          *)
Advance(t) ==
    /\ UNCHANGED <<part, vars>>
    /\ \/ part = "central_calls" /\ CC!ThreadStep(t) /\ UNCHANGED Rest4
       \/ part = "hook_calls" /\ HC!Step(t) /\ UNCHANGED Rest9
       \/ part = "first_call" /\ MF!Step(t)
       \/ part = "queue_calls" /\ FC!Step(t) /\ UNCHANGED Rest12
       \/ part = "atomic_calls" /\ AL!Step(t) /\ UNCHANGED Rest3
Succeed ==
    /\ UNCHANGED <<part, vars, Rest3>>
    /\ part = "atomic_calls" /\ \E t \in {t1, t2} : AL!StoreConditional(t)
FairSpec == AllSpec /\ SF_all(Advance(t1)) /\ SF_all(Advance(t2)) /\ SF_all(Succeed)

-----------------------------------------------------------------------------
(* page_heap.cc:214 and 245: the spans tile the memory of the heap, the page  *)
(* map entries that a merge looks at are those of spans that exist, no two    *)
(* free spans of one kind are adjacent, and the lists and the byte counts say *)
(* the same.                                                                  *)
PageHeapConsistent ==
    part = "page_heap" =>
        /\ PH!TypeOK /\ PH!SpansTileMemory /\ PH!NeighboursAreLive
        /\ PH!NoAdjacentFreeSpans /\ PH!ListsAndCountsAgree /\ PH!RangesWalkable

(* pagemap.h:82 and 299: a page map of two or three levels answers with what  *)
(* was set last, also for keys past its end, has a leaf for every key that    *)
(* was ensured, and finds the first key that is set.  common.cc:151: the size *)
(* classes are as many as the constant says, waste no more than an eighth,    *)
(* are aligned and can be moved in batches.                                   *)
MapsExact ==
    /\ part = "page_map" =>
          PM!TypeOK /\ PM!GetIsLastSet /\ PM!EnsuredIsSettable /\ PM!NextFindsFirst
    /\ part = "size_map" =>
          SM!InitNeverCrashes /\ SM!WasteBounded /\ SM!ClassesAligned /\ SM!TransfersFit

(* system-alloc.cc:247 and 434: what the system allocator returns has room    *)
(* (but for the sizes of RaisedWraps, 471) and alignment, is no other's       *)
(* memory whatever the program does to the break in between, and one of the   *)
(* two allocators stays usable.  The file of huge pages (memfs_malloc.cc:161) *)
(* hands out no page twice, and no page outside the range is released.        *)
SystemAllocSafe ==
    part = "system_alloc" =>
        /\ SA!ResultServes /\ SA!RegionsAreOurs /\ SA!SomeChildUsable
        /\ SA!HugeFileDisjoint /\ SA!ReleaseStaysInside

(* thread_cache.h:349, thread_cache.cc:181, 126 and 453: size_ is the sum of  *)
(* the lists, the low-water marks and maximal lengths are well formed, the    *)
(* space of all caches adds up, next_memory_steal_ is a cache that exists,    *)
(* and a thread has one cache at most; central_freelist.cc:165: a slot of a   *)
(* central cache is taken from another one.                                   *)
CachesAccounted ==
    /\ part = "central" => SlotsConserved
    /\ part = "cache_lists" =>
          CL!SizeIsSum /\ CL!LowWaterBelow /\ CL!MaxLengthWellFormed
    /\ part = "caches" =>
          TH!SpaceAddsUp /\ TH!StealPointerValid /\ TH!OneCachePerThread /\ TH!SpaceOrVictims

(* tcmalloc.cc:1498, 1366 and 1080: the hooks see every block come and go, in *)
(* turn; only the throwing forms throw; no foreign pointer crashes a patched  *)
(* function; the new handler is read as it was set; a block has the room that *)
(* was asked for, whatever the size, but for the sizes at which tc_pvalloc    *)
(* wraps (PvallocWraps, tcmalloc.cc:1628).                                    *)
EntriesSound ==
    /\ part = "entries" =>
          AE!TypeOK /\ AE!HooksSeeEverything /\ AE!OnlyNewThrows /\ AE!NoCrash
    /\ part = "entry_threads" => AT!HooksAlternate /\ AT!HandlerIsRead
    /\ part = "entry_sizes" => AS!ResultHasRoom

-----------------------------------------------------------------------------
(* malloc_hook.cc:260 and 115: a traversal without the lock returns every     *)
(* hook that was there all the time and nothing past the end; a hook is       *)
(* called exactly once for each event, also one that removes itself or another *)
(* during it, but twice for the event of a first call that finds it registered *)
(* already; a watcher of mmap and munmap knows what is mapped, and the munmap *)
(* replacement is asked while there is an mmap replacement too.               *)
HooksSeeExactly ==
    /\ part = "hook_list" =>
          HL!TypeOK /\ HL!NothingPastEnd /\ HL!EndIsTight /\ HL!TraverseComplete
    /\ part = "wrappers" =>
          MH!TypeOK /\ MH!ExactlyOnce /\ MH!ViewExact /\ MH!MunmapReplacementAsked
    /\ part = "wrapper_threads" => MT!InitializedOnce /\ MT!ExactlyOnce /\ MT!ViewExact

(* debugallocation.cc:416 and 546: a program that makes no mistake and does   *)
(* not call realloc for an aligned block (ReallocAligned, 1205) is never      *)
(* stopped, whatever memory is used again, its contents are its own, and the  *)
(* pages of a fenced block are given back as they were taken.                 *)
NoFalseAlarm ==
    /\ part = "debug_heap" =>
          DH!TypeOK /\ DH!StatsExact /\ DH!NoFalseAlarm /\ DH!ContentsIntact
    /\ part = "debug_fence" => DF!NoFalseAlarm /\ DF!FenceGivenBack /\ DF!FenceBehind

(* debugallocation.cc:399 and 593: a mismatched, second or overrunning free   *)
(* stops the program, also when two threads free the pointer at once; a freed *)
(* block is in the queue once, and the queue stays in its bounds.             *)
MisuseCaught ==
    /\ part = "debug_misuse" => DM!MisuseCaught /\ DM!ContentsIntact
    /\ part = "debug_threads" => DT!MisuseCaught /\ DT!QueuedOnce
    /\ part = "free_queue" =>
          FQ!TypeOK /\ FQ!ChecksHold /\ FQ!SizeExact /\ FQ!OnceEach /\ FQ!LimitAtRest

(* "Atomically execute" (base/atomicops.h:104): whatever loops, reservations  *)
(* and re-reads a header uses, every operation of AtomicHeaders (all but that *)
(* of 64-bit PowerPC, whose compare looks at half a word) takes effect once,  *)
(* at one moment between call and return, and returns what the word was, or   *)
(* became, at that moment.                                                    *)
Word == INSTANCE AtomicWord WITH
           Threads <- {t1, t2}, Size <- 4,
           word <- IF part = "atomic_words" THEN word ELSE 0,
           call <- IF part = "atomic_words" THEN AO!Seen
                   ELSE [t \in {t1, t2} |-> [stage |-> "idle"]]
ImplementsAtomicWord == Word!Spec

(* "Acquire operations ensure that no later memory access can be reordered    *)
(* ahead of the operation" (base/atomicops.h:171) and the like for release,   *)
(* on every header and every x86 processor, but for KnownGaps.                *)
BarriersHold == part = "barriers" => AB!TypeOK /\ AB!AcquireHolds /\ AB!ReleaseHolds

-----------------------------------------------------------------------------
Busy(t) ==
    CASE part = "central_calls" -> central_th[t].pc # "idle"
      [] part = "hook_calls" -> list_pc[t] # "idle"
      [] part = "first_call" -> ~MF!Idle(t)
      [] part = "queue_calls" -> queue_pc[t] # "idle"
      [] part = "atomic_calls" -> /\ \E u \in {t1, t2} : atomic_th[u].pc # "idle"
                                  /\ \A u \in {t1, t2} : atomic_th[u].pc \notin {"done", "aborted"}
      [] OTHER -> FALSE

(* Every call returns: no thread waits for ever for a class of the central    *)
(* lists (central_freelist.cc:209), for a list of hooks or for pthread_once   *)
(* (malloc_hook.cc:141), none keeps on releasing blocks of the queue          *)
(* (debugallocation.cc:593), and one of the operations that loop on a word    *)
(* succeeds.                                                                  *)
CallsReturn == \A t \in {t1, t2} : Busy(t) ~> ~Busy(t)
=============================================================================
