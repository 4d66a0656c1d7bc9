------------------------------- MODULE MCTools -------------------------------
(* The profilers and the lists of hooks that feed them, the checker of      *)
(* leaks, the tools of windows and the base, each in a small instance.  As  *)
(* in MCAllocation every behaviour is of one part, whose variables are v1,  *)
(* v2, ..., but for the list of hooks: it is the module that is extended.   *)
EXTENDS HookList, Integers, SequencesExt, FiniteSets, TLC

CONSTANTS Parts,                 \* the parts that a run explores
          t1, t2,                \* threads
          o1, o2, o3,            \* objects
          c1, c2, whole_program, \* checkers
          none, Null, NotUsed

VARIABLES part,
          v1, v2, v3, v4, v5, v6, v7, v8, v9, v10, v11, v12, v13, v14, v15, v16, v17, v18,
          v19, v20, v21, v22, v23, v24, v25, v26, v27, v28, v29, v30, v31, v32, v33, v34,
          v35, v36, v37, v38, v39, v40, v41, v42, v43, v44

-----------------------------------------------------------------------------
(* The regions of the table are mapped from one stack.                        *)
MappedRegions == {[start |-> 20, size |-> 1, stack |-> <<3>>],
                  [start |-> 30, size |-> 2, stack |-> <<3>>]}

(* The memory of the search, in half words.  The heap region 10..22 holds     *)
(* three objects, of which one is not aligned; the region 24..30 is made by   *)
(* libpthread for its thread; the main stack is in a line of the maps that is *)
(* merged with the heap and with the data before it.                          *)
A == [ptr |-> 10, size |-> 4, stack |-> <<150, 151>>, ignored |-> FALSE]
B == [ptr |-> 15, size |-> 3, stack |-> <<150, 105>>, ignored |-> FALSE]
C == [ptr |-> 18, size |-> 4, stack |-> <<105>>, ignored |-> FALSE]
D == [ptr |-> 22, size |-> 0, stack |-> <<125>>, ignored |-> TRUE]
Gone == [ptr |-> 90, size |-> 2, stack |-> <<150>>, ignored |-> FALSE]

(* 2 is data before the heap, 8 in the unused part of the main stack and 36   *)
(* just below its top, 22 between two regions, 12 in A, 16 in B, 20 in C, 26  *)
(* and 28 in the stack of the thread below and at its top, 38 in the main one.*)
AllMemories ==
    {(2 :> a[1]) @@ (8 :> 12) @@ (12 :> b) @@ (16 :> c) @@ (20 :> d) @@ (22 :> a[2])
       @@ (26 :> 15) @@ (28 :> e) @@ (36 :> 10) @@ (38 :> f) :
       a \in {<<16, 0>>, <<0, 20>>}, b \in {0, 18}, c \in {0, 11}, d \in {0, 16},
       e \in {0, 13}, f \in {14, 17}}
CircleMemories ==
    {(2 :> a) @@ (12 :> 18) @@ (16 :> 11) @@ (20 :> 16) @@ (28 :> e) @@ (38 :> 12) :
       a \in {0, 16}, e \in {0, 13}}

MapLines == <<[start |-> 0, end |-> 6, perms |-> "rw-p", inode |-> 1, file |-> "app"],
              [start |-> 6, end |-> 40, perms |-> "rw-p", inode |-> 0, file |-> "UNNAMED"],
              [start |-> 50, end |-> 60, perms |-> "r--p", inode |-> 1, file |-> "app"],
              [start |-> 100, end |-> 110, perms |-> "r-xp", inode |-> 2, file |-> "libpthread"],
              [start |-> 120, end |-> 130, perms |-> "r-xp", inode |-> 3, file |-> "ld"],
              [start |-> 140, end |-> 160, perms |-> "r-xp", inode |-> 1, file |-> "app"]>>
ThreeRegions == {[start |-> 10, end |-> 22, caller |-> 150],
                 [start |-> 24, end |-> 30, caller |-> 105],
                 [start |-> 32, end |-> 34, caller |-> 105]}
TwoListed == {[pid |-> 2, sp |-> 28, registers |-> <<0, 19>>],
              [pid |-> 3, sp |-> 19, registers |-> <<0, 0>>]}

SizeOf == (o1 :> 1) @@ (o2 :> 2) @@ (o3 :> 1)

(* The environments of the checker: at most one thing is unusual.             *)
NormalEnv == [HEAPCHECK |-> TRUE, setuid |-> FALSE, valgrind |-> FALSE, traced |-> FALSE,
              maps |-> TRUE]
AllEnvs == {NormalEnv} \cup {[NormalEnv EXCEPT ![f] = ~NormalEnv[f]] : f \in DOMAIN NormalEnv}
AllModes == {"", "minimal", "normal", "strict", "draconian", "as-is", "local", "unknown"}

(* Lines of the maps that are shorter than the buffer, as long, and longer.   *)
Short == <<"a", "x", "n">>
Full == <<"a", "x", "x", "x", "n">>
Long == <<"a", "x", "x", "x", "x", "x", "n">>
Other == <<"x", "n">>
MapsFiles == LET Lines == {Short, Full, Long, Other}
             IN  {<<>>, Other} \cup {l \o m : l \in Lines, m \in Lines}
                   \cup {l \o m \o <<"a", "x">> : l \in Lines, m \in {Short, Long}}
WithBacking(name) == name \o <<"x", "(", "x", "(", "n">>
BackedFiles == LET Names == {<<"a">>, <<"a", "x">>, <<"a", "(">>, <<"a", "(", "x">>,
                             <<"a", "(", "(">>}
               IN  {WithBacking(n) \o WithBacking(m) : n, m \in Names}

(* Lines of /proc/cpuinfo; the value of bogomips is not 0.                    *)
CpuInfoFiles ==
    LET Bogomips == <<"B", "x", "n">>
        Lines == {<<"P", "x", "n">>, <<"x", "x", "x", "x", "n">>,
                  <<"x", "x", "x", "x", "x", "x", "x", "n">>, <<"M", "n">>, <<"Z", "n">>,
                  Bogomips, <<"Y", "x", "n">>, <<"n">>}
        Pairs == {l \o m : l \in Lines \ {Bogomips}, m \in Lines}
                   \cup {Bogomips \o m : m \in Lines \ {<<"Y", "x", "n">>}}
    IN  {none, <<>>} \cup {l \o k : l \in Pairs, k \in {<<>>, <<"P", "x", "n">>, <<"P">>}}

ASSUME SizeAssumption   \* of the list of hooks that is extended

(* The address map: blocks and clusters of two, two chains of clusters.     *)
AM == INSTANCE AddressMap WITH
        kBlockBits <- 1, kClusterBits <- 1, kHashBits <- 1, WordBits <- 3,
        kHashMultiplier <- 5, ALLOC_COUNT <- 2, Addresses <- 0..11, Sizes <- {0, 1, 6},
        MaxRanges <- 3, hashtable_ <- v1, free_ <- v2, batches <- v3, recorded <- v4
ASSUME AM!BitsAssumption

(* The table of the profile: the files and the mapped regions, and the      *)
(* marks and the snapshots.                                                 *)
HF == INSTANCE HeapProfileTable WITH
        NULL <- Null, Ptrs <- {1, 2}, Stacks <- {<<1>>, <<1, 2>>},
        AllRegions <- MappedRegions, ProfileHeader <- 1, MapsHeader <- 2, BucketWidth <- 3,
        FrameWidth <- 2, MapLines <- <<3, 2>>, heap_check_max_leaks <- 1,
        Sizes <- [p \in {1, 2} |-> {1, 2}], BufSizes <- {6, 13, 25},
        Clients <- {"mmap", "files"}, MaxAllocs <- 2, alloc_table_ <- v1,
        alloc_address_map_ <- v2, total_ <- v3, mmap_table_ <- v4, mmap_address_map_ <- v5,
        num_available_mmap_buckets_ <- v6, base <- v7, leaks <- v8, regions <- v9,
        file <- v10, report <- v11, destroyed <- v12, marked <- v13, renewed <- v14
HM == INSTANCE HeapProfileTable WITH
        NULL <- Null, Ptrs <- {1, 2}, Stacks <- {<<1>>, <<1, 2>>},
        AllRegions <- MappedRegions, ProfileHeader <- 1, MapsHeader <- 2, BucketWidth <- 3,
        FrameWidth <- 2, MapLines <- <<3, 2>>, heap_check_max_leaks <- 1,
        Sizes <- [p \in {1, 2} |-> {p}], BufSizes <- {1}, Clients <- {"marks"},
        MaxAllocs <- 3, alloc_table_ <- v1, alloc_address_map_ <- v2, total_ <- v3,
        mmap_table_ <- v4, mmap_address_map_ <- v5, num_available_mmap_buckets_ <- v6,
        base <- v7, leaks <- v8, regions <- v9, file <- v10, report <- v11,
        destroyed <- v12, marked <- v13, renewed <- v14

(* The search for live objects, and one in which they point in a circle.    *)
LF == INSTANCE LiveFlood WITH
        Objects <- {A, B, C, D}, Lines <- MapLines, Libraries <- <<"UNNAMED", "app">>,
        Regions <- ThreeRegions, Threads <- TwoListed, SelfPid <- 1, SelfTop <- 38,
        IgnoredSets <- {{}, {A, B}, {Gone}},
        Listings <- {"listed", "main_thread", "interrupted", "not_started"},
        IgnoreGlobals <- BOOLEAN, IgnoreThreads <- BOOLEAN, WordSize <- 2,
        pointer_source_alignment <- 2, max_heap_object_size <- 4, max_pointer_offset <- 2,
        RegistersAt <- 200, Memories <- AllMemories, memory <- v1, ignored_objects <- v2,
        flags <- v3, listing <- v4, failed <- v5, todo <- v6, live_objects <- v7,
        live <- v8, library_live_objects <- v9, stack_tops <- v10, is_stack <- v11,
        thread_registers <- v12, thread_listing_status <- v13, live_objects_total <- v14
LC == INSTANCE LiveFlood WITH
        Objects <- {A, B, C, D}, Lines <- MapLines, Libraries <- <<"UNNAMED", "app">>,
        Regions <- ThreeRegions, Threads <- TwoListed, SelfPid <- 1, SelfTop <- 38,
        IgnoredSets <- {{}, {A, B}, {Gone}},
        Listings <- {"listed", "main_thread", "interrupted", "not_started"},
        IgnoreGlobals <- BOOLEAN, IgnoreThreads <- BOOLEAN, WordSize <- 2,
        pointer_source_alignment <- 2, max_heap_object_size <- 4, max_pointer_offset <- 2,
        RegistersAt <- 200, Memories <- CircleMemories, memory <- v1, ignored_objects <- v2,
        flags <- v3, listing <- v4, failed <- v5, todo <- v6, live_objects <- v7,
        live <- v8, library_live_objects <- v9, stack_tops <- v10, is_stack <- v11,
        thread_registers <- v12, thread_listing_status <- v13, live_objects_total <- v14

(* The map of regions: two threads; every call by one; regions cut in two,  *)
(* which is known to go wrong with what it covers; mremap by one thread     *)
(* while the other maps.                                                    *)
RT == INSTANCE MemoryRegionMap WITH
        NULL <- Null, Break0 <- 2, kSavedRegions <- 3, kMaxDepth <- 5, MaxBreak <- 6,
        Threads <- {t1, t2},
        Calls <- (t1 :> {"init", "mmap", "munmap"}) @@ (t2 :> {"mmap", "munmap"}),
        Ranges <- {<<10, 12>>, <<12, 14>>, <<10, 14>>}, NestedRanges <- {<<20, 22>>},
        Increments <- {}, MaxCalls <- 4, MaxNested <- 1, client_count_ <- v1,
        regions_ <- v2, arena_ <- v3, hooks_ <- v4, saved_regions <- v5,
        recursive_insert <- v6, lock_ <- v7, recursion_count_ <- v8, lock_owner_tid_ <- v9,
        mapped <- v10, brk <- v11, ready <- v12, missed <- v13, todo <- v14, failure <- v15,
        calls <- v16, nested <- v17
RA == INSTANCE MemoryRegionMap WITH
        NULL <- Null, Break0 <- 2, kSavedRegions <- 3, kMaxDepth <- 5, MaxBreak <- 6,
        Threads <- {t1},
        Calls <- t1 :> {"init", "shutdown", "mmap", "munmap", "mremap", "sbrk"},
        Ranges <- {<<10, 12>>, <<12, 14>>, <<14, 16>>, <<10, 14>>, <<12, 16>>},
        NestedRanges <- {<<20, 22>>, <<22, 24>>}, Increments <- {2, -1}, MaxCalls <- 4,
        MaxNested <- 2, client_count_ <- v1, regions_ <- v2, arena_ <- v3, hooks_ <- v4,
        saved_regions <- v5, recursive_insert <- v6, lock_ <- v7, recursion_count_ <- v8,
        lock_owner_tid_ <- v9, mapped <- v10, brk <- v11, ready <- v12, missed <- v13,
        todo <- v14, failure <- v15, calls <- v16, nested <- v17
RC == INSTANCE MemoryRegionMap WITH
        NULL <- Null, Break0 <- 2, kSavedRegions <- 3, kMaxDepth <- 5, MaxBreak <- 6,
        Threads <- {t1}, Calls <- t1 :> {"init", "mmap", "munmap"},
        Ranges <- {<<10, 16>>, <<12, 14>>}, NestedRanges <- {<<20, 22>>}, Increments <- {},
        MaxCalls <- 5, MaxNested <- 1, client_count_ <- v1, regions_ <- v2, arena_ <- v3,
        hooks_ <- v4, saved_regions <- v5, recursive_insert <- v6, lock_ <- v7,
        recursion_count_ <- v8, lock_owner_tid_ <- v9, mapped <- v10, brk <- v11,
        ready <- v12, missed <- v13, todo <- v14, failure <- v15, calls <- v16,
        nested <- v17
RX == INSTANCE MemoryRegionMap WITH
        NULL <- Null, Break0 <- 2, kSavedRegions <- 3, kMaxDepth <- 5, MaxBreak <- 6,
        Threads <- {t1, t2},
        Calls <- (t1 :> {"init", "mmap", "mremap"}) @@ (t2 :> {"mmap"}),
        Ranges <- {<<10, 12>>, <<12, 14>>}, NestedRanges <- {<<20, 22>>}, Increments <- {},
        MaxCalls <- 4, MaxNested <- 0, client_count_ <- v1, regions_ <- v2, arena_ <- v3,
        hooks_ <- v4, saved_regions <- v5, recursive_insert <- v6, lock_ <- v7,
        recursion_count_ <- v8, lock_owner_tid_ <- v9, mapped <- v10, brk <- v11,
        ready <- v12, missed <- v13, todo <- v14, failure <- v15, calls <- v16,
        nested <- v17
RR == INSTANCE MemoryRegionMap WITH
        NULL <- Null, Break0 <- 2, kSavedRegions <- 3, kMaxDepth <- 5, MaxBreak <- 6,
        Threads <- {t1, t2}, Calls <- (t1 :> {"init"}) @@ (t2 :> {"mmap"}),
        Ranges <- {<<10, 12>>}, NestedRanges <- {<<20, 22>>}, Increments <- {},
        MaxCalls <- 3, MaxNested <- 1, client_count_ <- v1, regions_ <- v2, arena_ <- v3,
        hooks_ <- v4, saved_regions <- v5, recursive_insert <- v6, lock_ <- v7,
        recursion_count_ <- v8, lock_owner_tid_ <- v9, mapped <- v10, brk <- v11,
        ready <- v12, missed <- v13, todo <- v14, failure <- v15, calls <- v16,
        nested <- v17
ASSUME RT!RegionConstants /\ RA!RegionConstants /\ RC!RegionConstants /\ RX!RegionConstants
       /\ RR!RegionConstants

(* The heap profiler: started and stopped under two threads, its dumps by   *)
(* every interval, and several runs of one program.                         *)
HS == INSTANCE HeapProfiler WITH
        NULL <- Null, main <- t1, Size <- SizeOf, Threads <- {t1, t2}, Objects <- {o1, o2},
        FLAGS_heap_profile_allocation_interval <- 0,
        FLAGS_heap_profile_deallocation_interval <- 0,
        FLAGS_heap_profile_inuse_interval <- 0, FLAGS_mmap_profile <- TRUE,
        FLAGS_only_mmap_profile <- FALSE,
        Calls <- {"malloc", "free", "start", "stop", "get"}, Environments <- {"unset"},
        MaxCalls <- 7, MaxAlloc <- 6, MaxRuns <- 1, heap_lock <- v1, is_on <- v2,
        filename_prefix <- v3, dump_count <- v4, last_dump_alloc <- v5,
        last_dump_free <- v6, high_water_mark <- v7, recorded <- v8, alloc_size <- v9,
        free_size <- v10, arena <- v11, new_hook <- v12, delete_hook <- v13,
        mmap_clients <- v14, live <- v15, owned <- v16, todo <- v17, failure <- v18,
        env <- v19, files <- v20, run <- v21, since <- v22, last_dump <- v23, calls <- v24
HD == INSTANCE HeapProfiler WITH
        NULL <- Null, main <- t1, Size <- SizeOf, Threads <- {t1}, Objects <- {o1, o2, o3},
        FLAGS_heap_profile_allocation_interval <- 5,
        FLAGS_heap_profile_deallocation_interval <- 2,
        FLAGS_heap_profile_inuse_interval <- 2, FLAGS_mmap_profile <- FALSE,
        FLAGS_only_mmap_profile <- FALSE,
        Calls <- {"malloc", "free", "start", "dump", "stop"}, Environments <- {"unset"},
        MaxCalls <- 7, MaxAlloc <- 8, MaxRuns <- 1, heap_lock <- v1, is_on <- v2,
        filename_prefix <- v3, dump_count <- v4, last_dump_alloc <- v5,
        last_dump_free <- v6, high_water_mark <- v7, recorded <- v8, alloc_size <- v9,
        free_size <- v10, arena <- v11, new_hook <- v12, delete_hook <- v13,
        mmap_clients <- v14, live <- v15, owned <- v16, todo <- v17, failure <- v18,
        env <- v19, files <- v20, run <- v21, since <- v22, last_dump <- v23, calls <- v24
HR == INSTANCE HeapProfiler WITH
        NULL <- Null, main <- t1, Size <- SizeOf, Threads <- {t1}, Objects <- {o1, o2},
        FLAGS_heap_profile_allocation_interval <- 2,
        FLAGS_heap_profile_deallocation_interval <- 0,
        FLAGS_heap_profile_inuse_interval <- 0, FLAGS_mmap_profile <- FALSE,
        FLAGS_only_mmap_profile <- FALSE,
        Calls <- {"start", "stop", "dump", "exit", "crash", "malloc"},
        Environments <- {"unset", "path"}, MaxCalls <- 5, MaxAlloc <- 3, MaxRuns <- 3,
        heap_lock <- v1, is_on <- v2, filename_prefix <- v3, dump_count <- v4,
        last_dump_alloc <- v5, last_dump_free <- v6, high_water_mark <- v7, recorded <- v8,
        alloc_size <- v9, free_size <- v10, arena <- v11, new_hook <- v12,
        delete_hook <- v13, mmap_clients <- v14, live <- v15, owned <- v16, todo <- v17,
        failure <- v18, env <- v19, files <- v20, run <- v21, since <- v22,
        last_dump <- v23, calls <- v24
HQ == INSTANCE HeapProfiler WITH
        NULL <- Null, main <- t1, Size <- SizeOf, Threads <- {t1, t2}, Objects <- {o1, o2},
        FLAGS_heap_profile_allocation_interval <- 0,
        FLAGS_heap_profile_deallocation_interval <- 0,
        FLAGS_heap_profile_inuse_interval <- 0, FLAGS_mmap_profile <- TRUE,
        FLAGS_only_mmap_profile <- FALSE,
        Calls <- {"malloc", "start", "stop", "dump", "get"}, Environments <- {"path"},
        MaxCalls <- 3, MaxAlloc <- 3, MaxRuns <- 1, heap_lock <- v1, is_on <- v2,
        filename_prefix <- v3, dump_count <- v4, last_dump_alloc <- v5,
        last_dump_free <- v6, high_water_mark <- v7, recorded <- v8, alloc_size <- v9,
        free_size <- v10, arena <- v11, new_hook <- v12, delete_hook <- v13,
        mmap_clients <- v14, live <- v15, owned <- v16, todo <- v17, failure <- v18,
        env <- v19, files <- v20, run <- v21, since <- v22, last_dump <- v23, calls <- v24

(* The checker of leaks: its life with every mode and environment, what it  *)
(* finds for one thread, and for two.                                       *)
HL == INSTANCE HeapChecker WITH
        NULL <- Null, Threads <- {t1}, Main <- t1, Addrs <- {o1, o2}, Checkers <- {},
        MainChecker <- whole_program, Modes <- AllModes, Envs <- AllEnvs,
        Ops <- {"alloc", "forget", "cleaner", "cancel", "fork", "no_global_leaks"},
        MaxOps <- 4, env <- v1, FLAGS_heap_check <- v2, before_constructors <- v3,
        after_destructors <- v4, flood <- v5, heap_checker_on <- v6,
        constructor_heap_profiling <- v7, hooks <- v8, region_map <- v9,
        heap_checker_pid <- v10, pid <- v11, profile_name_prefix <- v12, libraries <- v13,
        disabled_ranges <- v14, main_heap_checker <- v15, do_main_heap_check <- v16,
        have_disabled_hooks <- v17, arena <- v18, profile <- v19, marked <- v20,
        ignored_objects <- v21, name_ <- v22, start_snapshot_ <- v23, has_checked_ <- v24,
        lock_ <- v25, alignment_checker_lock <- v26, heap_cleanups <- v27, pc <- v28,
        ret <- v29, chk <- v30, arg <- v31, leaks <- v32, thread_disable_counter <- v33,
        fate <- v34, reach <- v35, used <- v36, since <- v37, hidden <- v38, checked <- v39,
        made <- v40, gone <- v41, ops <- v42, mainChecks <- v43, canceled <- v44
HK == INSTANCE HeapChecker WITH
        NULL <- Null, Threads <- {t1}, Main <- t1, Addrs <- {o1, o2}, Checkers <- {c1},
        MainChecker <- whole_program, Modes <- {"normal", "draconian"}, Envs <- {NormalEnv},
        Ops <- {"alloc", "free", "forget", "disabler", "ignore", "checker", "no_leaks", "library"},
        MaxOps <- 5, env <- v1, FLAGS_heap_check <- v2, before_constructors <- v3,
        after_destructors <- v4, flood <- v5, heap_checker_on <- v6,
        constructor_heap_profiling <- v7, hooks <- v8, region_map <- v9,
        heap_checker_pid <- v10, pid <- v11, profile_name_prefix <- v12, libraries <- v13,
        disabled_ranges <- v14, main_heap_checker <- v15, do_main_heap_check <- v16,
        have_disabled_hooks <- v17, arena <- v18, profile <- v19, marked <- v20,
        ignored_objects <- v21, name_ <- v22, start_snapshot_ <- v23, has_checked_ <- v24,
        lock_ <- v25, alignment_checker_lock <- v26, heap_cleanups <- v27, pc <- v28,
        ret <- v29, chk <- v30, arg <- v31, leaks <- v32, thread_disable_counter <- v33,
        fate <- v34, reach <- v35, used <- v36, since <- v37, hidden <- v38, checked <- v39,
        made <- v40, gone <- v41, ops <- v42, mainChecks <- v43, canceled <- v44
HH == INSTANCE HeapChecker WITH
        NULL <- Null, Threads <- {t1, t2}, Main <- t1, Addrs <- {o1}, Checkers <- {c1, c2},
        MainChecker <- whole_program, Modes <- {"minimal", "strict"}, Envs <- {NormalEnv},
        Ops <- {"alloc", "checker", "no_leaks", "no_global_leaks", "forget", "bytes"},
        MaxOps <- 4, env <- v1, FLAGS_heap_check <- v2, before_constructors <- v3,
        after_destructors <- v4, flood <- v5, heap_checker_on <- v6,
        constructor_heap_profiling <- v7, hooks <- v8, region_map <- v9,
        heap_checker_pid <- v10, pid <- v11, profile_name_prefix <- v12, libraries <- v13,
        disabled_ranges <- v14, main_heap_checker <- v15, do_main_heap_check <- v16,
        have_disabled_hooks <- v17, arena <- v18, profile <- v19, marked <- v20,
        ignored_objects <- v21, name_ <- v22, start_snapshot_ <- v23, has_checked_ <- v24,
        lock_ <- v25, alignment_checker_lock <- v26, heap_cleanups <- v27, pc <- v28,
        ret <- v29, chk <- v30, arg <- v31, leaks <- v32, thread_disable_counter <- v33,
        fate <- v34, reach <- v35, used <- v36, since <- v37, hidden <- v38, checked <- v39,
        made <- v40, gone <- v41, ops <- v42, mainChecks <- v43, canceled <- v44
HZ == INSTANCE HeapChecker WITH
        NULL <- Null, Threads <- {t1, t2}, Main <- t1, Addrs <- {o1}, Checkers <- {c1},
        MainChecker <- whole_program, Modes <- {"normal"}, Envs <- {NormalEnv},
        Ops <- {"checker", "no_leaks", "no_global_leaks", "alloc"}, MaxOps <- 3, env <- v1,
        FLAGS_heap_check <- v2, before_constructors <- v3, after_destructors <- v4,
        flood <- v5, heap_checker_on <- v6, constructor_heap_profiling <- v7, hooks <- v8,
        region_map <- v9, heap_checker_pid <- v10, pid <- v11, profile_name_prefix <- v12,
        libraries <- v13, disabled_ranges <- v14, main_heap_checker <- v15,
        do_main_heap_check <- v16, have_disabled_hooks <- v17, arena <- v18, profile <- v19,
        marked <- v20, ignored_objects <- v21, name_ <- v22, start_snapshot_ <- v23,
        has_checked_ <- v24, lock_ <- v25, alignment_checker_lock <- v26,
        heap_cleanups <- v27, pc <- v28, ret <- v29, chk <- v30, arg <- v31, leaks <- v32,
        thread_disable_counter <- v33, fate <- v34, reach <- v35, used <- v36, since <- v37,
        hidden <- v38, checked <- v39, made <- v40, gone <- v41, ops <- v42,
        mainChecks <- v43, canceled <- v44
ASSUME HL!MainAssumption /\ HK!MainAssumption /\ HH!MainAssumption /\ HZ!MainAssumption

(* The disassembler: every opcode with one prefix, and a few of them for    *)
(* liveness.                                                                *)
MD == INSTANCE MiniDisassembler WITH
        PrefixBytes <- {46, 65, 72, 102, 103, 240, 242, 243}, MaxPrefixes <- 1,
        Rms <- {4, 5, 6}, SibBases <- {0, 5}, x64 <- v1, pc <- v2, code <- v3, at <- v4,
        table <- v5, dis <- v6, instruction_bytes <- v7, result <- v8
ML == INSTANCE MiniDisassembler WITH
        PrefixBytes <- {102}, MaxPrefixes <- 1, Rms <- {4}, SibBases <- {5}, x64 <- v1,
        pc <- v2, code <- v3, at <- v4, table <- v5, dis <- v6, instruction_bytes <- v7,
        result <- v8
ASSUME MD!DisassemblerBounds /\ ML!DisassemblerBounds

(* The patcher: two of all instructions under a hook, with and without more *)
(* hooks that are removed.                                                  *)
BodyKinds == {"g1", "g4", "mov", "rip", "jccS+", "jccS-", "jcc", "jcc near", "jmp", "jmpS", "call",
              "call near", "callm", "callr", "ret", "bad"}
PP == INSTANCE PreamblePatcher WITH
        Operations <- BodyKinds, BodyLength <- 2, MaxUnpatches <- 1, Reach <- 3000,
        Granules <- {{19000, 89000}, {22000, 89000}}, x64 <- v1, mem <- v2, avail <- v3,
        preamble_pages <- v4, stub <- v5, was <- v6, at <- v7, prot <- v8, error <- v9,
        unpatches <- v10
PU == INSTANCE PreamblePatcher WITH
        Operations <- BodyKinds, BodyLength <- 2,
        MaxUnpatches <- 2, Reach <- 3000, Granules <- {{19000, 89000}, {22000, 89000}},
        x64 <- v1, mem <- v2, avail <- v3, preamble_pages <- v4, stub <- v5, was <- v6,
        at <- v7, prot <- v8, error <- v9, unpatches <- v10
ASSUME PP!PatcherBounds /\ PU!PatcherBounds

(* The patching of the C libraries of a process: five modules, and two      *)
(* threads.                                                                 *)
PM == INSTANCE PatchFunctions WITH
        Considered <- {2, 3, 5, 6, 9}, Threads <- {t1},
        Kind <- <<"crt", "shared", "crt", "nofree", "thunk">>, Preloaded <- <<1>>, NumLibcs <- 2,
        kMaxModules <- 5, MaxCalls <- 6, MaxEnumFails <- 1, loaded <- v1, refs <- v2,
        loader <- v3, jump <- v4, libc <- v5, g_last_loaded <- v6, patch_lock <- v7,
        started <- v8, pc <- v9, call <- v10, hModules <- v11, modules <- v12,
        crashed <- v13, rejected <- v14, unloaded <- v15, calls <- v16, fails <- v17
PT == INSTANCE PatchFunctions WITH
        Considered <- {2, 3, 5, 6, 9}, Threads <- {t1, t2},
        Kind <- <<"crt", "shared", "plain">>, Preloaded <- <<1>>, NumLibcs <- 2,
        kMaxModules <- 4, MaxCalls <- 4, MaxEnumFails <- 0, loaded <- v1, refs <- v2,
        loader <- v3, jump <- v4, libc <- v5, g_last_loaded <- v6, patch_lock <- v7,
        started <- v8, pc <- v9, call <- v10, hModules <- v11, modules <- v12,
        crashed <- v13, rejected <- v14, unloaded <- v15, calls <- v16, fails <- v17
PC == INSTANCE PatchFunctions WITH
        Considered <- {2, 3, 5, 6, 9}, Threads <- {t1, t2},
        Kind <- <<"crt", "shared", "plain">>, Preloaded <- <<1>>, NumLibcs <- 2,
        kMaxModules <- 4, MaxCalls <- 2, MaxEnumFails <- 1, loaded <- v1, refs <- v2,
        loader <- v3, jump <- v4, libc <- v5, g_last_loaded <- v6, patch_lock <- v7,
        started <- v8, pc <- v9, call <- v10, hModules <- v11, modules <- v12,
        crashed <- v13, rejected <- v14, unloaded <- v15, calls <- v16, fails <- v17
ASSUME PM!PatchBounds /\ PT!PatchBounds /\ PC!PatchBounds

(* The maps of the process: files of up to three lines around a buffer of   *)
(* five characters, and files with a backing after every line.              *)
MP == INSTANCE ProcMaps WITH
        NoHeader <- none,
        ImageLists <- {<<>>, <<none>>, <<<<"segment", "other", "segment">>, none, <<"other">>,
                                         <<"segment">>>>},
        RecordCounts <- {0, 2}, Padding <- 0,
        Platforms <- {"linux", "mach", "sun", "windows"}, Files <- MapsFiles,
        BackingModes <- {FALSE}, kBufSize <- 5, OutSizes <- {3, 6, 30}, MaxErrors <- 1,
        platform <- v1, source <- v2, using_maps_backing_ <- v3, size <- v4, offset <- v5,
        text <- v6, stext_ <- v7, nextline_ <- v8, current_image_ <- v9,
        current_load_cmd_ <- v10, pc <- v11, entries <- v12, filled <- v13,
        wrote_all <- v14, dumped <- v15, errors <- v16
MB == INSTANCE ProcMaps WITH
        NoHeader <- none,
        ImageLists <- {<<>>, <<none>>, <<<<"segment", "other", "segment">>, none, <<"other">>,
                                         <<"segment">>>>},
        RecordCounts <- {0, 2}, Padding <- 0, Platforms <- {"linux"}, Files <- BackedFiles,
        BackingModes <- {TRUE}, kBufSize <- 12, OutSizes <- {30}, MaxErrors <- 0,
        platform <- v1, source <- v2, using_maps_backing_ <- v3, size <- v4, offset <- v5,
        text <- v6, stext_ <- v7, nextline_ <- v8, current_image_ <- v9,
        current_load_cmd_ <- v10, pc <- v11, entries <- v12, filled <- v13,
        wrote_all <- v14, dumped <- v15, errors <- v16
ME == INSTANCE ProcMaps WITH
        NoHeader <- none,
        ImageLists <- {<<>>, <<none>>, <<<<"segment", "other", "segment">>, none, <<"other">>,
                                         <<"segment">>>>},
        RecordCounts <- {0, 2}, Padding <- 0,
        Platforms <- {"linux", "mach", "sun", "windows"},
        Files <- {Short \o Long \o Full, Other, Long \o <<"a">>}, BackingModes <- {FALSE},
        kBufSize <- 5, OutSizes <- {30}, MaxErrors <- 1, platform <- v1, source <- v2,
        using_maps_backing_ <- v3, size <- v4, offset <- v5, text <- v6, stext_ <- v7,
        nextline_ <- v8, current_image_ <- v9, current_load_cmd_ <- v10, pc <- v11,
        entries <- v12, filled <- v13, wrote_all <- v14, dumped <- v15, errors <- v16
ASSUME MP!BufferAssumption /\ MB!BufferAssumption /\ ME!BufferAssumption

(* The processors: files of two lines, or three, around a line array of six *)
(* characters.                                                              *)
SI == INSTANCE SystemInfo WITH
        NoFile <- none, Frequencies <- {none, 0, 1}, kLineSize <- 6, Platforms <- {"linux"},
        CpuInfos <- CpuInfoFiles, platform <- v1, valgrind <- v2, tsc_freq_khz <- v3,
        cpuinfo_max_freq <- v4, cpuinfo <- v5, pc <- v6, offset <- v7, line <- v8,
        chars_read <- v9, cpuinfo_cycles_per_second <- v10, saw_mhz <- v11,
        bogo_clock <- v12, saw_bogo <- v13, num_cpus <- v14, cpuinfo_num_cpus <- v15,
        bytes_to_read <- v16
SE == INSTANCE SystemInfo WITH
        NoFile <- none, Frequencies <- {none, 0, 1}, kLineSize <- 6,
        Platforms <- {"linux", "freebsd", "windows", "mach", "generic"},
        CpuInfos <- {none, <<"P", "x", "n", "M", "n">>, <<"x", "x", "x", "x", "x", "x", "x", "n">>},
        platform <- v1, valgrind <- v2, tsc_freq_khz <- v3, cpuinfo_max_freq <- v4,
        cpuinfo <- v5, pc <- v6, offset <- v7, line <- v8, chars_read <- v9,
        cpuinfo_cycles_per_second <- v10, saw_mhz <- v11, bogo_clock <- v12,
        saw_bogo <- v13, num_cpus <- v14, cpuinfo_num_cpus <- v15, bytes_to_read <- v16
ASSUME SI!LineAssumption /\ SE!LineAssumption

-----------------------------------------------------------------------------
(* The variables that a component with so many of its own leaves alone.        *)
Rest24 == <<v25, v26, v27, v28, v29, v30, v31, v32, v33, v34, v35, v36, v37, v38, v39, v40,
            v41, v42, v43, v44>>
Rest17 == <<v18, v19, v20, v21, v22, v23, v24, Rest24>>
Rest16 == <<v17, Rest17>>
Rest14 == <<v15, v16, Rest16>>
Rest10 == <<v11, v12, v13, v14, Rest14>>
Rest8 == <<v9, v10, Rest10>>
Rest4 == <<v5, v6, v7, v8, Rest8>>
NotUsed24 == /\ v25 = NotUsed /\ v26 = NotUsed /\ v27 = NotUsed /\ v28 = NotUsed
             /\ v29 = NotUsed /\ v30 = NotUsed /\ v31 = NotUsed /\ v32 = NotUsed
             /\ v33 = NotUsed /\ v34 = NotUsed /\ v35 = NotUsed /\ v36 = NotUsed
             /\ v37 = NotUsed /\ v38 = NotUsed /\ v39 = NotUsed /\ v40 = NotUsed
             /\ v41 = NotUsed /\ v42 = NotUsed /\ v43 = NotUsed /\ v44 = NotUsed
NotUsed17 == /\ v18 = NotUsed /\ v19 = NotUsed /\ v20 = NotUsed /\ v21 = NotUsed
             /\ v22 = NotUsed /\ v23 = NotUsed /\ v24 = NotUsed /\ NotUsed24
NotUsed16 == /\ v17 = NotUsed /\ NotUsed17
NotUsed14 == /\ v15 = NotUsed /\ v16 = NotUsed /\ NotUsed16
NotUsed10 == /\ v11 = NotUsed /\ v12 = NotUsed /\ v13 = NotUsed /\ v14 = NotUsed
             /\ NotUsed14
NotUsed8 == /\ v9 = NotUsed /\ v10 = NotUsed /\ NotUsed10
NotUsed4 == /\ v5 = NotUsed /\ v6 = NotUsed /\ v7 = NotUsed /\ v8 = NotUsed /\ NotUsed8

HookListInit ==
    /\ part = "hook_list"
    /\ v1 = NotUsed /\ v2 = NotUsed /\ v3 = NotUsed /\ v4 = NotUsed /\ NotUsed4

AddressMapInit ==
    /\ part = "address_map" /\ AM!Init
    /\ NotUsed4

HeapTableInit ==
    /\ \/ part = "table_files" /\ HF!Init
       \/ part = "table_marks" /\ HM!Init
    /\ NotUsed14

LiveFloodInit ==
    /\ \/ part = "flood" /\ LF!Init
       \/ part = "flood_calls" /\ LC!Init
    /\ NotUsed14

RegionMapInit ==
    /\ \/ part = "region_threads" /\ RT!Init
       \/ part = "region_all" /\ RA!Init
       \/ part = "region_cut" /\ RC!Init
       \/ part = "region_mremap" /\ RX!Init
       \/ part = "region_calls" /\ RR!Init
    /\ NotUsed17

ProfilerInit ==
    /\ \/ part = "profiler_switch" /\ HS!Init
       \/ part = "profiler_dumps" /\ HD!Init
       \/ part = "profiler_runs" /\ HR!Init
       \/ part = "profiler_calls" /\ HQ!Init
    /\ NotUsed24

CheckerInit ==
    /\ \/ part = "checker_life" /\ HL!Init
       \/ part = "checker_leaks" /\ HK!Init
       \/ part = "checker_threads" /\ HH!Init
       \/ part = "checker_calls" /\ HZ!Init

DecoderInit ==
    /\ \/ part = "decoder" /\ MD!Init
       \/ part = "decoder_calls" /\ ML!Init
    /\ NotUsed8

PatcherInit ==
    /\ \/ part = "patcher" /\ PP!Init
       \/ part = "unpatcher" /\ PU!Init
    /\ NotUsed10

LibcInit ==
    /\ \/ part = "libcs" /\ PM!Init
       \/ part = "libc_threads" /\ PT!Init
       \/ part = "libc_calls" /\ PC!Init
    /\ NotUsed17

MapsInit ==
    /\ \/ part = "maps" /\ MP!Init
       \/ part = "maps_backing" /\ MB!Init
       \/ part = "maps_calls" /\ ME!Init
    /\ NotUsed16

ProcessorInit ==
    /\ \/ part = "processors" /\ SI!Init
       \/ part = "processors_calls" /\ SE!Init
    /\ NotUsed16

AllInit ==
    /\ part \in Parts /\ Init
    /\ \/ HookListInit
       \/ AddressMapInit
       \/ HeapTableInit
       \/ LiveFloodInit
       \/ RegionMapInit
       \/ ProfilerInit
       \/ CheckerInit
       \/ DecoderInit
       \/ PatcherInit
       \/ LibcInit
       \/ MapsInit
       \/ ProcessorInit

HookListStep ==
    /\ UNCHANGED <<part, v1, v2, v3, v4, Rest4>>
    /\ part = "hook_list" /\ Next

AddressMapStep ==
    /\ UNCHANGED <<part, vars, Rest4>>
    /\ part = "address_map" /\ AM!Next

HeapTableStep ==
    /\ UNCHANGED <<part, vars, Rest14>>
    /\ \/ part = "table_files" /\ HF!Next
       \/ part = "table_marks" /\ HM!Next

LiveFloodStep ==
    /\ UNCHANGED <<part, vars, Rest14>>
    /\ \/ part = "flood" /\ LF!Next
       \/ part = "flood_calls" /\ LC!Next

RegionMapStep ==
    /\ UNCHANGED <<part, vars, Rest17>>
    /\ \/ part = "region_threads" /\ RT!Next
       \/ part = "region_all" /\ RA!Next
       \/ part = "region_cut" /\ RC!Next
       \/ part = "region_mremap" /\ RX!Next
       \/ part = "region_calls" /\ RR!Next

ProfilerStep ==
    /\ UNCHANGED <<part, vars, Rest24>>
    /\ \/ part = "profiler_switch" /\ HS!Next
       \/ part = "profiler_dumps" /\ HD!Next
       \/ part = "profiler_runs" /\ HR!Next
       \/ part = "profiler_calls" /\ HQ!Next

CheckerStep ==
    /\ UNCHANGED <<part, vars>>
    /\ \/ part = "checker_life" /\ HL!Next
       \/ part = "checker_leaks" /\ HK!Next
       \/ part = "checker_threads" /\ HH!Next
       \/ part = "checker_calls" /\ HZ!Next

DecoderStep ==
    /\ UNCHANGED <<part, vars, Rest8>>
    /\ \/ part = "decoder" /\ MD!Next
       \/ part = "decoder_calls" /\ ML!Next

PatcherStep ==
    /\ UNCHANGED <<part, vars, Rest10>>
    /\ \/ part = "patcher" /\ PP!Next
       \/ part = "unpatcher" /\ PU!Next

LibcStep ==
    /\ UNCHANGED <<part, vars, Rest17>>
    /\ \/ part = "libcs" /\ PM!Next
       \/ part = "libc_threads" /\ PT!Next
       \/ part = "libc_calls" /\ PC!Next

MapsStep ==
    /\ UNCHANGED <<part, vars, Rest16>>
    /\ \/ part = "maps" /\ MP!Next
       \/ part = "maps_backing" /\ MB!Next
       \/ part = "maps_calls" /\ ME!Next

ProcessorStep ==
    /\ UNCHANGED <<part, vars, Rest16>>
    /\ \/ part = "processors" /\ SI!Next
       \/ part = "processors_calls" /\ SE!Next

AllNext ==
    \/ HookListStep
    \/ AddressMapStep
    \/ HeapTableStep
    \/ LiveFloodStep
    \/ RegionMapStep
    \/ ProfilerStep
    \/ CheckerStep
    \/ DecoderStep
    \/ PatcherStep
    \/ LibcStep
    \/ MapsStep
    \/ ProcessorStep

(* The variables that the properties of this module look at.                  *)
region_todo == v14
profiler_todo == v17
fate == v34
checker_pc == v28
crashed == v13
libc_pc == v9
flood_todo == v6
dis_pc == v2
source == v2
maps_pc == v11
entries == v12
info_pc == v6

all == <<part, vars, v1, v2, v3, v4, v5, v6, v7, v8, v9, v10, v11, v12, v13, v14, v15, v16, v17,
         v18, v19, v20, v21, v22, v23, v24, v25, v26, v27, v28, v29, v30, v31, v32, v33,
         v34, v35, v36, v37, v38, v39, v40, v41, v42, v43, v44>>
AllSpec == AllInit /\ [][AllNext]_all

(* The scheduler runs every thread, and a spin lock that is free again and    *)
(* again is had in the end: Advance is what a thread does without being       *)
(* called, or what a program of one thread does.  A program goes on with its  *)
(* life.                                                                      *)
Advance(t) ==
    /\ UNCHANGED <<part, vars>>
    /\ \/ part = "region_calls" /\ RR!Step(t) /\ UNCHANGED Rest17
       \/ part = "profiler_calls" /\ HQ!Step(t) /\ UNCHANGED Rest24
       \/ part = "checker_calls" /\ HZ!Steps(t)
       \/ part = "libc_calls" /\ ~crashed /\ PC!Step(t) /\ UNCHANGED Rest17
       \/ part = "flood_calls" /\ t = t1 /\ LC!Next /\ UNCHANGED Rest14
       \/ part = "decoder_calls" /\ t = t1 /\ ML!Next /\ UNCHANGED Rest8
       \/ part = "maps_calls" /\ t = t1 /\ ME!Next /\ UNCHANGED Rest16
       \/ part = "processors_calls" /\ t = t1 /\ SE!Next /\ UNCHANGED Rest16
GoesOn ==
    /\ UNCHANGED <<part, vars>>
    /\ part = "checker_calls" /\ HZ!Life
FairSpec == AllSpec /\ SF_all(Advance(t1)) /\ SF_all(Advance(t2)) /\ SF_all(GoesOn)

-----------------------------------------------------------------------------
(* The address map (addressmap-inl.h:115) finds every pair by its address and *)
(* by any address within max_size of it, iterates once over each and loses no *)
(* entry.  The table made from it (heap-profile-table.h:61) has in every      *)
(* bucket what the objects recorded with its stack take; a profile stays in   *)
(* its buffer and is ordered by the bytes in use (heap-profile-table.h:261);  *)
(* a report of leaks has the buckets that leak most.                          *)
TablesExact ==
    /\ part = "address_map" => /\ AM!TypeOK /\ AM!FindExact /\ AM!FindInsideExact
                               /\ AM!IterateOnce /\ AM!EntriesReused
    /\ part = "table_files" => HF!TypeOK /\ HF!FileFits /\ HF!FileOrdered
    /\ part = "table_marks" => HM!TypeOK /\ HM!StatsBalance /\ HM!ReportLargest

(* heap-checker.cc:1252: when the search is over, the objects that are live   *)
(* are exactly those that the roots reach, each counted once, and all stacks  *)
(* were known before the global data was looked at.                           *)
LiveExact ==
    part = "flood" => LF!TypeOK /\ LF!LiveExact /\ LF!LiveTotal /\ LF!StacksKnownFirst

(* memory_region_map.cc:40: when no call is under way, the regions are *all*  *)
(* memory that was mapped while the hooks were there, and do not overlap.     *)
(* The tasks done under the recursive lock are those of the thread that holds *)
(* it, and what was saved during a recursive insertion is moved to the set    *)
(* before the outer call returns (memory_region_map.cc:85).  The calls are    *)
(* mmap and munmap in two threads, all of them in one; it does not hold when  *)
(* two threads call sbrk (627) or mremap (617, the run region_mremap), or     *)
(* when a region is cut in the middle (545): region_cut, where one is, asks   *)
(* for the type only.                                                         *)
RegionsComplete ==
    /\ part = "region_threads" => RT!MapComplete /\ RT!LockInvariant /\ RT!RecursionEnds
    /\ part = "region_all" => RA!TypeOK /\ RA!MapComplete /\ RA!RecursionEnds
    /\ part = "region_cut" => RC!TypeOK
    /\ part = "region_mremap" => RX!MapComplete

(* heap-profiler.cc:303: between calls the profile has every object allocated *)
(* since the start and in use, and none that was freed; no dump is due or was *)
(* missed (heap-profiler.cc:291); the arena is empty after a stop; a run that *)
(* was started from the environment has no file of an earlier run of its      *)
(* prefix.                                                                    *)
ProfileExact ==
    /\ part = "profiler_switch" => HS!TypeOK /\ HS!ProfileExact /\ HS!ArenaEmptied
    /\ part = "profiler_dumps" => HD!NoDumpDue /\ HD!PeakDumped
    /\ part = "profiler_runs" => HR!NoStaleFiles

(* heap-checker.cc:2188: while the checker is on, all that feeds its table is *)
(* there and its arena holds what checks and checkers have and no more; with  *)
(* correct use none of its checks on itself stops the program (no checker is  *)
(* made before the tool is on, heap-checker.cc:1580, 1741, none is asked for  *)
(* the bytes leaked after a disabled check, 1727, and no library is unloaded  *)
(* and replaced by another, 2336); the name of a checker is ignored until the *)
(* checker goes; the main check is made once, after all cleaners (1923).      *)
ChecksSound ==
    /\ part = "checker_life" => HL!ArenaAccounted /\ HL!MainCheckOnce /\ HL!CleanersFirst
    /\ part = "checker_leaks" => HK!NeverStops /\ HK!NamesIgnored
    /\ part = "checker_threads" => HH!ArenaAccounted

(* What is written down at one moment is right at that moment: a snapshot has *)
(* every object not marked live since the one before (heap-profile-table.h    *)
(* :184), a refresh counts every mapped region once, a check reports exactly  *)
(* the objects it has to find (heap-checker.cc:1755), as long as none is at   *)
(* an address that one in its start snapshot had (heap-profile-table.cc:495), *)
(* and no file of a run is written again (heap-profiler.cc:451).              *)
SnapshotsExact ==
    [][/\ part = "table_files" => HF!MmapBucketsFresh
       /\ part = "table_marks" => HM!LeaksExact
       /\ part = "profiler_runs" => HR!FilesKept
       /\ part = "checker_leaks" => HK!LeaksExact
       /\ part = "checker_threads" => HH!LeaksExact]_all

-----------------------------------------------------------------------------
(* mini_disassembler.h:66: outside its known gaps the disassembler gives the  *)
(* architectural length of an instruction, whatever its prefixes, addressing  *)
(* and immediates and whatever it decoded before; exactly the branches are    *)
(* reported as jumps and the returns as returns.                              *)
DecodingRight ==
    part = "decoder" => MD!TypeOK /\ MD!LengthIsArchitectural /\ MD!BranchesAreReported

(* preamble_patcher_with_stub.cc:245: unless one of the instructions it was   *)
(* made from is MovedWrongly (a short jump backwards, a call through a        *)
(* register, a 32-bit call through memory, a RIP-relative instruction other   *)
(* than the MOV), a stub does what the function did before it was patched.    *)
(* Whatever the instructions, a call of the function ends up in a replacement *)
(* that is installed, no block of a page is lost or handed out twice, and no  *)
(* code stays writable.                                                       *)
StubsSound ==
    part = "patcher" => /\ PP!TypeOK /\ PP!StubRunsOriginal /\ PP!ReplacementIsReached
                        /\ PP!BlocksAccounted /\ PP!ProtectionRestored

(* preamble_patcher.cc:338: unless one of the instructions it moves back      *)
(* ComesBackWrong (the relative MOV, whose bytes are not counted, a branch    *)
(* that gets the short form with the long form's offset, a call through a     *)
(* register), a successful Unpatch puts back code that does what the function *)
(* did before it was patched.                                                 *)
UnpatchRestores == [][part = "unpatcher" => PU!UnpatchRestores]_all

(* patch_functions.cc:585: when no call is under way, and the modules could   *)
(* be listed the last time, every loaded module that has or re-exports a C    *)
(* library has all its functions replaced, and its slot is its own.  As long  *)
(* as no listing failed and no module re-exports functions (SlotsStayApart),  *)
(* no function is replaced twice, and a pointer that a module's own allocator *)
(* handed out is freed by its own free.  With threads that load and unload    *)
(* the first is claimed of the modules that stay, when no listing failed.     *)
LibcsPatched ==
    /\ part = "libcs" => /\ PM!TypeOK /\ PM!LoadedLibcsPatched /\ PM!ForeignFreeGoesHome
                         /\ PM!SlotsMatchModules /\ PM!NotDoublePatched
    /\ part = "libc_threads" => PT!StableLibcsPatched

(* base/sysinfo.cc:795: the name that is returned with a backing is the one   *)
(* before the backing, also when it has parentheses of its own.               *)
NamesFound ==
    maps_pc = "end" => /\ Len(entries) = 2
                       /\ source = WithBacking(entries[1]) \o WithBacking(entries[2])

(* base/sysinfo.cc:682: every line of the maps is returned once, in order,    *)
(* whatever the reads return, and wrote_all says whether all fitted;          *)
(* base/sysinfo.cc:371: every processor is counted once, wherever its line    *)
(* lies across the array, and the rate is that of the best source there is.   *)
SystemFilesRead ==
    /\ part = "maps" => MP!TypeOK /\ MP!EntriesExact /\ MP!WroteAllExact
    /\ part = "maps_backing" => NamesFound
    /\ part = "processors" => SI!TypeOK /\ SI!ProcessorsCounted /\ SI!BestSource

-----------------------------------------------------------------------------
Busy(t) ==
    CASE part = "region_calls" -> region_todo[t] # <<>>
      [] part = "profiler_calls" -> profiler_todo[t] # <<>> /\ ~HQ!At(t, "end")
      [] part = "checker_calls" ->
           /\ fate = "running"
           /\ checker_pc[t] \in HZ!Creating \cup {"check", "check_align", "check_heap",
                                                  "check_report", "check_free", "destroy"}
      [] part = "libc_calls" -> libc_pc[t] # "idle" /\ ~crashed
      [] part = "flood_calls" -> flood_todo # <<>> /\ Head(flood_todo).do # "fatal"
      [] part = "decoder_calls" -> dis_pc = "ProcessPrefixes"
      [] part = "maps_calls" -> maps_pc # "end"
      [] part = "processors_calls" -> info_pc # "done"
      [] OTHER -> FALSE

(* Every call returns: none waits for ever for a spin lock or a mutex         *)
(* (heap-profiler.cc:129, heap-checker.cc:1698, memory_region_map.cc:91,      *)
(* patch_functions.cc:560), and the loops over lines, prefixes and live       *)
(* objects end.                                                               *)
CallsReturn == \A t \in {t1, t2} : Busy(t) ~> ~Busy(t)
=============================================================================
