----------------------------- MODULE HeapProfiler -----------------------------
(* heap-profiler.cc: the profiler that is started and stopped while threads  *)
(* allocate and free, the dumps it makes on its own and on request, its      *)
(* files, which survive the process, and how it starts from HEAPPROFILE.     *)
(* What is done under heap_lock is one step, but for HeapProfilerStart and    *)
(* HeapProfilerStop: the hooks they add and remove one by one are read by    *)
(* threads that do not hold the lock.                                        *)
EXTENDS Integers, SequencesExt, FiniteSetsExt

CONSTANTS Threads, main,
          Objects, Size,                        \* what is allocated, in bytes
          FLAGS_heap_profile_allocation_interval,
          FLAGS_heap_profile_deallocation_interval,
          FLAGS_heap_profile_inuse_interval,
          FLAGS_mmap_profile,
          FLAGS_only_mmap_profile,
          Calls,                                \* the calls that are made
          Environments,                         \* HEAPPROFILE, when a program begins
          NULL,
          MaxCalls, MaxAlloc, MaxRuns           \* bounds

VARIABLES heap_lock, is_on, filename_prefix, dump_count,
          last_dump_alloc, last_dump_free, high_water_mark,
          recorded, alloc_size, free_size,      \* heap_profile
          arena,                                \* heap_profiler_memory
          new_hook, delete_hook, mmap_clients,
          live, owned,                          \* allocated; returned to the program
          todo, failure,
          env, files, run,                      \* what survives the program
          since, last_dump, calls               \* history and bound

profile == <<is_on, filename_prefix, last_dump_alloc, last_dump_free, high_water_mark,
             recorded, alloc_size, free_size, arena, mmap_clients>>
dumps == <<dump_count, files, last_dump>>
hooks == <<new_hook, delete_hook>>
objects == <<live, owned>>
world == <<env, run>>
vars == <<heap_lock, profile, dumps, hooks, objects, world, todo, failure, since, calls>>

Task(do, ptr) == [do |-> do, ptr |-> ptr]
Do(s) == Task(s, NULL)

(* A program begins with the initializer of the module.                      *)
Fresh == /\ heap_lock = NULL /\ is_on = FALSE /\ filename_prefix = NULL /\ dump_count = 0
         /\ last_dump_alloc = 0 /\ last_dump_free = 0 /\ high_water_mark = 0
         /\ recorded = {} /\ alloc_size = 0 /\ free_size = 0 /\ arena = {}
         /\ new_hook = FALSE /\ delete_hook = FALSE /\ mmap_clients = 0
         /\ live = {} /\ owned = {}
         /\ todo = [t \in Threads |-> IF t = main THEN <<Do("init")>> ELSE <<>>]
         /\ since = {} /\ last_dump = [alloc |-> 0, peak |-> 0]

Init == /\ Fresh
        /\ env \in Environments /\ files = {} /\ run = 1
        /\ failure = "none" /\ calls = 0

Then(t, tasks) == todo' = [todo EXCEPT ![t] = tasks \o Tail(@)]
At(t, do) == failure = "none" /\ todo[t] # <<>> /\ Head(todo[t]).do = do

mmap_profile == FLAGS_mmap_profile \/ FLAGS_only_mmap_profile
Sum(ps) == FoldSet(LAMBDA p, n : n + Size[p], 0, ps)

-------------------------------------------------------------------------------
(* The data of mmap are there for as long as it takes to write the profile.  *)
RefreshMMapData(blocks) == blocks \cup {"mmap"}
ClearMMapData(blocks) == blocks \ {"mmap"}

DoGetHeapProfileLocked ==
    arena' = IF is_on /\ mmap_profile THEN ClearMMapData(RefreshMMapData(arena)) ELSE arena

(* The next number is used up even when the file cannot be opened.           *)
DumpProfileLocked(table, alloc, free) ==
    IF filename_prefix = NULL THEN UNCHANGED <<dumps, arena>>
    ELSE /\ dump_count' = dump_count + 1
         /\ last_dump' = [alloc |-> alloc, peak |-> Max({alloc - free, last_dump.peak})]
         /\ \/ UNCHANGED <<files, arena>>
            \/ /\ DoGetHeapProfileLocked
               /\ files' = {f \in files : f.prefix # filename_prefix \/ f.number # dump_count'}
                             \cup {[prefix |-> filename_prefix, number |-> dump_count',
                                    run |-> run, table |-> table]}

NeedToDump(alloc, free) ==
    \/ /\ FLAGS_heap_profile_allocation_interval > 0
       /\ alloc >= last_dump_alloc + FLAGS_heap_profile_allocation_interval
    \/ /\ FLAGS_heap_profile_deallocation_interval > 0
       /\ free >= last_dump_free + FLAGS_heap_profile_deallocation_interval
    \/ /\ FLAGS_heap_profile_inuse_interval > 0
       /\ alloc - free > high_water_mark + FLAGS_heap_profile_inuse_interval

marks == <<last_dump_alloc, last_dump_free, high_water_mark>>

(* Mutant: the sizes are not noted when the memory is below the mark.        *)
MaybeDumpOneMark(table, alloc, free) ==
    IF NeedToDump(alloc, free)
    THEN /\ DumpProfileLocked(table, alloc, free)
         /\ IF alloc - free > high_water_mark
            THEN last_dump_alloc' = alloc /\ last_dump_free' = free /\ high_water_mark' = alloc - free
            ELSE UNCHANGED marks
    ELSE UNCHANGED <<marks, dumps, arena>>

MaybeDumpProfileLocked(table, alloc, free) ==
    IF NeedToDump(alloc, free)
    THEN /\ DumpProfileLocked(table, alloc, free)
         /\ last_dump_alloc' = alloc
         /\ last_dump_free' = free
         /\ high_water_mark' = Max({alloc - free, high_water_mark})
    ELSE UNCHANGED <<marks, dumps, arena>>

(* RecordAlloc and RecordFree are nothing when the profiler is off by then.  *)
RecordAlloc(t) ==
    /\ At(t, "new") /\ heap_lock = NULL
    /\ LET p == Head(todo[t]).ptr
       IN  IF is_on
           THEN /\ recorded' = recorded \cup {p}
                /\ alloc_size' = alloc_size + Size[p]
                /\ MaybeDumpProfileLocked(recorded', alloc_size', free_size)
           ELSE UNCHANGED <<recorded, alloc_size, marks, dumps, arena>>
    /\ Then(t, <<>>)
    /\ UNCHANGED <<heap_lock, is_on, filename_prefix, free_size, mmap_clients,
                   hooks, objects, world, failure, since, calls>>

RecordFree(t) ==
    /\ At(t, "delete") /\ heap_lock = NULL
    /\ LET p == Head(todo[t]).ptr
       IN  IF is_on
           THEN /\ recorded' = recorded \ {p}
                /\ free_size' = free_size + (IF p \in recorded THEN Size[p] ELSE 0)
                /\ MaybeDumpProfileLocked(recorded', alloc_size, free_size')
           ELSE UNCHANGED <<recorded, free_size, marks, dumps, arena>>
    /\ Then(t, <<>>)
    /\ UNCHANGED <<heap_lock, is_on, filename_prefix, alloc_size, mmap_clients,
                   hooks, objects, world, failure, since, calls>>

-------------------------------------------------------------------------------
(* The allocator calls the hook when it has the memory, and the program gets *)
(* it after that; a free calls its hook first.                               *)
InvokeNewHook(t) ==
    /\ At(t, "invoke_new")
    /\ LET p == Head(todo[t]).ptr
       IN  Then(t, (IF new_hook THEN <<Task("new", p)>> ELSE <<>>) \o <<Task("own", p)>>)
    /\ UNCHANGED <<heap_lock, profile, dumps, hooks, objects, world, failure, since, calls>>

MallocReturns(t) ==
    /\ At(t, "own")
    /\ owned' = owned \cup {Head(todo[t]).ptr}
    /\ Then(t, <<>>)
    /\ UNCHANGED <<heap_lock, profile, dumps, hooks, live, world, failure, since, calls>>

InvokeDeleteHook(t) ==
    /\ At(t, "invoke_delete")
    /\ LET p == Head(todo[t]).ptr
       IN  Then(t, (IF delete_hook THEN <<Task("delete", p)>> ELSE <<>>) \o <<Task("release", p)>>)
    /\ UNCHANGED <<heap_lock, profile, dumps, hooks, objects, world, failure, since, calls>>

Release(t) ==
    /\ At(t, "release")
    /\ live' = live \ {Head(todo[t]).ptr}
    /\ Then(t, <<>>)
    /\ UNCHANGED <<heap_lock, profile, dumps, hooks, owned, world, failure, since, calls>>

-------------------------------------------------------------------------------

(* HeapProfilerStart, up to the first hook: sizes and marks begin again, the *)
(* numbers of the files do not.                                              *)
StartStep(t, prefix) ==
    /\ heap_lock = NULL
    /\ IF is_on THEN Then(t, <<>>) /\ UNCHANGED <<heap_lock, profile>>
       ELSE /\ is_on' = TRUE
            /\ heap_lock' = t
            /\ mmap_clients' = mmap_clients + (IF mmap_profile THEN 1 ELSE 0)
            /\ arena' = {"buffer", "table"}
            /\ recorded' = {} /\ alloc_size' = 0 /\ free_size' = 0
            /\ last_dump_alloc' = 0 /\ last_dump_free' = 0 /\ high_water_mark' = 0
            /\ Then(t, (IF FLAGS_only_mmap_profile THEN <<>>
                        ELSE <<Do("add_new"), Do("add_delete")>>) \o <<Task("prefix", prefix)>>)
            /\ UNCHANGED filename_prefix
    /\ UNCHANGED <<hooks, objects, world, dump_count, files, failure, since, calls>>
    /\ last_dump' = IF is_on THEN last_dump ELSE [alloc |-> 0, peak |-> 0]

HeapProfilerStart(t) == At(t, "start") /\ StartStep(t, Head(todo[t]).ptr)

HookStep(t) ==
    /\ \/ At(t, "add_new") /\ new_hook' = TRUE /\ UNCHANGED delete_hook
       \/ At(t, "add_delete") /\ delete_hook' = TRUE /\ UNCHANGED new_hook
       \/ At(t, "remove_new") /\ new_hook' = FALSE /\ UNCHANGED delete_hook
       \/ At(t, "remove_delete") /\ delete_hook' = FALSE /\ UNCHANGED new_hook
    /\ Then(t, <<>>)
    /\ UNCHANGED <<heap_lock, profile, dumps, objects, world, failure, since, calls>>

(* Mutant: the memory of the prefix is from the allocator that is hooked.    *)
CopyPrefixWithNew(t) ==
    /\ At(t, "prefix")
    /\ Then(t, <<Task("new", CHOOSE p \in Objects : TRUE), Head(todo[t])>>)
    /\ UNCHANGED <<heap_lock, profile, dumps, hooks, objects, world, failure, since, calls>>

CopyPrefix(t) ==
    /\ At(t, "prefix")
    /\ filename_prefix' = Head(todo[t]).ptr
    /\ arena' = arena \cup {"prefix"}
    /\ heap_lock' = NULL
    /\ Then(t, <<>>)
    /\ UNCHANGED <<is_on, marks, recorded, alloc_size, free_size, mmap_clients, dumps, hooks,
                   objects, world, failure, since, calls>>

HeapProfilerStop(t) ==
    /\ At(t, "stop") /\ heap_lock = NULL
    /\ IF ~is_on THEN Then(t, <<>>) /\ UNCHANGED <<heap_lock, since>>
       ELSE /\ heap_lock' = t
            /\ since' = {}
            /\ Then(t, (IF FLAGS_only_mmap_profile THEN <<>>
                        ELSE <<Do("remove_new"), Do("remove_delete")>>) \o <<Do("free_profile")>>)
    /\ UNCHANGED <<profile, dumps, hooks, objects, world, failure, calls>>

(* The arena must be empty when its blocks have been freed.                  *)
FreeProfile(t) ==
    /\ At(t, "free_profile")
    /\ recorded' = {}
    /\ filename_prefix' = NULL
    /\ arena' = arena \ {"table", "buffer", "prefix"}
    /\ IF arena' # {} THEN failure' = "leak" /\ UNCHANGED <<mmap_clients, is_on, heap_lock, todo>>
       ELSE /\ mmap_clients' = mmap_clients - (IF mmap_profile THEN 1 ELSE 0)
            /\ is_on' = FALSE
            /\ heap_lock' = NULL
            /\ Then(t, <<>>)
            /\ UNCHANGED failure
    /\ UNCHANGED <<marks, alloc_size, free_size, dumps, hooks, objects, world, since, calls>>

(* HeapProfilerDump, at a call and at the end of the program.                *)
HeapProfilerDump(t) ==
    /\ At(t, "dump") /\ heap_lock = NULL
    /\ IF is_on THEN DumpProfileLocked(recorded, alloc_size, free_size)
       ELSE UNCHANGED <<dumps, arena>>
    /\ Then(t, <<>>)
    /\ UNCHANGED <<heap_lock, is_on, filename_prefix, marks, recorded, alloc_size, free_size,
                   mmap_clients, hooks, objects, world, failure, since, calls>>

(* GetHeapProfile has its buffer from malloc before it takes the lock.       *)
GetHeapProfile(t) ==
    /\ At(t, "get") /\ heap_lock = NULL
    /\ DoGetHeapProfileLocked
    /\ Then(t, <<>>)
    /\ UNCHANGED <<heap_lock, is_on, filename_prefix, marks, recorded, alloc_size, free_size,
                   mmap_clients, dumps, hooks, objects, world, failure, since, calls>>

-------------------------------------------------------------------------------

(* GetUniquePathFromEnv: the first program marks the value for its children, *)
(* whose paths have their pid.                                               *)
GetUniquePathFromEnv == CASE env = "unset" -> NULL
                          [] env = "path" -> "path"
                          [] env = "marked" -> "path_pid"

CleanupOldProfiles(prefix) == files' = {f \in files : f.prefix # prefix}

(* HeapProfilerInit, which does nothing in a program that is setuid.         *)
HeapProfilerInit(t) ==
    /\ At(t, "init")
    /\ LET prefix == GetUniquePathFromEnv
       IN  /\ env' = IF prefix = NULL THEN env ELSE "marked"
           /\ \/ Then(t, <<>>) /\ UNCHANGED files
              \/ /\ prefix # NULL
                 /\ CleanupOldProfiles(prefix)
                 /\ Then(t, <<Task("start", prefix)>>)
    /\ UNCHANGED <<heap_lock, profile, dump_count, last_dump, hooks, objects, run, failure,
                   since, calls>>

(* The program ends, by exit or otherwise, and another one runs: from the    *)
(* shell, or with the environment that this one leaves.                      *)
EndRun(t) ==
    /\ At(t, "end") /\ run < MaxRuns
    /\ heap_lock' = NULL /\ is_on' = FALSE /\ filename_prefix' = NULL /\ dump_count' = 0
    /\ last_dump_alloc' = 0 /\ last_dump_free' = 0 /\ high_water_mark' = 0
    /\ recorded' = {} /\ alloc_size' = 0 /\ free_size' = 0 /\ arena' = {}
    /\ new_hook' = FALSE /\ delete_hook' = FALSE /\ mmap_clients' = 0
    /\ live' = {} /\ owned' = {} /\ since' = {} /\ last_dump' = [alloc |-> 0, peak |-> 0]
    /\ todo' = [u \in Threads |-> IF u = main THEN <<Do("init")>> ELSE <<>>]
    /\ run' = run + 1
    /\ env' \in Environments \cup {env}
    /\ UNCHANGED <<files, failure, calls>>

-------------------------------------------------------------------------------
Start(t, call) ==
    /\ failure = "none" /\ todo[t] = <<>> /\ call \in Calls /\ calls < MaxCalls
    /\ Do("init") \notin {Head(todo[u]) : u \in {v \in Threads : todo[v] # <<>>}}
    /\ calls' = calls + 1
    /\ UNCHANGED <<heap_lock, profile, dumps, hooks, world, failure>>

Allocate(t, p, more) ==
    /\ p \notin live /\ alloc_size + Size[p] <= MaxAlloc
    /\ live' = live \cup {p}
    /\ since' = IF is_on /\ heap_lock = NULL /\ ~FLAGS_only_mmap_profile THEN since \cup {p}
                ELSE since \ {p}
    /\ todo' = [todo EXCEPT ![t] = <<Task("invoke_new", p)>> \o more]
    /\ UNCHANGED owned

Free(t, p) ==
    /\ p \in owned
    /\ owned' = owned \ {p}
    /\ since' = since \ {p}
    /\ todo' = [todo EXCEPT ![t] = <<Task("invoke_delete", p)>>]
    /\ UNCHANGED live

Call(t) ==
    \/ Start(t, "malloc") /\ \E p \in Objects : Allocate(t, p, <<>>)
    \/ Start(t, "free") /\ \E p \in Objects : Free(t, p)
    \/ Start(t, "get") /\ \E p \in Objects : Allocate(t, p, <<Do("get")>>)
    \/ /\ \/ Start(t, "start") /\ todo' = [todo EXCEPT ![t] = <<Task("start", "user")>>]
          \/ Start(t, "stop") /\ todo' = [todo EXCEPT ![t] = <<Do("stop")>>]
          \/ Start(t, "dump") /\ todo' = [todo EXCEPT ![t] = <<Do("dump")>>]
          \/ Start(t, "exit") /\ todo' = [todo EXCEPT ![t] = <<Do("dump"), Do("end")>>]
          \/ Start(t, "crash") /\ todo' = [todo EXCEPT ![t] = <<Do("end")>>]
       /\ UNCHANGED <<objects, since>>

Step(t) ==
    \/ InvokeNewHook(t) \/ MallocReturns(t) \/ InvokeDeleteHook(t) \/ Release(t)
    \/ RecordAlloc(t) \/ RecordFree(t)
    \/ HeapProfilerStart(t) \/ HookStep(t) \/ CopyPrefix(t)
    \/ HeapProfilerStop(t) \/ FreeProfile(t)
    \/ HeapProfilerDump(t) \/ GetHeapProfile(t)
    \/ HeapProfilerInit(t) \/ EndRun(t)

Next == \E t \in Threads : Call(t) \/ Step(t)

Spec == Init /\ [][Next]_vars

-------------------------------------------------------------------------------
Unlocked == heap_lock = NULL /\ failure = "none"
InUse == alloc_size - free_size

TypeOK ==
    /\ heap_lock \in Threads \cup {NULL}
    /\ recorded \subseteq Objects /\ owned \subseteq live /\ live \subseteq Objects
    /\ Unlocked => /\ is_on <=> filename_prefix # NULL
                   /\ is_on => InUse = Sum(recorded)
                   /\ new_hook = delete_hook
                   /\ mmap_clients = (IF is_on /\ mmap_profile THEN 1 ELSE 0)

(* heap-profiler.cc:303: the profile has no object that has been freed, and  *)
(* it has every one that was allocated since the start and is in use.        *)
ProfileExact ==
    Unlocked /\ is_on => recorded \subseteq live /\ (since \cap owned) \subseteq recorded

(* heap-profiler.cc:291: the sizes of a dump are noted, so that no dump is   *)
(* due that has been made, and none is missed.                               *)
NoDumpDue == Unlocked /\ is_on => ~NeedToDump(alloc_size, free_size)

(* heap-profiler.cc:108: memory in use is never further above that of the    *)
(* highest dump than the interval, not even in small steps.                  *)
PeakDumped ==
    (Unlocked /\ is_on /\ FLAGS_heap_profile_inuse_interval > 0) =>
       InUse <= last_dump.peak + FLAGS_heap_profile_inuse_interval

(* heap-profiler.cc:451: no file of a run is written twice, with any number  *)
(* of starts and stops, and a run that was started from the environment has  *)
(* no file of another run with its prefix.                                   *)
FilesKept == \A f \in files : (f.run = run /\ run' = run) => f \in files'
NoStaleFiles == (is_on /\ filename_prefix \in {"path", "path_pid"}) =>
                   \A f \in files : f.prefix = filename_prefix => f.run = run

(* heap-profiler.cc:505: nothing is left in the arena at the stop.           *)
ArenaEmptied == failure = "none" /\ (Unlocked /\ ~is_on => arena = {})

=============================================================================
