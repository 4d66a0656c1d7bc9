--------------------------- MODULE MemoryRegionMap ---------------------------
(* MemoryRegionMap of memory_region_map.{h,cc}: the recursive lock, the hooks *)
(* of mmap, munmap, mremap and sbrk in every thread, the set of regions, and  *)
(* the regions saved while the set itself allocates memory with mmap.         *)
(* A thread in a call has a list of tasks; a task is a step between which the *)
(* other threads run.  The kernel acts where the wrappers of malloc_hook call *)
(* it: munmap after its hook, the others before.                              *)
EXTENDS Integers, SequencesExt, FiniteSets, TLAPS

CONSTANTS Threads,
          Calls,          \* the calls that each thread makes
          Ranges,         \* what mmap may return: pairs start, end
          NestedRanges,   \* what mmap may return to the allocator of the set
          Increments,     \* arguments of sbrk
          Break0,         \* the program break at the start
          kSavedRegions,  \* size of saved_regions
          kMaxDepth,      \* recursive lock nesting that is expected
          NULL,
          MaxCalls, MaxNested, MaxBreak   \* bounds

VARIABLES client_count_, regions_, arena_, hooks_,
          saved_regions, recursive_insert,
          lock_, recursion_count_, lock_owner_tid_,
          mapped, brk,      \* the kernel's view
          ready,            \* mapped memory that the program may unmap
          missed,           \* memory mapped while no hook was there
          todo, failure, calls, nested

guarded == <<client_count_, regions_, arena_, hooks_, saved_regions, recursive_insert>>
locks == <<lock_, recursion_count_, lock_owner_tid_>>
memory == <<mapped, brk, ready, missed>>
vars == <<guarded, locks, memory, todo, failure, calls, nested>>

Task(do, start, end) == [do |-> do, start |-> start, end |-> end]
Do(s) == Task(s, 0, 0)
Units(start, end) == start..(end - 1)

Init == /\ client_count_ = 0 /\ regions_ = NULL /\ arena_ = FALSE /\ hooks_ = FALSE
        /\ saved_regions = <<>> /\ recursive_insert = FALSE
        /\ lock_ = NULL /\ recursion_count_ = 0 /\ lock_owner_tid_ = NULL
        /\ mapped = {} /\ brk = Break0 /\ ready = {} /\ missed = {}
        /\ todo = [t \in Threads |-> <<>>]
        /\ failure = "none" /\ calls = 0 /\ nested = 0

(* A task that is done, with what it has to do next.                         *)
Then(t, tasks) == todo' = [todo EXCEPT ![t] = tasks \o Tail(@)]
At(t, do) == failure = "none" /\ todo[t] # <<>> /\ Head(todo[t]).do = do

(* A failed RAW_CHECK stops the program.                                     *)
Fail(t, what) == failure' = what /\ UNCHANGED todo

-------------------------------------------------------------------------------

(* Lock: under owner_lock_, a thread that holds lock_ counts once more.      *)
LockStep(t) ==
    /\ At(t, "lock")
    /\ IF recursion_count_ > 0 /\ lock_owner_tid_ = t
       THEN /\ recursion_count_' = recursion_count_ + 1
            /\ IF recursion_count_' <= kMaxDepth THEN Then(t, <<>>) /\ UNCHANGED failure
               ELSE Fail(t, "depth")
       ELSE Then(t, <<Do("acquire"), Do("own")>>) /\ UNCHANGED <<recursion_count_, failure>>
    /\ UNCHANGED <<guarded, lock_, lock_owner_tid_, memory, calls, nested>>

(* lock_.Lock(), and then the owner under owner_lock_.                       *)
Acquire(t) ==
    /\ At(t, "acquire") /\ lock_ = NULL
    /\ lock_' = t
    /\ Then(t, <<>>)
    /\ UNCHANGED <<guarded, recursion_count_, lock_owner_tid_, memory, failure, calls, nested>>

Own(t) ==
    /\ At(t, "own")
    /\ IF recursion_count_ = 0
       THEN recursion_count_' = 1 /\ lock_owner_tid_' = t /\ Then(t, <<>>) /\ UNCHANGED failure
       ELSE Fail(t, "not reset") /\ UNCHANGED <<recursion_count_, lock_owner_tid_>>
    /\ UNCHANGED <<guarded, lock_, memory, calls, nested>>

Unlock(t) ==
    /\ At(t, "unlock")
    /\ IF recursion_count_ > 0 /\ lock_ # NULL /\ lock_owner_tid_ = t
       THEN /\ recursion_count_' = recursion_count_ - 1
            /\ lock_' = IF recursion_count_' = 0 THEN NULL ELSE lock_
            /\ Then(t, <<>>)
            /\ UNCHANGED failure
       ELSE Fail(t, "unlock") /\ UNCHANGED <<recursion_count_, lock_>>
    /\ UNCHANGED <<guarded, lock_owner_tid_, memory, calls, nested>>

LockIsHeld(t) == lock_ # NULL /\ lock_owner_tid_ = t

Locked(tasks) == <<Do("lock")>> \o tasks \o <<Do("unlock")>>

(* RecordRegionAddition and RecordRegionRemoval, as the hooks call them.     *)
RecordRegionAddition(start, end) == Locked(<<Task("insert", start, end)>>)
RecordRegionRemoval(start, end) == Locked(<<Task("remove", start, end)>>)

-------------------------------------------------------------------------------
Region(start, end) == [start |-> start, end |-> end]

(* The regions whose end is the least that is not below the address.         *)
LowerBound(addr) ==
    {r \in regions_ : r.end >= addr /\ \A q \in regions_ : q.end >= addr => r.end <= q.end}

(* A set has one region of an end.                                           *)
SetInsert(r) == IF \E q \in regions_ : q.end = r.end THEN regions_ ELSE regions_ \cup {r}

(* Mutant: what was saved is not inserted at the end.                        *)
InsertNoFlush(t) ==
    /\ At(t, "insert")
    /\ LET r == Head(todo[t])
       IN  IF recursive_insert
           THEN /\ saved_regions' = Append(saved_regions, Region(r.start, r.end))
                /\ Then(t, <<>>)
                /\ UNCHANGED <<regions_, recursive_insert>>
           ELSE /\ recursive_insert' = TRUE
                /\ regions_' = IF regions_ = NULL THEN {} ELSE regions_
                /\ Then(t, <<Task("do_insert", r.start, r.end), Do("end_insert")>>)
                /\ UNCHANGED saved_regions
    /\ UNCHANGED <<client_count_, arena_, hooks_, locks, memory, failure, calls, nested>>

(* A recursive call saves its region.  Another one makes the set when there  *)
(* is none, inserts its region and then those saved.                         *)
InsertRegionLocked(t) ==
    /\ At(t, "insert")
    /\ LET r == Head(todo[t])
           insert == <<Task("do_insert", r.start, r.end), Do("handle_do"), Do("end_insert")>>
       IN  IF ~LockIsHeld(t)
           THEN Fail(t, "lock") /\ UNCHANGED <<saved_regions, regions_, recursive_insert>>
           ELSE IF recursive_insert
           THEN /\ IF Len(saved_regions) < kSavedRegions
                   THEN /\ saved_regions' = Append(saved_regions, Region(r.start, r.end))
                        /\ Then(t, <<>>) /\ UNCHANGED failure
                   ELSE Fail(t, "saved") /\ UNCHANGED saved_regions
                /\ UNCHANGED <<regions_, recursive_insert>>
           ELSE /\ recursive_insert' = TRUE
                /\ regions_' = IF regions_ = NULL THEN {} ELSE regions_
                /\ Then(t, (IF regions_ = NULL THEN <<Do("handle_do")>> ELSE <<>>) \o insert)
                /\ UNCHANGED <<saved_regions, failure>>
    /\ UNCHANGED <<client_count_, arena_, hooks_, locks, memory, calls, nested>>

EndInsert(t) ==
    /\ At(t, "end_insert")
    /\ recursive_insert' = FALSE
    /\ Then(t, <<>>)
    /\ UNCHANGED <<client_count_, regions_, arena_, hooks_, saved_regions, locks, memory,
                   failure, calls, nested>>

(* The saved regions, the last one first, each to the function given.        *)
HandleSavedRegionsLocked(t, do, insert_func) ==
    /\ At(t, do)
    /\ IF saved_regions = <<>> THEN Then(t, <<>>) /\ UNCHANGED saved_regions
       ELSE /\ saved_regions' = Front(saved_regions)
            /\ Then(t, <<Task(insert_func, Last(saved_regions).start, Last(saved_regions).end),
                         Do(do)>>)
    /\ UNCHANGED <<client_count_, regions_, arena_, hooks_, recursive_insert, locks, memory,
                   failure, calls, nested>>

(* The allocator of the set gets memory with mmap, whose hook runs within;   *)
(* or it also gives it back.                                                 *)
NestedMmap(t, n, more) ==
    /\ nested < MaxNested
    /\ Units(n[1], n[2]) \cap mapped = {}
    /\ nested' = nested + 1
    /\ \/ Then(t, RecordRegionAddition(n[1], n[2]) \o more)
       \/ Then(t, RecordRegionAddition(n[1], n[2]) \o RecordRegionRemoval(n[1], n[2])
                    \o <<Task("unmap", n[1], n[2])>> \o more)
    /\ UNCHANGED missed
    /\ mapped' = mapped \cup Units(n[1], n[2])

(* A region within a recorded one changes nothing.  Another one is put into  *)
(* the set, which allocates.                                                 *)
DoInsertRegionLocked(t) ==
    /\ At(t, "do_insert")
    /\ LET r == Head(todo[t])
       IN  IF \E q \in LowerBound(r.end) : q.start <= r.start
           THEN Then(t, <<>>) /\ UNCHANGED <<regions_, mapped, missed, failure, nested>>
           ELSE IF ~arena_
           THEN Fail(t, "arena") /\ UNCHANGED <<regions_, mapped, missed, nested>>
           ELSE \/ /\ regions_' = SetInsert(Region(r.start, r.end))
                   /\ Then(t, <<>>)
                   /\ UNCHANGED <<mapped, missed, failure, nested>>
                \/ /\ \E n \in NestedRanges : NestedMmap(t, n, <<Task("set", r.start, r.end)>>)
                   /\ UNCHANGED <<regions_, failure>>
    /\ UNCHANGED <<client_count_, arena_, hooks_, saved_regions, recursive_insert, locks,
                   brk, ready, calls>>

SetStep(t) ==
    /\ At(t, "set")
    /\ regions_' = SetInsert(Region(Head(todo[t]).start, Head(todo[t]).end))
    /\ Then(t, <<>>)
    /\ UNCHANGED <<client_count_, arena_, hooks_, saved_regions, recursive_insert, locks,
                   memory, failure, calls, nested>>

(* RecordRegionRemoval under the lock.  Within an insertion a saved region   *)
(* that is the same is dropped; otherwise the saved ones are inserted first. *)
Removal(t) ==
    /\ At(t, "remove")
    /\ LET r == Head(todo[t])
       IN  /\ saved_regions' = IF recursive_insert
                               THEN SelectSeq(saved_regions, LAMBDA s : s # Region(r.start, r.end))
                               ELSE saved_regions
           /\ Then(t, IF regions_ = NULL THEN <<>>
                      ELSE (IF recursive_insert THEN <<>> ELSE <<Do("handle_insert")>>)
                             \o <<[do |-> "scan", start |-> r.start, end |-> r.end, from |-> r.start]>>)
    /\ UNCHANGED <<client_count_, regions_, arena_, hooks_, recursive_insert, locks, memory,
                   failure, calls, nested>>

(* The region at the iterator; the next one is the one with the next end.    *)
(* Its end orders the set, so a start portion that remains is a new region:  *)
(* when an end portion remains as well, it is inserted before the region is  *)
(* trimmed.                                                                  *)
Scan(t) ==
    /\ At(t, "scan")
    /\ LET s == Head(todo[t])
           here == {q \in LowerBound(s.from) : q.start < s.end}
       IN  IF here = {} THEN Then(t, <<>>) /\ UNCHANGED regions_
           ELSE \E q \in here :
                  LET from_start == q.start < s.start
                      to_end == s.end < q.end
                  IN  /\ regions_' = IF from_start /\ to_end THEN regions_
                                     ELSE (regions_ \ {q})
                                            \cup (IF to_end THEN {Region(s.end, q.end)} ELSE {})
                      /\ Then(t, (IF from_start THEN <<Task("insert", q.start, s.start)>> ELSE <<>>)
                                 \o (IF from_start /\ to_end THEN <<Task("trim", s.end, q.end)>>
                                     ELSE <<>>)
                                 \o <<[do |-> "scan", start |-> s.start, end |-> s.end,
                                       from |-> q.end + 1]>>)
    /\ UNCHANGED <<client_count_, arena_, hooks_, saved_regions, recursive_insert, locks,
                   memory, failure, calls, nested>>

TrimStep(t) ==
    /\ At(t, "trim")
    /\ LET r == Head(todo[t])
       IN  regions_' = {q \in regions_ : q.end # r.end} \cup {Region(r.start, r.end)}
    /\ Then(t, <<>>)
    /\ UNCHANGED <<client_count_, arena_, hooks_, saved_regions, recursive_insert, locks,
                   memory, failure, calls, nested>>

-------------------------------------------------------------------------------
(* Init: the first client installs the hooks and makes the arena, with the   *)
(* mmaps of that saved.                                                      *)
InitStep(t) ==
    /\ At(t, "init")
    /\ client_count_' = client_count_ + 1
    /\ IF client_count_ > 0
       THEN Then(t, <<>>) /\ UNCHANGED <<hooks_, recursive_insert, arena_, mapped, missed, nested>>
       ELSE /\ hooks_' = TRUE /\ arena_' = TRUE
            /\ recursive_insert' = TRUE
            /\ LET more == <<Do("end_insert"), Do("handle_insert")>>
               IN  \/ Then(t, more) /\ UNCHANGED <<mapped, missed, nested>>
                   \/ \E n \in NestedRanges : NestedMmap(t, n, more)
    /\ UNCHANGED <<regions_, saved_regions, locks, brk, ready, failure, calls>>

(* Shutdown: the last client removes the hooks, the regions and the arena.   *)
ShutdownStep(t) ==
    /\ At(t, "shutdown")
    /\ client_count_' = client_count_ - 1
    /\ IF client_count_ > 1 THEN UNCHANGED <<hooks_, regions_, arena_, missed>>
       ELSE /\ hooks_' = FALSE /\ regions_' = NULL /\ arena_' = FALSE
            /\ missed' = mapped \cup Units(Break0, brk)
    /\ Then(t, <<>>)
    /\ UNCHANGED <<saved_regions, recursive_insert, locks, mapped, brk, ready, failure, calls, nested>>

(* The end of a call in the kernel or in the program.                        *)
UnmapStep(t) ==
    /\ At(t, "unmap")
    /\ mapped' = mapped \ Units(Head(todo[t]).start, Head(todo[t]).end)
    /\ missed' = missed \ Units(Head(todo[t]).start, Head(todo[t]).end)
    /\ Then(t, <<>>)
    /\ UNCHANGED <<guarded, locks, brk, ready, failure, calls, nested>>

ReadyStep(t) ==
    /\ At(t, "ready")
    /\ ready' = ready \cup Units(Head(todo[t]).start, Head(todo[t]).end)
    /\ Then(t, <<>>)
    /\ UNCHANGED <<guarded, locks, mapped, brk, missed, failure, calls, nested>>

(* SbrkHook asks for the break again.                                        *)
SbrkHook(t) ==
    /\ At(t, "sbrk")
    /\ LET result == Head(todo[t]).start
           grown == Head(todo[t]).end > 0
       IN  Then(t, IF grown THEN RecordRegionAddition(result, brk)
                   ELSE RecordRegionRemoval(brk, result))
    /\ UNCHANGED <<guarded, locks, memory, failure, calls, nested>>

-------------------------------------------------------------------------------
Start(t, call) ==
    /\ failure = "none" /\ todo[t] = <<>> /\ call \in Calls[t] /\ calls < MaxCalls
    /\ calls' = calls + 1
    /\ UNCHANGED <<guarded, locks, failure, nested>>

Hooked(tasks) == IF hooks_ THEN tasks ELSE <<>>
Miss(units) == missed' = IF hooks_ THEN missed \ units ELSE missed \cup units

Mmap(t) ==
    /\ Start(t, "mmap")
    /\ \E r \in Ranges :
         /\ Units(r[1], r[2]) \cap mapped = {}
         /\ mapped' = mapped \cup Units(r[1], r[2])
         /\ Miss(Units(r[1], r[2]))
         /\ todo' = [todo EXCEPT ![t] = Hooked(RecordRegionAddition(r[1], r[2]))
                                          \o <<Task("ready", r[1], r[2])>>]
    /\ UNCHANGED <<brk, ready>>

(* Any part of what is mapped, however it was mapped.                        *)
Munmap(t) ==
    /\ Start(t, "munmap")
    /\ \E r \in Ranges :
         /\ Units(r[1], r[2]) \subseteq ready
         /\ ready' = ready \ Units(r[1], r[2])
         /\ todo' = [todo EXCEPT ![t] = Hooked(RecordRegionRemoval(r[1], r[2]))
                                          \o <<Task("unmap", r[1], r[2])>>]
    /\ UNCHANGED <<mapped, brk, missed>>

Mremap(t) ==
    /\ Start(t, "mremap")
    /\ \E r \in Ranges, n \in Ranges :
         /\ Units(r[1], r[2]) \subseteq ready
         /\ Units(n[1], n[2]) \cap mapped = {}
         /\ ready' = ready \ Units(r[1], r[2])
         /\ mapped' = (mapped \ Units(r[1], r[2])) \cup Units(n[1], n[2])
         /\ Miss(Units(n[1], n[2]))
         /\ todo' = [todo EXCEPT ![t] = Hooked(RecordRegionRemoval(r[1], r[2])
                                                 \o RecordRegionAddition(n[1], n[2]))
                                          \o <<Task("ready", n[1], n[2])>>]
    /\ UNCHANGED brk

Sbrk(t) ==
    /\ Start(t, "sbrk")
    /\ \E inc \in Increments :
         /\ Break0 <= brk + inc /\ brk + inc <= MaxBreak
         /\ brk' = brk + inc
         /\ Miss(IF inc > 0 THEN Units(brk, brk + inc) ELSE {})
         /\ todo' = [todo EXCEPT ![t] = Hooked(<<Task("sbrk", brk, inc)>>)]
    /\ UNCHANGED <<mapped, ready>>

Client(t) ==
    \/ /\ Start(t, "init")
       /\ todo' = [todo EXCEPT ![t] = Locked(<<Do("init")>>)]
       /\ UNCHANGED memory
    \/ /\ Start(t, "shutdown") /\ client_count_ > 0
       /\ todo' = [todo EXCEPT ![t] = Locked(<<Do("shutdown")>>)]
       /\ UNCHANGED memory

LockSteps(t) == LockStep(t) \/ Acquire(t) \/ Own(t) \/ Unlock(t)

RegionSteps(t) ==
    \/ InsertRegionLocked(t) \/ EndInsert(t) \/ DoInsertRegionLocked(t) \/ SetStep(t)
    \/ HandleSavedRegionsLocked(t, "handle_do", "do_insert")
    \/ HandleSavedRegionsLocked(t, "handle_insert", "insert")
    \/ Removal(t) \/ Scan(t) \/ TrimStep(t)

Step(t) == \/ LockSteps(t) \/ RegionSteps(t) \/ InitStep(t) \/ ShutdownStep(t)
           \/ UnmapStep(t) \/ ReadyStep(t) \/ SbrkHook(t)

Next == \E t \in Threads :
           Step(t) \/ Mmap(t) \/ Munmap(t) \/ Mremap(t) \/ Sbrk(t) \/ Client(t)

Spec == Init /\ [][Next]_vars

-------------------------------------------------------------------------------
Idle == \A t \in Threads : todo[t] = <<>>
Covered == IF regions_ = NULL THEN {} ELSE UNION {Units(r.start, r.end) : r \in regions_}

(* Regions are not empty and do not overlap (memory_region_map.cc:363), so   *)
(* their ends are different.                                                 *)
TypeOK ==
    /\ regions_ # NULL =>
         \A r \in regions_ : /\ r.start < r.end
                             /\ \A q \in regions_ \ {r} : r.end <= q.start \/ q.end <= r.start
    /\ recursion_count_ \in 0..kMaxDepth
    /\ lock_ \in Threads \cup {NULL}

(* memory_region_map.cc:248: while lock_ is not held the count is 0, and the *)
(* tasks done under the lock are those of the thread that holds it.          *)
LockInvariant ==
    /\ lock_ = NULL => recursion_count_ = 0
    /\ recursion_count_ > 0 => lock_ = lock_owner_tid_
    /\ \A t \in Threads :
         (todo[t] # <<>> /\ Head(todo[t]).do \notin
            {"lock", "acquire", "own", "unmap", "ready", "sbrk"}) => lock_ = t

(* memory_region_map.cc:40: the regions are *all* memory that was mapped     *)
(* while the hooks were there, once no call is under way.                    *)
MapComplete ==
    (Idle /\ client_count_ > 0 /\ failure = "none") =>
       Covered = (mapped \cup Units(Break0, brk)) \ missed

(* memory_region_map.cc:85: what is saved is moved to the set before the     *)
(* outer call returns, and no check on the way fails.                        *)
NothingLeftSaved == lock_ = NULL => saved_regions = <<>> /\ ~recursive_insert
RecursionEnds == failure = "none" /\ NothingLeftSaved

-------------------------------------------------------------------------------
(* The lock and the saved regions, for any threads and calls and however     *)
(* deep the hooks nest.  The tasks of a thread are brackets: from the state  *)
(* it is in, every prefix of them has a state, which is how deep the thread  *)
(* is in the lock and what is known of the regions saved:                    *)
(*   clean    no insertion is under way and nothing is saved                 *)
(*   flag     an insertion is under way                                      *)
(*   flushed  an insertion is under way and nothing is saved                 *)
(*   dirty    no insertion is under way                                      *)
(* Tasks that need the lock are inside, and outside all is clean.            *)
RegionConstants == NULL \notin Threads

Phases == {"clean", "flag", "flushed", "dirty"}
State(n, p) == [depth |-> n, phase |-> p]
States == {x \in [depth : Nat, phase : Phases] : x.depth = 0 => x.phase = "clean"}
Outside == State(0, "clean")

OutsideTasks == {"lock", "acquire", "own", "unmap", "ready", "sbrk"}
Change(do) == IF do = "lock" THEN 1 ELSE IF do = "unlock" THEN -1 ELSE 0

(* What a task makes of a phase.                                             *)
Turns(do, p, q) ==
    \/ do \in {"lock", "unlock", "unmap", "ready"} /\ q = p
    \/ do \in {"sbrk", "remove", "scan", "trim"} /\ p \in {"clean", "flag"} /\ q = p
    \/ do \in {"init", "shutdown"} /\ p = "clean" /\ q = "clean"
    \/ do = "insert" /\ p = "flag" /\ q = "flag"
    \/ do \in {"insert", "handle_insert"} /\ p \in {"clean", "dirty"} /\ q = "clean"
    \/ do \in {"do_insert", "set"} /\ p \in {"flag", "flushed"} /\ q = "flag"
    \/ do = "handle_do" /\ p \in {"flag", "flushed"} /\ q = "flushed"
    \/ do = "end_insert" /\ p = "flushed" /\ q = "clean"
    \/ do = "end_insert" /\ p = "flag" /\ q = "dirty"

Leads(do, x, y) ==
    /\ x \in States /\ y \in States
    /\ do \notin {"acquire", "own"}
    /\ y.depth = x.depth + Change(do)
    /\ do \notin OutsideTasks => x.depth >= 1
    /\ Turns(do, x.phase, y.phase)

Passes(s, x, y, h) ==
    /\ \A i \in 1..(Len(s) + 1) : h[i] \in States
    /\ h[1] = x /\ h[Len(s) + 1] = y
    /\ \A i \in 1..Len(s) : Leads(s[i].do, h[i], h[i + 1])

Nests(s, x, y) == (\E S : s \in Seq(S)) /\ \E h : Passes(s, x, y, h)

(* What a phase says of the regions saved.                                   *)
Holds(p) ==
    /\ p \in {"clean", "dirty"} => ~recursive_insert
    /\ p \in {"flag", "flushed"} => recursive_insert
    /\ p \in {"clean", "flushed"} => saved_regions = <<>>

(* The state of a thread with no task under way in Lock.                     *)
Here(t, x) ==
    /\ x \in States
    /\ IF lock_ = t THEN recursion_count_ > 0 /\ x.depth = recursion_count_ /\ Holds(x.phase)
       ELSE x = Outside

(* Between a lock that is not held yet and the count, the thread has one or  *)
(* two tasks to do before the rest, which begins at depth one.               *)
ThreadNests(t) ==
    \/ \E x : Here(t, x) /\ Nests(todo[t], x, Outside)
    \/ /\ lock_ # t
       /\ \E rest : /\ Nests(rest, State(1, "clean"), Outside)
                    /\ todo[t] = <<Do("acquire"), Do("own")>> \o rest
    \/ /\ lock_ = t /\ recursion_count_ = 0 /\ Holds("clean")
       /\ \E rest : /\ Nests(rest, State(1, "clean"), Outside)
                    /\ todo[t] = <<Do("own")>> \o rest

LockChecksHold == failure \notin {"lock", "not reset", "unlock"}

IndInv ==
    /\ lock_ \in Threads \cup {NULL} /\ recursion_count_ \in Nat
    /\ todo = [t \in Threads |-> todo[t]]
    /\ LockInvariant /\ LockChecksHold /\ NothingLeftSaved
    /\ failure = "none" => \A t \in Threads : ThreadNests(t)

LEMMA NestsNothing == \A x \in States : Nests(<<>>, x, x)
<1> TAKE x \in States
<1>1. <<>> \in Seq({}) /\ Len(<<>>) = 0
  OBVIOUS
<1>2. Passes(<<>>, x, x, [i \in 1..1 |-> x])
  BY <1>1 DEF Passes
<1> QED
  BY <1>1, <1>2 DEF Nests

LEMMA NestsOne ==
  ASSUME NEW task, NEW x, NEW y, Leads(task.do, x, y)
  PROVE  Nests(<<task>>, x, y)
<1>1. <<task>> \in Seq({task}) /\ Len(<<task>>) = 1 /\ <<task>>[1] = task
  OBVIOUS
<1> DEFINE h == [i \in 1..2 |-> IF i = 1 THEN x ELSE y]
<1>2. h[1] = x /\ h[2] = y /\ x \in States /\ y \in States
  BY DEF Leads
<1> HIDE DEF h
<1>3. Passes(<<task>>, x, y, h)
  BY <1>1, <1>2 DEF Passes
<1> QED
  BY <1>1, <1>3 DEF Nests

LEMMA NestsBoth ==
  ASSUME NEW s, NEW u, NEW x, NEW y, NEW z, Nests(s, x, y), Nests(u, y, z)
  PROVE  Nests(s \o u, x, z)
<1>1. PICK S, g : s \in Seq(S) /\ Passes(s, x, y, g)
  BY DEF Nests
<1>2. PICK U, k : u \in Seq(U) /\ Passes(u, y, z, k)
  BY DEF Nests
<1> DEFINE m == Len(s)
           n == Len(u)
           h == [i \in 1..(m + n + 1) |-> IF i <= m THEN g[i] ELSE k[i - m]]
<1>3. m \in Nat /\ n \in Nat /\ s \in Seq(S \cup U) /\ u \in Seq(S \cup U)
  BY <1>1, <1>2
<1>4. /\ s \o u \in Seq(S \cup U) /\ Len(s \o u) = m + n
      /\ \A i \in 1..(m + n) : (s \o u)[i] = IF i <= m THEN s[i] ELSE u[i - m]
  BY <1>3
<1> HIDE DEF m, n
<1>5. /\ \A i \in 1..(m + 1) : g[i] \in States
      /\ \A i \in 1..(n + 1) : k[i] \in States
      /\ g[1] = x /\ g[m + 1] = y /\ k[1] = y /\ k[n + 1] = z
  BY <1>1, <1>2 DEF Passes, m, n
<1>6. /\ \A i \in 1..(m + 1) : h[i] = g[i]
      /\ \A i \in (m + 1)..(m + n + 1) : h[i] = k[i - m]
  BY <1>3, <1>5
<1> HIDE DEF h
<1>7. h[1] = x /\ h[m + n + 1] = z /\ \A i \in 1..(m + n + 1) : h[i] \in States
  <2>1. h[1] = x
    BY <1>3, <1>5, <1>6
  <2>2. m + n + 1 \in (m + 1)..(m + n + 1) /\ (m + n + 1) - m = n + 1
    BY <1>3
  <2>3. h[m + n + 1] = z
    BY <1>5, <1>6, <2>2
  <2>4. ASSUME NEW i \in 1..(m + n + 1) PROVE h[i] \in States
    <3>1. CASE i <= m + 1
      BY <1>3, <1>5, <1>6, <3>1
    <3>2. CASE i > m + 1
      <4>1. i \in (m + 1)..(m + n + 1) /\ i - m \in 1..(n + 1)
        BY <1>3, <3>2
      <4> QED
        BY <1>5, <1>6, <4>1
    <3> QED
      BY <1>3, <3>1, <3>2
  <2> QED
    BY <2>1, <2>3, <2>4
<1>8. ASSUME NEW i \in 1..(m + n)
      PROVE  Leads((s \o u)[i].do, h[i], h[i + 1])
  <2>1. CASE i <= m
    <3>1. i \in 1..m /\ i \in 1..(m + 1) /\ i + 1 \in 1..(m + 1) /\ (s \o u)[i] = s[i]
      BY <1>3, <1>4, <2>1
    <3>2. h[i] = g[i] /\ h[i + 1] = g[i + 1]
      BY <1>6, <3>1
    <3> QED
      BY <1>1, <3>1, <3>2 DEF Passes, m
  <2>2. CASE i > m
    <3>1. /\ i - m \in 1..n /\ i \in (m + 1)..(m + n + 1) /\ i + 1 \in (m + 1)..(m + n + 1)
          /\ (i + 1) - m = (i - m) + 1 /\ (s \o u)[i] = u[i - m]
      BY <1>3, <1>4, <2>2
    <3>2. h[i] = k[i - m] /\ h[i + 1] = k[(i - m) + 1]
      BY <1>6, <3>1
    <3> QED
      BY <1>2, <3>1, <3>2 DEF Passes, n
  <2>3. i <= m \/ i > m
    BY <1>3
  <2> QED
    BY <2>1, <2>2, <2>3
<1>9. Passes(s \o u, x, z, h)
  BY <1>4, <1>7, <1>8 DEF Passes
<1> QED
  BY <1>4, <1>9 DEF Nests

(* The rest after a task that is done.                                       *)
LEMMA NestsTail ==
  ASSUME NEW s, NEW x, NEW z, Nests(s, x, z), s # <<>>
  PROVE  \E y : Leads(Head(s).do, x, y) /\ Nests(Tail(s), y, z)
<1>1. PICK S, g : s \in Seq(S) /\ Passes(s, x, z, g)
  BY DEF Nests
<1> DEFINE n == Len(s) - 1
           h == [i \in 1..(n + 1) |-> g[i + 1]]
<1>2. /\ n \in Nat /\ Len(s) = n + 1 /\ Tail(s) \in Seq(S) /\ Len(Tail(s)) = n
      /\ Head(s) = s[1] /\ \A i \in 1..n : Tail(s)[i] = s[i + 1]
  BY <1>1
<1> HIDE DEF n
<1>3. /\ \A i \in 1..(n + 2) : g[i] \in States
      /\ g[1] = x /\ g[n + 2] = z
      /\ \A i \in 1..(n + 1) : Leads(s[i].do, g[i], g[i + 1])
  <2>1. (n + 1) + 1 = n + 2
    BY <1>2
  <2> QED
    BY <1>1, <1>2, <2>1 DEF Passes
<1>4. Leads(Head(s).do, x, g[2])
  <2>1. 1 \in 1..(n + 1) /\ 1 + 1 = 2
    BY <1>2
  <2> QED
    BY <1>2, <1>3, <2>1
<1>5. /\ \A i \in 1..(n + 1) : h[i] = g[i + 1] /\ h[i] \in States
      /\ h[1] = g[2] /\ h[n + 1] = z
  BY <1>2, <1>3
<1> HIDE DEF h
<1>6. \A i \in 1..n : Leads(Tail(s)[i].do, h[i], h[i + 1])
  <2> TAKE i \in 1..n
  <2>1. i \in 1..(n + 1) /\ i + 1 \in 1..(n + 1)
    BY <1>2
  <2> QED
    BY <1>2, <1>3, <1>5, <2>1
<1>7. Passes(Tail(s), g[2], z, h)
  BY <1>2, <1>5, <1>6 DEF Passes
<1> QED
  BY <1>2, <1>4, <1>7 DEF Nests

(* The tasks of the lock around others, of the hooks, and of a list of two.  *)
LEMMA NestsLocked ==
  ASSUME NEW tasks, NEW a \in Nat, NEW p \in Phases, a = 0 => p = "clean",
         Nests(tasks, State(a + 1, p), State(a + 1, p))
  PROVE  Nests(Locked(tasks), State(a, p), State(a, p))
<1>1. State(a, p) \in States /\ State(a + 1, p) \in States
  BY DEF State, States
<1>2. Nests(<<Do("lock")>>, State(a, p), State(a + 1, p))
  <2>1. Leads("lock", State(a, p), State(a + 1, p))
    BY <1>1 DEF Leads, State, Change, OutsideTasks, Turns
  <2>2. Do("lock").do = "lock"
    BY DEF Do, Task
  <2> QED
    BY <2>1, <2>2, NestsOne
<1>3. Nests(<<Do("unlock")>>, State(a + 1, p), State(a, p))
  <2>1. a = (a + 1) + (-1) /\ a + 1 >= 1
    OBVIOUS
  <2>2. Leads("unlock", State(a + 1, p), State(a, p))
    BY <1>1, <2>1 DEF Leads, State, Change, OutsideTasks, Turns
  <2>3. Do("unlock").do = "unlock"
    BY DEF Do, Task
  <2> QED
    BY <2>2, <2>3, NestsOne
<1>4. Nests(<<Do("lock")>> \o tasks, State(a, p), State(a + 1, p))
  BY <1>2, NestsBoth
<1> QED
  BY <1>3, <1>4, NestsBoth DEF Locked

(* A task that leaves the lock alone.                                        *)
LEMMA NestsTask ==
  ASSUME NEW task, NEW a \in Nat, NEW p \in Phases, NEW q \in Phases,
         a = 0 => p = "clean" /\ q = "clean",
         task.do \notin {"lock", "unlock", "acquire", "own"},
         a >= 1 \/ task.do \in OutsideTasks,
         Turns(task.do, p, q)
  PROVE  Nests(<<task>>, State(a, p), State(a, q))
<1>1. Change(task.do) = 0 /\ a + 0 = a
  BY DEF Change
<1>2. State(a, p) \in States /\ State(a, q) \in States
  BY DEF State, States
<1>3. Leads(task.do, State(a, p), State(a, q))
  BY <1>1, <1>2 DEF Leads, State
<1> QED
  BY <1>3, NestsOne

LEMMA NestsTwo ==
  ASSUME NEW first, NEW second, NEW x, NEW y, NEW z,
         Nests(<<first>>, x, y), Nests(<<second>>, y, z)
  PROVE  Nests(<<first, second>>, x, z)
<1>1. <<first>> \o <<second>> = <<first, second>>
  <2> DEFINE S == {first, second}
  <2>1. <<first>> \in Seq(S) /\ <<second>> \in Seq(S) /\ <<first, second>> \in Seq(S)
    OBVIOUS
  <2> DEFINE u == <<first>> \o <<second>>
             v == <<first, second>>
  <2>2. /\ u \in Seq(S) /\ Len(u) = 2 /\ u[1] = first /\ u[2] = second
        /\ v \in Seq(S) /\ Len(v) = 2 /\ v[1] = first /\ v[2] = second
    BY <2>1
  <2> HIDE DEF u, v, S
  <2>3. DOMAIN u = 1..2 /\ DOMAIN v = 1..2 /\ \A i \in 1..2 : u[i] = v[i]
    BY <2>2
  <2>4. u = v
    BY <2>2, <2>3
  <2> QED
    BY <2>4 DEF u, v
<1>2. Nests(<<first>> \o <<second>>, x, z)
  BY NestsBoth
<1> QED
  BY <1>1, <1>2

LEMMA NestsRecording ==
  ASSUME NEW a \in Nat, NEW p \in {"clean", "flag"}, a = 0 => p = "clean",
         NEW start, NEW end
  PROVE  /\ Nests(RecordRegionAddition(start, end), State(a, p), State(a, p))
         /\ Nests(RecordRegionRemoval(start, end), State(a, p), State(a, p))
<1>1. a + 1 \in Nat /\ a + 1 >= 1 /\ a + 1 # 0 /\ p \in Phases
  BY DEF Phases
<1>2. Turns("insert", p, p) /\ Turns("remove", p, p)
  BY DEF Turns
<1>3. Nests(<<Task("insert", start, end)>>, State(a + 1, p), State(a + 1, p))
  BY <1>1, <1>2, NestsTask DEF Task
<1>4. Nests(<<Task("remove", start, end)>>, State(a + 1, p), State(a + 1, p))
  BY <1>1, <1>2, NestsTask DEF Task
<1> QED
  BY <1>1, <1>3, <1>4, NestsLocked DEF RecordRegionAddition, RecordRegionRemoval

(* What the other threads have to do does not depend on this thread's depth. *)
LEMMA OthersNest ==
  ASSUME NEW t \in Threads, NEW u \in Threads \ {t}, ThreadNests(u), todo'[u] = todo[u],
         lock_' = u <=> lock_ = u,
         lock_ = u => UNCHANGED <<recursion_count_, saved_regions, recursive_insert>>
  PROVE  ThreadNests(u)'
<1>1. (lock_ = u => (\A p : Holds(p)' <=> Holds(p))) /\ \A x : Here(u, x)' <=> Here(u, x)
  BY DEF Here, Holds
<1> QED
  BY <1>1 DEF ThreadNests

(* The next task tells which of the three states the thread is in.           *)
LEMMA HeadTells ==
  ASSUME recursion_count_ \in Nat, NEW t \in Threads, ThreadNests(t), todo[t] # <<>>
  PROVE  /\ Head(todo[t]).do \notin {"acquire", "own"} =>
              \E x : Here(t, x) /\ Nests(todo[t], x, Outside)
         /\ Head(todo[t]).do = "acquire" =>
              /\ lock_ # t
              /\ \E rest : /\ Nests(rest, State(1, "clean"), Outside)
                           /\ Tail(todo[t]) = <<Do("own")>> \o rest
         /\ Head(todo[t]).do = "own" =>
              /\ lock_ = t /\ recursion_count_ = 0 /\ Holds("clean")
              /\ Nests(Tail(todo[t]), State(1, "clean"), Outside)
<1>1. ASSUME NEW rest, todo[t] = <<Do("acquire"), Do("own")>> \o rest,
             Nests(rest, State(1, "clean"), Outside)
      PROVE  Head(todo[t]).do = "acquire" /\ Tail(todo[t]) = <<Do("own")>> \o rest
  <2>1. PICK S : rest \in Seq(S)
    BY <1>1 DEF Nests
  <2> DEFINE U == S \cup {Do("acquire"), Do("own")}
  <2>2. rest \in Seq(U) /\ Do("acquire") \in U /\ Do("own") \in U
    BY <2>1
  <2> HIDE DEF U
  <2>3. Head(todo[t]) = Do("acquire")
    BY <1>1, <2>2
  <2>4. Tail(todo[t]) = <<Do("own")>> \o rest
    BY <1>1, <2>2
  <2> QED
    BY <2>3, <2>4 DEF Do, Task
<1>2. ASSUME NEW rest, todo[t] = <<Do("own")>> \o rest,
             Nests(rest, State(1, "clean"), Outside)
      PROVE  Head(todo[t]).do = "own" /\ Tail(todo[t]) = rest
  <2>1. PICK S : rest \in Seq(S)
    BY <1>2 DEF Nests
  <2> DEFINE U == S \cup {Do("own")}
  <2>2. rest \in Seq(U) /\ Do("own") \in U
    BY <2>1
  <2> HIDE DEF U
  <2>3. Head(todo[t]) = Do("own")
    BY <1>2, <2>2
  <2>4. Tail(todo[t]) = rest
    BY <1>2, <2>2
  <2> QED
    BY <2>3, <2>4 DEF Do, Task
<1>3. ASSUME NEW x, Nests(todo[t], x, Outside)
      PROVE  Head(todo[t]).do \notin {"acquire", "own"}
  BY <1>3, NestsTail DEF Leads
<1> QED
  BY <1>1, <1>2, <1>3 DEF ThreadNests

(* A thread whose next task needs the lock holds it.                         *)
Guarded ==
    \A t \in Threads :
       todo[t] # <<>> /\ Head(todo[t]).do \notin OutsideTasks => lock_ = t /\ recursion_count_ > 0

LEMMA HeadsAreGuarded ==
  recursion_count_ \in Nat /\ (\A t \in Threads : ThreadNests(t)) => Guarded
<1> SUFFICES ASSUME recursion_count_ \in Nat, \A t \in Threads : ThreadNests(t),
                    NEW t \in Threads, todo[t] # <<>>, Head(todo[t]).do \notin OutsideTasks
             PROVE  lock_ = t /\ recursion_count_ > 0
  BY DEF Guarded
<1>1. PICK x : Here(t, x) /\ Nests(todo[t], x, Outside)
  BY HeadTells DEF OutsideTasks
<1>2. x.depth >= 1
  BY <1>1, NestsTail DEF Leads
<1>3. x # Outside
  BY <1>2 DEF Outside, State
<1> QED
  BY <1>1, <1>3 DEF Here

LEMMA HeadsAreGuardedNext ==
  (recursion_count_ \in Nat /\ (\A t \in Threads : ThreadNests(t)) => Guarded)'
BY HeadsAreGuarded, PTL

(* A step of one thread.                                                     *)
LEMMA ThreadMoves ==
  ASSUME RegionConstants, IndInv, failure = "none", NEW t \in Threads, NEW s,
         todo' = [todo EXCEPT ![t] = s], ThreadNests(t)', LockChecksHold',
         lock_' \in Threads \cup {NULL}, recursion_count_' \in Nat,
         lock_' = NULL => recursion_count_' = 0,
         recursion_count_' > 0 => lock_' = lock_owner_tid_',
         NothingLeftSaved',
         \A u \in Threads \ {t} :
            /\ lock_' = u <=> lock_ = u
            /\ lock_ = u => UNCHANGED <<recursion_count_, saved_regions, recursive_insert>>
  PROVE  IndInv'
<1>1. todo' = [u \in Threads |-> todo'[u]] /\ \A u \in Threads \ {t} : todo'[u] = todo[u]
  BY DEF IndInv
<1>2. \A u \in Threads : ThreadNests(u)'
  BY <1>1, OthersNest DEF IndInv
<1>3. Guarded'
  BY <1>2, HeadsAreGuardedNext
<1> QED
  BY <1>1, <1>2, <1>3 DEF IndInv, LockInvariant, Guarded, OutsideTasks

(* What a thread has to do outside Lock, whatever its next task is.          *)
LEMMA TaskHere ==
  ASSUME IndInv, NEW t \in Threads, NEW do, At(t, do), do \notin {"acquire", "own"}
  PROVE  \E x, y : Here(t, x) /\ Leads(do, x, y) /\ Nests(Tail(todo[t]), y, Outside)
<1>1. failure = "none" /\ todo[t] # <<>> /\ Head(todo[t]).do = do
  BY DEF At
<1>2. PICK x : Here(t, x) /\ Nests(todo[t], x, Outside)
  BY <1>1, HeadTells DEF IndInv
<1> QED
  BY <1>1, <1>2, NestsTail

(* A check that fails stops the program with the lock as it is.              *)
LEMMA Stops ==
  ASSUME IndInv, UNCHANGED <<todo, locks, saved_regions, recursive_insert>>,
         failure' # "none", LockChecksHold'
  PROVE  IndInv'
BY DEF IndInv, LockInvariant, NothingLeftSaved, locks

LEMMA Inside ==
  ASSUME IndInv, NEW t \in Threads, NEW do, At(t, do), do \notin OutsideTasks
  PROVE  lock_ = t /\ recursion_count_ > 0 /\ lock_owner_tid_ = t
<1>1. lock_ = t /\ recursion_count_ > 0
  BY HeadsAreGuarded DEF IndInv, Guarded, At
<1> QED
  BY <1>1 DEF IndInv, LockInvariant

(* A task under the lock is done, and others are put in front.  What is      *)
(* known of the regions saved after it is the phase that those begin at.     *)
LEMMA TaskDone ==
  ASSUME RegionConstants, IndInv, NEW t \in Threads, NEW do, At(t, do),
         do \notin OutsideTasks \cup {"unlock"}, NEW tasks, Then(t, tasks),
         UNCHANGED locks, failure' = failure,
         \A p, q \in Phases :
            Holds(p) /\ Turns(do, p, q) =>
               \E r \in Phases :
                  Holds(r)' /\ \A a \in Nat : a >= 1 => Nests(tasks, State(a, r), State(a, q))
  PROVE  IndInv'
<1>1. failure = "none" /\ todo[t] # <<>> /\ Head(todo[t]).do = do /\ LockChecksHold'
  BY DEF At, IndInv, LockChecksHold
<1>2. lock_ = t /\ recursion_count_ > 0 /\ t # NULL /\ recursion_count_ \in Nat
  BY Inside DEF RegionConstants, IndInv
<1>3. PICK x, y : Here(t, x) /\ Leads(do, x, y) /\ Nests(Tail(todo[t]), y, Outside)
  BY TaskHere DEF OutsideTasks
<1> PICK a \in Nat : a = recursion_count_
  BY <1>2
<1>4. x \in States /\ y \in States /\ x.depth = a /\ Holds(x.phase) /\ Turns(do, x.phase, y.phase)
  BY <1>2, <1>3 DEF Here, Leads
<1>5. y = State(a, y.phase) /\ x.phase \in Phases /\ y.phase \in Phases
  <2>1. Change(do) = 0 /\ a + 0 = a
    BY <1>2 DEF Change, OutsideTasks
  <2>2. y.depth = a
    BY <1>3, <1>4, <2>1 DEF Leads
  <2> QED
    BY <1>4, <2>2 DEF States, State
<1>6. PICK r \in Phases : Holds(r)' /\ Nests(tasks, State(a, r), State(a, y.phase))
  <2>1. PICK r \in Phases :
          Holds(r)' /\ \A b \in Nat : b >= 1 => Nests(tasks, State(b, r), State(b, y.phase))
    BY <1>4, <1>5
  <2> QED
    BY <1>2, <2>1
<1>7. Nests(tasks \o Tail(todo[t]), State(a, r), Outside)
  BY <1>3, <1>5, <1>6, NestsBoth
<1>8. todo'[t] = tasks \o Tail(todo[t])
  BY DEF Then, IndInv
<1>9. Here(t, State(a, r))'
  <2>1. State(a, r) \in States /\ State(a, r).depth = a /\ State(a, r).phase = r
    BY <1>2 DEF State, States
  <2>2. lock_' = t /\ recursion_count_' = a
    BY <1>2 DEF locks
  <2> QED
    BY <1>2, <1>6, <2>1, <2>2 DEF Here
<1>10. ThreadNests(t)'
  <2>1. \E z : Here(t, z)' /\ Nests(todo'[t], z, Outside)
    BY <1>7, <1>8, <1>9
  <2> QED
    BY <2>1 DEF ThreadNests
<1>11. NothingLeftSaved'
  BY <1>2 DEF NothingLeftSaved, locks
<1> QED
  BY <1>1, <1>2, <1>10, <1>11, ThreadMoves DEF Then, IndInv, LockInvariant, locks

(* A task that needs no lock is done, and others are put in front.           *)
LEMMA OutsideTaskDone ==
  ASSUME RegionConstants, IndInv, NEW t \in Threads, NEW do \in {"unmap", "ready", "sbrk"},
         At(t, do), NEW tasks, Then(t, tasks),
         UNCHANGED <<locks, saved_regions, recursive_insert, failure>>,
         \A a \in Nat, p \in Phases :
            (a = 0 => p = "clean") /\ Turns(do, p, p) => Nests(tasks, State(a, p), State(a, p))
  PROVE  IndInv'
<1>1. failure = "none" /\ todo[t] # <<>> /\ Head(todo[t]).do = do /\ LockChecksHold'
  BY DEF At, IndInv, LockChecksHold
<1>2. PICK x, y : Here(t, x) /\ Leads(do, x, y) /\ Nests(Tail(todo[t]), y, Outside)
  BY TaskHere
<1>3. /\ x \in States /\ x.depth \in Nat /\ x.phase \in Phases
      /\ x.depth = 0 => x.phase = "clean"
      /\ x = State(x.depth, x.phase)
  BY <1>2 DEF Leads, States, State
<1>4. y = x /\ Turns(do, x.phase, x.phase)
  <2>1. Change(do) = 0 /\ x.depth + 0 = x.depth /\ y \in States
    BY <1>2, <1>3 DEF Change, Leads
  <2>2. y.depth = x.depth /\ y.phase = x.phase
    BY <1>2, <2>1 DEF Leads, Turns
  <2>3. y = State(y.depth, y.phase)
    BY <2>1 DEF States, State
  <2> QED
    BY <1>2, <1>3, <2>2, <2>3 DEF Leads
<1>5. Nests(tasks \o Tail(todo[t]), x, Outside)
  BY <1>2, <1>3, <1>4, NestsBoth
<1>6. todo'[t] = tasks \o Tail(todo[t])
  BY DEF Then, IndInv
<1>7. Here(t, x)' /\ NothingLeftSaved'
  BY <1>2 DEF Here, Holds, locks, IndInv, NothingLeftSaved
<1>8. ThreadNests(t)'
  BY <1>5, <1>6, <1>7 DEF ThreadNests
<1> QED
  BY <1>1, <1>7, <1>8, ThreadMoves DEF Then, IndInv, LockInvariant, locks

(* A call begins outside the lock.                                           *)
LEMMA CallStarts ==
  ASSUME RegionConstants, IndInv, failure = "none", NEW t \in Threads, todo[t] = <<>>,
         NEW tasks, Nests(tasks, Outside, Outside), todo' = [todo EXCEPT ![t] = tasks],
         UNCHANGED <<locks, saved_regions, recursive_insert, failure>>
  PROVE  IndInv'
<1>1. ASSUME NEW rest, NEW first, NEW x, todo[t] = first \o rest, Nests(rest, x, Outside),
             first \in {<<Do("own")>>, <<Do("acquire"), Do("own")>>}
      PROVE  FALSE
  <2>1. PICK S : rest \in Seq(S)
    BY <1>1 DEF Nests
  <2> DEFINE U == S \cup {Do("acquire"), Do("own")}
  <2>2. rest \in Seq(U) /\ Do("acquire") \in U /\ Do("own") \in U
    BY <2>1
  <2> HIDE DEF U
  <2>3. first \in Seq(U) /\ Len(first) >= 1
    <3>1. <<Do("own")>> \in Seq(U) /\ Len(<<Do("own")>>) = 1
      BY <2>2
    <3>2. /\ <<Do("acquire"), Do("own")>> \in Seq(U)
          /\ Len(<<Do("acquire"), Do("own")>>) = 2
      BY <2>2
    <3>3. CASE first = <<Do("own")>>
      <4>1. first \in Seq(U) /\ Len(first) = 1
        BY <3>1, <3>3
      <4> QED
        BY <4>1
    <3>4. CASE first = <<Do("acquire"), Do("own")>>
      <4>1. first \in Seq(U) /\ Len(first) = 2
        BY <3>2, <3>4
      <4> QED
        BY <4>1
    <3> QED
      BY <1>1, <3>3, <3>4
  <2>4. Len(first \o rest) = Len(first) + Len(rest) /\ Len(rest) \in Nat /\ Len(first) \in Nat
    BY <2>2, <2>3
  <2>5. Len(first \o rest) >= 1
    BY <2>3, <2>4
  <2>6. first \o rest = <<>> /\ Len(<<>>) = 0
    BY <1>1
  <2> QED
    BY <2>5, <2>6
<1>2. PICK x : Here(t, x) /\ Nests(<<>>, x, Outside)
  BY <1>1 DEF IndInv, ThreadNests
<1>3. x = Outside
  <2>1. PICK h : Passes(<<>>, x, Outside, h)
    BY <1>2 DEF Nests
  <2> QED
    BY <2>1 DEF Passes
<1>4. lock_ # t
  BY <1>2, <1>3 DEF Here, Outside, State, IndInv
<1>5. todo'[t] = tasks /\ Here(t, Outside)'
  <2>1. Outside \in States
    BY DEF Outside, State, States, Phases
  <2> QED
    BY <1>4, <2>1 DEF IndInv, Here, locks
<1>6. ThreadNests(t)'
  BY <1>5 DEF ThreadNests
<1>7. NothingLeftSaved'
  BY DEF IndInv, NothingLeftSaved, locks
<1> QED
  BY <1>6, <1>7, ThreadMoves DEF IndInv, LockInvariant, LockChecksHold, locks

LEMMA LockStepKeeps ==
  ASSUME RegionConstants, IndInv, NEW t \in Threads, LockStep(t)
  PROVE  IndInv'
<1>1. /\ failure = "none" /\ todo[t] # <<>> /\ At(t, "lock")
      /\ UNCHANGED <<lock_, lock_owner_tid_, saved_regions, recursive_insert>>
  BY DEF LockStep, At, guarded
<1>2. /\ lock_ \in Threads \cup {NULL} /\ recursion_count_ \in Nat
      /\ lock_ = NULL => recursion_count_ = 0
      /\ recursion_count_ > 0 => lock_ = lock_owner_tid_
      /\ NothingLeftSaved
  BY DEF IndInv, LockInvariant
<1>3. PICK x, y : Here(t, x) /\ Leads("lock", x, y) /\ Nests(Tail(todo[t]), y, Outside)
  BY <1>1, TaskHere
<1>4. x \in States /\ y \in States /\ y.depth = x.depth + 1 /\ y.phase = x.phase
  BY <1>3 DEF Leads, Change, Turns
<1>5. NothingLeftSaved'
  BY <1>1, <1>2 DEF NothingLeftSaved
<1>6. CASE recursion_count_ > 0 /\ lock_owner_tid_ = t
  <2>1. lock_ = t /\ recursion_count_' = recursion_count_ + 1
    BY <1>2, <1>6 DEF LockStep
  <2>2. CASE recursion_count_' <= kMaxDepth
    <3>1. Then(t, <<>>) /\ failure' = failure
      BY <1>6, <2>2 DEF LockStep
    <3>2. Nests(<<>> \o Tail(todo[t]), y, Outside)
      BY <1>3, <1>4, NestsNothing, NestsBoth
    <3>3. todo'[t] = <<>> \o Tail(todo[t])
      BY <3>1 DEF Then, IndInv
    <3>4. Here(t, y)'
      BY <1>1, <1>2, <1>3, <1>4, <2>1 DEF Here, Holds
    <3>5. ThreadNests(t)'
      BY <3>2, <3>3, <3>4 DEF ThreadNests
    <3>6. \A u \in Threads \ {t} : /\ lock_' = u <=> lock_ = u
                                   /\ lock_ # u
      BY <1>1, <2>1
    <3>7. todo' = [todo EXCEPT ![t] = <<>> \o Tail(todo[t])]
      BY <3>1 DEF Then
    <3>8. LockChecksHold'
      BY <3>1 DEF IndInv, LockChecksHold
    <3>9. /\ lock_' \in Threads \cup {NULL} /\ recursion_count_' \in Nat
          /\ lock_' = NULL => recursion_count_' = 0
          /\ recursion_count_' > 0 => lock_' = lock_owner_tid_'
      BY <1>1, <1>2, <1>6, <2>1 DEF RegionConstants
    <3> QED
      BY <1>1, <1>5, <3>5, <3>6, <3>7, <3>8, <3>9, ThreadMoves
  <2>3. CASE ~(recursion_count_' <= kMaxDepth)
    <3>1. failure' = "depth" /\ UNCHANGED todo
      BY <1>6, <2>3 DEF LockStep, Fail
    <3>2. lock_' # NULL /\ recursion_count_' \in Nat /\ lock_' = lock_owner_tid_'
      BY <1>1, <1>2, <1>6, <2>1 DEF RegionConstants
    <3> QED
      BY <1>1, <1>2, <1>5, <3>1, <3>2 DEF IndInv, LockInvariant, LockChecksHold
  <2> QED
    BY <2>2, <2>3
<1>7. CASE ~(recursion_count_ > 0 /\ lock_owner_tid_ = t)
  <2>1. lock_ # t /\ x = Outside
    BY <1>2, <1>3, <1>7 DEF Here
  <2>2. y = State(1, "clean")
    BY <1>4, <2>1 DEF States, State, Outside
  <2>3. /\ Then(t, <<Do("acquire"), Do("own")>>)
        /\ recursion_count_' = recursion_count_ /\ failure' = failure
    BY <1>7 DEF LockStep
  <2>4. todo'[t] = <<Do("acquire"), Do("own")>> \o Tail(todo[t])
    BY <2>3 DEF Then, IndInv
  <2>5. ThreadNests(t)'
    BY <1>1, <1>3, <2>1, <2>2, <2>4 DEF ThreadNests
  <2>6. LockChecksHold'
    BY <2>3 DEF IndInv, LockChecksHold
  <2>7. todo' = [todo EXCEPT ![t] = <<Do("acquire"), Do("own")>> \o Tail(todo[t])]
    BY <2>3 DEF Then
  <2> QED
    BY <1>1, <1>2, <1>5, <2>3, <2>5, <2>6, <2>7, ThreadMoves
<1> QED
  BY <1>6, <1>7

LEMMA AcquireKeeps ==
  ASSUME RegionConstants, IndInv, NEW t \in Threads, Acquire(t)
  PROVE  IndInv'
<1>1. /\ failure = "none" /\ todo[t] # <<>> /\ Head(todo[t]).do = "acquire"
      /\ lock_ = NULL /\ lock_' = t /\ Then(t, <<>>)
      /\ UNCHANGED <<recursion_count_, lock_owner_tid_, failure, saved_regions, recursive_insert>>
  BY DEF Acquire, At, guarded
<1>2. recursion_count_ = 0 /\ Holds("clean")
  BY <1>1 DEF IndInv, LockInvariant, NothingLeftSaved, Holds
<1>3. PICK rest : /\ Nests(rest, State(1, "clean"), Outside)
                  /\ Tail(todo[t]) = <<Do("own")>> \o rest
  BY <1>1, HeadTells DEF IndInv
<1>4. todo'[t] = <<Do("own")>> \o rest
  <2>1. PICK S : rest \in Seq(S)
    BY <1>3 DEF Nests
  <2> DEFINE U == S \cup {Do("own")}
  <2>2. rest \in Seq(U) /\ Do("own") \in U
    BY <2>1
  <2> HIDE DEF U
  <2>3. <<Do("own")>> \o rest \in Seq(U)
    BY <2>2
  <2>4. <<>> \o (<<Do("own")>> \o rest) = <<Do("own")>> \o rest
    BY <2>3
  <2>5. todo'[t] = <<>> \o Tail(todo[t])
    BY <1>1 DEF Then, IndInv
  <2> QED
    BY <1>3, <2>4, <2>5
<1>5. ThreadNests(t)'
  <2>1. Holds("clean")'
    BY <1>1, <1>2 DEF Holds
  <2> QED
    BY <1>1, <1>2, <1>3, <1>4, <2>1 DEF ThreadNests
<1>6. LockChecksHold' /\ todo' = [todo EXCEPT ![t] = <<>> \o Tail(todo[t])]
  BY <1>1 DEF IndInv, LockChecksHold, Then
<1>7. /\ lock_' \in Threads \cup {NULL} /\ lock_' # NULL
      /\ recursion_count_' \in Nat /\ ~(recursion_count_' > 0)
  BY <1>1, <1>2 DEF RegionConstants
<1>8. \A u \in Threads \ {t} : /\ lock_' = u <=> lock_ = u
                               /\ lock_ # u
  BY <1>1 DEF RegionConstants
<1>9. NothingLeftSaved'
  BY <1>7 DEF NothingLeftSaved
<1> QED
  BY <1>1, <1>5, <1>6, <1>7, <1>8, <1>9, ThreadMoves

LEMMA OwnKeeps ==
  ASSUME RegionConstants, IndInv, NEW t \in Threads, Own(t)
  PROVE  IndInv'
<1>1. /\ failure = "none" /\ todo[t] # <<>> /\ Head(todo[t]).do = "own"
      /\ UNCHANGED <<lock_, saved_regions, recursive_insert>>
  BY DEF Own, At, guarded
<1>2. /\ lock_ = t /\ recursion_count_ = 0 /\ Holds("clean")
      /\ Nests(Tail(todo[t]), State(1, "clean"), Outside)
  BY <1>1, HeadTells DEF IndInv
<1>3. /\ recursion_count_' = 1 /\ lock_owner_tid_' = t /\ Then(t, <<>>)
      /\ failure' = failure
  BY <1>2 DEF Own
<1>4. State(1, "clean") \in States
  BY DEF State, States, Phases
<1>5. Nests(<<>> \o Tail(todo[t]), State(1, "clean"), Outside)
  BY <1>2, <1>4, NestsNothing, NestsBoth
<1>6. todo'[t] = <<>> \o Tail(todo[t])
  BY <1>3 DEF Then, IndInv
<1>7. Here(t, State(1, "clean"))'
  <2>1. Holds("clean")'
    BY <1>1, <1>2 DEF Holds
  <2> QED
    BY <1>1, <1>2, <1>3, <1>4, <2>1 DEF Here, State
<1>8. ThreadNests(t)'
  BY <1>5, <1>6, <1>7 DEF ThreadNests
<1>9. NothingLeftSaved'
  BY <1>1, <1>2 DEF NothingLeftSaved, RegionConstants
<1> QED
  BY <1>1, <1>2, <1>3, <1>8, <1>9, ThreadMoves DEF Then, LockChecksHold, IndInv, RegionConstants

LEMMA UnlockKeeps ==
  ASSUME RegionConstants, IndInv, NEW t \in Threads, Unlock(t)
  PROVE  IndInv'
<1>1. /\ failure = "none" /\ At(t, "unlock")
      /\ UNCHANGED <<lock_owner_tid_, saved_regions, recursive_insert>>
  BY DEF Unlock, At, guarded
<1>2. lock_ = t /\ recursion_count_ > 0 /\ lock_owner_tid_ = t /\ recursion_count_ \in Nat
  BY <1>1, Inside DEF OutsideTasks, IndInv
<1>3. /\ recursion_count_' = recursion_count_ - 1 /\ recursion_count_' \in Nat
      /\ lock_' = IF recursion_count_' = 0 THEN NULL ELSE t
      /\ Then(t, <<>>) /\ failure' = failure
  BY <1>2 DEF Unlock, RegionConstants
<1>4. PICK x, y : Here(t, x) /\ Leads("unlock", x, y) /\ Nests(Tail(todo[t]), y, Outside)
  BY <1>1, TaskHere
<1>5. /\ x \in States /\ y \in States /\ x.depth = recursion_count_ /\ Holds(x.phase)
      /\ y.depth = recursion_count_' /\ y.phase = x.phase
  <2>1. Change("unlock") = -1 /\ recursion_count_ + (-1) = recursion_count_ - 1
    BY <1>2 DEF Change
  <2> QED
    BY <1>2, <1>3, <1>4, <2>1 DEF Here, Leads, Turns
<1>6. Nests(<<>> \o Tail(todo[t]), y, Outside)
  BY <1>4, <1>5, NestsNothing, NestsBoth
<1>7. todo'[t] = <<>> \o Tail(todo[t])
  BY <1>3 DEF Then, IndInv
<1>8. t # NULL /\ lock_' \in {t, NULL}
  BY <1>3 DEF RegionConstants
<1>9. Holds(y.phase)'
  BY <1>1, <1>5 DEF Holds
<1>10. Here(t, y)' /\ NothingLeftSaved'
  <2>1. CASE recursion_count_' = 0
    <3>1. lock_' = NULL /\ y = Outside
      <4>1. lock_' = NULL /\ y.depth = 0
        BY <1>3, <1>5, <2>1
      <4>2. y.phase = "clean" /\ y = State(y.depth, y.phase)
        BY <1>5, <4>1 DEF States, State
      <4> QED
        BY <4>1, <4>2 DEF Outside
    <3>2. y.phase = "clean"
      BY <3>1 DEF Outside, State
    <3>3. Here(t, y)'
      BY <1>5, <1>8, <3>1 DEF Here
    <3>4. Holds("clean")'
      BY <1>9, <3>2
    <3> QED
      BY <3>3, <3>4 DEF Holds, NothingLeftSaved
  <2>2. CASE recursion_count_' # 0
    <3>1. lock_' = t /\ recursion_count_' > 0
      <4>1. lock_' = t
        BY <1>3, <2>2
      <4>2. recursion_count_' > 0
        <5>1. recursion_count_' \in Nat
          BY <1>3
        <5> QED
          BY <2>2, <5>1
      <4> QED
        BY <4>1, <4>2
    <3>2. Here(t, y)'
      BY <1>5, <1>9, <3>1 DEF Here
    <3> QED
      BY <1>8, <3>1, <3>2 DEF NothingLeftSaved
  <2> QED
    BY <2>1, <2>2
<1>11. ThreadNests(t)'
  BY <1>6, <1>7, <1>10 DEF ThreadNests
<1>12. LockChecksHold' /\ todo' = [todo EXCEPT ![t] = <<>> \o Tail(todo[t])]
  BY <1>3 DEF IndInv, LockChecksHold, Then
<1>13. \A u \in Threads \ {t} : /\ lock_' = u <=> lock_ = u
                                /\ lock_ # u
  BY <1>2, <1>8 DEF RegionConstants
<1>14. /\ lock_' = NULL => recursion_count_' = 0
       /\ recursion_count_' > 0 => lock_' = lock_owner_tid_'
       /\ lock_' \in Threads \cup {NULL}
  BY <1>1, <1>2, <1>3, <1>8
<1> QED
  BY <1>1, <1>3, <1>10, <1>11, <1>12, <1>13, <1>14, ThreadMoves

(* A task under the lock that is done with nothing put in front.             *)
LEMMA TaskGone ==
  ASSUME RegionConstants, IndInv, NEW t \in Threads, NEW do, At(t, do),
         do \notin OutsideTasks \cup {"unlock"}, Then(t, <<>>),
         UNCHANGED locks, failure' = failure,
         \A p, q \in Phases : Holds(p) /\ Turns(do, p, q) => Holds(q)'
  PROVE  IndInv'
<1>1. \A a \in Nat, q \in Phases : a >= 1 => Nests(<<>>, State(a, q), State(a, q))
  <2> TAKE a \in Nat, q \in Phases
  <2> HAVE a >= 1
  <2>1. State(a, q) \in States
    BY DEF State, States
  <2> QED
    BY <2>1, NestsNothing
<1> QED
  BY <1>1, TaskDone

LEMMA SmallStepsKeep ==
  ASSUME RegionConstants, IndInv, NEW t \in Threads,
         \/ EndInsert(t) \/ SetStep(t) \/ TrimStep(t) \/ ShutdownStep(t)
         \/ UnmapStep(t) \/ ReadyStep(t)
  PROVE  IndInv'
<1>1. CASE EndInsert(t)
  <2>1. /\ At(t, "end_insert") /\ Then(t, <<>>) /\ UNCHANGED locks /\ failure' = failure
        /\ recursive_insert' = FALSE /\ saved_regions' = saved_regions
    BY <1>1 DEF EndInsert
  <2>2. \A p, q \in Phases : Holds(p) /\ Turns("end_insert", p, q) => Holds(q)'
    BY <2>1 DEF Holds, Turns
  <2> QED
    BY <2>1, <2>2, TaskGone DEF OutsideTasks
<1>2. CASE SetStep(t) \/ TrimStep(t) \/ ShutdownStep(t)
  <2>1. PICK do \in {"set", "trim", "shutdown"} :
           /\ At(t, do) /\ Then(t, <<>>) /\ UNCHANGED locks /\ failure' = failure
           /\ UNCHANGED <<saved_regions, recursive_insert>>
    BY <1>2 DEF SetStep, TrimStep, ShutdownStep
  <2>2. \A p, q \in Phases : Holds(p) /\ Turns(do, p, q) => Holds(q)'
    BY <2>1 DEF Holds, Turns
  <2> QED
    BY <2>1, <2>2, TaskGone DEF OutsideTasks
<1>3. CASE UnmapStep(t) \/ ReadyStep(t)
  <2>1. PICK do \in {"unmap", "ready"} :
           /\ At(t, do) /\ Then(t, <<>>)
           /\ UNCHANGED <<locks, saved_regions, recursive_insert, failure>>
    BY <1>3 DEF UnmapStep, ReadyStep, guarded
  <2>2. ASSUME NEW a \in Nat, NEW p \in Phases, a = 0 => p = "clean"
        PROVE  Nests(<<>>, State(a, p), State(a, p))
    <3>1. State(a, p) \in States
      BY <2>2 DEF State, States
    <3> QED
      BY <3>1, NestsNothing
  <2> QED
    BY <2>1, <2>2, OutsideTaskDone
<1> QED
  BY <1>1, <1>2, <1>3

(* The tasks of an insertion, within one or not.                             *)
LEMMA NestsInserting ==
  ASSUME NEW a \in Nat, a >= 1, NEW start, NEW end, NEW p \in {"flag", "flushed"}
  PROVE  Nests(<<Task("do_insert", start, end), Do("handle_do"), Do("end_insert")>>,
               State(a, p), State(a, "clean"))
<1>1. Nests(<<Task("do_insert", start, end)>>, State(a, p), State(a, "flag"))
  BY NestsTask DEF Task, Turns, Phases
<1>2. Nests(<<Do("handle_do")>>, State(a, "flag"), State(a, "flushed"))
  BY NestsTask DEF Do, Task, Turns, Phases
<1>3. Nests(<<Do("end_insert")>>, State(a, "flushed"), State(a, "clean"))
  BY NestsTask DEF Do, Task, Turns, Phases
<1> DEFINE x == Task("do_insert", start, end)
           y == Do("handle_do")
           z == Do("end_insert")
<1>4. Nests(<<y, z>>, State(a, "flag"), State(a, "clean"))
  BY <1>2, <1>3, NestsTwo
<1>5. Nests(<<x>> \o <<y, z>>, State(a, p), State(a, "clean"))
  BY <1>1, <1>4, NestsBoth
<1> HIDE DEF x, y, z
<1>6. <<x>> \o <<y, z>> = <<x, y, z>>
  <2> DEFINE S == {x, y, z}
             u == <<x>> \o <<y, z>>
             v == <<x, y, z>>
  <2>1. <<x>> \in Seq(S) /\ <<y, z>> \in Seq(S) /\ <<x, y, z>> \in Seq(S)
    OBVIOUS
  <2>2. /\ u \in Seq(S) /\ Len(u) = 3 /\ u[1] = x /\ u[2] = y /\ u[3] = z
        /\ v \in Seq(S) /\ Len(v) = 3 /\ v[1] = x /\ v[2] = y /\ v[3] = z
    BY <2>1
  <2> HIDE DEF u, v, S
  <2>3. DOMAIN u = 1..3 /\ DOMAIN v = 1..3 /\ \A i \in 1..3 : u[i] = v[i]
    BY <2>2
  <2>4. u = v
    BY <2>2, <2>3
  <2> QED
    BY <2>4 DEF u, v
<1>7. Nests(<<x, y, z>>, State(a, p), State(a, "clean"))
  BY <1>5, <1>6
<1> QED
  BY <1>7 DEF x, y, z

LEMMA InsertRegionLockedKeeps ==
  ASSUME RegionConstants, IndInv, NEW t \in Threads, InsertRegionLocked(t)
  PROVE  IndInv'
<1>1. At(t, "insert") /\ UNCHANGED locks /\ "insert" \notin OutsideTasks \cup {"unlock"}
  BY DEF InsertRegionLocked, OutsideTasks
<1>2. LockIsHeld(t)
  BY <1>1, Inside DEF LockIsHeld, RegionConstants
<1> DEFINE r == Head(todo[t])
           insert == <<Task("do_insert", r.start, r.end), Do("handle_do"), Do("end_insert")>>
           tasks == (IF regions_ = NULL THEN <<Do("handle_do")>> ELSE <<>>) \o insert
<1>3. CASE recursive_insert
  <2>1. CASE Len(saved_regions) < kSavedRegions
    <3>1. Then(t, <<>>) /\ failure' = failure /\ recursive_insert' = recursive_insert
      BY <1>2, <1>3, <2>1 DEF InsertRegionLocked
    <3>2. \A p, q \in Phases : Holds(p) /\ Turns("insert", p, q) => Holds(q)'
      BY <1>3, <3>1 DEF Holds, Turns
    <3> QED
      BY <1>1, <3>1, <3>2, TaskGone
  <2>2. CASE ~(Len(saved_regions) < kSavedRegions)
    <3>1. /\ failure' = "saved" /\ UNCHANGED todo
          /\ UNCHANGED <<saved_regions, recursive_insert>>
      BY <1>2, <1>3, <2>2 DEF InsertRegionLocked, Fail
    <3> QED
      BY <1>1, <3>1, Stops DEF LockChecksHold
  <2> QED
    BY <2>1, <2>2
<1>4. CASE ~recursive_insert
  <2>1. /\ Then(t, tasks) /\ failure' = failure /\ recursive_insert' = TRUE
        /\ saved_regions' = saved_regions
    BY <1>2, <1>4 DEF InsertRegionLocked
  <2>2. ASSUME NEW a \in Nat, a >= 1
        PROVE  Nests(tasks, State(a, "flag"), State(a, "clean"))
    <3>1. /\ Nests(insert, State(a, "flag"), State(a, "clean"))
          /\ Nests(insert, State(a, "flushed"), State(a, "clean"))
      BY <2>2, NestsInserting
    <3>2. Nests(<<Do("handle_do")>>, State(a, "flag"), State(a, "flushed"))
      BY <2>2, NestsTask DEF Do, Task, Turns, Phases
    <3>3. Nests(<<>>, State(a, "flag"), State(a, "flag"))
      <4>1. State(a, "flag") \in States
        BY <2>2 DEF State, States, Phases
      <4> QED
        BY <4>1, NestsNothing
    <3> HIDE DEF insert
    <3>4. CASE regions_ = NULL
      BY <3>1, <3>2, <3>4, NestsBoth
    <3>5. CASE regions_ # NULL
      BY <3>1, <3>3, <3>5, NestsBoth
    <3> QED
      BY <3>4, <3>5
  <2> HIDE DEF tasks
  <2>3. \A p, q \in Phases : Holds(p) /\ Turns("insert", p, q) => q = "clean"
    BY <1>4 DEF Holds, Turns
  <2>4. Holds("flag")' /\ "flag" \in Phases
    BY <2>1 DEF Holds, Phases
  <2> QED
    BY <1>1, <2>1, <2>2, <2>3, <2>4, TaskDone
<1> QED
  BY <1>3, <1>4

LEMMA HandleSavedKeeps ==
  ASSUME RegionConstants, IndInv, NEW t \in Threads,
         NEW do, NEW insert_func,
         <<do, insert_func>> \in {<<"handle_do", "do_insert">>, <<"handle_insert", "insert">>},
         HandleSavedRegionsLocked(t, do, insert_func)
  PROVE  IndInv'
<1>1. /\ At(t, do) /\ UNCHANGED locks /\ failure' = failure
      /\ do \notin OutsideTasks \cup {"unlock"} /\ recursive_insert' = recursive_insert
  BY DEF HandleSavedRegionsLocked, OutsideTasks
<1>2. CASE saved_regions = <<>>
  <2>1. Then(t, <<>>) /\ saved_regions' = <<>>
    BY <1>2 DEF HandleSavedRegionsLocked
  <2>2. \A p, q \in Phases : Holds(p) /\ Turns(do, p, q) => Holds(q)'
    BY <1>1, <2>1 DEF Holds, Turns
  <2> QED
    BY <1>1, <2>1, <2>2, TaskGone
<1>3. CASE saved_regions # <<>>
  <2> DEFINE x == Task(insert_func, Last(saved_regions).start, Last(saved_regions).end)
             tasks == <<x, Do(do)>>
  <2>1. Then(t, tasks)
    BY <1>3 DEF HandleSavedRegionsLocked
  <2>2. x.do = insert_func /\ Do(do).do = do
    BY DEF Task, Do
  <2> HIDE DEF x
  <2>3. CASE do = "handle_do" /\ insert_func = "do_insert"
    <3>1. ASSUME NEW a \in Nat, a >= 1
          PROVE  Nests(tasks, State(a, "flag"), State(a, "flushed"))
      <4>1. Nests(<<x>>, State(a, "flag"), State(a, "flag"))
        BY <2>2, <2>3, <3>1, NestsTask DEF Turns, Phases
      <4>2. Nests(<<Do(do)>>, State(a, "flag"), State(a, "flushed"))
        BY <2>2, <2>3, <3>1, NestsTask DEF Turns, Phases
      <4> QED
        BY <4>1, <4>2, NestsTwo
    <3> HIDE DEF tasks
    <3>2. \A p, q \in Phases : Holds(p) /\ Turns(do, p, q) => q = "flushed" /\ Holds("flag")'
      BY <1>1, <2>3 DEF Holds, Turns
    <3>3. "flag" \in Phases
      BY DEF Phases
    <3> QED
      BY <1>1, <2>1, <3>1, <3>2, <3>3, TaskDone
  <2>4. CASE do = "handle_insert" /\ insert_func = "insert"
    <3>1. ASSUME NEW a \in Nat, a >= 1
          PROVE  Nests(tasks, State(a, "dirty"), State(a, "clean"))
      <4>1. Nests(<<x>>, State(a, "dirty"), State(a, "clean"))
        BY <2>2, <2>4, <3>1, NestsTask DEF Turns, Phases
      <4>2. Nests(<<Do(do)>>, State(a, "clean"), State(a, "clean"))
        BY <2>2, <2>4, <3>1, NestsTask DEF Turns, Phases
      <4> QED
        BY <4>1, <4>2, NestsTwo
    <3> HIDE DEF tasks
    <3>2. \A p, q \in Phases : Holds(p) /\ Turns(do, p, q) => q = "clean" /\ Holds("dirty")'
      BY <1>1, <2>4 DEF Holds, Turns
    <3>3. "dirty" \in Phases
      BY DEF Phases
    <3> QED
      BY <1>1, <2>1, <3>1, <3>2, <3>3, TaskDone
  <2> QED
    BY <2>3, <2>4
<1> QED
  BY <1>2, <1>3

(* The allocator of the set runs within a task that holds the lock, while an *)
(* insertion is under way.                                                   *)
LEMMA NestedMmapNests ==
  ASSUME NEW t \in Threads, NEW n, NEW more, NEW q, NestedMmap(t, n, more),
         \A a \in Nat : a >= 1 => Nests(more, State(a, "flag"), State(a, q))
  PROVE  \E tasks : /\ Then(t, tasks)
                    /\ \A a \in Nat : a >= 1 => Nests(tasks, State(a, "flag"), State(a, q))
<1> DEFINE add == RecordRegionAddition(n[1], n[2])
           remove == RecordRegionRemoval(n[1], n[2])
           unmap == <<Task("unmap", n[1], n[2])>>
<1>1. Then(t, add \o more) \/ Then(t, add \o remove \o unmap \o more)
  BY DEF NestedMmap
<1>2. ASSUME NEW a \in Nat, a >= 1
      PROVE  /\ Nests(add \o more, State(a, "flag"), State(a, q))
             /\ Nests(add \o remove \o unmap \o more, State(a, "flag"), State(a, q))
  <2>1. a # 0 /\ Nests(more, State(a, "flag"), State(a, q))
    BY <1>2
  <2>2. Nests(add, State(a, "flag"), State(a, "flag"))
    BY <2>1, NestsRecording
  <2>3. Nests(remove, State(a, "flag"), State(a, "flag"))
    BY <2>1, NestsRecording
  <2>4. Nests(unmap, State(a, "flag"), State(a, "flag"))
    BY <2>1, NestsTask DEF Task, OutsideTasks, Turns, Phases
  <2> HIDE DEF add, remove, unmap
  <2>5. Nests(add \o remove, State(a, "flag"), State(a, "flag"))
    BY <2>2, <2>3, NestsBoth
  <2>6. Nests(add \o remove \o unmap, State(a, "flag"), State(a, "flag"))
    BY <2>4, <2>5, NestsBoth
  <2> QED
    BY <2>1, <2>2, <2>6, NestsBoth
<1> HIDE DEF add, remove, unmap
<1> QED
  BY <1>1, <1>2

LEMMA DoInsertKeeps ==
  ASSUME RegionConstants, IndInv, NEW t \in Threads, DoInsertRegionLocked(t)
  PROVE  IndInv'
<1>1. /\ At(t, "do_insert") /\ UNCHANGED <<locks, saved_regions, recursive_insert>>
      /\ "do_insert" \notin OutsideTasks \cup {"unlock"}
  BY DEF DoInsertRegionLocked, OutsideTasks
<1> DEFINE r == Head(todo[t])
<1>2. \A p, q \in Phases : Holds(p) /\ Turns("do_insert", p, q) => q = "flag" /\ Holds("flag")'
  BY <1>1 DEF Holds, Turns
<1>3. CASE Then(t, <<>>) /\ failure' = failure
  BY <1>1, <1>2, <1>3, TaskGone
<1>4. CASE failure' = "arena" /\ UNCHANGED todo
  BY <1>1, <1>4, Stops DEF LockChecksHold
<1>5. CASE /\ \E n \in NestedRanges : NestedMmap(t, n, <<Task("set", r.start, r.end)>>)
           /\ failure' = failure
  <2>1. \A a \in Nat : a >= 1 => Nests(<<Task("set", r.start, r.end)>>, State(a, "flag"), State(a, "flag"))
    BY NestsTask DEF Task, Turns, Phases
  <2>2. PICK tasks :
          /\ Then(t, tasks)
          /\ \A a \in Nat : a >= 1 => Nests(tasks, State(a, "flag"), State(a, "flag"))
    BY <1>5, <2>1, NestedMmapNests
  <2>3. "flag" \in Phases
    BY DEF Phases
  <2> QED
    BY <1>1, <1>2, <1>5, <2>2, <2>3, TaskDone
<1> QED
  BY <1>3, <1>4, <1>5 DEF DoInsertRegionLocked, Fail

LEMMA RemovalKeeps ==
  ASSUME RegionConstants, IndInv, NEW t \in Threads, Removal(t)
  PROVE  IndInv'
<1>1. /\ At(t, "remove") /\ UNCHANGED locks /\ failure' = failure
      /\ recursive_insert' = recursive_insert
      /\ ~recursive_insert => saved_regions' = saved_regions
      /\ "remove" \notin OutsideTasks \cup {"unlock"}
  BY DEF Removal, OutsideTasks
<1> DEFINE r == Head(todo[t])
           scan == [do |-> "scan", start |-> r.start, end |-> r.end, from |-> r.start]
           first == IF recursive_insert THEN <<>> ELSE <<Do("handle_insert")>>
<1>2. \A p, q \in Phases :
         Holds(p) /\ Turns("remove", p, q) =>
            q = (IF recursive_insert THEN "flag" ELSE "clean") /\ Holds(q)'
  BY <1>1 DEF Holds, Turns
<1>3. CASE regions_ = NULL
  <2>1. Then(t, <<>>)
    BY <1>3 DEF Removal
  <2> QED
    BY <1>1, <1>2, <2>1, TaskGone
<1>4. CASE regions_ # NULL
  <2>1. Then(t, first \o <<scan>>)
    BY <1>4 DEF Removal
  <2>2. ASSUME NEW a \in Nat, a >= 1
        PROVE  /\ recursive_insert => Nests(first \o <<scan>>, State(a, "flag"), State(a, "flag"))
               /\ ~recursive_insert => Nests(first \o <<scan>>, State(a, "clean"), State(a, "clean"))
    <3>1. /\ Nests(<<scan>>, State(a, "flag"), State(a, "flag"))
          /\ Nests(<<scan>>, State(a, "clean"), State(a, "clean"))
      BY <2>2, NestsTask DEF Turns, Phases
    <3> HIDE DEF scan
    <3>2. Nests(<<>>, State(a, "flag"), State(a, "flag"))
      <4>1. State(a, "flag") \in States
        BY <2>2 DEF State, States, Phases
      <4> QED
        BY <4>1, NestsNothing
    <3>3. Nests(<<Do("handle_insert")>>, State(a, "clean"), State(a, "clean"))
      BY <2>2, NestsTask DEF Do, Task, Turns, Phases
    <3>4. CASE recursive_insert
      BY <3>1, <3>2, <3>4, NestsBoth
    <3>5. CASE ~recursive_insert
      BY <3>1, <3>3, <3>5, NestsBoth
    <3> QED
      BY <3>4, <3>5
  <2> HIDE DEF first, scan
  <2> QED
    BY <1>1, <1>2, <2>1, <2>2, TaskDone
<1> QED
  BY <1>3, <1>4

LEMMA ScanKeeps ==
  ASSUME RegionConstants, IndInv, NEW t \in Threads, Scan(t)
  PROVE  IndInv'
<1>1. /\ At(t, "scan") /\ UNCHANGED <<locks, saved_regions, recursive_insert>>
      /\ failure' = failure /\ "scan" \notin OutsideTasks \cup {"unlock"}
  BY DEF Scan, OutsideTasks
<1> DEFINE s == Head(todo[t])
           insert(q) == IF q.start < s.start THEN <<Task("insert", q.start, s.start)>> ELSE <<>>
           trim(q) == IF q.start < s.start /\ s.end < q.end THEN <<Task("trim", s.end, q.end)>>
                      ELSE <<>>
           next(q) == <<[do |-> "scan", start |-> s.start, end |-> s.end, from |-> q.end + 1]>>
<1>2. \A p, q \in Phases :
         Holds(p) /\ Turns("scan", p, q) => p = q /\ p \in {"clean", "flag"} /\ Holds(p)'
  BY <1>1 DEF Holds, Turns
<1>3. Then(t, <<>>) \/ \E q : Then(t, insert(q) \o trim(q) \o next(q))
  BY DEF Scan
<1>4. ASSUME NEW q, Then(t, insert(q) \o trim(q) \o next(q))
      PROVE  IndInv'
  <2>1. ASSUME NEW a \in Nat, a >= 1, NEW p \in {"clean", "flag"}
        PROVE  Nests(insert(q) \o trim(q) \o next(q), State(a, p), State(a, p))
    <3>1. Nests(<<>>, State(a, p), State(a, p))
      <4>1. State(a, p) \in States
        BY <2>1 DEF State, States, Phases
      <4> QED
        BY <4>1, NestsNothing
    <3>2. Nests(<<Task("insert", q.start, s.start)>>, State(a, p), State(a, p))
      BY <2>1, NestsTask DEF Task, Turns, Phases
    <3>3. Nests(<<Task("trim", s.end, q.end)>>, State(a, p), State(a, p))
      BY <2>1, NestsTask DEF Task, Turns, Phases
    <3>4. Nests(next(q), State(a, p), State(a, p))
      BY <2>1, NestsTask DEF Turns, Phases
    <3>5. Nests(insert(q), State(a, p), State(a, p)) /\ Nests(trim(q), State(a, p), State(a, p))
      BY <3>1, <3>2, <3>3
    <3> HIDE DEF insert, trim, next
    <3>6. Nests(insert(q) \o trim(q), State(a, p), State(a, p))
      BY <3>5, NestsBoth
    <3> QED
      BY <3>4, <3>6, NestsBoth
  <2> HIDE DEF insert, trim, next
  <2> QED
    BY <1>1, <1>2, <1>4, <2>1, TaskDone
<1> QED
  BY <1>1, <1>2, <1>3, <1>4, TaskGone

LEMMA InitStepKeeps ==
  ASSUME RegionConstants, IndInv, NEW t \in Threads, InitStep(t)
  PROVE  IndInv'
<1>1. /\ At(t, "init") /\ UNCHANGED <<locks, saved_regions>> /\ failure' = failure
      /\ "init" \notin OutsideTasks \cup {"unlock"}
  BY DEF InitStep, OutsideTasks
<1> DEFINE more == <<Do("end_insert"), Do("handle_insert")>>
<1>2. ASSUME NEW a \in Nat, a >= 1
      PROVE  Nests(more, State(a, "flag"), State(a, "clean"))
  <2>1. Nests(<<Do("end_insert")>>, State(a, "flag"), State(a, "dirty"))
    BY <1>2, NestsTask DEF Do, Task, Turns, Phases
  <2>2. Nests(<<Do("handle_insert")>>, State(a, "dirty"), State(a, "clean"))
    BY <1>2, NestsTask DEF Do, Task, Turns, Phases
  <2> QED
    BY <2>1, <2>2, NestsTwo
<1>3. \/ Then(t, <<>>) /\ recursive_insert' = recursive_insert
      \/ /\ recursive_insert' = TRUE
         /\ Then(t, more) \/ \E n \in NestedRanges : NestedMmap(t, n, more)
  BY DEF InitStep
<1> HIDE DEF more
<1>4. CASE Then(t, <<>>) /\ recursive_insert' = recursive_insert
  <2>1. \A p, q \in Phases : Holds(p) /\ Turns("init", p, q) => Holds(q)'
    BY <1>1, <1>4 DEF Holds, Turns
  <2> QED
    BY <1>1, <1>4, <2>1, TaskGone
<1>5. CASE /\ recursive_insert' = TRUE
           /\ Then(t, more) \/ \E n \in NestedRanges : NestedMmap(t, n, more)
  <2>1. PICK tasks : /\ Then(t, tasks)
                     /\ \A a \in Nat : a >= 1 => Nests(tasks, State(a, "flag"), State(a, "clean"))
    BY <1>2, <1>5, NestedMmapNests
  <2>2. \A p, q \in Phases : Holds(p) /\ Turns("init", p, q) => q = "clean"
    BY DEF Turns
  <2>3. Holds("flag")' /\ "flag" \in Phases
    BY <1>5 DEF Holds, Phases
  <2> QED
    BY <1>1, <2>1, <2>2, <2>3, TaskDone
<1> QED
  BY <1>3, <1>4, <1>5

LEMMA SbrkHookKeeps ==
  ASSUME RegionConstants, IndInv, NEW t \in Threads, SbrkHook(t)
  PROVE  IndInv'
<1>1. At(t, "sbrk") /\ UNCHANGED <<locks, saved_regions, recursive_insert, failure>>
  BY DEF SbrkHook, guarded
<1>2. PICK start, end : \/ Then(t, RecordRegionAddition(start, end))
                        \/ Then(t, RecordRegionRemoval(start, end))
  BY DEF SbrkHook
<1>3. ASSUME NEW a \in Nat, NEW p \in Phases, a = 0 => p = "clean", Turns("sbrk", p, p)
      PROVE  /\ Nests(RecordRegionAddition(start, end), State(a, p), State(a, p))
             /\ Nests(RecordRegionRemoval(start, end), State(a, p), State(a, p))
  <2>1. p \in {"clean", "flag"}
    BY <1>3 DEF Turns
  <2> QED
    BY <1>3, <2>1, NestsRecording
<1>4. CASE Then(t, RecordRegionAddition(start, end))
  BY <1>1, <1>3, <1>4, OutsideTaskDone
<1>5. CASE Then(t, RecordRegionRemoval(start, end))
  BY <1>1, <1>3, <1>5, OutsideTaskDone
<1> QED
  BY <1>2, <1>4, <1>5

(* Each call's tasks are brackets that begin and end outside the lock.       *)
LEMMA OutsideNests ==
  /\ Nests(<<>>, Outside, Outside)
  /\ \A start, end : /\ Nests(RecordRegionAddition(start, end), Outside, Outside)
                     /\ Nests(RecordRegionRemoval(start, end), Outside, Outside)
                     /\ Nests(<<Task("ready", start, end)>>, Outside, Outside)
                     /\ Nests(<<Task("unmap", start, end)>>, Outside, Outside)
                     /\ Nests(<<Task("sbrk", start, end)>>, Outside, Outside)
<1>1. Outside \in States
  BY DEF Outside, States, State, Phases
<1>2. ASSUME NEW start, NEW end
      PROVE  /\ Nests(RecordRegionAddition(start, end), Outside, Outside)
             /\ Nests(RecordRegionRemoval(start, end), Outside, Outside)
  BY NestsRecording DEF Outside
<1>3. ASSUME NEW start, NEW end, NEW do \in {"ready", "unmap", "sbrk"}
      PROVE  Nests(<<Task(do, start, end)>>, Outside, Outside)
  <2>1. Turns(do, "clean", "clean") /\ Task(do, start, end).do = do
    BY DEF Turns, Task
  <2> QED
    BY <2>1, NestsTask DEF OutsideTasks, Outside, Phases
<1> QED
  BY <1>1, <1>2, <1>3, NestsNothing

LEMMA CallsNest ==
  ASSUME NEW tasks, Nests(tasks, Outside, Outside), NEW end, Nests(end, Outside, Outside)
  PROVE  Nests(Hooked(tasks), Outside, Outside) /\ Nests(Hooked(tasks) \o end, Outside, Outside)
<1>1. Nests(Hooked(tasks), Outside, Outside)
  BY OutsideNests DEF Hooked
<1> QED
  BY <1>1, NestsBoth

LEMMA CallsKeep ==
  ASSUME RegionConstants, IndInv, NEW t \in Threads,
         Mmap(t) \/ Munmap(t) \/ Mremap(t) \/ Sbrk(t) \/ Client(t)
  PROVE  IndInv'
<1>1. /\ failure = "none" /\ todo[t] = <<>>
      /\ UNCHANGED <<locks, saved_regions, recursive_insert, failure>>
  BY DEF Mmap, Munmap, Mremap, Sbrk, Client, Start, guarded
<1> DEFINE Good(tasks) == Nests(tasks, Outside, Outside) /\ todo' = [todo EXCEPT ![t] = tasks]
<1> SUFFICES \E tasks : Good(tasks)
  BY <1>1, CallStarts
<1>2. CASE Mmap(t)
  <2>1. PICK r : todo' = [todo EXCEPT ![t] = Hooked(RecordRegionAddition(r[1], r[2]))
                                               \o <<Task("ready", r[1], r[2])>>]
    BY <1>2 DEF Mmap
  <2>2. Good(Hooked(RecordRegionAddition(r[1], r[2])) \o <<Task("ready", r[1], r[2])>>)
    BY <2>1, OutsideNests, CallsNest
  <2> QED
    BY <2>2
<1>3. CASE Munmap(t)
  <2>1. PICK r : todo' = [todo EXCEPT ![t] = Hooked(RecordRegionRemoval(r[1], r[2]))
                                               \o <<Task("unmap", r[1], r[2])>>]
    BY <1>3 DEF Munmap
  <2>2. Good(Hooked(RecordRegionRemoval(r[1], r[2])) \o <<Task("unmap", r[1], r[2])>>)
    BY <2>1, OutsideNests, CallsNest
  <2> QED
    BY <2>2
<1>4. CASE Mremap(t)
  <2>1. PICK r, n :
          todo' = [todo EXCEPT ![t] = Hooked(RecordRegionRemoval(r[1], r[2])
                                               \o RecordRegionAddition(n[1], n[2]))
                                        \o <<Task("ready", n[1], n[2])>>]
    BY <1>4 DEF Mremap
  <2>2. Nests(RecordRegionRemoval(r[1], r[2]) \o RecordRegionAddition(n[1], n[2]), Outside, Outside)
    BY OutsideNests, NestsBoth
  <2>3. Good(Hooked(RecordRegionRemoval(r[1], r[2]) \o RecordRegionAddition(n[1], n[2]))
               \o <<Task("ready", n[1], n[2])>>)
    BY <2>1, <2>2, OutsideNests, CallsNest
  <2> QED
    BY <2>3
<1>5. CASE Sbrk(t)
  <2>1. PICK inc : todo' = [todo EXCEPT ![t] = Hooked(<<Task("sbrk", brk, inc)>>)]
    BY <1>5 DEF Sbrk
  <2>2. Good(Hooked(<<Task("sbrk", brk, inc)>>))
    BY <2>1, OutsideNests, CallsNest
  <2> QED
    BY <2>2
<1>6. CASE Client(t)
  <2>1. PICK do \in {"init", "shutdown"} : todo' = [todo EXCEPT ![t] = Locked(<<Do(do)>>)]
    BY <1>6 DEF Client
  <2>2. Nests(<<Do(do)>>, State(1, "clean"), State(1, "clean"))
    BY NestsTask DEF Do, Task, Turns, Phases
  <2>3. Nests(Locked(<<Do(do)>>), State(0, "clean"), State(0, "clean"))
    <3>1. "clean" \in Phases /\ 0 + 1 = 1
      BY DEF Phases
    <3> QED
      BY <2>2, <3>1, NestsLocked
  <2> QED
    BY <2>1, <2>3 DEF Outside
<1> QED
  BY <1>2, <1>3, <1>4, <1>5, <1>6

LEMMA InitKeeps == ASSUME RegionConstants, Init PROVE IndInv
<1>1. \A t \in Threads : lock_ # t /\ Here(t, Outside) /\ Nests(todo[t], Outside, Outside)
  <2>1. Outside \in States
    BY DEF Outside, States, State, Phases
  <2> QED
    BY <2>1, OutsideNests DEF Init, Here, RegionConstants
<1> QED
  BY <1>1 DEF Init, IndInv, LockInvariant, LockChecksHold, NothingLeftSaved, ThreadNests

LEMMA StutterKeeps == ASSUME IndInv, UNCHANGED vars PROVE IndInv'
BY DEF IndInv, LockInvariant, LockChecksHold, NothingLeftSaved, ThreadNests, Here, Holds,
       vars, locks, guarded

LEMMA NextKeeps == ASSUME RegionConstants PROVE IndInv /\ [Next]_vars => IndInv'
<1> SUFFICES ASSUME IndInv, Next PROVE IndInv'
  BY StutterKeeps
<1>1. PICK t \in Threads :
        Step(t) \/ Mmap(t) \/ Munmap(t) \/ Mremap(t) \/ Sbrk(t) \/ Client(t)
  BY DEF Next
<1>2. CASE LockSteps(t)
  BY <1>2, LockStepKeeps, AcquireKeeps, OwnKeeps, UnlockKeeps DEF LockSteps
<1>3. CASE RegionSteps(t)
  BY <1>3, SmallStepsKeep, InsertRegionLockedKeeps, HandleSavedKeeps, DoInsertKeeps,
     RemovalKeeps, ScanKeeps DEF RegionSteps
<1>4. CASE InitStep(t) \/ ShutdownStep(t) \/ UnmapStep(t) \/ ReadyStep(t) \/ SbrkHook(t)
  BY <1>4, InitStepKeeps, SmallStepsKeep, SbrkHookKeeps
<1>5. CASE Mmap(t) \/ Munmap(t) \/ Mremap(t) \/ Sbrk(t) \/ Client(t)
  BY <1>5, CallsKeep
<1> QED
  BY <1>1, <1>2, <1>3, <1>4, <1>5 DEF Step

(* memory_region_map.cc:248: whatever the threads call and however deep the  *)
(* hooks nest, the count is 0 while lock_ is free, it counts for the thread  *)
(* that holds lock_, and every task that needs the lock is that thread's.    *)
THEOREM LockIsRecursive == ASSUME RegionConstants PROVE Spec => []LockInvariant
<1>1. Init => IndInv
  BY InitKeeps
<1>2. IndInv /\ [Next]_vars => IndInv'
  BY NextKeeps
<1>3. IndInv => LockInvariant
  BY DEF IndInv
<1> QED
  BY <1>1, <1>2, <1>3, PTL DEF Spec

(* The checks on the lock never fail: of the owner in InsertRegionLocked     *)
(* (memory_region_map.cc:408), of the count that is reset in Lock (:272) and *)
(* of the owner and the count in Unlock (:282 to :285).                      *)
THEOREM LockChecksNeverFail == ASSUME RegionConstants PROVE Spec => []LockChecksHold
<1>1. Init => IndInv
  BY InitKeeps
<1>2. IndInv /\ [Next]_vars => IndInv'
  BY NextKeeps
<1>3. IndInv => LockChecksHold
  BY DEF IndInv
<1> QED
  BY <1>1, <1>2, <1>3, PTL DEF Spec

(* memory_region_map.cc:87 and :436: whatever the set's allocator maps while *)
(* a region is inserted, and whatever it maps while that is inserted, every  *)
(* region saved on the way is handed to the set before the lock is given up, *)
(* and the flag that an insertion is under way is down again.                *)
THEOREM SavedRegionsAreInserted == ASSUME RegionConstants PROVE Spec => []NothingLeftSaved
<1>1. Init => IndInv
  BY InitKeeps
<1>2. IndInv /\ [Next]_vars => IndInv'
  BY NextKeeps
<1>3. IndInv => NothingLeftSaved
  BY DEF IndInv
<1> QED
  BY <1>1, <1>2, <1>3, PTL DEF Spec
=============================================================================
