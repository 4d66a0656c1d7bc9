------------------------------ MODULE LiveFlood ------------------------------
(* The search for live objects of a leak check, heap-checker.cc: the stacks   *)
(* and registers of the threads, the objects told to be ignored, those        *)
(* allocated in disabled code, the global data of the libraries, and the      *)
(* flood from all of these through the heap.  The other threads are stopped.  *)
(* A check is a list of tasks; the flood takes a step per object.             *)
EXTENDS Integers, SequencesExt, FiniteSets

CONSTANTS Objects,         \* the heap: ptr, size, call stack, ignored
          Memories,        \* what the addresses of candidate pointers may hold
          Lines,           \* /proc/self/maps: start, end, perms, inode, file
          Libraries,       \* the names of the files, in the order of a map
          Regions,         \* MemoryRegionMap: start, end, caller
          Threads,         \* pid, stack pointer, registers
          SelfPid, SelfTop,
          IgnoredSets,     \* the sets of objects a program may have ignored
          Listings,        \* how the listing of the threads may go
          IgnoreGlobals, IgnoreThreads,   \* values of the two flags
          WordSize, pointer_source_alignment, max_heap_object_size,
          max_pointer_offset,             \* -1 for no limit
          RegistersAt      \* where the vector of registers is

VARIABLES memory, ignored_objects, flags, listing,
          failed,          \* the threads whose registers cannot be read
          todo, live_objects, live, library_live_objects, stack_tops,
          is_stack,        \* the regions marked as stacks
          thread_registers, thread_listing_status, live_objects_total

inputs == <<memory, ignored_objects, flags, listing, failed>>
found == <<library_live_objects, stack_tops, is_stack, thread_registers>>
vars == <<inputs, todo, live_objects, live, found, thread_listing_status, live_objects_total>>

Task(do, arg) == [do |-> do, arg |-> arg]
Do(s) == Task(s, 0)
AllocObject(ptr, size, place) == [ptr |-> ptr, size |-> size, place |-> place]

Slots == DOMAIN memory

-------------------------------------------------------------------------------
(* What InternalInitStart has taken from the executable lines of the maps.   *)

(* The depth at which allocations from a library are disabled; 0 for none.   *)
DisabledDepth(file) ==
    CASE file \in {"libpthread", "libdl", "libcrypto", "libjvm", "libzip"} -> 1
      [] file = "ld" -> 2
      [] OTHER -> 0

CodeLines == {l \in ToSet(Lines) : l.start < l.end /\ l.inode # 0 /\ l.perms = "r-xp"}

(* end address -> start address and depth; two ranges of one end would be    *)
(* fatal unless they are the same.                                           *)
disabled_ranges ==
    {[end |-> l.end, start |-> l.start, depth |-> DisabledDepth(l.file)] :
       l \in {k \in CodeLines : DisabledDepth(k.file) > 0}}

global_region_caller_ranges ==
    {[end |-> l.end, start |-> l.start] :
       l \in {k \in CodeLines : k.file \in {"libpthread", "libdl", "ld"}}}

(* The range whose end is the least above the address.                       *)
UpperBound(ranges, addr) ==
    {r \in ranges : r.end > addr /\ \A q \in ranges : q.end > addr => r.end <= q.end}

-------------------------------------------------------------------------------
Init == /\ memory \in Memories
        /\ ignored_objects \in IgnoredSets
        /\ flags \in [ignore_global : IgnoreGlobals, ignore_thread : IgnoreThreads]
        /\ listing \in IF flags.ignore_thread THEN Listings ELSE {"none"}
        /\ failed \in IF listing = "listed" THEN SUBSET {t.pid : t \in Threads} ELSE {{}}
        /\ todo = <<Do("start")>>
        /\ live_objects = <<>> /\ live = {}
        /\ library_live_objects = [l \in ToSet(Libraries) |-> <<>>]
        /\ stack_tops = {} /\ is_stack = {} /\ thread_registers = <<>>
        /\ thread_listing_status = "CALLBACK_NOT_STARTED"
        /\ live_objects_total = 0

MaxObjectSize ==
    IF max_pointer_offset # -1 /\ max_pointer_offset < max_heap_object_size
    THEN max_pointer_offset ELSE max_heap_object_size

Load(a) == IF a >= RegistersAt
           THEN thread_registers[(a - RegistersAt) \div WordSize + 1]
           ELSE IF a \in Slots THEN memory[a] ELSE 0

(* The object that an address is in, if it is not too far inside.            *)
HaveOnHeapLocked(addr) ==
    {o \in Objects : /\ o.ptr = addr \/ (o.ptr < addr /\ addr < o.ptr + o.size)
                     /\ addr - o.ptr <= MaxObjectSize}

(* The aligned addresses of the whole words of an object.                    *)
Words(ptr, size) ==
    {a \in ptr..(ptr + size - WordSize) : a % pointer_source_alignment = 0}

(* IgnoreLiveObjectsLocked, one object of the stack: it is live if it must   *)
(* be on the heap, and every object a word of it points to is live too, is   *)
(* pushed when it was not live before, and is searched later.                *)
FloodStep ==
    /\ Head(todo).do = "flood" /\ live_objects # <<>>
    /\ LET object == Last(live_objects)
           marked == IF object.place = "MUST_BE_ON_HEAP" THEN {object.ptr} ELSE {}
           hits == {o \in Objects :
                      /\ o.ptr \notin live \cup marked
                      /\ \E a \in Words(object.ptr, object.size) :
                            Load(a) # 0 /\ o \in HaveOnHeapLocked(Load(a))}
           order == SetToSortSeq(hits, LAMBDA o, q : o.ptr < q.ptr)
       IN  /\ live_objects' = Front(live_objects) \o
                 [i \in DOMAIN order |-> AllocObject(order[i].ptr, order[i].size, "IGNORED_ON_HEAP")]
           /\ live' = live \cup marked \cup {o.ptr : o \in hits}
           /\ live_objects_total' = live_objects_total + Cardinality(marked \ live) + Cardinality(hits)
    /\ UNCHANGED <<inputs, todo, found, thread_listing_status>>

FloodDone ==
    /\ Head(todo).do = "flood" /\ live_objects = <<>>
    /\ todo' = Tail(todo)
    /\ UNCHANGED <<inputs, live_objects, live, found, thread_listing_status, live_objects_total>>

(* A task that pushes these objects and goes on with these tasks.            *)
Push(objects, more) ==
    /\ live_objects' = live_objects \o objects
    /\ todo' = more \o Tail(todo)
    /\ UNCHANGED <<inputs, live, live_objects_total>>

-------------------------------------------------------------------------------
(* RECORD_GLOBAL_DATA: a writable line of the maps is a candidate.           *)
RecordGlobalDataLocked ==
    /\ Head(todo).do = "record_global"
    /\ library_live_objects' =
         [f \in ToSet(Libraries) |->
            LET mine == SelectSeq(Lines, LAMBDA l : l.file = f /\ l.start < l.end /\ l.perms = "rw-p")
            IN  [i \in DOMAIN mine |->
                   AllocObject(mine[i].start, mine[i].end - mine[i].start, "MAYBE_LIVE")]]
    /\ Push(<<>>, <<>>)
    /\ UNCHANGED <<stack_tops, is_stack, thread_registers, thread_listing_status>>

(* The region whose end is the least that is not below the address, if the   *)
(* address is in it (MemoryRegionMap::DoFindRegionLocked).                   *)
FindRegion(addr) ==
    {r \in Regions : /\ r.end >= addr
                     /\ \A q \in Regions : q.end >= addr => r.end <= q.end
                     /\ r.start <= addr /\ addr < r.end}

(* The file and the position of the first candidate that has the address.    *)
SpanOf(top) ==
    LET has(l) == SelectInSeq(library_live_objects[l],
                              LAMBDA o : o.ptr <= top /\ top < o.ptr + o.size)
        i == SelectInSeq(Libraries, LAMBDA l : has(l) # 0)
    IN  IF i = 0 THEN <<>> ELSE <<Libraries[i], has(Libraries[i])>>

GreatestOf(S) == CHOOSE x \in S : \A y \in S : x >= y
LeastOf(S) == CHOOSE x \in S : \A y \in S : x <= y

(* Stacks grow towards low addresses: the part from the top to the end.      *)
LivePart(top, start, end) == AllocObject(top, end - top, "THREAD_DATA")

(* The stack of a thread: the live part of its region, or of the part of a   *)
(* writable line between the nearest regions; the rest of the line remains a *)
(* candidate and the unused part of the stack does not.                      *)
RegisterStackLocked ==
    /\ Head(todo).do = "register"
    /\ LET top == Head(todo).arg
           region == FindRegion(top)
           at == SpanOf(top)
       IN  /\ stack_tops' = stack_tops \cup {top}
           /\ is_stack' = is_stack \cup region
           /\ IF region # {}
              THEN /\ \E r \in region : Push(<<LivePart(top, r.start, r.end)>>, <<>>)
                   /\ UNCHANGED library_live_objects
              ELSE IF flags.ignore_global /\ at # <<>>
              THEN LET span == library_live_objects[at[1]][at[2]]
                       end == span.ptr + span.size
                       stack_end == LeastOf({end} \cup
                                      {r.start : r \in {q \in Regions : top < q.start /\ q.start < end}})
                       stack_start == GreatestOf({span.ptr} \cup
                                      {r.end : r \in {q \in Regions : span.ptr < q.end /\ q.end <= top}})
                       before == IF stack_start = span.ptr THEN <<>>
                                 ELSE <<AllocObject(span.ptr, stack_start - span.ptr, "MAYBE_LIVE")>>
                       after == IF stack_end = end THEN <<>>
                                ELSE <<AllocObject(stack_end, end - stack_end, "MAYBE_LIVE")>>
                   IN  /\ Push(<<LivePart(top, stack_start, stack_end)>>, <<>>)
                       /\ library_live_objects' = [library_live_objects EXCEPT
                            ![at[1]] = RemoveAt(@, at[2]) \o before \o after]
              ELSE Push(<<>>, <<>>) /\ UNCHANGED library_live_objects
    /\ UNCHANGED <<thread_registers, thread_listing_status>>

(* The objects of a set, each pushed as one that must be on the heap.        *)
MustBeOnHeap(objects) ==
    LET order == SetToSortSeq(objects, LAMBDA o, q : o.ptr < q.ptr)
    IN  [i \in DOMAIN order |-> AllocObject(order[i].ptr, order[i].size, "MUST_BE_ON_HEAP")]

(* The check stops the program when an ignored object is not allocated.      *)
IgnoreIgnoredObjects ==
    /\ Head(todo).do = "ignored_objects"
    /\ IF ignored_objects \subseteq Objects
       THEN Push(MustBeOnHeap(ignored_objects), <<>>)
       ELSE Push(<<>>, <<Do("fatal")>>)
    /\ UNCHANGED <<found, thread_listing_status>>

MakeIgnoredObjectsLive ==
    /\ Head(todo).do = "disabled_objects"
    /\ Push(MustBeOnHeap({o \in Objects : o.ignored}), <<>>)
    /\ UNCHANGED <<found, thread_listing_status>>

(* Is a frame of the stack in disabled code, at a depth that counts?         *)
RangeDisabled(stack) ==
    \E d \in DOMAIN stack : \E r \in UpperBound(disabled_ranges, stack[d]) :
       r.start < stack[d] /\ r.depth > d - 1

StackInside(o) == \E t \in stack_tops : o.ptr <= t /\ t < o.ptr + o.size

MakeDisabledLive ==
    /\ Head(todo).do = "disabled_code"
    /\ Push(MustBeOnHeap({o \in Objects : RangeDisabled(o.stack) /\ ~StackInside(o)}), <<>>)
    /\ UNCHANGED <<found, thread_listing_status>>

(* A region made by a special caller is global data unless it is a stack.    *)
Subtracted(r) ==
    \/ r \in is_stack \/ global_region_caller_ranges = {} \/ r.caller = 0
    \/ \A q \in UpperBound(global_region_caller_ranges, r.caller) : q.start >= r.caller

(* Mutant: only the part before the region is left of a piece cut in two.    *)
SubtractFront(o, r) ==
    LET end == o.ptr + o.size
    IN  CASE r.start <= o.ptr /\ end <= r.end -> <<>>
          [] o.ptr < r.start /\ r.end < end ->
               <<AllocObject(o.ptr, r.start - o.ptr, "IN_GLOBAL_DATA")>>
          [] r.end > o.ptr /\ r.start <= o.ptr ->
               <<AllocObject(r.end, end - r.end, "IN_GLOBAL_DATA")>>
          [] r.start > o.ptr /\ r.start < end ->
               <<AllocObject(o.ptr, r.start - o.ptr, "IN_GLOBAL_DATA")>>
          [] OTHER -> <<AllocObject(o.ptr, o.size, "IN_GLOBAL_DATA")>>

(* What is left of a piece without a region: nothing, two parts, the end,    *)
(* the beginning, or all of it.                                              *)
Subtract(o, r) ==
    LET end == o.ptr + o.size
    IN  CASE r.start <= o.ptr /\ end <= r.end -> <<>>
          [] o.ptr < r.start /\ r.end < end ->
               <<AllocObject(o.ptr, r.start - o.ptr, "IN_GLOBAL_DATA"),
                 AllocObject(r.end, end - r.end, "IN_GLOBAL_DATA")>>
          [] r.end > o.ptr /\ r.start <= o.ptr ->
               <<AllocObject(r.end, end - r.end, "IN_GLOBAL_DATA")>>
          [] r.start > o.ptr /\ r.start < end ->
               <<AllocObject(o.ptr, r.start - o.ptr, "IN_GLOBAL_DATA")>>
          [] OTHER -> <<AllocObject(o.ptr, o.size, "IN_GLOBAL_DATA")>>

(* The global data of one library: its candidates without the regions.       *)
IgnoreGlobalData ==
    /\ Head(todo).do = "globals"
    /\ LET lib == Head(todo).arg
           regions == SetToSortSeq({r \in Regions : Subtracted(r)}, LAMBDA r, q : r.end < q.end)
           cut(pieces, r) == FlattenSeq([i \in DOMAIN pieces |-> Subtract(pieces[i], r)])
       IN  Push(FoldLeft(cut, library_live_objects[lib], regions), <<>>)
    /\ UNCHANGED <<found, thread_listing_status>>

-------------------------------------------------------------------------------
Flood == <<Do("flood")>>
Globals == IF flags.ignore_global
           THEN FlattenSeq([i \in DOMAIN Libraries |->
                              <<Task("globals", Libraries[i]), Do("flood")>>])
           ELSE <<>>

RecordGlobals == IF flags.ignore_global THEN <<Do("record_global")>> ELSE <<>>

IgnoreNonThreadLiveObjectsLocked ==
    <<Task("register", SelfTop)>> \o Flood \o <<Do("ignored_objects")>> \o Flood
      \o <<Do("disabled_objects")>> \o Flood \o <<Do("disabled_code")>> \o Flood \o Globals

(* The threads whose registers are read, in the order of their pids.         *)
ReadThreads == SetToSortSeq({t \in Threads : t.pid \notin failed}, LAMBDA t, u : t.pid < u.pid)

(* IgnoreLiveThreadsLocked: every other thread's stack, then the registers,  *)
(* then all that is not of a thread.                                         *)
IgnoreLiveThreadsLocked(threads) ==
    /\ thread_listing_status' = "CALLBACK_STARTED"
    /\ thread_registers' = FlattenSeq([i \in DOMAIN threads |-> threads[i].registers])
    /\ Push(<<>>, RecordGlobals
                    \o [i \in DOMAIN threads |-> Task("register", threads[i].sp)] \o Flood
                    \o (IF threads = <<>> THEN <<>> ELSE <<Do("registers")>> \o Flood)
                    \o IgnoreNonThreadLiveObjectsLocked \o <<Do("completed")>>)
    /\ UNCHANGED <<library_live_objects, stack_tops, is_stack>>

IgnoreRegisters ==
    /\ Head(todo).do = "registers"
    /\ Push(<<AllocObject(RegistersAt, Len(thread_registers) * WordSize, "THREAD_REGISTERS")>>, <<>>)
    /\ UNCHANGED <<found, thread_listing_status>>

CallbackCompleted ==
    /\ Head(todo).do = "completed"
    /\ thread_listing_status' = "CALLBACK_COMPLETED"
    /\ Push(<<>>, <<>>)
    /\ UNCHANGED found

(* IgnoreAllLiveObjectsLocked.  The listing of the threads runs the callback *)
(* with all of them stopped, or cannot start, or is cut off within; in a     *)
(* program of one thread that is profiled the callback is called directly.   *)
IgnoreAllLiveObjectsLocked ==
    /\ Head(todo).do = "start"
    /\ CASE listing = "listed" -> IgnoreLiveThreadsLocked(ReadThreads)
         [] listing = "main_thread" -> IgnoreLiveThreadsLocked(<<>>)
         [] listing = "interrupted" ->
              /\ thread_listing_status' = "CALLBACK_STARTED"
              /\ Push(<<>>, RecordGlobals \o <<Do("fatal")>>)
              /\ UNCHANGED found
         [] OTHER ->   \* not started, or threads are not to be looked for
              /\ Push(<<>>, RecordGlobals \o IgnoreNonThreadLiveObjectsLocked)
              /\ UNCHANGED <<found, thread_listing_status>>

Next == /\ todo # <<>>
        /\ \/ IgnoreAllLiveObjectsLocked \/ RecordGlobalDataLocked \/ RegisterStackLocked
           \/ IgnoreRegisters \/ IgnoreIgnoredObjects \/ MakeIgnoredObjectsLive
           \/ MakeDisabledLive \/ IgnoreGlobalData \/ CallbackCompleted
           \/ FloodStep \/ FloodDone

Spec == Init /\ [][Next]_vars /\ WF_vars(Next)

-------------------------------------------------------------------------------
(* The definition of live: what the roots reach.  It is stated from the      *)
(* memory map alone and not from the order of the tasks.                     *)

Listed == listing = "listed"
Tops == (IF Listed THEN {t.sp : t \in {u \in Threads : u.pid \notin failed}} ELSE {}) \cup {SelfTop}
Covering(a) == {r \in Regions : r.start <= a /\ a < r.end}
LineOf(a) == {l \in ToSet(Lines) : l.perms = "rw-p" /\ l.start <= a /\ a < l.end}

(* The first address after a stack: the end of its region, or the nearest    *)
(* region or end of its line.                                                *)
StackEnd(t) ==
    IF Covering(t) # {} THEN LeastOf({r.end : r \in Covering(t)})
    ELSE LeastOf({l.end : l \in LineOf(t)} \cup {r.start : r \in {q \in Regions : q.start > t}})

(* A stack outside all regions is found in a writable line of the maps.      *)
Known(t) == Covering(t) # {} \/ (flags.ignore_global /\ LineOf(t) # {})

InLiveStack(a) == \E t \in Tops : Known(t) /\ t <= a /\ a + WordSize <= StackEnd(t)

(* Below the top of its stack, with no region in between.                    *)
InDeadStack(a) ==
    \E t \in Tops : /\ Covering(t) = {} /\ a < t /\ LineOf(a) \cap LineOf(t) # {}
                    /\ \A r \in Regions : ~(a < r.end /\ r.end <= t)

SpecialCaller(r) == \E q \in global_region_caller_ranges : q.start < r.caller /\ r.caller < q.end

InGlobals(a) ==
    /\ flags.ignore_global
    /\ LineOf(a) # {}
    /\ \A r \in Covering(a) : SpecialCaller(r) /\ \A t \in Tops : t \notin r.start..(r.end - 1)
    /\ ~InDeadStack(a)

RootWords == {a \in Slots : InLiveStack(a) \/ InGlobals(a)}
RegisterValues ==
    IF Listed THEN UNION {ToSet(t.registers) : t \in {u \in Threads : u.pid \notin failed}} ELSE {}

FromDisabledCode(o) ==
    /\ \E d \in DOMAIN o.stack : \E l \in CodeLines :
          l.start < o.stack[d] /\ o.stack[d] < l.end /\ d <= DisabledDepth(l.file)
    /\ \A t \in Tops : t \notin o.ptr..(o.ptr + o.size - 1)

Roots == {o \in Objects : \/ o \in ignored_objects \/ o.ignored \/ FromDisabledCode(o)
                          \/ \E v \in {memory[a] : a \in RootWords} \cup RegisterValues :
                                /\ v # 0 /\ v >= o.ptr
                                /\ v = o.ptr \/ v < o.ptr + o.size
                                /\ v - o.ptr <= MaxObjectSize}

PointsTo(o, q) ==
    \E a \in Slots : /\ o.ptr <= a /\ a + WordSize <= o.ptr + o.size
                     /\ memory[a] # 0 /\ memory[a] >= q.ptr
                     /\ memory[a] = q.ptr \/ memory[a] < q.ptr + q.size
                     /\ memory[a] - q.ptr <= MaxObjectSize

(* The least set with the roots and all that its objects point to.           *)
Reachable ==
    LET roots == Roots
        edges == {e \in Objects \X Objects : PointsTo(e[1], e[2])}
        closed == {S \in SUBSET Objects :
                     roots \subseteq S /\ \A e \in edges : e[1] \in S => e[2] \in S}
    IN  {o.ptr : o \in {q \in Objects : \A S \in closed : q \in S}}

-------------------------------------------------------------------------------
(* The frontier has allocated or root memory only, and only regions are      *)
(* marked as stacks.                                                         *)
TypeOK ==
    /\ live \subseteq {o.ptr : o \in Objects}
    /\ is_stack \subseteq Regions
    /\ \A i \in DOMAIN live_objects : live_objects[i].size >= 0
    /\ thread_listing_status \in {"CALLBACK_NOT_STARTED", "CALLBACK_STARTED", "CALLBACK_COMPLETED"}

(* heap-checker.cc:1252: when the search is over, the objects that are live  *)
(* are those that the roots reach: old stack frames, memory of the heap      *)
(* itself and regions of other allocators are no roots, and a pointer into   *)
(* an object keeps it as one to its start does.                              *)
LiveExact == todo = <<>> => live = Reachable

(* heap-checker.cc:976: every live object is counted once.                   *)
LiveTotal == live_objects_total = Cardinality(live)

(* heap-checker.cc:1090: all stacks are known before disabled code is looked *)
(* at, and the global data only after them.                                  *)
StacksKnownFirst ==
    Head(todo \o <<Do("end")>>).do \in {"disabled_code", "globals"} => stack_tops = Tops

=============================================================================
