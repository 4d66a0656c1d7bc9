--------------------------- MODULE CentralFreeList ---------------------------
(* The central free lists (central_freelist.cc): per size class the spans   *)
(* with free objects and a transfer cache of whole batches.  Each class has *)
(* its own lock, and the code drops it in the middle of three operations:   *)
(* while it deletes a span, while it fetches one and while it takes a cache *)
(* slot from another class.  A step here is what runs between two changes   *)
(* of the locks.                                                            *)
EXTENDS Integers, Sequences, FiniteSets, FiniteSetsExt, Functions, TLC

CONSTANTS
  Threads, Spans,
  Classes,          \* size classes
  ObjectsPerSpan,
  Batch,            \* num_objects_to_move
  cache_size0,      \* cache_size_ after Init
  max_cache_size,   \* max_cache_size_
  MaxOwned          \* bound on the objects a thread holds

NONE == "none"
NoSpan == 0

CentralConstants ==
  /\ Spans \subseteq Nat \ {NoSpan} /\ IsFiniteSet(Spans)
  /\ NONE \notin Threads \cup Classes
  /\ \A n \in {ObjectsPerSpan, Batch} : n \in Nat \ {0}
  /\ max_cache_size \in Nat /\ cache_size0 \in 0 .. max_cache_size

VARIABLES
  central,   \* per class: lock_, tc_slots_, cache_size_, counter_, num_spans_
  span,      \* per span: its class, list, free objects and refcount
  th,        \* per thread: the call it runs
  owned      \* per thread: the objects in its hands

vars == <<central, span, th, owned>>

Objects == Spans \X (1 .. ObjectsPerSpan)
ObjectsOf(s) == {s} \X (1 .. ObjectsPerSpan)

Idle == [pc |-> "idle",
         cl |-> NONE, chain |-> {}, n |-> 0,   \* the arguments of the call
         force |-> FALSE,                      \* of EvictRandomSizeClass
         rc |-> NONE, rel |-> {},              \* the class and list being released
         span |-> NoSpan]                        \* the span deleted or populated

-----------------------------------------------------------------------------
Init ==
  /\ central = [c \in Classes |-> [lock |-> NONE, slots |-> <<>>,
                 cache_size |-> cache_size0, counter |-> 0, num_spans |-> 0]]
  /\ span = [s \in Spans |-> [cl |-> NONE, list |-> "heap", free |-> {}, refcount |-> 0]]
  /\ th = [t \in Threads |-> Idle]
  /\ owned = [t \in Threads |-> {}]

(* Spin locks: free, then taken.                                            *)
CanLock(c) == central[c].lock = NONE

(* MapObjectToSpan through the page map.                                    *)
MapObjectToSpan(o) == o[1]

used_slots(c) == Len(central[c].slots)

-----------------------------------------------------------------------------
(* InsertRange(start, end, N) of objects of one class.                      *)
InsertRange(t, objs) ==
  /\ th[t].pc = "idle" /\ objs # {} /\ objs \subseteq owned[t]
  /\ Cardinality(objs) <= Batch
  /\ \E c \in Classes :
       /\ \A o \in objs : span[o[1]].cl = c
       /\ th' = [th EXCEPT ![t] = [Idle EXCEPT !.pc = "insert", !.cl = c, !.chain = objs]]
  /\ owned' = [owned EXCEPT ![t] = @ \ objs]
  /\ UNCHANGED <<central, span>>

(* The list goes into a slot of the transfer cache.                         *)
PutSlot(t, c) ==
  /\ central' = [central EXCEPT ![c].slots = Append(@, th[t].chain), ![c].lock = NONE]
  /\ th' = [th EXCEPT ![t] = Idle]

(* Go on to release the caller's list to the spans of its class.            *)
ReleaseOwn(t) ==
  th' = [th EXCEPT ![t].pc = "release", ![t].rc = th[t].cl, ![t].rel = th[t].chain,
                   ![t].chain = {}]

(* Under the lock: a slot if N is a batch and MakeCacheSpace finds one at   *)
(* once; else look for space in another class, or release the list.         *)
InsertLocked(t) ==
  LET c == th[t].cl
  IN /\ th[t].pc = "insert" /\ CanLock(c)
     /\ IF Cardinality(th[t].chain) = Batch /\ used_slots(c) < central[c].cache_size
          THEN PutSlot(t, c)
          ELSE /\ central' = [central EXCEPT ![c].lock = t]
               /\ IF /\ Cardinality(th[t].chain) = Batch
                     /\ central[c].cache_size # max_cache_size
                    THEN th' = [th EXCEPT ![t].pc = "evict"]
                    ELSE ReleaseOwn(t)
     /\ UNCHANGED <<span, owned>>

(* Mutant: the eviction is tried again without force.                       *)
EvictFailsForever(t) == th' = [th EXCEPT ![t].pc = "evict"]

(* EvictRandomSizeClass picks a class with a counter that races, and        *)
(* ShrinkCache looks at it without its lock before LockInverter gives up    *)
(* the lock that is held.  A failure tries again with force, then gives up. *)
EvictFails(t) ==
  IF th[t].force THEN ReleaseOwn(t)
  ELSE th' = [th EXCEPT ![t].pc = "evict", ![t].force = TRUE]

EvictRandomSizeClass(t) ==
  /\ th[t].pc = "evict"
  /\ \E c \in Classes :
       IF \/ c = th[t].cl
          \/ central[c].cache_size = 0
          \/ ~th[t].force /\ used_slots(c) = central[c].cache_size
         THEN EvictFails(t) /\ UNCHANGED central
         ELSE /\ central' = [central EXCEPT ![th[t].cl].lock = NONE]
              /\ th' = [th EXCEPT ![t].pc = "shrink", ![t].rc = c]
  /\ UNCHANGED <<span, owned>>

(* Mutant: the slot is dropped with the list in it.                         *)
ShrinkCacheLosesList(t) ==
  LET c == th[t].rc
  IN /\ th[t].pc = "shrink" /\ CanLock(c)
     /\ central[c].cache_size > 0
     /\ central' = [central EXCEPT ![c].cache_size = @ - 1,
                      ![c].slots = SubSeq(@, 1, IF Len(@) = central[c].cache_size
                                                  THEN Len(@) - 1 ELSE Len(@))]
     /\ th' = [th EXCEPT ![t].pc = "evicted"]
     /\ UNCHANGED <<span, owned>>

(* ShrinkCache under its own lock: everything is checked again.  A forced   *)
(* eviction from a full cache takes its last list along for release.        *)
ShrinkCache(t) ==
  LET c == th[t].rc
      full == used_slots(c) = central[c].cache_size
  IN /\ th[t].pc = "shrink" /\ CanLock(c)
     /\ IF central[c].cache_size = 0 \/ (full /\ ~th[t].force)
          THEN th' = [th EXCEPT ![t].pc = "notevicted"] /\ UNCHANGED central
        ELSE IF full
          THEN /\ central' = [central EXCEPT ![c].cache_size = @ - 1, ![c].lock = t,
                                ![c].slots = SubSeq(@, 1, Len(@) - 1)]
               /\ th' = [th EXCEPT ![t].pc = "release",
                                   ![t].rel = central[c].slots[used_slots(c)]]
          ELSE /\ central' = [central EXCEPT ![c].cache_size = @ - 1]
               /\ th' = [th EXCEPT ![t].pc = "evicted"]
     /\ UNCHANGED <<span, owned>>

(* The end of LockInverter: the first lock is taken again, and the cache    *)
(* grows only if it is still below its limit.                               *)
InverterBack(t) ==
  LET c == th[t].cl
  IN /\ th[t].pc = "evicted" /\ CanLock(c)
     /\ IF central[c].cache_size < max_cache_size
          THEN /\ central' = [central EXCEPT ![c].cache_size = @ + 1,
                                             ![c].slots = Append(@, th[t].chain)]
               /\ th' = [th EXCEPT ![t] = Idle]
          ELSE /\ central' = [central EXCEPT ![c].lock = t]
               /\ ReleaseOwn(t)
     /\ UNCHANGED <<span, owned>>

NotEvicted(t) ==
  /\ th[t].pc = "notevicted" /\ CanLock(th[t].cl)
  /\ central' = [central EXCEPT ![th[t].cl].lock = t]
  /\ EvictFails(t)
  /\ UNCHANGED <<span, owned>>

-----------------------------------------------------------------------------

(* ReleaseToSpans of one object: it joins the free objects of its span, or, *)
(* when it was the last one in use, the span leaves the lists and the lock  *)
(* is dropped to delete it.                                                 *)
Released(c, s, o) ==
  LET last == span[s].refcount = 1
  IN /\ span' = [span EXCEPT ![s].refcount = @ - 1,
                   ![s].free = IF last THEN {} ELSE @ \cup {o},
                   ![s].list = IF last THEN "dead" ELSE "nonempty"]
     /\ central' = [central EXCEPT ![c].counter = @ + 1 - (IF last THEN ObjectsPerSpan ELSE 0),
                      ![c].num_spans = IF last THEN @ - 1 ELSE @,
                      ![c].lock = IF last THEN NONE ELSE @]

(* ReleaseListToSpans, one object after the other.                          *)
ReleaseOne(t) ==
  LET o == CHOOSE x \in th[t].rel : TRUE
      s == MapObjectToSpan(o)
  IN /\ th[t].pc = "release" /\ th[t].rel # {}
     /\ Released(th[t].rc, s, o)
     /\ th' = [th EXCEPT ![t].rel = @ \ {o},
                 ![t].pc = IF span'[s].list = "dead" THEN "delete" ELSE "release",
                 ![t].span = IF span'[s].list = "dead" THEN s ELSE NoSpan]
     /\ UNCHANGED owned

(* The list is released: InsertRange returns, or the eviction goes on.      *)
ReleaseDone(t) ==
  /\ th[t].pc = "release" /\ th[t].rel = {}
  /\ central' = [central EXCEPT ![th[t].rc].lock = NONE]
  /\ th' = [th EXCEPT ![t] = IF @.rc = @.cl THEN Idle ELSE [@ EXCEPT !.pc = "evicted"]]
  /\ UNCHANGED <<span, owned>>

(* The deletion under pageheap_lock, without the lock of the class.         *)
DeleteSpan(t) ==
  /\ th[t].pc = "delete"
  /\ span' = [span EXCEPT ![th[t].span] =
                 [cl |-> NONE, list |-> "heap", free |-> {}, refcount |-> 0]]
  /\ th' = [th EXCEPT ![t].pc = "relock", ![t].span = NoSpan]
  /\ UNCHANGED <<central, owned>>

Relock(t) ==
  /\ th[t].pc = "relock" /\ CanLock(th[t].rc)
  /\ central' = [central EXCEPT ![th[t].rc].lock = t]
  /\ th' = [th EXCEPT ![t].pc = "release"]
  /\ UNCHANGED <<span, owned>>

-----------------------------------------------------------------------------
(* RemoveRange(start, end, N).                                              *)
RemoveRange(t, c, n) ==
  /\ th[t].pc = "idle" /\ Cardinality(owned[t]) + n <= MaxOwned
  /\ th' = [th EXCEPT ![t] = [Idle EXCEPT !.pc = "remove", !.cl = c, !.n = n]]
  /\ UNCHANGED <<central, span, owned>>

FreeObjects(sp, c) == UNION {sp[s].free : s \in {r \in Spans : sp[r].cl = c /\ sp[r].list = "nonempty"}}

(* A span after FetchFromSpans has taken objects of it.                     *)
Fetched(d, got) ==
  IF got = {} THEN d
  ELSE [d EXCEPT !.free = @ \ got, !.refcount = @ + Cardinality(got),
                 !.list = IF d.free = got THEN "empty" ELSE @]

(* FetchFromSpans, once per object, as far as the free objects go.          *)
Fetch(t, c, sp, cent) ==
  \E objs \in SUBSET FreeObjects(sp, c) :
    /\ Cardinality(objs) = Min({th[t].n, Cardinality(FreeObjects(sp, c))})
    /\ span' = [s \in Spans |-> Fetched(sp[s], objs \cap ObjectsOf(s))]
    /\ central' = [cent EXCEPT ![c].counter = @ - Cardinality(objs), ![c].lock = NONE]
    /\ owned' = [owned EXCEPT ![t] = @ \cup objs]
    /\ th' = [th EXCEPT ![t] = Idle]

(* A whole batch comes from the transfer cache if there is one; otherwise   *)
(* from the spans, after Populate when they have nothing.                   *)
RemoveLocked(t) ==
  LET c == th[t].cl
  IN /\ th[t].pc = "remove" /\ CanLock(c)
     /\ IF th[t].n = Batch /\ used_slots(c) > 0
          THEN /\ owned' = [owned EXCEPT ![t] = @ \cup central[c].slots[used_slots(c)]]
               /\ central' = [central EXCEPT ![c].slots = SubSeq(@, 1, Len(@) - 1)]
               /\ th' = [th EXCEPT ![t] = Idle]
               /\ UNCHANGED span
        ELSE IF FreeObjects(span, c) # {}
          THEN Fetch(t, c, span, central)
          ELSE /\ th' = [th EXCEPT ![t].pc = "populate"]
               /\ UNCHANGED <<central, span, owned>>

(* Populate without the lock: a span from the page heap, or none.           *)
PopulateNew(t) ==
  /\ th[t].pc = "populate"
  /\ \/ \E s \in {r \in Spans : span[r].list = "heap"} :
          /\ \A r \in Spans : r < s => span[r].list # "heap"    \* which one is all the same
          /\ span' = [span EXCEPT ![s] = [cl |-> th[t].cl, list |-> "new",
                                          free |-> ObjectsOf(s), refcount |-> 0]]
          /\ th' = [th EXCEPT ![t].pc = "populated", ![t].span = s]
     \/ th' = [th EXCEPT ![t].pc = "populated"] /\ UNCHANGED span
  /\ UNCHANGED <<central, owned>>

(* Populate takes the lock again and lists the span; the second             *)
(* FetchFromSpans finds it, or what others put there, or nothing.           *)
PopulateLocked(t) ==
  LET c == th[t].cl
      s == th[t].span
  IN /\ th[t].pc = "populated" /\ CanLock(c)
     /\ IF s = NoSpan
          THEN Fetch(t, c, span, central)
          ELSE Fetch(t, c, [span EXCEPT ![s].list = "nonempty"],
                     [central EXCEPT ![c].num_spans = @ + 1, ![c].counter = @ + ObjectsPerSpan])

-----------------------------------------------------------------------------
ThreadStep(t) ==
  \/ InsertLocked(t) \/ EvictRandomSizeClass(t) \/ ShrinkCache(t)
  \/ InverterBack(t) \/ NotEvicted(t)
  \/ ReleaseOne(t) \/ ReleaseDone(t) \/ DeleteSpan(t) \/ Relock(t)
  \/ RemoveLocked(t) \/ PopulateNew(t) \/ PopulateLocked(t)

Next ==
  \E t \in Threads :
    \/ ThreadStep(t)
    \/ \E objs \in SUBSET owned[t] : InsertRange(t, objs)
    \/ \E c \in Classes, n \in 1 .. Batch : RemoveRange(t, c, n)

Spec == Init /\ [][Next]_vars /\ \A t \in Threads : SF_vars(ThreadStep(t))

-----------------------------------------------------------------------------
Labels == {"idle", "insert", "evict", "shrink", "evicted", "notevicted", "release", "delete",
           "relock", "remove", "populate", "populated"}

Lists == [lock : Threads \cup {NONE}, slots : Seq(SUBSET Objects),
          cache_size : 0 .. max_cache_size, counter : Int, num_spans : Int]
Descriptors == [cl : Classes \cup {NONE}, list : {"heap", "new", "nonempty", "empty", "dead"},
                free : SUBSET Objects, refcount : Int]
Calls == [pc : Labels, cl : Classes \cup {NONE}, chain : SUBSET Objects, n : 0 .. Batch,
          force : BOOLEAN, rc : Classes \cup {NONE}, rel : SUBSET Objects,
          span : Spans \cup {NoSpan}]

TypeOK ==
  /\ central \in [Classes -> Lists]
  /\ span \in [Spans -> Descriptors]
  /\ th \in [Threads -> Calls]
  /\ owned \in [Threads -> SUBSET Objects]

LiveSpans == {s \in Spans : span[s].list \in {"nonempty", "empty"}}

(* The places where an object can be: free in a span, in the hands of a     *)
(* thread, in a list that a call takes along, in a slot of a cache.         *)
Place == ({"free"} \X Spans \X {0})
           \cup ({"owned", "chain", "rel"} \X Threads \X {0})
           \cup ({"slot"} \X Classes \X (1 .. max_cache_size))

Contents(p) ==
  CASE p[1] = "free" -> span[p[2]].free
    [] p[1] = "owned" -> owned[p[2]]
    [] p[1] = "chain" -> th[p[2]].chain
    [] p[1] = "rel" -> th[p[2]].rel
    [] p[1] = "slot" -> IF p[3] <= used_slots(p[2]) THEN central[p[2]].slots[p[3]] ELSE {}

(* Every object of a span in the lists is in exactly one place, although    *)
(* lists travel while locks are dropped; the memory of a span that is not   *)
(* in the lists is reached from nowhere.                                    *)
ObjectsInOnePlace ==
  \A o \in Objects :
    LET places == {p \in Place : o \in Contents(p)}
    IN IF o[1] \in LiveSpans \/ span[o[1]].list = "new"
         THEN \E p \in Place : places = {p} ELSE places = {}

(* refcount is the number of objects outside the span's own list, so a span *)
(* goes back to the page heap only when nobody can reach its memory; a span *)
(* is listed as nonempty exactly when it has a free object.                 *)
RefcountsRight ==
  \A s \in LiveSpans :
    /\ span[s].refcount = ObjectsPerSpan - Cardinality(span[s].free)
    /\ span[s].list = "nonempty" <=> span[s].free # {}

(* counter_ and num_spans_ are what the lists hold, at every moment the     *)
(* lock of the class is free.                                               *)
CountersAgree ==
  \A c \in Classes : CanLock(c) =>
    /\ central[c].counter = Cardinality(FreeObjects(span, c))
    /\ central[c].num_spans = Cardinality({s \in LiveSpans : span[s].cl = c})

(* The transfer caches stay within their sizes and limits ...               *)
SlotsBounded ==
  \A c \in Classes : used_slots(c) <= central[c].cache_size
                     /\ central[c].cache_size \in 0 .. max_cache_size

(* ... while slots move between classes, and no slot comes out of nothing.  *)
SlotsConserved ==
  SumFunction([c \in Classes |-> central[c].cache_size]) <= Cardinality(Classes) * cache_size0

(* A thread that waits for the lock of a class holds no lock of another     *)
(* class: the lock is inverted, not nested.                                 *)
NoHoldAndWait ==
  \A t \in Threads :
    th[t].pc \in {"insert", "shrink", "evicted", "notevicted", "relock", "remove", "populated"}
      => \A c \in Classes : central[c].lock # t

(* central_freelist.cc:138, 213 and 312: with locks that are dropped in the *)
(* middle of an operation, every object is in one place, the counts of a    *)
(* span and of a class are right, the slots stay in their bounds, and no    *)
(* thread waits for a lock while it holds one.                              *)
ObjectsAccounted ==
  /\ TypeOK /\ ObjectsInOnePlace /\ RefcountsRight /\ CountersAgree
  /\ SlotsBounded /\ NoHoldAndWait

=============================================================================
