-------------------------- MODULE ThreadCacheHeaps ---------------------------
(* The life of the thread caches and the space they share (thread_cache.cc): *)
(* a cache is made on the first allocation of a thread, found again inside  *)
(* pthread_setspecific, given up by BecomeIdle and deleted by the           *)
(* destructor; all of them divide one overall size, and a thread that is    *)
(* over its share takes some from another.                                  *)
EXTENDS Integers, Sequences, SequencesExt, FiniteSetsExt, Functions

CONSTANTS
  Threads,            \* pthread_t values
  kMinThreadCacheSize, kMaxThreadCacheSize, kStealAmount,
  kStealTries,        \* 10 in the code
  OverallSizes,       \* what set_overall_thread_cache_size is called with
  kDefaultOverallThreadCacheSize

HeapConstants ==
  /\ {kMinThreadCacheSize, kMaxThreadCacheSize, kStealAmount, kStealTries} \subseteq Nat \ {0}
  /\ kStealAmount <= kMinThreadCacheSize
  /\ OverallSizes \subseteq Nat

NULL == "null"

VARIABLES
  tsd_inited,    \* tsd_inited_
  heaps,         \* thread_heaps_: the threads that have a cache, first to last
  max_size,      \* max_size_ of each cache
  steal,         \* next_memory_steal_
  unclaimed,     \* unclaimed_cache_space_
  overall,       \* overall_thread_cache_size_
  per_thread,    \* per_thread_cache_size_
  key,           \* the pthread key: the thread's cache is set or not
  tls,           \* threadlocal_heap_
  pc             \* per thread: inside which call it is

vars == <<tsd_inited, heaps, max_size, steal, unclaimed, overall, per_thread, key, tls, pc>>

HasHeap(t) == t \in Range(heaps)
Pos(t) == CHOOSE i \in 1 .. Len(heaps) : heaps[i] = t
NextOf(hs, i) == IF i < Len(hs) THEN hs[i + 1] ELSE NULL

-----------------------------------------------------------------------------
(* The caches IncreaseCacheLimitLocked looks at, in turn, from the pointer  *)
(* on; the end of the list stands for its beginning.                        *)
Candidate(i) ==
  LET start == IF steal = NULL THEN 1 ELSE Pos(steal)
  IN ((start - 1 + i) % Len(heaps)) + 1

CanGive(t, i) ==
  heaps[Candidate(i)] # t /\ max_size[heaps[Candidate(i)]] > kMinThreadCacheSize

Tries == 0 .. kStealTries - 1

(* IncreaseCacheLimitLocked for the cache of t, which has mine: from the    *)
(* unclaimed space, else from the first of ten caches that has more than    *)
(* the minimum.                                                             *)
Increased(t, mine) ==
  IF unclaimed > 0
    THEN [max |-> [max_size EXCEPT ![t] = mine + kStealAmount],
          unclaimed |-> unclaimed - kStealAmount, steal |-> steal]
  ELSE IF heaps # <<>> /\ \E i \in Tries : CanGive(t, i)
    THEN LET i == Min({j \in Tries : CanGive(t, j)})
             victim == heaps[Candidate(i)]
         IN [max |-> [max_size EXCEPT ![victim] = @ - kStealAmount, ![t] = mine + kStealAmount],
             unclaimed |-> unclaimed, steal |-> NextOf(heaps, Candidate(i))]
    ELSE [max |-> [max_size EXCEPT ![t] = mine], unclaimed |-> unclaimed,
          steal |-> IF heaps = <<>> THEN steal
                    ELSE NextOf(heaps, Candidate(kStealTries - 1))]

(* ThreadCache::Init: a cache that got nothing takes the minimum and drives *)
(* the unclaimed space below zero.                                          *)
Initialized(t) ==
  LET r == Increased(t, 0)
  IN IF r.max[t] > 0 THEN r
     ELSE [r EXCEPT !.max[t] = kMinThreadCacheSize,
                    !.unclaimed = @ - kMinThreadCacheSize]

(* NewHeap: initialised, then put in front of the list.                     *)
NewHeap(t) ==
  LET r == Initialized(t)
  IN /\ max_size' = r.max
     /\ unclaimed' = r.unclaimed
     /\ heaps' = <<t>> \o heaps
     /\ steal' = IF heaps = <<>> THEN t ELSE r.steal

Init ==
  /\ tsd_inited = FALSE
  /\ heaps = <<>>
  /\ max_size = [t \in Threads |-> 0]
  /\ steal = NULL
  /\ unclaimed = kDefaultOverallThreadCacheSize
  /\ overall = kDefaultOverallThreadCacheSize
  /\ per_thread = kMaxThreadCacheSize
  /\ key = [t \in Threads |-> FALSE]
  /\ tls = [t \in Threads |-> FALSE]
  /\ pc = [t \in Threads |-> "run"]

InitTSD ==
  /\ ~tsd_inited
  /\ tsd_inited' = TRUE
  /\ UNCHANGED <<heaps, max_size, steal, unclaimed, overall, per_thread, key, tls, pc>>

-----------------------------------------------------------------------------
(* Inside pthread_setspecific malloc may be called again: in_setspecific_.  *)
InSetspecific(t) == pc[t] \in {"setting", "clearing"}

(* GetCache and CreateCacheIfNecessary: the cache with the thread's id, or  *)
(* a new one; then setspecific, unless it is running already.               *)
CreateCacheIfNecessary(t) ==
  /\ pc[t] \in {"run", "setting", "clearing"} /\ ~(tsd_inited /\ tls[t])
  /\ IF HasHeap(t) THEN UNCHANGED <<heaps, max_size, steal, unclaimed>> ELSE NewHeap(t)
  /\ pc' = [pc EXCEPT ![t] = IF tsd_inited /\ ~InSetspecific(t) THEN "setting" ELSE @]
  /\ UNCHANGED <<tsd_inited, overall, per_thread, key, tls>>

SetSpecificDone(t) ==
  /\ pc[t] = "setting"
  /\ key' = [key EXCEPT ![t] = TRUE]
  /\ tls' = [tls EXCEPT ![t] = TRUE]
  /\ pc' = [pc EXCEPT ![t] = "run"]
  /\ UNCHANGED <<tsd_inited, heaps, max_size, steal, unclaimed, overall, per_thread>>

(* BecomeIdle: the key and the thread-local copy are cleared, then the      *)
(* cache is deleted.                                                        *)
BecomeIdle(t) ==
  /\ pc[t] = "run" /\ tsd_inited /\ tls[t]
  /\ pc' = [pc EXCEPT ![t] = "clearing"]
  /\ UNCHANGED <<tsd_inited, heaps, max_size, steal, unclaimed, overall, per_thread, key, tls>>

ClearSpecificDone(t) ==
  /\ pc[t] = "clearing"
  /\ key' = [key EXCEPT ![t] = FALSE]
  /\ tls' = [tls EXCEPT ![t] = FALSE]
  /\ pc' = [pc EXCEPT ![t] = "deleting"]
  /\ UNCHANGED <<tsd_inited, heaps, max_size, steal, unclaimed, overall, per_thread>>

(* DestroyThreadCache: the destructor of a thread that set the key.         *)
DestroyThreadCache(t) ==
  /\ pc[t] = "run" /\ key[t]
  /\ key' = [key EXCEPT ![t] = FALSE]
  /\ tls' = [tls EXCEPT ![t] = FALSE]
  /\ pc' = [pc EXCEPT ![t] = "deleting"]
  /\ UNCHANGED <<tsd_inited, heaps, max_size, steal, unclaimed, overall, per_thread>>

(* Mutant: the pointer is left at the cache that goes away.                 *)
StealAfterDeleteStays(t, rest) == IF rest = <<>> THEN NULL ELSE steal

StealAfterDelete(t, rest) ==
  LET moved == IF steal = t THEN NextOf(heaps, Pos(t)) ELSE steal
  IN IF moved = NULL THEN (IF rest = <<>> THEN NULL ELSE rest[1]) ELSE moved

(* DeleteCache after Cleanup, under pageheap_lock.                          *)
DeleteCache(t) ==
  LET rest == SelectSeq(heaps, LAMBDA h : h # t)
  IN /\ pc[t] = "deleting"
     /\ heaps' = rest
     /\ steal' = StealAfterDelete(t, rest)
     /\ unclaimed' = unclaimed + max_size[t]
     /\ max_size' = [max_size EXCEPT ![t] = 0]
     /\ pc' = [pc EXCEPT ![t] = "run"]
     /\ UNCHANGED <<tsd_inited, overall, per_thread, key, tls>>

(* IncreaseCacheLimit at the end of Scavenge.                               *)
IncreaseCacheLimit(t) ==
  LET r == Increased(t, max_size[t])
  IN /\ pc[t] = "run" /\ tls[t]
     /\ max_size' = r.max /\ unclaimed' = r.unclaimed /\ steal' = r.steal
     /\ UNCHANGED <<tsd_inited, heaps, overall, per_thread, key, tls, pc>>

-----------------------------------------------------------------------------
Clip(n, lo, hi) == Max({lo, Min({n, hi})})

(* RecomputePerThreadCacheSize: the shares shrink in proportion and never   *)
(* grow here.                                                               *)
RecomputePerThreadCacheSize(size) ==
  LET n == Max({1, Len(heaps)})
      space == Clip(size \div n, kMinThreadCacheSize, kMaxThreadCacheSize)
      scaled == [t \in Threads |-> IF space < per_thread
                   THEN (max_size[t] * space) \div Max({1, per_thread}) ELSE max_size[t]]
  IN /\ max_size' = scaled
     /\ unclaimed' = size - SumFunction(scaled)
     /\ per_thread' = space

set_overall_thread_cache_size(n) ==
  LET size == Max({n, kMinThreadCacheSize})
  IN /\ overall' = size
     /\ RecomputePerThreadCacheSize(size)
     /\ UNCHANGED <<tsd_inited, heaps, steal, key, tls, pc>>

Next ==
  \/ InitTSD
  \/ \E t \in Threads :
       \/ CreateCacheIfNecessary(t) \/ SetSpecificDone(t) \/ BecomeIdle(t)
       \/ ClearSpecificDone(t) \/ DestroyThreadCache(t) \/ DeleteCache(t)
       \/ IncreaseCacheLimit(t)
  \/ \E n \in OverallSizes : set_overall_thread_cache_size(n)

Spec == Init /\ [][Next]_vars

-----------------------------------------------------------------------------
(* The unclaimed space and the shares always make up the overall size, when *)
(* shares are taken, scaled, given back or handed out beyond it.            *)
SpaceAddsUp == unclaimed + SumFunction(max_size) = overall

(* The pointer to the next victim is a cache of the list or the end of it,  *)
(* so following it never leaves the list, in the middle of deletions too.   *)
StealPointerValid ==
  /\ steal = NULL \/ HasHeap(steal)
  /\ heaps = <<>> => steal = NULL

(* A thread has one cache at most, and the key and the thread-local copy    *)
(* refer to it only while it exists, through recursion and destruction.     *)
OneCachePerThread ==
  /\ IsInjective(heaps)
  /\ \A t \in Threads : (tls[t] \/ key[t]) => HasHeap(t)
  /\ \A t \in Threads : max_size[t] # 0 => HasHeap(t)

(* The code asserts that a thread with no unclaimed space finds a list to   *)
(* take from: without any cache some space is unclaimed.                    *)
SpaceOrVictims == heaps = <<>> => unclaimed > 0

=============================================================================
