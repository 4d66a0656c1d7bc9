------------------------------ MODULE FreeQueue ------------------------------
(* The queue of freed blocks of the debugging allocator (FreeQueue and        *)
(* MallocBlock::ProcessFreeQueue in debugallocation.cc): a circular buffer of *)
(* limited length and limited total size under free_queue_lock_.  A thread    *)
(* takes out up to Batch entries under the lock and releases their blocks     *)
(* without it.                                                                *)
EXTENDS Naturals, Sequences, FiniteSets, FiniteSetsExt

CONSTANTS Threads, NoThread,
          Blocks,             \* the blocks the threads free
          NoBlock,
          SizeOf,             \* block -> size
          EntrySize,          \* sizeof(MallocBlockQueueEntry)
          kFreeQueueSize, max_free_queue_size,
          Batch,              \* arraysize(entries)
          MaxChecks           \* bound: calls of DanglingWriteChecker

SizeAssumption == kFreeQueueSize \in Nat /\ kFreeQueueSize > Batch /\ Batch > 0

VARIABLES q_, q_front_, q_back_, free_queue_size_, free_queue_lock_,
          held,      \* blocks in use by the program
          released,  \* blocks the base allocator has got back, and how often
          pc,        \* thread -> what it does next
          entries,   \* thread -> entries it has taken out
          adding,    \* thread -> the block it brings
          limit,     \* thread -> max_free_queue_size of its call
          checks

vars == <<q_, q_front_, q_back_, free_queue_size_, free_queue_lock_, held,
          released, pc, entries, adding, limit, checks>>
queue == <<q_, q_front_, q_back_, free_queue_size_>>

Init == /\ q_ = [i \in 0..(kFreeQueueSize - 1) |-> NoBlock]
        /\ q_front_ = 0
        /\ q_back_ = 0
        /\ free_queue_size_ = 0
        /\ free_queue_lock_ = NoThread
        /\ held = Blocks
        /\ released = [b \in Blocks |-> 0]
        /\ pc = [t \in Threads |-> "idle"]
        /\ entries = [t \in Threads |-> <<>>]
        /\ adding = [t \in Threads |-> NoBlock]
        /\ limit = [t \in Threads |-> 0]
        /\ checks = 0

Full == (q_front_ + 1) % kFreeQueueSize = q_back_
Count == (q_front_ + kFreeQueueSize - q_back_) % kFreeQueueSize
Queued == {q_[(q_back_ + i) % kFreeQueueSize] : i \in 0..(Count - 1)}
Weight(b) == SizeOf[b] + EntrySize

GoTo(t, label) == pc' = [pc EXCEPT ![t] = label]

(* The program frees a block: Deallocate brings it to the queue.              *)
Deallocate(t) ==
    /\ pc[t] = "idle"
    /\ \E b \in held : /\ held' = held \ {b}
                       /\ adding' = [adding EXCEPT ![t] = b]
    /\ limit' = [limit EXCEPT ![t] = max_free_queue_size]
    /\ GoTo(t, "lock")
    /\ UNCHANGED <<queue, free_queue_lock_, released, entries, checks>>

(* DanglingWriteChecker empties the queue.                                    *)
DanglingWriteChecker(t) ==
    /\ pc[t] = "idle" /\ checks < MaxChecks
    /\ checks' = checks + 1
    /\ limit' = [limit EXCEPT ![t] = 0]
    /\ GoTo(t, "lock")
    /\ UNCHANGED <<queue, free_queue_lock_, held, released, entries, adding>>

Lock(t) ==
    /\ pc[t] \in {"lock", "relock"}
    /\ free_queue_lock_ = NoThread
    /\ free_queue_lock_' = t
    /\ GoTo(t, IF pc[t] = "lock" THEN "push" ELSE "pop")
    /\ UNCHANGED <<queue, held, released, entries, adding, limit, checks>>

Push(t) ==
    /\ pc[t] = "push"
    /\ IF adding[t] # NoBlock
       THEN /\ q_' = [q_ EXCEPT ![q_front_] = adding[t]]
            /\ q_front_' = (q_front_ + 1) % kFreeQueueSize
            /\ free_queue_size_' = free_queue_size_ + Weight(adding[t])
       ELSE UNCHANGED <<q_, q_front_, free_queue_size_>>
    /\ adding' = [adding EXCEPT ![t] = NoBlock]
    /\ GoTo(t, "pop")
    /\ UNCHANGED <<q_back_, free_queue_lock_, held, released, entries, limit, checks>>

MustPop(t) == free_queue_size_ > limit[t] \/ Full

(* With a full batch the lock is given up while the batch is released.        *)
Pop(t) ==
    /\ pc[t] = "pop"
    /\ MustPop(t)
    /\ LET b == q_[q_back_]
           taken == Append(entries[t], b)
       IN /\ entries' = [entries EXCEPT ![t] = taken]
          /\ q_' = [q_ EXCEPT ![q_back_] = NoBlock]
          /\ q_back_' = (q_back_ + 1) % kFreeQueueSize
          /\ free_queue_size_' = free_queue_size_ - Weight(b)
          /\ IF Len(taken) = Batch
             THEN GoTo(t, "releaseBatch") /\ free_queue_lock_' = NoThread
             ELSE UNCHANGED <<pc, free_queue_lock_>>
    /\ UNCHANGED <<q_front_, held, released, adding, limit, checks>>

PopEnough(t) ==
    /\ pc[t] = "pop"
    /\ ~MustPop(t)
    /\ free_queue_lock_' = NoThread
    /\ GoTo(t, "releaseRest")
    /\ UNCHANGED <<queue, held, released, entries, adding, limit, checks>>

NextBatch(t) == entries' = [entries EXCEPT ![t] = <<>>]

(* CheckForDanglingWrites and BASE_FREE for each entry; a released block may  *)
(* be handed out to the program again.                                        *)
ReleaseBatch(t) ==
    /\ pc[t] \in {"releaseBatch", "releaseRest"}
    /\ released' = [b \in Blocks |->
          released[b] + Cardinality({i \in DOMAIN entries[t] : entries[t][i] = b})]
    /\ NextBatch(t)
    /\ GoTo(t, IF pc[t] = "releaseBatch" THEN "relock" ELSE "idle")
    /\ UNCHANGED <<queue, free_queue_lock_, held, adding, limit, checks>>

Reuse(b) ==
    /\ released[b] = 1
    /\ released' = [released EXCEPT ![b] = 0]
    /\ held' = held \cup {b}
    /\ UNCHANGED <<queue, free_queue_lock_, pc, entries, adding, limit, checks>>

Step(t) == Lock(t) \/ Push(t) \/ Pop(t) \/ PopEnough(t) \/ ReleaseBatch(t)

Next == \/ \E t \in Threads : Deallocate(t) \/ DanglingWriteChecker(t) \/ Step(t)
        \/ \E b \in Blocks : Reuse(b)

Spec == Init /\ [][Next]_vars

-----------------------------------------------------------------------------
(* The buffer's two ends keep their range and the lock is held by the thread  *)
(* that is inside.                                                            *)
TypeOK ==
    /\ q_front_ \in 0..(kFreeQueueSize - 1) /\ q_back_ \in 0..(kFreeQueueSize - 1)
    /\ free_queue_size_ \in Nat
    /\ \A t \in Threads : pc[t] \in {"push", "pop"} <=> free_queue_lock_ = t

(* The RAW_CHECKs hold: nobody finds the queue full when it comes to push, or *)
(* empty when it wants to pop, and no batch overflows, however the threads    *)
(* take turns at the lock that is given up between batches.                   *)
ChecksHold ==
    \A t \in Threads : /\ pc[t] = "push" => ~Full
                       /\ (pc[t] = "pop" /\ MustPop(t)) => Count > 0
                       /\ Len(entries[t]) <= Batch

(* free_queue_size_ is the sum of the sizes of what is in the queue.          *)
SizeExact == free_queue_size_ = MapThenSumSet(Weight, Queued)

(* Every freed block is in the queue, in one thread's hands or released, and  *)
(* it is released once.                                                       *)
OnceEach ==
    \A b \in Blocks :
        Cardinality({t \in Threads : \/ adding[t] = b
                                     \/ \E i \in DOMAIN entries[t] : entries[t][i] = b})
        + (IF b \in held THEN 1 ELSE 0) + (IF b \in Queued THEN 1 ELSE 0) + released[b] = 1

(* When nobody is at work the queue is within its limit ("Release them when   *)
(* the total size of all blocks in the queue would otherwise exceed this      *)
(* limit").                                                                   *)
LimitAtRest == (\A t \in Threads : pc[t] = "idle") => free_queue_size_ <= max_free_queue_size

=============================================================================
