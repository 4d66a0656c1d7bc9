-------------------------- MODULE ThreadCacheLists ---------------------------
(* The free lists of one thread cache (thread_cache.h, thread_cache.cc):    *)
(* how the lengths, the low water marks and the dynamic limits move as the  *)
(* thread allocates and frees, with the central cache as the other end.     *)
(* Objects of a class are alike, so a list is its length.                   *)
EXTENDS Integers, FiniteSets, FiniteSetsExt, Functions

CONSTANTS
  Classes,
  ByteSize,                    \* ByteSizeForClass of each class
  BatchSize,                   \* num_objects_to_move of each class
  kMaxDynamicFreeListLength, kMaxOverages, kStealAmount,
  MaxSizes,                    \* the values max_size_ takes
  MaxInUse                     \* bound on the objects the program holds per class

ListConstants ==
  /\ \A c \in Classes : ByteSize[c] \in Nat \ {0} /\ BatchSize[c] \in Nat \ {0}
  /\ \A c \in Classes : BatchSize[c] <= kMaxDynamicFreeListLength
  /\ kMaxOverages \in Nat /\ kStealAmount \in Nat

VARIABLES
  list,       \* list_ : per class length_, lowater_, max_length_, length_overages_
  size,       \* size_
  max_size,   \* max_size_: other threads take from it at any time
  inuse       \* objects of each class the program holds

vars == <<list, size, max_size, inuse>>

NewList == [length |-> 0, lowater |-> 0, max_length |-> 1, overages |-> 0]

-----------------------------------------------------------------------------
(* FreeList::Push, Pop, PushRange and PopRange.                             *)
Push(l, n) == [l EXCEPT !.length = @ + n]

Pop(l, n) == [l EXCEPT !.length = @ - n, !.lowater = Min({@, l.length - n})]

clear_lowwatermark(l) == [l EXCEPT !.lowater = l.length]

(* FetchFromCentralCache: the limit grows by one up to a batch, then by     *)
(* whole batches up to the maximum.                                         *)
GrowMax(l, c) ==
  IF l.max_length < BatchSize[c] THEN [l EXCEPT !.max_length = @ + 1]
  ELSE LET n == Min({l.max_length + BatchSize[c], kMaxDynamicFreeListLength})
       IN [l EXCEPT !.max_length = n - (n % BatchSize[c])]

(* ReleaseToCentralCache: at most what there is, in batches.                *)
Releasable(l, n) == Min({n, l.length})

(* ListTooLong: a batch goes back; the limit moves towards a batch.         *)
ListTooLong(l, c) ==
  LET r == Pop(l, Releasable(l, BatchSize[c]))
  IN IF r.max_length < BatchSize[c] THEN [r EXCEPT !.max_length = @ + 1]
     ELSE IF r.max_length = BatchSize[c] THEN r
     ELSE IF r.overages + 1 > kMaxOverages
       THEN [r EXCEPT !.max_length = @ - BatchSize[c], !.overages = 0]
       ELSE [r EXCEPT !.overages = @ + 1]

(* Scavenge of one list: half the low water mark is dropped, the limit      *)
(* shrinks down to a batch, the mark starts again.                          *)
Scavenged(l, c) ==
  LET drop == IF l.lowater > 1 THEN l.lowater \div 2 ELSE 1
      r == Pop(l, Releasable(l, drop))
  IN clear_lowwatermark(
       IF l.lowater = 0 THEN l
       ELSE IF r.max_length > BatchSize[c]
         THEN [r EXCEPT !.max_length = Max({@ - BatchSize[c], BatchSize[c]})]
         ELSE r)

-----------------------------------------------------------------------------
Init ==
  /\ list = [c \in Classes |-> NewList]
  /\ size = 0
  /\ max_size \in MaxSizes
  /\ inuse = [c \in Classes |-> 0]

(* Allocate from an empty list: the central cache gives up to a batch or    *)
(* nothing; the first object goes to the caller.                            *)
FetchFromCentralCache(c) ==
  /\ inuse[c] < MaxInUse
  /\ list[c].length = 0
  /\ \E n \in 0 .. Min({list[c].max_length, BatchSize[c]}) :
       /\ list' = [list EXCEPT ![c] = GrowMax(Push(@, IF n > 0 THEN n - 1 ELSE 0), c)]
       /\ size' = size + ByteSize[c] * (IF n > 0 THEN n - 1 ELSE 0)
       /\ inuse' = [inuse EXCEPT ![c] = IF n > 0 THEN @ + 1 ELSE @]
  /\ UNCHANGED max_size

Allocate(c) ==
  /\ inuse[c] < MaxInUse
  /\ list[c].length > 0
  /\ list' = [list EXCEPT ![c] = Pop(@, 1)]
  /\ size' = size - ByteSize[c]
  /\ inuse' = [inuse EXCEPT ![c] = @ + 1]
  /\ UNCHANGED max_size

(* The bytes the lists hold.                                                *)
Bytes(ls) == MapThenSumSet(LAMBDA c : ls[c].length * ByteSize[c], Classes)

(* Scavenge when the cache is over its limit: every list gives something    *)
(* back, and IncreaseCacheLimit may raise the limit.                        *)
AfterDeallocate(ls, bytes) ==
  IF bytes >= max_size
    THEN LET scavenged == [c \in Classes |-> Scavenged(ls[c], c)]
         IN /\ list' = scavenged
            /\ size' = bytes - (Bytes(ls) - Bytes(scavenged))
            /\ max_size' \in {max_size, max_size + kStealAmount} \cap MaxSizes
    ELSE list' = ls /\ size' = bytes /\ UNCHANGED max_size

(* Deallocate: push, then ListTooLong when the list is over its limit.      *)
Deallocate(c) ==
  /\ inuse[c] > 0
  /\ inuse' = [inuse EXCEPT ![c] = @ - 1]
  /\ LET pushed == Push(list[c], 1)
         trimmed == IF pushed.length > pushed.max_length THEN ListTooLong(pushed, c) ELSE pushed
         ls == [list EXCEPT ![c] = trimmed]
         bytes == size + ByteSize[c] - (pushed.length - trimmed.length) * ByteSize[c]
     IN AfterDeallocate(ls, bytes)

(* Another thread takes kStealAmount from the limit, under pageheap_lock.   *)
Stolen ==
  /\ max_size - kStealAmount \in MaxSizes
  /\ max_size' = max_size - kStealAmount
  /\ UNCHANGED <<list, size, inuse>>

(* Cleanup when the thread ends: every list goes back whole.                *)
Cleanup ==
  /\ list' = [c \in Classes |-> Pop(list[c], list[c].length)]
  /\ size' = size - Bytes(list)
  /\ UNCHANGED <<max_size, inuse>>

Next ==
  \/ \E c \in Classes : FetchFromCentralCache(c) \/ Allocate(c) \/ Deallocate(c)
  \/ Stolen \/ Cleanup

Spec == Init /\ [][Next]_vars

-----------------------------------------------------------------------------
(* size_ is the number of bytes in the lists after every fetch, release,    *)
(* trim and scavenge; it is unsigned and would wrap if it ever were less.   *)
SizeIsSum == size = Bytes(list) /\ size >= 0

(* The low water mark never exceeds the length, so Scavenge never gives     *)
(* back more than a list has held since the last one.                       *)
LowWaterBelow == \A c \in Classes : list[c].lowater \in 0 .. list[c].length

(* The limit is below a batch in the slow start and a multiple of the batch *)
(* afterwards, within the maximum, whatever grew and shrank it.             *)
MaxLengthWellFormed ==
  \A c \in Classes :
    LET m == list[c].max_length
    IN /\ m \in 1 .. kMaxDynamicFreeListLength
       /\ m < BatchSize[c] \/ m % BatchSize[c] = 0

=============================================================================
