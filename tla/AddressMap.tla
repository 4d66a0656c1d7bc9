------------------------------ MODULE AddressMap ------------------------------
(* AddressMap of addressmap-inl.h: clusters of blocks in a chained hash       *)
(* table, a list of entries per block, and a pool of entries carved from      *)
(* batches.  A value is the size of the range that begins at the key.  An     *)
(* entry is a record in its list; free_ counts the entries of the pool.       *)
EXTENDS Naturals, Sequences, SequencesExt, FiniteSets

CONSTANTS kBlockBits, kClusterBits, kHashBits, WordBits, kHashMultiplier,
          ALLOC_COUNT, Addresses, Sizes,
          MaxRanges      \* bound: ranges in the map at a time

BitsAssumption == kHashBits <= WordBits /\ ALLOC_COUNT \in Nat \ {0}

VARIABLES hashtable_, free_,
          batches,       \* times a batch of entries was allocated
          recorded       \* the ranges the client has in the map: key -> size

vars == <<hashtable_, free_, batches, recorded>>

NULL == [key |-> Cardinality(Addresses), value |-> 0]

kBlockSize == 2^kBlockBits
kClusterSize == 2^(kBlockBits + kClusterBits)
kClusterBlocks == 2^kClusterBits

(* The product keeps WordBits bits and the hash is its top kHashBits.        *)
HashInt(x) == ((x * kHashMultiplier) % 2^WordBits) \div 2^(WordBits - kHashBits)

ClusterId(address) == address \div kClusterSize
BlockID(address) == (address \div kBlockSize) % kClusterBlocks

Chain(address) == hashtable_[HashInt(ClusterId(address))]

HasCluster(address) == \E i \in DOMAIN Chain(address) : Chain(address)[i].id = ClusterId(address)

(* The position of the cluster in its chain.                                 *)
FindCluster(address) ==
    SelectInSeq(Chain(address), LAMBDA c : c.id = ClusterId(address))

(* The list of entries at an address; empty without a cluster.               *)
Block(address) ==
    IF FindCluster(address) = 0 THEN <<>>
    ELSE Chain(address)[FindCluster(address)].blocks[BlockID(address)]

FindMutable(key) == SelectSeq(Block(key), LAMBDA e : e.key = key)

Find(key) == IF FindMutable(key) = <<>> THEN NULL ELSE FindMutable(key)[1]

(* The chain with this list of entries at the address; a new cluster goes    *)
(* to the front.                                                             *)
WithBlock(address, list) ==
    IF FindCluster(address) = 0
    THEN <<[id |-> ClusterId(address),
            blocks |-> [b \in 0..(kClusterBlocks - 1) |->
                           IF b = BlockID(address) THEN list ELSE <<>>]]>> \o Chain(address)
    ELSE [Chain(address) EXCEPT ![FindCluster(address)].blocks[BlockID(address)] = list]

SetBlock(address, list) ==
    hashtable_' = [hashtable_ EXCEPT ![HashInt(ClusterId(address))] = WithBlock(address, list)]

Init == /\ hashtable_ = [h \in 0..(2^kHashBits - 1) |-> <<>>]
        /\ free_ = 0
        /\ batches = 0
        /\ recorded = [k \in {} |-> 0]

(* An entry from the pool, which first gets a batch when it is empty.        *)
TakeEntry ==
    IF free_ = 0
    THEN free_' = ALLOC_COUNT - 1 /\ batches' = batches + 1
    ELSE free_' = free_ - 1 /\ UNCHANGED batches

Insert(key, value) ==
    IF FindMutable(key) # <<>>
    THEN /\ SetBlock(key, [i \in DOMAIN Block(key) |->
                              IF Block(key)[i].key = key
                              THEN [key |-> key, value |-> value] ELSE Block(key)[i]])
         /\ UNCHANGED <<free_, batches>>
    ELSE /\ SetBlock(key, <<[key |-> key, value |-> value]>> \o Block(key))
         /\ TakeEntry

(* The first entry of the key leaves the list for the pool.                  *)
FindAndRemove(key) ==
    /\ IF FindMutable(key) = <<>> THEN UNCHANGED <<hashtable_, free_>>
       ELSE /\ SetBlock(key, Remove(Block(key), FindMutable(key)[1]))
            /\ free_' = free_ + 1
    /\ UNCHANGED batches

(* Mutant: a step back of one block from the same offset.                    *)
LastBeforeSameOffset(num, size) == num - size
(* The last address before the aligned piece of this size that holds num.    *)
LastBefore(num, size) == (num \div size) * size - 1

(* Does the range of e hold the key?  A range of no bytes holds its start.   *)
Holds(e, key) == e.key = key \/ (e.key <= key /\ key < e.key + e.value)

(* From num downwards, block by block and cluster by cluster, as long as a   *)
(* range of max_size could still reach the key.                              *)
FindInside(max_size, key) ==
    LET from[num \in Addresses] ==
          LET hits == SelectSeq(Block(num), LAMBDA e : Holds(e, key))
              smaller == \E i \in DOMAIN Block(num) : Block(num)[i].key <= key
              back(size) == LET n == LastBefore(num, size)
                            IN  IF key - n > max_size THEN NULL ELSE from[n]
          IN  IF hits # <<>> THEN hits[1]
              ELSE IF smaller THEN NULL
              ELSE IF HasCluster(num) /\ BlockID(num) # 0 THEN back(kBlockSize)
              ELSE IF num < kClusterSize THEN NULL
              ELSE back(kClusterSize)
    IN  from[key]

(* Every chain, every block and every list of it, in order.                  *)
Iterate ==
    FlattenSeq([h \in 1..2^kHashBits |->
      FlattenSeq([i \in DOMAIN hashtable_[h - 1] |->
        FlattenSeq([b \in 1..kClusterBlocks |-> hashtable_[h - 1][i].blocks[b - 1]])])])

(* The client stores ranges that do not overlap; a repeated key replaces.    *)
Apart(key, size) ==
    \A k \in DOMAIN recorded \ {key} :
       /\ k + recorded[k] <= key \/ key + size <= k
       /\ k # key

InsertRange(key, size) ==
    /\ Apart(key, size)
    /\ key + size \in Addresses
    /\ key \in DOMAIN recorded \/ Cardinality(DOMAIN recorded) < MaxRanges
    /\ Insert(key, size)
    /\ recorded' = [k \in DOMAIN recorded \cup {key} |->
                       IF k = key THEN size ELSE recorded[k]]

RemoveRange(key) ==
    /\ FindAndRemove(key)
    /\ recorded' = [k \in DOMAIN recorded \ {key} |-> recorded[k]]

Next == \E key \in Addresses :
           \/ RemoveRange(key)
           \/ \E size \in Sizes : InsertRange(key, size)

Spec == Init /\ [][Next]_vars

-------------------------------------------------------------------------------
(* Every cluster is in the chain of its hash and once; every entry is in the *)
(* block of its address.                                                     *)
TypeOK ==
    /\ free_ \in Nat /\ batches \in Nat
    /\ \A h \in DOMAIN hashtable_ : \A i \in DOMAIN hashtable_[h] :
          LET c == hashtable_[h][i]
          IN  /\ HashInt(c.id) = h
              /\ \A j \in DOMAIN hashtable_[h] : hashtable_[h][j].id = c.id => i = j
              /\ \A b \in DOMAIN c.blocks : \A e \in ToSet(c.blocks[b]) :
                    ClusterId(e.key) = c.id /\ BlockID(e.key) = b

(* addressmap-inl.h:115: Find gives the value last inserted and not removed, *)
(* for every address.                                                        *)
FindExact ==
    \A key \in Addresses :
       Find(key) = IF key \in DOMAIN recorded
                   THEN [key |-> key, value |-> recorded[key]] ELSE NULL

(* addressmap-inl.h:128: FindInside gives a range that holds the address, and *)
(* the one there is whenever the address is within max_size of its start,     *)
(* though it may begin blocks or clusters before.  The leak checker lowers    *)
(* max_size below the largest range.                                          *)
FindInsideExact ==
    \A key \in Addresses : \A max \in Sizes :
       LET found == FindInside(max, key)
       IN  /\ found # NULL => found.key \in DOMAIN recorded /\ Holds(found, key)
           /\ \A k \in DOMAIN recorded :
                 (Holds([key |-> k, value |-> recorded[k]], key) /\ key - k <= max)
                    => found.key = k

(* Iterate calls back once for every pair.                                   *)
IterateOnce ==
    /\ Len(Iterate) = Cardinality(DOMAIN recorded)
    /\ ToSet(Iterate) = {[key |-> k, value |-> recorded[k]] : k \in DOMAIN recorded}

(* No entry is lost: entries are allocated only when more are needed at a    *)
(* time than ever before.                                                    *)
EntriesReused ==
    /\ free_ + Len(Iterate) = ALLOC_COUNT * batches
    /\ ALLOC_COUNT * batches < MaxRanges + ALLOC_COUNT
=============================================================================
