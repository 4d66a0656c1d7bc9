------------------------------ MODULE PageMap -------------------------------
(* The map from page numbers to span descriptors (pagemap.h): the flat      *)
(* array, the two-level and the three-level radix tree.  The writer holds   *)
(* pageheap_lock, but get() is called without it, so the steps in which     *)
(* Ensure publishes a node are kept apart.                                  *)
EXTENDS Integers, FiniteSets, TLC

CONSTANTS
  BITS,            \* keys are 0 .. 2^BITS - 1
  ROOT_BITS,       \* of the two-level tree
  INTERIOR_BITS,   \* of the three-level tree, at each of its upper levels
  Values,          \* descriptors
  NULL,
  Ranges,          \* the ranges <<start, n>> callers ensure
  Starts           \* the keys callers start Next from

PageMapConstants ==
  /\ BITS \in Nat /\ ROOT_BITS \in 1 .. BITS /\ INTERIOR_BITS \in 1 .. BITS
  /\ 2 * INTERIOR_BITS <= BITS
  /\ NULL \notin Values
  /\ Ranges \subseteq (0 .. 2^BITS - 1) \X (1 .. 2^BITS)
  /\ Starts \subseteq 0 .. 2^BITS - 1

VARIABLES
  kind,      \* which of the three classes the build selects
  nodes,     \* the second-level nodes of the three-level tree
  leaves,    \* the leaves that exist, each with its values
  op,        \* the running Ensure or Next, and how the last one ended
  flat,      \* history: the value last set for each key
  ensured    \* history: the keys a successful Ensure covered

vars == <<kind, nodes, leaves, op, flat, ensured>>

Keys == 0 .. 2^BITS - 1

-----------------------------------------------------------------------------
(* LEAF_LENGTH of each class; the flat array is one leaf.                   *)
LeafLength(kd) == CASE kd = "PageMap1" -> 2^BITS
                    [] kd = "PageMap2" -> 2^(BITS - ROOT_BITS)
                    [] kd = "PageMap3" -> 2^(BITS - 2 * INTERIOR_BITS)

LeafOf(k) == k \div LeafLength(kind)
Slot(k) == k % LeafLength(kind)
NodeOf(leaf) == leaf \div 2^INTERIOR_BITS

ZeroLeaf == [i \in 0 .. LeafLength(kind) - 1 |-> NULL]

(* A key past the end of the root.                                          *)
TooBig(k) == LeafOf(k) >= 2^BITS \div LeafLength(kind)

HasNode(leaf) == kind = "PageMap3" => NodeOf(leaf) \in nodes

(* get: NULL out of range and where a level is missing.                     *)
Get(k) ==
  IF TooBig(k) \/ ~HasNode(LeafOf(k)) \/ LeafOf(k) \notin DOMAIN leaves
    THEN NULL ELSE leaves[LeafOf(k)][Slot(k)]

(* The first key of the leaf after k's.                                     *)
NextLeafKey(k) == (LeafOf(k) + 1) * LeafLength(kind)

-----------------------------------------------------------------------------
Idle == [type |-> "idle", key |-> 0, last |-> 0, ret |-> NULL]

Init ==
  /\ kind \in {"PageMap1", "PageMap2", "PageMap3"}
  /\ nodes = {}
  /\ leaves = IF kind = "PageMap1" THEN (0 :> ZeroLeaf) ELSE [l \in {} |-> ZeroLeaf]
  /\ op = Idle
  /\ flat = [k \in Keys |-> NULL]
  /\ ensured = {}

(* PageMap1::Ensure has nothing to make: LENGTH - x leaves room or not.     *)
EnsureFlat(start, n) ==
  /\ kind = "PageMap1" /\ op.type = "idle"
  /\ IF n <= 2^BITS - start
       THEN ensured' = ensured \cup (start .. start + n - 1)
       ELSE UNCHANGED ensured
  /\ UNCHANGED <<kind, nodes, leaves, op, flat>>

EnsureBegin(start, n) ==
  /\ kind # "PageMap1" /\ op.type = "idle"
  /\ op' = [type |-> "ensure", key |-> start, last |-> start + n - 1, ret |-> start]
  /\ UNCHANGED <<kind, nodes, leaves, flat, ensured>>

EnsureRunning == op.type = "ensure" /\ op.key <= op.last /\ ~TooBig(op.key)

(* NewNode: published after it is cleared.                                  *)
EnsureNode ==
  /\ EnsureRunning /\ ~HasNode(LeafOf(op.key))
  /\ nodes' = nodes \cup {NodeOf(LeafOf(op.key))}
  /\ UNCHANGED <<kind, leaves, op, flat, ensured>>

(* Mutant: a leaf that exists is made again.                                *)
EnsureLeafAgain ==
  /\ EnsureRunning /\ HasNode(LeafOf(op.key))
  /\ leaves' = [l \in DOMAIN leaves \cup {LeafOf(op.key)} |->
                  IF l = LeafOf(op.key) THEN ZeroLeaf ELSE leaves[l]]
  /\ op' = [op EXCEPT !.key = NextLeafKey(op.key)]
  /\ UNCHANGED <<kind, nodes, flat, ensured>>

(* The leaf, if it is missing; then on to the key after it.                 *)
EnsureLeaf ==
  /\ EnsureRunning /\ HasNode(LeafOf(op.key))
  /\ leaves' = [l \in DOMAIN leaves \cup {LeafOf(op.key)} |->
                  IF l \in DOMAIN leaves THEN leaves[l] ELSE ZeroLeaf]
  /\ op' = [op EXCEPT !.key = NextLeafKey(op.key)]
  /\ UNCHANGED <<kind, nodes, flat, ensured>>

(* return false: past the end, or no memory for a node.                     *)
EnsureFails ==
  /\ op.type = "ensure" /\ op.key <= op.last
  /\ TooBig(op.key) \/ ~HasNode(LeafOf(op.key)) \/ LeafOf(op.key) \notin DOMAIN leaves
  /\ op' = Idle
  /\ UNCHANGED <<kind, nodes, leaves, flat, ensured>>

EnsureDone ==
  /\ op.type = "ensure" /\ op.key > op.last
  /\ ensured' = ensured \cup (op.ret .. op.last)
  /\ op' = Idle
  /\ UNCHANGED <<kind, nodes, leaves, flat>>

(* set: only for keys that were ensured.                                    *)
Set(k, v) ==
  /\ op.type = "idle" /\ k \in ensured
  /\ leaves' = [leaves EXCEPT ![LeafOf(k)][Slot(k)] = v]
  /\ flat' = [flat EXCEPT ![k] = v]
  /\ UNCHANGED <<kind, nodes, op, ensured>>

-----------------------------------------------------------------------------
NextBegin(k) ==
  /\ op.type = "idle"
  /\ op' = [type |-> "next", key |-> k, last |-> k, ret |-> NULL]
  /\ UNCHANGED <<kind, nodes, leaves, flat, ensured>>

(* The slots of k's leaf from k on that hold a value.                       *)
Found(k) ==
  {i \in Slot(k) .. LeafLength(kind) - 1 : leaves[LeafOf(k)][i] # NULL}

(* Where Next goes on when k's leaf has nothing: past the whole node when   *)
(* the node is missing, else past the leaf.                                 *)
SkipTo(k) ==
  IF ~HasNode(LeafOf(k)) THEN (NodeOf(LeafOf(k)) + 1) * 2^INTERIOR_BITS * LeafLength(kind)
  ELSE NextLeafKey(k)

(* One round of the loop of Next: scan the rest of a leaf or skip.          *)
NextStep ==
  /\ op.type = "next" /\ op.key < 2^BITS
  /\ LET hit == IF HasNode(LeafOf(op.key)) /\ LeafOf(op.key) \in DOMAIN leaves
                  THEN Found(op.key) ELSE {}
     IN op' = IF hit = {} THEN [op EXCEPT !.key = SkipTo(op.key)]
              ELSE [op EXCEPT !.type = "found",
                     !.ret = leaves[LeafOf(op.key)][CHOOSE i \in hit : \A j \in hit : i <= j]]
  /\ UNCHANGED <<kind, nodes, leaves, flat, ensured>>

NextNone ==
  /\ op.type = "next" /\ op.key >= 2^BITS
  /\ op' = [op EXCEPT !.type = "found", !.ret = NULL]
  /\ UNCHANGED <<kind, nodes, leaves, flat, ensured>>

Return ==
  /\ op.type = "found" /\ op' = Idle
  /\ UNCHANGED <<kind, nodes, leaves, flat, ensured>>

(* What the running call does next.                                         *)
Advance ==
  \/ EnsureNode \/ EnsureLeaf \/ EnsureFails \/ EnsureDone
  \/ NextStep \/ NextNone \/ Return

Next ==
  \/ \E r \in Ranges : EnsureFlat(r[1], r[2]) \/ EnsureBegin(r[1], r[2])
  \/ \E k \in Keys, v \in Values : Set(k, v)
  \/ \E k \in Starts : NextBegin(k)
  \/ Advance

(* A call runs to its end under the lock.                                   *)
Spec == Init /\ [][Next]_vars /\ WF_vars(Advance)

-----------------------------------------------------------------------------
(* The shape of the tree.                                                   *)
TypeOK ==
  /\ nodes \subseteq 0 .. 2^INTERIOR_BITS - 1
  /\ \A l \in DOMAIN leaves : leaves[l] \in [0 .. LeafLength(kind) - 1 -> Values \cup {NULL}]
  /\ op.type \in {"idle", "ensure", "next", "found"}
  /\ flat \in [Keys -> Values \cup {NULL}] /\ ensured \subseteq Keys

(* A reader without the lock gets the value last set, at every moment of an *)
(* Ensure that another thread runs, and NULL for a page never entered.      *)
GetIsLastSet == \A k \in Keys : Get(k) = flat[k]

(* After Ensure returned true set() finds a leaf for every key of the       *)
(* range, whatever later Ensures that failed half way left behind.          *)
EnsuredIsSettable ==
  \A k \in ensured : HasNode(LeafOf(k)) /\ LeafOf(k) \in DOMAIN leaves

(* Next returns the value of the first key from k on that has one; the      *)
(* skips over missing nodes and leaves pass over no value.                  *)
NextFindsFirst ==
  op.type = "found" =>
    LET set == {k \in Keys : k >= op.last /\ flat[k] # NULL} IN
    op.ret = IF set = {} THEN NULL ELSE flat[CHOOSE k \in set : \A j \in set : k <= j]

=============================================================================
