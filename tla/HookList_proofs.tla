--------------------------- MODULE HookList_proofs ---------------------------
(* What a list of hooks guarantees for every number of threads, hooks and     *)
(* slots: TypeOK with the lock, NothingPastEnd, EndIsTight and                *)
(* TraverseComplete.                                                          *)
EXTENDS HookList, SequenceTheorems, TLAPS

(* Where the holder of the lock stands between its scan and its last store:   *)
(* what it has read of the list is still so, since nobody else writes.        *)
AtAddStore(t) ==
    /\ index[t] \in Slots /\ index[t] <= priv_end + 1
    /\ hooks_end[t] = priv_end
    /\ priv_data[index[t]] = NoHook
AtAddEnd(t) ==
    /\ index[t] \in Slots /\ index[t] = priv_end + 1
    /\ Tight(index[t])
AtRemoveStore(t) ==
    /\ index[t] \in 1..priv_end
    /\ hooks_end[t] = priv_end
AtRemoveEnd(t) ==
    /\ index[t] = priv_end /\ index[t] \in Slots
    /\ \A i \in Slots : i >= index[t] => priv_data[i] = NoHook

Inside(t) ==
    /\ pc[t] = "AddStore" => AtAddStore(t)
    /\ pc[t] = "AddEnd" => AtAddEnd(t)
    /\ pc[t] = "RemoveStore" => AtRemoveStore(t)
    /\ pc[t] = "RemoveEnd" => AtRemoveEnd(t)
    /\ pc[t] \in Labels \ {"idle", "Traverse"} => value[t] \in Hooks
TightOutside ==
    (\A t \in Threads : pc[t] \notin {"AddEnd", "RemoveEnd"}) => Tight(priv_end)
HolderKnows == TightOutside /\ \A t \in Threads : Inside(t)

(* What a traversal knows of the slots that nobody has written since it began.*)
SeenBy(t) ==
    /\ pc[t] \in {"idle", "Add", "Remove"} => index[t] = 1
    /\ pc[t] = "Traverse" =>
         \A i \in kept[t] :
            /\ i <= hooks_end[t]
            /\ priv_data[i] # NoHook
            /\ i < index[t] => \E k \in 1..Len(output[t]) : output[t][k] = priv_data[i]
TraverseSeen == \A t \in Threads : SeenBy(t)

IndInv == TypeOK /\ HolderKnows /\ TraverseSeen

-----------------------------------------------------------------------------
LEMMA InitIndInv == ASSUME SizeAssumption, Init PROVE IndInv
<1>1. TypeOK
  BY EmptySeq DEF SizeAssumption, Init, TypeOK, Labels, Locked, Slots
<1>2. HolderKnows /\ TraverseSeen
  BY DEF SizeAssumption, Init, HolderKnows, TightOutside, Inside, TraverseSeen, SeenBy, Labels, Tight,
         Slots
<1>3. QED
  BY <1>1, <1>2 DEF IndInv

(* Nobody but the holder of the lock is inside a critical section, so that    *)
(* only what the thread of a step knows can be disturbed by its stores.       *)
LEMMA HolderFrame ==
  ASSUME IndInv, NEW t \in Threads,
         \A u \in Threads \ {t} : /\ pc'[u] = pc[u] /\ index'[u] = index[u]
                                  /\ hooks_end'[u] = hooks_end[u] /\ value'[u] = value[u],
         UNCHANGED list \/ pc[t] \in Locked,
         Inside(t)', TightOutside'
  PROVE  HolderKnows'
<1>1. ASSUME NEW u \in Threads, u # t PROVE Inside(u)'
  <2>1. /\ pc'[u] = pc[u] /\ index'[u] = index[u] /\ hooks_end'[u] = hooks_end[u]
        /\ value'[u] = value[u] /\ Inside(u)
    BY <1>1 DEF IndInv, HolderKnows
  <2>2. CASE UNCHANGED list
    BY <2>1, <2>2 DEF list, Inside, AtAddStore, AtAddEnd, AtRemoveStore, AtRemoveEnd, Tight
  <2>3. CASE pc[t] \in Locked
    <3>1. pc[u] \notin Locked
      BY <1>1, <2>3 DEF IndInv, TypeOK
    <3>2. QED
      BY <2>1, <3>1 DEF Inside, Locked, Labels
  <2>4. QED
    BY <2>2, <2>3
<1>2. QED
  BY <1>1 DEF HolderKnows

LEMMA SeenFrame ==
  ASSUME IndInv, NEW t \in Threads,
         \A u \in Threads \ {t} : /\ pc'[u] = pc[u] /\ index'[u] = index[u]
                                  /\ hooks_end'[u] = hooks_end[u] /\ output'[u] = output[u]
                                  /\ kept'[u] \subseteq kept[u]
                                  /\ \A i \in kept'[u] : priv_data'[i] = priv_data[i],
         SeenBy(t)'
  PROVE  TraverseSeen'
<1>1. ASSUME NEW u \in Threads, u # t PROVE SeenBy(u)'
  <2>1. /\ pc'[u] = pc[u] /\ index'[u] = index[u] /\ hooks_end'[u] = hooks_end[u]
        /\ output'[u] = output[u] /\ kept'[u] \subseteq kept[u]
        /\ \A i \in kept'[u] : priv_data'[i] = priv_data[i]
        /\ SeenBy(u)
    BY <1>1 DEF IndInv, TraverseSeen
  <2>2. QED
    BY <2>1 DEF SeenBy
<1>2. QED
  BY <1>1 DEF TraverseSeen

-----------------------------------------------------------------------------
(* The beginning of a call of Add or Remove.                                  *)
LEMMA CallKeeps ==
  ASSUME SizeAssumption, IndInv, NEW t \in Threads, NEW h \in Hooks, NEW op \in {"Add", "Remove"},
         Call(t, op, h)
  PROVE  IndInv'
<1> USE DEF Call, GoTo
<1>1. TypeOK'
  BY DEF IndInv, TypeOK, list, Labels, Locked
<1>2. /\ pc[t] = "idle" /\ pc'[t] = op /\ value'[t] = h
      /\ UNCHANGED <<priv_end, priv_data, index, hooks_end, output, kept>>
      /\ \A u \in Threads \ {t} : pc'[u] = pc[u] /\ value'[u] = value[u]
  BY DEF IndInv, TypeOK, list
<1>3. HolderKnows'
  <2>1. Inside(t)'
    BY <1>2 DEF Inside
  <2>2. TightOutside'
    BY <1>2 DEF IndInv, HolderKnows, TightOutside, Tight
  <2>3. QED
    BY <1>2, <2>1, <2>2, HolderFrame DEF list
<1>4. TraverseSeen'
  <2>1. SeenBy(t)'
    BY <1>2 DEF IndInv, TraverseSeen, SeenBy
  <2>2. QED
    BY <1>2, <2>1, SeenFrame
<1>5. QED
  BY <1>1, <1>3, <1>4 DEF IndInv

(* The end of a call that held the lock.                                      *)
LEMMA ReturnTypes ==
  ASSUME SizeAssumption, TypeOK, NEW t \in Threads, pc[t] \in Locked, Return(t), Unlock,
         priv_end' \in 0..kHookListMaxValues, priv_data' \in [Slots -> Hooks \cup {NoHook}],
         UNCHANGED output, kept' \in [Threads -> SUBSET Slots]
  PROVE  TypeOK'
<1>1. /\ pc' \in [Threads -> Labels] /\ value' \in [Threads -> Hooks \cup {NoHook}]
      /\ index' \in [Threads -> 1..(kHookListMaxValues + 1)]
      /\ hooks_end' \in [Threads -> 0..kHookListMaxValues]
  BY DEF TypeOK, Return, Labels, SizeAssumption
<1>2. ASSUME NEW u \in Threads PROVE pc'[u] \in Locked <=> hooklist_spinlock' = u
  <2>1. hooklist_spinlock' # u
    BY DEF Unlock, SizeAssumption
  <2>2. CASE u = t
    BY <2>1, <2>2 DEF TypeOK, Return, Locked
  <2>3. CASE u # t
    BY <2>1, <2>3 DEF TypeOK, Return
  <2>4. QED
    BY <2>2, <2>3
<1>3. QED
  BY <1>1, <1>2, Zenon DEF TypeOK, Unlock, Slots

LEMMA LockKeeps ==
  ASSUME SizeAssumption, IndInv, NEW t \in Threads, Lock(t)
  PROVE  IndInv'
<1> USE DEF Lock, GoTo
<1>1. TypeOK'
  <2>1. pc' \in [Threads -> Labels]
    BY DEF IndInv, TypeOK, Labels
  <2>2. ASSUME NEW u \in Threads PROVE pc'[u] \in Locked <=> hooklist_spinlock' = u
    <3>1. CASE u = t
      BY <3>1 DEF IndInv, TypeOK, Labels, Locked
    <3>2. CASE u # t
      BY <3>2 DEF IndInv, TypeOK, SizeAssumption
    <3>3. QED
      BY <3>1, <3>2
  <2>3. QED
    BY <2>1, <2>2 DEF IndInv, TypeOK, list
<1>2. /\ pc[t] \in {"Add", "Remove"} /\ pc'[t] \in {"AddScan", "RemoveScan"}
      /\ UNCHANGED <<priv_end, priv_data, value, index, hooks_end, output, kept>>
      /\ \A u \in Threads \ {t} : pc'[u] = pc[u]
  BY DEF IndInv, TypeOK, list
<1>3. HolderKnows'
  <2>1. Inside(t)'
    BY <1>2 DEF IndInv, HolderKnows, Inside, Labels
  <2>2. TightOutside'
    BY <1>2 DEF IndInv, HolderKnows, TightOutside, Tight
  <2>3. QED
    BY <1>2, <2>1, <2>2, HolderFrame DEF list
<1>4. TraverseSeen'
  <2>1. SeenBy(t)'
    BY <1>2 DEF SeenBy
  <2>2. QED
    BY <1>2, <2>1, SeenFrame
<1>5. QED
  BY <1>1, <1>3, <1>4 DEF IndInv

(* The list is tight for the holder of the lock that has not stored yet.      *)
LEMMA TightForScan ==
  ASSUME IndInv, NEW t \in Threads, pc[t] \in Locked \ {"AddEnd", "RemoveEnd"}
  PROVE  Tight(priv_end)
<1>1. \A u \in Threads : u # t => pc[u] \notin Locked
  BY DEF IndInv, TypeOK
<1>2. \A u \in Threads : pc[u] \notin {"AddEnd", "RemoveEnd"}
  BY <1>1 DEF Locked, Labels
<1>3. QED
  BY <1>2 DEF IndInv, HolderKnows, TightOutside

(* The scans.  The first free slot is at most one past the end.               *)
LEMMA ScanKeeps ==
  ASSUME SizeAssumption, IndInv, NEW t \in Threads, AddScan(t) \/ RemoveScan(t)
  PROVE  IndInv'
<1>1. TypeOK'
  <2>1. CASE AddScan(t)
    BY <2>1 DEF IndInv, TypeOK, AddScan, GoTo, list, Labels, Locked, Slots, FirstFree, SizeAssumption
  <2>2. CASE RemoveScan(t)
    BY <2>2 DEF IndInv, TypeOK, RemoveScan, GoTo, list, Labels, Locked, FirstMatch, SizeAssumption
  <2>3. QED
    BY <2>1, <2>2
<1>2. /\ pc[t] \in {"AddScan", "RemoveScan"} /\ pc'[t] \in {"AddStore", "RemoveStore"}
      /\ hooks_end'[t] = priv_end
      /\ UNCHANGED <<priv_end, priv_data, value, output, kept>>
      /\ \A u \in Threads \ {t} : pc'[u] = pc[u] /\ index'[u] = index[u] /\ hooks_end'[u] = hooks_end[u]
  BY DEF IndInv, TypeOK, list, AddScan, RemoveScan, GoTo
<1>3. Tight(priv_end)
  BY <1>2, TightForScan DEF Locked, Labels
<1>4. HolderKnows'
  <2>1. pc'[t] = "AddStore" => /\ index'[t] \in Slots /\ priv_data[index'[t]] = NoHook
                               /\ \A j \in 1..(index'[t] - 1) : priv_data[j] # NoHook
    BY <1>2 DEF IndInv, TypeOK, AddScan, RemoveScan, GoTo, FirstFree
  <2>2. pc'[t] = "AddStore" => index'[t] <= priv_end + 1
    <3> SUFFICES ASSUME pc'[t] = "AddStore", index'[t] > priv_end + 1 PROVE FALSE
      BY <2>1 DEF IndInv, TypeOK, Slots, SizeAssumption
    <3>1. priv_end + 1 \in Slots /\ priv_end + 1 \in 1..(index'[t] - 1)
      BY <2>1 DEF IndInv, TypeOK, Slots, SizeAssumption
    <3>2. priv_end + 1 > priv_end
      BY DEF IndInv, TypeOK, SizeAssumption
    <3>3. QED
      BY <1>3, <2>1, <3>1, <3>2 DEF Tight
  <2>3. pc'[t] = "RemoveStore" => index'[t] \in 1..priv_end
    BY <1>2 DEF IndInv, TypeOK, AddScan, RemoveScan, GoTo, FirstMatch
  <2>4. Inside(t)'
    BY <1>2, <2>1, <2>2, <2>3 DEF IndInv, HolderKnows, Inside, AtAddStore, AtRemoveStore, Labels, Slots
  <2>5. TightOutside'
    BY <1>2, <1>3 DEF TightOutside, Tight
  <2>6. QED
    BY <1>2, <2>4, <2>5, HolderFrame DEF list
<1>5. TraverseSeen'
  <2>1. SeenBy(t)'
    BY <1>2 DEF SeenBy
  <2>2. QED
    BY <1>2, <2>1, SeenFrame
<1>6. QED
  BY <1>1, <1>4, <1>5 DEF IndInv

(* A call returns with the list as it is.                                     *)
LEMMA ReturnKeeps ==
  ASSUME SizeAssumption, IndInv, NEW t \in Threads, AddFull(t) \/ RemoveAbsent(t)
  PROVE  IndInv'
<1>1. TypeOK'
  <2>1. pc[t] \in Locked /\ Return(t) /\ Unlock /\ UNCHANGED <<priv_end, priv_data, output, kept>>
    BY DEF AddFull, RemoveAbsent, Locked, Labels, list
  <2>2. QED
    BY <2>1, ReturnTypes DEF IndInv, TypeOK
<1>2. /\ pc[t] \in {"AddScan", "RemoveScan"} /\ pc'[t] = "idle" /\ index'[t] = 1
      /\ UNCHANGED <<priv_end, priv_data, output, kept>>
      /\ \A u \in Threads \ {t} : /\ pc'[u] = pc[u] /\ index'[u] = index[u]
                                  /\ hooks_end'[u] = hooks_end[u] /\ value'[u] = value[u]
  BY DEF IndInv, TypeOK, list, AddFull, RemoveAbsent, Return
<1>3. HolderKnows'
  <2>1. Inside(t)'
    BY <1>2 DEF Inside
  <2>2. TightOutside'
    BY <1>2, TightForScan DEF TightOutside, Tight, Locked, Labels
  <2>3. QED
    BY <1>2, <2>1, <2>2, HolderFrame DEF list
<1>4. TraverseSeen'
  <2>1. SeenBy(t)'
    BY <1>2 DEF SeenBy
  <2>2. QED
    BY <1>2, <2>1, SeenFrame
<1>5. QED
  BY <1>1, <1>3, <1>4 DEF IndInv

(* Add stores its hook: the list stays tight or gets a hook just past its end.*)
LEMMA AddStoreKeeps ==
  ASSUME SizeAssumption, IndInv, NEW t \in Threads, AddStore(t)
  PROVE  IndInv'
<1>1. /\ pc[t] = "AddStore" /\ AtAddStore(t) /\ value[t] \in Hooks /\ value[t] # NoHook
      /\ Tight(priv_end)
  BY TightForScan DEF IndInv, HolderKnows, Inside, AddStore, Labels, Locked, SizeAssumption
<1>2. TypeOK'
  <2>1. /\ priv_end' \in 0..kHookListMaxValues /\ priv_data' \in [Slots -> Hooks \cup {NoHook}]
        /\ UNCHANGED output /\ kept' \in [Threads -> SUBSET Slots]
    BY <1>1 DEF IndInv, TypeOK, AddStore, Written, AtAddStore
  <2>2. CASE hooks_end[t] < index[t]
    BY <1>1, <2>1, <2>2 DEF IndInv, TypeOK, AddStore, GoTo, Labels, Locked
  <2>3. CASE ~(hooks_end[t] < index[t])
    BY <1>1, <2>1, <2>3, ReturnTypes DEF IndInv, AddStore, Labels, Locked
  <2>4. QED
    BY <2>2, <2>3
<1>3. /\ \A u \in Threads \ {t} : /\ pc'[u] = pc[u] /\ index'[u] = index[u]
                                  /\ hooks_end'[u] = hooks_end[u] /\ value'[u] = value[u]
      /\ \A u \in Threads : kept'[u] = kept[u] \ {index[t]}
      /\ UNCHANGED <<priv_end, output>>
      /\ priv_data'[index[t]] = value[t]
      /\ \A i \in Slots \ {index[t]} : priv_data'[i] = priv_data[i]
      /\ \/ pc'[t] = "AddEnd" /\ index'[t] = index[t] /\ hooks_end[t] < index[t]
            /\ value'[t] = value[t]
         \/ pc'[t] = "idle" /\ index'[t] = 1 /\ ~(hooks_end[t] < index[t])
  BY <1>1 DEF IndInv, TypeOK, AddStore, GoTo, Return, Written, AtAddStore
<1>4. HolderKnows'
  <2>1. Inside(t)'
    BY <1>1, <1>3 DEF IndInv, TypeOK, Inside, AtAddStore, AtAddEnd, Tight, Slots, SizeAssumption, Labels
  <2>2. TightOutside'
    BY <1>1, <1>3 DEF IndInv, TypeOK, AtAddStore, TightOutside, Tight, Slots, SizeAssumption
  <2>3. QED
    BY <1>1, <1>3, <2>1, <2>2, HolderFrame DEF Locked, Labels
<1>5. TraverseSeen'
  <2>1. SeenBy(t)'
    BY <1>3 DEF SeenBy
  <2>2. \A u \in Threads : kept[u] \subseteq Slots
    BY DEF IndInv, TypeOK
  <2>3. QED
    BY <1>3, <2>1, <2>2, SeenFrame
<1>6. QED
  BY <1>2, <1>4, <1>5 DEF IndInv

(* Remove clears the slot: below the end that changes nothing for the end.    *)
LEMMA RemoveStoreKeeps ==
  ASSUME SizeAssumption, IndInv, NEW t \in Threads, RemoveStore(t)
  PROVE  IndInv'
<1>1. pc[t] = "RemoveStore" /\ AtRemoveStore(t) /\ value[t] \in Hooks /\ Tight(priv_end)
  BY TightForScan DEF IndInv, HolderKnows, Inside, RemoveStore, Labels, Locked, SizeAssumption
<1>2. index[t] \in Slots
  BY <1>1 DEF AtRemoveStore, IndInv, TypeOK, Slots, SizeAssumption
<1>3. TypeOK'
  <2>1. /\ priv_end' \in 0..kHookListMaxValues /\ priv_data' \in [Slots -> Hooks \cup {NoHook}]
        /\ UNCHANGED output /\ kept' \in [Threads -> SUBSET Slots]
    BY <1>2 DEF IndInv, TypeOK, RemoveStore, Written
  <2>2. CASE hooks_end[t] = index[t]
    <3>1. /\ pc' = [pc EXCEPT ![t] = "RemoveEnd"]
          /\ UNCHANGED <<hooklist_spinlock, value, index, hooks_end>>
      BY <2>2 DEF RemoveStore, GoTo
    <3>2. pc' \in [Threads -> Labels] /\ pc'[t] = "RemoveEnd"
          /\ \A u \in Threads \ {t} : pc'[u] = pc[u]
      BY <3>1 DEF IndInv, TypeOK, Labels
    <3>3. \A u \in Threads : pc'[u] \in Locked <=> hooklist_spinlock' = u
      BY <1>1, <3>1, <3>2 DEF IndInv, TypeOK, Labels, Locked
    <3>4. QED
      BY <2>1, <3>1, <3>2, <3>3 DEF IndInv, TypeOK
  <2>3. CASE hooks_end[t] # index[t]
    BY <1>1, <2>1, <2>3, ReturnTypes DEF IndInv, RemoveStore, Labels, Locked
  <2>4. QED
    BY <2>2, <2>3
<1>4. /\ \A u \in Threads \ {t} : /\ pc'[u] = pc[u] /\ index'[u] = index[u]
                                  /\ hooks_end'[u] = hooks_end[u] /\ value'[u] = value[u]
      /\ \A u \in Threads : kept'[u] = kept[u] \ {index[t]}
      /\ UNCHANGED <<priv_end, output>>
      /\ priv_data'[index[t]] = NoHook
      /\ \A i \in Slots \ {index[t]} : priv_data'[i] = priv_data[i]
      /\ \/ pc'[t] = "RemoveEnd" /\ index'[t] = index[t] /\ hooks_end[t] = index[t]
            /\ value'[t] = value[t]
         \/ pc'[t] = "idle" /\ index'[t] = 1 /\ hooks_end[t] # index[t]
  BY <1>1, <1>2 DEF IndInv, TypeOK, RemoveStore, GoTo, Return, Written
<1>5. HolderKnows'
  <2>1. ASSUME pc'[t] = "idle" PROVE Inside(t)'
    BY <2>1 DEF Inside
  <2>2. ASSUME pc'[t] = "RemoveEnd" PROVE Inside(t)'
    <3>1. index'[t] = priv_end' /\ priv_end \in Nat
      BY <1>1, <1>4, <2>2 DEF AtRemoveStore, IndInv, TypeOK, SizeAssumption
    <3>2. \A i \in Slots : i >= index'[t] => i = index[t] \/ i > priv_end
      BY <1>4, <3>1, <2>2 DEF Slots, SizeAssumption
    <3>3. \A i \in Slots : i >= index'[t] => priv_data'[i] = NoHook
      BY <1>1, <1>4, <3>2 DEF Tight
    <3>4. QED
      BY <1>1, <1>2, <1>4, <2>2, <3>1, <3>3 DEF Inside, AtRemoveEnd
  <2>3. Inside(t)'
    BY <1>4, <2>1, <2>2
  <2>4. TightOutside'
    BY <1>1, <1>2, <1>4 DEF IndInv, TypeOK, AtRemoveStore, TightOutside, Tight, Slots, SizeAssumption
  <2>5. QED
    BY <1>1, <1>4, <2>3, <2>4, HolderFrame DEF Locked, Labels
<1>6. TraverseSeen'
  <2>1. SeenBy(t)'
    BY <1>4 DEF SeenBy
  <2>2. \A u \in Threads : kept[u] \subseteq Slots
    BY DEF IndInv, TypeOK
  <2>3. QED
    BY <1>4, <2>1, <2>2, SeenFrame
<1>7. QED
  BY <1>3, <1>5, <1>6 DEF IndInv

(* The end of the list moves.                                                 *)
LEMMA EndKeeps ==
  ASSUME SizeAssumption, IndInv, NEW t \in Threads, AddEnd(t) \/ RemoveEnd(t)
  PROVE  IndInv'
<1>1. /\ pc[t] \in {"AddEnd", "RemoveEnd"} /\ pc'[t] = "idle" /\ index'[t] = 1
      /\ \A u \in Threads \ {t} : /\ pc'[u] = pc[u] /\ index'[u] = index[u]
                                  /\ hooks_end'[u] = hooks_end[u] /\ value'[u] = value[u]
      /\ UNCHANGED <<priv_data, output, kept>>
  BY DEF IndInv, TypeOK, AddEnd, RemoveEnd, Return
<1>2. Tight(priv_end') /\ priv_end' \in 0..kHookListMaxValues
  <2>1. CASE AddEnd(t)
    BY <2>1 DEF IndInv, HolderKnows, Inside, AtAddEnd, AddEnd, Slots, SizeAssumption
  <2>2. CASE RemoveEnd(t)
    BY <2>2 DEF IndInv, HolderKnows, Inside, AtRemoveEnd, RemoveEnd, Slots, SizeAssumption
  <2>3. QED
    BY <2>1, <2>2
<1>3. TypeOK'
  <2>1. /\ pc[t] \in Locked /\ Return(t) /\ Unlock /\ UNCHANGED <<priv_data, output, kept>>
    BY DEF AddEnd, RemoveEnd, Locked, Labels
  <2>2. QED
    BY <1>2, <2>1, ReturnTypes DEF IndInv, TypeOK
<1>4. HolderKnows'
  <2>1. Inside(t)'
    BY <1>1 DEF Inside
  <2>2. TightOutside'
    BY <1>1, <1>2 DEF TightOutside, Tight
  <2>3. QED
    BY <1>1, <2>1, <2>2, HolderFrame DEF Locked, Labels
<1>5. TraverseSeen'
  <2>1. SeenBy(t)'
    BY <1>1 DEF SeenBy
  <2>2. QED
    BY <1>1, <2>1, SeenFrame
<1>6. QED
  BY <1>3, <1>4, <1>5 DEF IndInv

-----------------------------------------------------------------------------
(* A traversal takes no lock and writes nothing that is shared.               *)
LEMMA TraverseFrame ==
  ASSUME SizeAssumption, IndInv, NEW t \in Threads, TypeOK', SeenBy(t)',
         UNCHANGED list, pc'[t] \in {"idle", "Traverse"}, pc[t] \in {"idle", "Traverse"},
         \A u \in Threads \ {t} : /\ pc'[u] = pc[u] /\ index'[u] = index[u]
                                  /\ hooks_end'[u] = hooks_end[u] /\ value'[u] = value[u]
                                  /\ output'[u] = output[u] /\ kept'[u] = kept[u]
  PROVE  IndInv'
<1>1. Inside(t)'
  BY DEF Inside
<1>2. TightOutside'
  BY DEF IndInv, HolderKnows, TightOutside, Tight, list
<1>3. HolderKnows'
  BY <1>1, <1>2, HolderFrame
<1>4. TraverseSeen'
  BY SeenFrame DEF list
<1>5. QED
  BY <1>3, <1>4 DEF IndInv

LEMMA TraverseBeginKeeps ==
  ASSUME SizeAssumption, IndInv, NEW t \in Threads, TraverseBegin(t)
  PROVE  IndInv'
<1>1. TypeOK'
  BY EmptySeq DEF IndInv, TypeOK, TraverseBegin, GoTo, list, Labels, Locked, Filled, Slots
<1>2. /\ UNCHANGED list /\ pc[t] = "idle" /\ pc'[t] = "Traverse"
      /\ kept'[t] = Filled /\ hooks_end'[t] = priv_end /\ UNCHANGED <<index, value>>
      /\ \A u \in Threads \ {t} : /\ pc'[u] = pc[u] /\ hooks_end'[u] = hooks_end[u]
                                  /\ output'[u] = output[u] /\ kept'[u] = kept[u]
  BY DEF IndInv, TypeOK, TraverseBegin, GoTo, list
<1>3. SeenBy(t)'
  BY <1>2 DEF IndInv, TraverseSeen, SeenBy, Filled, Slots, SizeAssumption, list
<1>4. QED
  BY <1>1, <1>2, <1>3, TraverseFrame

LEMMA TraverseReturnKeeps ==
  ASSUME SizeAssumption, IndInv, NEW t \in Threads, TraverseReturn(t)
  PROVE  IndInv'
<1>1. TypeOK'
  BY EmptySeq DEF IndInv, TypeOK, TraverseReturn, Return, list, Labels, Locked, SizeAssumption
<1>2. /\ UNCHANGED list /\ pc[t] = "Traverse" /\ pc'[t] = "idle" /\ index'[t] = 1
      /\ \A u \in Threads \ {t} : /\ pc'[u] = pc[u] /\ index'[u] = index[u]
                                  /\ hooks_end'[u] = hooks_end[u] /\ value'[u] = value[u]
                                  /\ output'[u] = output[u] /\ kept'[u] = kept[u]
  BY DEF IndInv, TypeOK, TraverseReturn, Return
<1>3. SeenBy(t)'
  BY <1>2 DEF SeenBy
<1>4. QED
  BY <1>1, <1>2, <1>3, TraverseFrame

LEMMA TraverseSlotKeeps ==
  ASSUME SizeAssumption, IndInv, NEW t \in Threads, TraverseSlot(t)
  PROVE  IndInv'
<1>1. /\ UNCHANGED list /\ pc[t] = "Traverse" /\ UNCHANGED <<pc, value, hooks_end, kept>>
      /\ index[t] \in Slots /\ index'[t] = index[t] + 1
      /\ \A u \in Threads \ {t} : index'[u] = index[u] /\ output'[u] = output[u]
      /\ output'[t] = IF priv_data[index[t]] = NoHook THEN output[t]
                      ELSE Append(output[t], priv_data[index[t]])
  <2>1. index[t] \in Nat /\ hooks_end[t] \in 0..kHookListMaxValues /\ index[t] >= 1
    BY DEF IndInv, TypeOK, SizeAssumption
  <2>2. index[t] \in Slots
    BY <2>1 DEF TraverseSlot, Slots, SizeAssumption
  <2>3. QED
    BY <2>2 DEF IndInv, TypeOK, TraverseSlot, list
<1>2. /\ output[t] \in Seq(Hooks) /\ Len(output[t]) \in Nat
      /\ priv_data[index[t]] \in Hooks \cup {NoHook}
  BY <1>1, LenProperties DEF IndInv, TypeOK
<1>3. TypeOK'
  <2>1. output'[t] \in Seq(Hooks)
    BY <1>1, <1>2, AppendProperties
  <2>2. QED
    BY <1>1, <2>1 DEF IndInv, TypeOK, TraverseSlot, list, Slots, SizeAssumption
<1>4. ASSUME NEW i \in kept[t]
      PROVE  /\ i <= hooks_end[t] /\ priv_data[i] # NoHook
             /\ i < index'[t] => \E k \in 1..Len(output'[t]) : output'[t][k] = priv_data[i]
  <2>1. /\ i \in Slots /\ i <= hooks_end[t] /\ priv_data[i] # NoHook
        /\ i < index[t] => \E k \in 1..Len(output[t]) : output[t][k] = priv_data[i]
    BY <1>1 DEF IndInv, TypeOK, TraverseSeen, SeenBy
  <2>2. CASE priv_data[index[t]] = NoHook
    BY <1>1, <2>1, <2>2 DEF Slots, SizeAssumption
  <2>3. CASE priv_data[index[t]] # NoHook
    <3>1. /\ Len(output'[t]) = Len(output[t]) + 1
          /\ output'[t][Len(output[t]) + 1] = priv_data[index[t]]
          /\ \A k \in 1..Len(output[t]) : output'[t][k] = output[t][k]
      BY <1>1, <1>2, <2>3, AppendProperties
    <3>2. CASE i < index[t]
      <4>1. PICK k \in 1..Len(output[t]) : output[t][k] = priv_data[i]
        BY <2>1, <3>2
      <4>2. k \in 1..Len(output'[t]) /\ output'[t][k] = priv_data[i]
        BY <1>2, <3>1, <4>1
      <4>3. QED
        BY <2>1, <4>2
    <3>3. CASE i = index[t]
      <4>1. Len(output'[t]) \in 1..Len(output'[t]) /\ output'[t][Len(output'[t])] = priv_data[i]
        BY <1>2, <3>1, <3>3
      <4>2. QED
        BY <2>1, <4>1
    <3>4. i < index'[t] => i < index[t] \/ i = index[t]
      BY <1>1, <2>1 DEF Slots, SizeAssumption
    <3>5. QED
      BY <2>1, <3>2, <3>3, <3>4
  <2>4. QED
    BY <2>2, <2>3
<1>5. SeenBy(t)'
  BY <1>1, <1>4 DEF SeenBy, list
<1>6. QED
  BY <1>1, <1>3, <1>5, TraverseFrame

-----------------------------------------------------------------------------
LEMMA NextKeeps == ASSUME SizeAssumption, IndInv, [Next]_vars PROVE IndInv'
<1>1. CASE UNCHANGED vars
  BY <1>1 DEF vars, IndInv, TypeOK, HolderKnows, TightOutside, Inside, TraverseSeen, SeenBy, Tight,
       AtAddStore, AtAddEnd, AtRemoveStore, AtRemoveEnd
<1>2. CASE Next
  BY <1>2, CallKeeps, LockKeeps, ScanKeeps, ReturnKeeps, AddStoreKeeps, RemoveStoreKeeps, EndKeeps,
     TraverseBeginKeeps, TraverseSlotKeeps, TraverseReturnKeeps DEF Next, Step
<1>3. QED
  BY <1>1, <1>2

LEMMA SpecIndInv == ASSUME SizeAssumption PROVE Spec => []IndInv
<1>1. Init => IndInv
  BY InitIndInv
<1>2. IndInv /\ [Next]_vars => IndInv'
  BY NextKeeps
<1>3. QED
  BY <1>1, <1>2, PTL DEF Spec

(* The variables keep their types, and the spin lock is held by exactly the   *)
(* thread inside the critical section of Add or Remove.                       *)
THEOREM TypeCorrect == ASSUME SizeAssumption PROVE Spec => []TypeOK
<1>1. IndInv => TypeOK
  BY DEF IndInv
<1>2. QED
  BY <1>1, SpecIndInv, PTL

(* malloc_hook-inl.h, priv_end: between the calls of Add and Remove the end   *)
(* is one more than the index of the last hook.                               *)
THEOREM EndTight == ASSUME SizeAssumption PROVE Spec => []EndIsTight
<1>1. IndInv => EndIsTight
  <2> SUFFICES ASSUME IndInv, hooklist_spinlock = NoThread PROVE Tight(priv_end)
    BY DEF EndIsTight
  <2>1. \A t \in Threads : pc[t] \notin Locked
    BY DEF IndInv, TypeOK, SizeAssumption
  <2>2. QED
    BY <2>1 DEF IndInv, HolderKnows, TightOutside, Locked, Labels
<1>2. QED
  BY <1>1, SpecIndInv, PTL

(* malloc_hook.cc, Remove: values past the last valid element are 0, but for  *)
(* the one that Add is about to take in.                                      *)
THEOREM PastEndEmpty == ASSUME SizeAssumption PROVE Spec => []NothingPastEnd
<1>1. IndInv => NothingPastEnd
  <2> SUFFICES ASSUME IndInv, NEW i \in Slots, i > priv_end, priv_data[i] # NoHook
               PROVE  \E t \in Threads : pc[t] = "AddEnd" /\ index[t] = i
    BY DEF NothingPastEnd
  <2>1. PICK t \in Threads : pc[t] \in {"AddEnd", "RemoveEnd"}
    BY DEF IndInv, HolderKnows, TightOutside, Tight
  <2>2. CASE pc[t] = "AddEnd"
    <3>1. AtAddEnd(t)
      BY <2>2 DEF IndInv, HolderKnows, Inside
    <3>2. index[t] = i
      BY <3>1 DEF AtAddEnd, Tight, IndInv, TypeOK, Slots, SizeAssumption
    <3>3. QED
      BY <2>2, <3>2
  <2>3. CASE pc[t] = "RemoveEnd"
    BY <2>3 DEF IndInv, HolderKnows, Inside, AtRemoveEnd, TypeOK, Slots, SizeAssumption
  <2>4. QED
    BY <2>1, <2>2, <2>3
<1>2. QED
  BY <1>1, SpecIndInv, PTL

(* malloc_hook.cc, Traverse: without the lock it returns every hook that was  *)
(* there from its beginning to its end, whatever Add and Remove do meanwhile. *)
THEOREM TraversalComplete == ASSUME SizeAssumption PROVE Spec => []TraverseComplete
<1>1. IndInv => TraverseComplete
  <2> SUFFICES ASSUME IndInv, NEW t \in Threads, pc[t] = "Traverse", index[t] > hooks_end[t],
                      NEW i \in kept[t]
               PROVE  \E k \in 1..Len(output[t]) : output[t][k] = priv_data[i]
    BY DEF TraverseComplete
  <2>1. /\ i <= hooks_end[t]
        /\ i < index[t] => \E k \in 1..Len(output[t]) : output[t][k] = priv_data[i]
    BY DEF IndInv, TraverseSeen, SeenBy
  <2>2. i \in Nat /\ index[t] \in Nat /\ hooks_end[t] \in Nat
    BY DEF IndInv, TypeOK, Slots, SizeAssumption
  <2>3. QED
    BY <2>1, <2>2
<1>2. QED
  BY <1>1, SpecIndInv, PTL

-----------------------------------------------------------------------------
(* The list as an implementation of a bag of hooks.                           *)

(* A slot that comes into use adds a copy of its hook.                        *)
LEMMA FilledIsAdd ==
  ASSUME NEW i \in Slots \ Filled, Filled' = Filled \cup {i}, priv_data'[i] \in Hooks,
         \A j \in Filled : priv_data'[j] = priv_data[j]
  PROVE  Bag!Next
<1>1. DOMAIN Registered = Filled
  BY DEF Registered
<1>2. i \in (1..kHookListMaxValues) \ DOMAIN Registered
  BY <1>1 DEF Slots
<1>3. Registered' = [j \in DOMAIN Registered \cup {i} |->
                       IF j = i THEN priv_data'[i] ELSE Registered[j]]
  BY <1>1 DEF Registered
<1>4. QED
  BY <1>2, <1>3 DEF Bag!Next, Bag!Add

(* One that is cleared takes a copy of it away.                               *)
LEMMA ClearedIsRemove ==
  ASSUME NEW i \in Filled, Filled' = Filled \ {i}, priv_data[i] \in Hooks,
         \A j \in Filled \ {i} : priv_data'[j] = priv_data[j]
  PROVE  Bag!Next
<1>1. DOMAIN Registered = Filled
  BY DEF Registered
<1>2. i \in DOMAIN Registered /\ Registered[i] = priv_data[i]
  BY <1>1 DEF Registered
<1>3. Registered' = [j \in DOMAIN Registered \ {i} |-> Registered[j]]
  BY <1>1 DEF Registered
<1>4. QED
  BY <1>2, <1>3 DEF Bag!Next, Bag!Remove

LEMMA SameSlots ==
  ASSUME Filled' = Filled, \A j \in Filled : priv_data'[j] = priv_data[j]
  PROVE  Registered' = Registered
  BY DEF Registered

(* The four stores of Add and Remove: the one of Add below the end and the    *)
(* one that moves the end add, the one that clears a slot removes, and to     *)
(* lower the end over cleared slots changes nothing.                          *)
LEMMA StoreImplements ==
  ASSUME SizeAssumption, IndInv, NEW t \in Threads,
         AddStore(t) \/ AddEnd(t) \/ RemoveStore(t) \/ RemoveEnd(t)
  PROVE  Bag!Next \/ UNCHANGED Registered
<1>0. /\ priv_end \in Nat /\ priv_data \in [Slots -> Hooks \cup {NoHook}] /\ NoHook \notin Hooks
      /\ Slots \subseteq Nat /\ index[t] \in Nat
      /\ \A i \in Slots : priv_data[i] # NoHook => priv_data[i] \in Hooks
      /\ pc[t] \in {"AddStore", "AddEnd", "RemoveStore", "RemoveEnd"} => Inside(t)
  BY DEF IndInv, TypeOK, HolderKnows, Slots, SizeAssumption
<1>1. CASE AddStore(t)
  <2>1. AtAddStore(t) /\ value[t] \in Hooks
    BY <1>0, <1>1 DEF AddStore, Inside, Labels
  <2>2. /\ priv_data' = [priv_data EXCEPT ![index[t]] = value[t]]
        /\ UNCHANGED priv_end
    BY <1>1 DEF AddStore
  <2>3. index[t] \in Slots \ Filled
    BY <2>1 DEF AtAddStore, Filled
  <2>4. /\ priv_data'[index[t]] = value[t]
        /\ \A j \in Slots \ {index[t]} : priv_data'[j] = priv_data[j]
    BY <1>0, <2>2, <2>3
  <2>5. CASE index[t] <= priv_end
    <3>1. Filled' = Filled \cup {index[t]}
      BY <1>0, <2>1, <2>2, <2>3, <2>4, <2>5 DEF Filled, Slots
    <3>2. QED
      BY <2>1, <2>3, <2>4, <3>1, FilledIsAdd DEF Filled
  <2>6. CASE index[t] > priv_end
    <3>1. Filled' = Filled
      BY <1>0, <2>2, <2>4, <2>6 DEF Filled, Slots
    <3>2. QED
      BY <2>3, <2>4, <3>1, SameSlots DEF Filled
  <2>7. QED
    BY <1>0, <2>5, <2>6
<1>2. CASE AddEnd(t)
  <2>1. AtAddEnd(t)
    BY <1>0, <1>2 DEF AddEnd, Inside
  <2>2. priv_end' = index[t] /\ UNCHANGED priv_data
    BY <1>2 DEF AddEnd
  <2>3. index[t] \in Slots \ Filled /\ priv_data'[index[t]] \in Hooks
    BY <1>0, <2>1, <2>2 DEF AtAddEnd, Filled, Tight, Slots
  <2>4. Filled' = Filled \cup {index[t]}
    BY <1>0, <2>1, <2>2, <2>3 DEF AtAddEnd, Filled, Slots
  <2>5. QED
    BY <2>2, <2>3, <2>4, FilledIsAdd
<1>3. CASE RemoveStore(t)
  <2>1. AtRemoveStore(t)
    BY <1>0, <1>3 DEF RemoveStore, Inside
  <2>2. /\ priv_data' = [priv_data EXCEPT ![index[t]] = NoHook]
        /\ UNCHANGED priv_end
    BY <1>3 DEF RemoveStore
  <2>3. index[t] \in Slots
    BY <2>1 DEF AtRemoveStore, IndInv, TypeOK, Slots, SizeAssumption
  <2>4. /\ priv_data'[index[t]] = NoHook
        /\ \A j \in Slots \ {index[t]} : priv_data'[j] = priv_data[j]
    BY <1>0, <2>2, <2>3
  <2>5. Filled' = Filled \ {index[t]}
    BY <2>2, <2>3, <2>4 DEF Filled, Slots
  <2>6. CASE index[t] \in Filled
    <3>1. priv_data[index[t]] \in Hooks
      BY <1>0, <2>3, <2>6 DEF Filled
    <3>2. QED
      BY <2>4, <2>5, <2>6, <3>1, ClearedIsRemove DEF Filled
  <2>7. CASE index[t] \notin Filled
    BY <2>4, <2>5, <2>7, SameSlots DEF Filled
  <2>8. QED
    BY <2>6, <2>7
<1>4. CASE RemoveEnd(t)
  <2>1. AtRemoveEnd(t)
    BY <1>0, <1>4 DEF RemoveEnd, Inside
  <2>2. PICK e \in 0..(index[t] - 1) : Tight(e) /\ priv_end' = e
    BY <1>4 DEF RemoveEnd
  <2>3. UNCHANGED priv_data
    BY <1>4 DEF RemoveEnd
  <2>4. Filled' = Filled
    <3>1. e \in Nat /\ e < priv_end
      BY <1>0, <2>1, <2>2 DEF AtRemoveEnd
    <3>2. \A i \in Slots : i > e => priv_data[i] = NoHook
      BY <2>2 DEF Tight
    <3>3. \A i \in Slots : priv_data[i] # NoHook => i \in Nat /\ i <= e
      <4> SUFFICES ASSUME NEW i \in Slots, priv_data[i] # NoHook
                   PROVE  i \in Nat /\ i <= e
        OBVIOUS
      <4>1. i \in Nat /\ ~(i > e)
        BY <1>0, <3>2
      <4>2. QED
        BY <3>1, <4>1
    <3>4. \A i \in Slots : i <= priv_end' /\ priv_data'[i] # NoHook
                             <=> i <= priv_end /\ priv_data[i] # NoHook
      BY <1>0, <2>2, <2>3, <3>1, <3>3
    <3>5. QED
      BY <2>3, <3>4 DEF Filled, Slots
  <2>5. QED
    BY <2>3, <2>4, SameSlots
<1>5. QED
  BY <1>1, <1>2, <1>3, <1>4

LEMMA StepImplements ==
  ASSUME SizeAssumption, IndInv, [Next]_vars
  PROVE  Bag!Next \/ UNCHANGED Registered
<1>1. ASSUME UNCHANGED list PROVE UNCHANGED Registered
  BY <1>1 DEF list, Registered, Filled
<1>2. ASSUME NEW t \in Threads,
             \/ \E h \in Hooks, op \in {"Add", "Remove"} : Call(t, op, h)
             \/ TraverseBegin(t) \/ Lock(t) \/ AddFull(t) \/ AddScan(t)
             \/ RemoveAbsent(t) \/ RemoveScan(t) \/ TraverseSlot(t) \/ TraverseReturn(t)
      PROVE  UNCHANGED list
  BY <1>2 DEF Call, TraverseBegin, Lock, AddFull, AddScan, RemoveAbsent, RemoveScan, TraverseSlot,
              TraverseReturn
<1>3. CASE UNCHANGED vars
  BY <1>1, <1>3 DEF vars, list
<1>4. CASE Next
  BY <1>1, <1>2, <1>4, StoreImplements DEF Next, Step
<1>5. QED
  BY <1>3, <1>4

(* malloc_hook.cc, Add and Remove: with its slots, its end, its lock and the  *)
(* readers that take no lock, the list is a bag of at most kHookListMaxValues *)
(* hooks, of which every call adds or removes one copy in a single step.      *)
THEOREM ListIsBag == ASSUME SizeAssumption PROVE Spec => ImplementsHookBag
<1>1. Init => Bag!Init
  <2> SUFFICES ASSUME Init PROVE Registered = [i \in {} |-> i]
    BY DEF Bag!Init
  <2>1. Filled = {}
    BY DEF Init, Filled, Slots, SizeAssumption
  <2>2. QED
    BY <2>1 DEF Registered
<1>2. IndInv /\ [Next]_vars => [Bag!Next]_Registered
  BY StepImplements
<1>3. QED
  BY <1>1, <1>2, SpecIndInv, PTL DEF Spec, ImplementsHookBag, Bag!Spec
=============================================================================
