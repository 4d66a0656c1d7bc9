------------------------------- MODULE HookList -------------------------------
(* HookList of malloc_hook-inl.h / malloc_hook.cc: a fixed array of hooks,    *)
(* Add and Remove under hooklist_spinlock, Traverse without a lock.  A step   *)
(* is one access to priv_end or priv_data that another thread can tell apart: *)
(* the scans of Add and Remove are one step, since only the lock's holder     *)
(* writes.  Slots are numbered from 1, so an index of the code is one less.   *)
EXTENDS Naturals, Sequences

CONSTANTS Threads, Hooks, NoHook, NoThread, kHookListMaxValues

SizeAssumption == kHookListMaxValues \in Nat \ {0} /\ NoHook \notin Hooks /\ NoThread \notin Threads

VARIABLES priv_end, priv_data,
          hooklist_spinlock,   \* its holder
          pc, value, index, hooks_end,
          output,              \* what Traverse has stored so far
          kept                 \* slots filled when the traversal began and
                               \* not written since

vars == <<priv_end, priv_data, hooklist_spinlock, pc, value, index, hooks_end,
          output, kept>>
list == <<priv_end, priv_data>>

Slots == 1..kHookListMaxValues

Filled == {i \in Slots : i <= priv_end /\ priv_data[i] # NoHook}

Init == /\ priv_end = 0
        /\ priv_data = [i \in Slots |-> NoHook]
        /\ hooklist_spinlock = NoThread
        /\ pc = [t \in Threads |-> "idle"]
        /\ value = [t \in Threads |-> NoHook]
        /\ index = [t \in Threads |-> 1]
        /\ hooks_end = [t \in Threads |-> 0]
        /\ output = [t \in Threads |-> <<>>]
        /\ kept = [t \in Threads |-> {}]

(* The end of a call; the locals are dead.                                   *)
Return(t) == /\ pc' = [pc EXCEPT ![t] = "idle"]
             /\ value' = [value EXCEPT ![t] = NoHook]
             /\ index' = [index EXCEPT ![t] = 1]
             /\ hooks_end' = [hooks_end EXCEPT ![t] = 0]

Unlock == hooklist_spinlock' = NoThread

GoTo(t, label) == pc' = [pc EXCEPT ![t] = label]

(* Add and Remove refuse a null hook before they take the lock.              *)
Call(t, op, h) ==
    /\ pc[t] = "idle"
    /\ h # NoHook
    /\ GoTo(t, op)
    /\ value' = [value EXCEPT ![t] = h]
    /\ UNCHANGED <<list, hooklist_spinlock, index, hooks_end, output, kept>>

Lock(t) ==
    /\ pc[t] \in {"Add", "Remove"}
    /\ hooklist_spinlock = NoThread
    /\ hooklist_spinlock' = t
    /\ GoTo(t, IF pc[t] = "Add" THEN "AddScan" ELSE "RemoveScan")
    /\ UNCHANGED <<list, value, index, hooks_end, output, kept>>

(* Mutant: a full list gives the last slot.                                  *)
FirstFreeOrLast == {i \in Slots : /\ priv_data[i] = NoHook \/ i = kHookListMaxValues
                                  /\ \A j \in 1..(i - 1) : priv_data[j] # NoHook}

FirstFree == {i \in Slots : /\ priv_data[i] = NoHook
                            /\ \A j \in 1..(i - 1) : priv_data[j] # NoHook}

(* Every slot taken: false.                                                  *)
AddFull(t) ==
    /\ pc[t] = "AddScan"
    /\ FirstFree = {}
    /\ Return(t)
    /\ Unlock
    /\ UNCHANGED <<list, output, kept>>

AddScan(t) ==
    /\ pc[t] = "AddScan"
    /\ \E i \in FirstFree : index' = [index EXCEPT ![t] = i]
    /\ hooks_end' = [hooks_end EXCEPT ![t] = priv_end]
    /\ GoTo(t, "AddStore")
    /\ UNCHANGED <<list, hooklist_spinlock, value, output, kept>>

(* A store to slot i ends the guarantee a running traversal has about it.    *)
Written(i) == kept' = [t \in Threads |-> kept[t] \ {i}]

AddStore(t) ==
    /\ pc[t] = "AddStore"
    /\ priv_data' = [priv_data EXCEPT ![index[t]] = value[t]]
    /\ Written(index[t])
    /\ IF hooks_end[t] < index[t]
       THEN GoTo(t, "AddEnd")
            /\ UNCHANGED <<hooklist_spinlock, value, index, hooks_end>>
       ELSE Return(t) /\ Unlock
    /\ UNCHANGED <<priv_end, output>>

AddEnd(t) ==
    /\ pc[t] = "AddEnd"
    /\ priv_end' = index[t]
    /\ Return(t)
    /\ Unlock
    /\ UNCHANGED <<priv_data, output, kept>>

FirstMatch(h) == {i \in 1..priv_end : /\ priv_data[i] = h
                                      /\ \A j \in 1..(i - 1) : priv_data[j] # h}

RemoveAbsent(t) ==
    /\ pc[t] = "RemoveScan"
    /\ FirstMatch(value[t]) = {}
    /\ Return(t)
    /\ Unlock
    /\ UNCHANGED <<list, output, kept>>

RemoveScan(t) ==
    /\ pc[t] = "RemoveScan"
    /\ \E i \in FirstMatch(value[t]) : index' = [index EXCEPT ![t] = i]
    /\ hooks_end' = [hooks_end EXCEPT ![t] = priv_end]
    /\ GoTo(t, "RemoveStore")
    /\ UNCHANGED <<list, hooklist_spinlock, value, output, kept>>

RemoveStore(t) ==
    /\ pc[t] = "RemoveStore"
    /\ priv_data' = [priv_data EXCEPT ![index[t]] = NoHook]
    /\ Written(index[t])
    /\ IF hooks_end[t] = index[t]
       THEN GoTo(t, "RemoveEnd")
            /\ UNCHANGED <<hooklist_spinlock, value, index, hooks_end>>
       ELSE Return(t) /\ Unlock
    /\ UNCHANGED <<priv_end, output>>

(* The lowest end that leaves no hook behind it.                             *)
Tight(e) == /\ \A i \in Slots : i > e => priv_data[i] = NoHook
            /\ e > 0 => priv_data[e] # NoHook

RemoveEnd(t) ==
    /\ pc[t] = "RemoveEnd"
    /\ \E e \in 0..(index[t] - 1) : Tight(e) /\ priv_end' = e
    /\ Return(t)
    /\ Unlock
    /\ UNCHANGED <<priv_data, output, kept>>

(* Traverse reads priv_end once, then the slots below it one by one.         *)
TraverseBegin(t) ==
    /\ pc[t] = "idle"
    /\ hooks_end' = [hooks_end EXCEPT ![t] = priv_end]
    /\ output' = [output EXCEPT ![t] = <<>>]
    /\ kept' = [kept EXCEPT ![t] = Filled]
    /\ GoTo(t, "Traverse")
    /\ UNCHANGED <<list, hooklist_spinlock, value, index>>

TraverseSlot(t) ==
    /\ pc[t] = "Traverse"
    /\ index[t] <= hooks_end[t]
    /\ output' = [output EXCEPT ![t] =
                    IF priv_data[index[t]] = NoHook THEN @
                    ELSE Append(@, priv_data[index[t]])]
    /\ index' = [index EXCEPT ![t] = @ + 1]
    /\ UNCHANGED <<list, hooklist_spinlock, pc, value, hooks_end, kept>>

TraverseReturn(t) ==
    /\ pc[t] = "Traverse"
    /\ index[t] > hooks_end[t]
    /\ Return(t)
    /\ output' = [output EXCEPT ![t] = <<>>]
    /\ kept' = [kept EXCEPT ![t] = {}]
    /\ UNCHANGED <<list, hooklist_spinlock>>

Step(t) == \/ Lock(t)
           \/ AddFull(t) \/ AddScan(t) \/ AddStore(t) \/ AddEnd(t)
           \/ RemoveAbsent(t) \/ RemoveScan(t) \/ RemoveStore(t) \/ RemoveEnd(t)
           \/ TraverseSlot(t) \/ TraverseReturn(t)

Next == \E t \in Threads :
          \/ \E h \in Hooks, op \in {"Add", "Remove"} : Call(t, op, h)
          \/ TraverseBegin(t)
          \/ Step(t)

Spec == Init /\ [][Next]_vars

-----------------------------------------------------------------------------
Labels == {"idle", "Add", "Remove", "AddScan", "AddStore", "AddEnd",
           "RemoveScan", "RemoveStore", "RemoveEnd", "Traverse"}
Locked == Labels \ {"idle", "Add", "Remove", "Traverse"}

(* The variables keep their types, and the spin lock is held by exactly the   *)
(* thread that is inside Add's or Remove's critical section.                  *)
TypeOK ==
    /\ priv_end \in 0..kHookListMaxValues
    /\ priv_data \in [Slots -> Hooks \cup {NoHook}]
    /\ pc \in [Threads -> Labels]
    /\ value \in [Threads -> Hooks \cup {NoHook}]
    /\ index \in [Threads -> 1..(kHookListMaxValues + 1)]
    /\ hooks_end \in [Threads -> 0..kHookListMaxValues]
    /\ output \in [Threads -> Seq(Hooks)]
    /\ kept \in [Threads -> SUBSET Slots]
    /\ hooklist_spinlock \in Threads \cup {NoThread}
    /\ \A t \in Threads : pc[t] \in Locked <=> hooklist_spinlock = t

(* priv_end is one more than the index of the last valid element while no     *)
(* call is under way, so that empty() is exact and a traversal is as short as *)
(* can be (the comment on priv_end in malloc_hook-inl.h).                     *)
EndIsTight == hooklist_spinlock = NoThread => Tight(priv_end)

(* During Remove, values past the last valid element are 0; only Add stores a *)
(* hook past the end, just before it moves the end.                           *)
NothingPastEnd ==
    \A i \in Slots : (i > priv_end /\ priv_data[i] # NoHook) =>
        \E t \in Threads : pc[t] = "AddEnd" /\ index[t] = i

(* A hook that was registered when a lock-free traversal began and is still   *)
(* there when it ends is in its output, whatever Add and Remove did to the    *)
(* other slots and to the end meanwhile.                                      *)
TraverseComplete ==
    \A t \in Threads : (pc[t] = "Traverse" /\ index[t] > hooks_end[t]) =>
        \A i \in kept[t] : \E k \in 1..Len(output[t]) : output[t][k] = priv_data[i]

(* The bag of hooks (HookBag): what the slots below the end hold.            *)
Registered == [i \in Filled |-> priv_data[i]]
Bag == INSTANCE HookBag WITH Capacity <- kHookListMaxValues, bag <- Registered

(* malloc_hook.cc:210: with its slots, its end, its lock and the readers that *)
(* take no lock, a list of hooks is a bag of at most kHookListMaxValues hooks *)
(* to which a call adds, or from which it takes, one copy in a single step.   *)
ImplementsHookBag == Bag!Spec
=============================================================================
