----------------------------- MODULE AtomicOps -----------------------------
(* Threads run the atomic operations of one platform header on one word, a  *)
(* step per access of memory.  AtomicPlatforms says which accesses; here    *)
(* they interleave, reservations get lost and store-conditionals fail.      *)
EXTENDS AtomicPlatforms, TLC, TLAPS

CONSTANTS
  Threads,
  Size,          \* words are 0 .. Size - 1, with halves of sqrt(Size)
  Half,          \* the low half of a word is its value modulo Half
  UsedPlatforms, \* the headers that are checked
  UsedOps,       \* the operations the threads call
  OldValues, NewValues   \* the arguments of the calls

WordConstants ==
  /\ Half \in Nat \ {0} /\ Size = Half * Half
  /\ UsedPlatforms \subseteq Platforms /\ UsedOps \subseteq Ops
  /\ OldValues \subseteq 0 .. Size - 1 /\ NewValues \subseteq 0 .. Size - 1

VARIABLES
  platform,
  word,     \* *ptr
  th        \* per thread: its call and where it is

vars == <<platform, word, th>>

Words == 0 .. Size - 1
Features == [has_amd_lock_mb_bug |-> FALSE, has_sse2 |-> TRUE]
Idle == [pc |-> "idle", op |-> "none", old |-> 0, new |-> 0, expect |-> 0, store |-> 0,
         r |-> 0, link |-> FALSE]
Code(t) == AtomicWordForward(platform, th[t].op, Features)

Init ==
  /\ platform \in UsedPlatforms
  /\ word \in Words
  /\ th = [t \in Threads |-> Idle]

Running == \A t \in Threads : th[t].pc # "aborted"

-----------------------------------------------------------------------------
(* The primitive of an operation with what it expects and what it stores.   *)
Enter(c) == CASE c.prim = "llsc" -> "ll" [] c.prim = "abort" -> "abort"
              [] c.prim = "access" -> "access" [] OTHER -> "locked"

Stored(op, new, w) == IF op \in Increments THEN (w + new) % Size ELSE new

Begun(op, old, new) ==
  LET c == AtomicWordForward(platform, op, Features)
  IN [Idle EXCEPT !.op = op, !.old = old, !.new = new, !.expect = old, !.store = new,
                  !.pc = IF c.loop = "read_first" /\ c.prim # "abort" THEN "read" ELSE Enter(c)]

Call(t) ==
  /\ Running /\ th[t].pc = "idle"
  /\ \E op \in UsedOps, old \in OldValues, new \in NewValues :
       /\ op \in Loads \cup Stores \cup {"NoBarrier_AtomicExchange"} \cup Increments => old = 0
       /\ op \in Loads => new = 0
       /\ th' = [th EXCEPT ![t] = Begun(op, old, new)]
  /\ UNCHANGED <<platform, word>>

(* The load that feeds a compare-and-swap.                                  *)
Read(t) ==
  /\ Running /\ th[t].pc = "read"
  /\ th' = [th EXCEPT ![t].expect = word, ![t].store = Stored(th[t].op, th[t].new, word),
                      ![t].pc = Enter(Code(t))]
  /\ UNCHANGED <<platform, word>>

Done(t, result) == [th[t] EXCEPT !.pc = "done", !.r = result, !.expect = 0, !.store = 0,
                                 !.link = FALSE]

(* A store to the word clears every reservation on it.                      *)
Write(t, w, mine) ==
  /\ word' = w
  /\ th' = [u \in Threads |-> IF u = t THEN mine ELSE [th[u] EXCEPT !.link = FALSE]]

(* The compare-and-swap found another value: once, the value is returned;   *)
(* reread, it is loaded again; read_first, everything starts over.          *)
Missed(t, prev) ==
  CASE Code(t).loop = "once" -> Done(t, prev)
    [] Code(t).loop = "reread" -> [th[t] EXCEPT !.pc = "reread", !.link = FALSE]
    [] OTHER -> [th[t] EXCEPT !.pc = "read", !.link = FALSE]

(* A swap succeeded where the word was prev.                                *)
Swapped(t, prev) ==
  CASE th[t].op \in Increments -> Done(t, th[t].store)
    [] th[t].op \in Stores -> Done(t, 0)
    [] OTHER -> Done(t, prev)

Compares(t) == th[t].op \in CompareAndSwaps \/ Code(t).loop = "read_first"
Matches(t) ==
  IF Code(t).half THEN word % Half = th[t].expect % Half ELSE word = th[t].expect

(* One instruction or library call.                                         *)
Locked(t) ==
  /\ Running /\ th[t].pc = "locked"
  /\ IF ~Compares(t)
       THEN LET s == Stored(th[t].op, th[t].new, word)
            IN Write(t, s, IF th[t].op \in Increments THEN Done(t, s) ELSE
                           IF th[t].op \in Stores THEN Done(t, 0) ELSE Done(t, word))
       ELSE IF Matches(t)
              THEN Write(t, th[t].store, Swapped(t, word))
              ELSE th' = [th EXCEPT ![t] = Missed(t, word)] /\ UNCHANGED word
  /\ UNCHANGED platform

(* Load-linked, and the comparison on the loaded value.                     *)
LoadLinked(t) ==
  /\ Running /\ th[t].pc = "ll"
  /\ IF Compares(t) /\ ~Matches(t)
       THEN th' = [th EXCEPT ![t] = Missed(t, word)]
       ELSE th' = [th EXCEPT ![t].pc = "sc", ![t].r = word, ![t].link = TRUE,
                     ![t].store = IF Compares(t) THEN @ ELSE Stored(th[t].op, th[t].new, word)]
  /\ UNCHANGED <<platform, word>>

(* A boolean compare-and-swap answers prev == old_value; with a half        *)
(* comparison that can be false after the store.                            *)
StoreConditional(t) ==
  /\ Running /\ th[t].pc = "sc" /\ th[t].link
  /\ Write(t, th[t].store,
           IF Code(t).loop # "once" /\ th[t].r # th[t].expect
             THEN [Missed(t, th[t].r) EXCEPT !.r = 0]
             ELSE Swapped(t, th[t].r))
  /\ UNCHANGED platform

(* The reservation is gone, or lost for no reason: from the start.          *)
StoreConditionalFails(t) ==
  /\ Running /\ th[t].pc = "sc"
  /\ th' = [th EXCEPT ![t].pc = "ll", ![t].link = FALSE, ![t].r = 0]
  /\ UNCHANGED <<platform, word>>

(* Mutant: the value read again is returned even when it is old_value, so   *)
(* the caller believes in a swap.                                           *)
RereadOnce(t) ==
  /\ Running /\ th[t].pc = "reread"
  /\ th' = [th EXCEPT ![t] = Done(t, word)]
  /\ UNCHANGED <<platform, word>>

(* prev_value = *ptr after a failed boolean compare-and-swap.               *)
Reread(t) ==
  /\ Running /\ th[t].pc = "reread"
  /\ th' = [th EXCEPT ![t] = IF word = th[t].old THEN [th[t] EXCEPT !.pc = Enter(Code(t))]
                             ELSE Done(t, word)]
  /\ UNCHANGED <<platform, word>>

(* Plain aligned loads and stores.                                          *)
Access(t) ==
  /\ Running /\ th[t].pc = "access"
  /\ IF th[t].op \in Stores THEN Write(t, th[t].new, Done(t, 0))
     ELSE th' = [th EXCEPT ![t] = Done(t, word)] /\ UNCHANGED word
  /\ UNCHANGED platform

Abort(t) ==
  /\ Running /\ th[t].pc = "abort"
  /\ th' = [th EXCEPT ![t].pc = "aborted"]
  /\ UNCHANGED <<platform, word>>

Return(t) ==
  /\ Running /\ th[t].pc = "done"
  /\ th' = [th EXCEPT ![t] = Idle]
  /\ UNCHANGED <<platform, word>>

(* abort() has ended the process.                                           *)
Aborted == ~Running /\ UNCHANGED vars

Step(t) ==
  \/ Read(t) \/ Locked(t) \/ LoadLinked(t) \/ StoreConditional(t)
  \/ StoreConditionalFails(t) \/ Reread(t) \/ Access(t) \/ Abort(t) \/ Return(t)

Next == (\E t \in Threads : Call(t) \/ Step(t)) \/ Aborted

Spec == Init /\ [][Next]_vars

-----------------------------------------------------------------------------
TypeOK ==
  /\ platform \in UsedPlatforms /\ word \in Words
  /\ \A t \in Threads : /\ th[t].expect \in Words /\ th[t].store \in Words
                        /\ th[t].r \in Words
                        /\ th[t].link => th[t].pc = "sc"

(* The calls as their callers see them.                                     *)
Seen == [t \in Threads |->
  CASE th[t].pc = "idle" -> [stage |-> "idle"]
    [] th[t].pc = "done" -> [stage |-> "done", result |-> th[t].r]
    [] OTHER -> [stage |-> "called", op |-> th[t].op, old |-> th[t].old, new |-> th[t].new]]

-----------------------------------------------------------------------------
(* Every header but that of 64-bit PowerPC, whose compare looks at half a   *)
(* word, keeps the promise of atomicops.h, for words of any size.           *)
WholeWords == "ppc/64" \notin UsedPlatforms

Abstract == INSTANCE AtomicWord WITH call <- Seen

(* What the tables have in common: loads and stores alone are plain         *)
(* accesses, a compare-and-swap does not loop over a load, and what loops   *)
(* over a load is an exchange or an increment or a store.                   *)
Sound(op, c) ==
  /\ c.half = FALSE
  /\ c.prim \in {"access", "locked", "os", "llsc", "abort"}
  /\ c.loop \in {"once", "reread", "read_first"}
  /\ c.prim = "access" => op \in Stores \cup Loads
  /\ op \in Loads => c.prim \in {"access", "abort"}
  /\ c.loop # "once" => c.prim \notin {"access", "abort"}
  /\ c.loop = "reread" => op \in CompareAndSwaps
  /\ c.loop = "read_first" => op \notin CompareAndSwaps

(* The compare-and-swap keeps its arguments, a loop keeps what it computed  *)
(* from the value it read, and a reservation vouches for the value loaded.  *)
CallOK(t) ==
  LET k == th[t]
  IN /\ k.pc \notin {"idle", "done"} => k.op \in UsedOps
     /\ k.pc \in {"read", "locked", "ll", "sc", "reread"} => k.op \notin Loads
     /\ k.pc = "access" => k.op \in Stores \cup Loads
     /\ k.pc = "read" => Code(t).loop = "read_first"
     /\ k.pc = "reread" => Code(t).loop = "reread"
     /\ k.pc \in {"locked", "ll", "sc", "reread"} /\ k.op \in CompareAndSwaps =>
          k.expect = k.old /\ k.store = k.new
     /\ k.pc \in {"locked", "ll", "sc"} /\ Code(t).loop = "read_first" =>
          k.store = Stored(k.op, k.new, k.expect)
     /\ k.pc = "sc" => IF Compares(t) THEN k.r = k.expect ELSE k.store = Stored(k.op, k.new, k.r)
     /\ k.link => k.pc = "sc" /\ k.r = word

Records ==
  [pc : {"idle", "read", "locked", "ll", "sc", "reread", "access", "abort", "aborted", "done"},
   op : UsedOps \cup {"none"}, old : Words, new : Words, expect : Words, store : Words,
   r : Words, link : BOOLEAN]

IndInv ==
  /\ platform \in UsedPlatforms /\ word \in Words /\ th \in [Threads -> Records]
  /\ \A t \in Threads : CallOK(t)

LEMMA CodeIsSound ==
  ASSUME NEW p \in Platforms \ {"ppc/64"}, NEW op \in Ops
  PROVE  Sound(op, AtomicWordForward(p, op, Features))
<1> USE DEF Sound, AtomicWordForward, Table, Features, Ops, CompareAndSwaps, Increments, Stores,
            Loads, ReadModifyWrites, Op
<1>1. CASE p = "x86"
  BY <1>1 DEF X86_Ops32
<1>2. CASE p = "x86_64/64"
  BY <1>2 DEF X86_64_Ops64
<1>3. CASE p = "i386/64"
  BY <1>3 DEF I386_Ops64, X86_64_Ops64
<1>4. CASE p \in {"arm_v6", "arm_v6/64", "arm_v6_no_ldrexd/64"}
  BY <1>4 DEF ArmV6_Ops32, ArmV6_Ops64, ArmV6_NoLdrexd, FencedAround
<1>5. CASE p \in {"arm_generic", "arm_generic/64"}
  BY <1>5 DEF ArmGeneric_Ops32, ArmGeneric_Ops64, FencedAround, NotImplementedFatalError
<1>6. CASE p = "ppc"
  BY <1>6 DEF PPC_Ops32, PPC_Access
<1>7. CASE p = "mac"
  BY <1>7 DEF Mac_Ops32, OSAtomic, FencedAround
<1>8. CASE p \in {"mac/64", "mac_i386/64"}
  BY <1>8 DEF Mac_RMW64, Mac_Access64, Mac_Access64On32, OSAtomic, FencedAround
<1>9. CASE p \in {"windows", "win64/64", "win32/64"}
  BY <1>9 DEF Windows_Ops32, Win64_Ops64, Win32_Ops64, FastInterlocked, FastInterlocked64,
              NotImplementedFatalError
<1> QED
  BY <1>1, <1>2, <1>3, <1>4, <1>5, <1>6, <1>7, <1>8, <1>9 DEF Platforms

LEMMA StoredIsWord ==
  ASSUME WordConstants
  PROVE  /\ Size \in Nat \ {0} /\ 0 \in Words
         /\ \A op \in Ops, new, w \in Words : Stored(op, new, w) \in Words
<1>1. Size \in Nat \ {0}
  <2>1. \A h \in Nat \ {0} : h * h \in Nat \ {0}
    OBVIOUS
  <2> QED
    BY <2>1 DEF WordConstants
<1>2. \A a, b \in 0 .. Size - 1 : (a + b) % Size \in 0 .. Size - 1
  BY <1>1
<1>3. 0 \in Words
  BY <1>1 DEF Words
<1>4. ASSUME NEW op \in Ops, NEW new \in Words, NEW w \in Words PROVE Stored(op, new, w) \in Words
  <2>1. (w + new) % Size \in Words
    BY <1>2 DEF Words
  <2> QED
    BY <2>1 DEF Stored
<1> QED
  BY <1>1, <1>3, <1>4

LEMMA CodeHere ==
  ASSUME WordConstants, WholeWords, IndInv, NEW t \in Threads, th[t].pc \notin {"idle", "done"}
  PROVE  th[t].op \in Ops /\ Sound(th[t].op, Code(t))
<1>1. th[t].op \in Ops /\ platform \in Platforms \ {"ppc/64"}
  BY DEF WordConstants, WholeWords, IndInv, CallOK
<1> QED
  BY <1>1, CodeIsSound DEF Code

(* A step of one thread leaves the calls of the others as they are, but for *)
(* their reservations when it stores.                                       *)
LEMMA OthersKept ==
  ASSUME IndInv, NEW t \in Threads, platform' = platform, word' \in Words,
         th' \in [Threads -> Records], CallOK(t)',
         \A u \in Threads \ {t} : \/ th'[u] = th[u] /\ word' = word
                                  \/ th'[u] = [th[u] EXCEPT !.link = FALSE]
  PROVE  /\ IndInv'
         /\ Seen' = [Seen EXCEPT ![t] = Seen'[t]]
<1>1. Seen = [u \in Threads |-> Seen[u]] /\ Seen' = [u \in Threads |-> Seen'[u]]
  BY DEF Seen
<1> SUFFICES ASSUME NEW u \in Threads \ {t}
             PROVE  CallOK(u)' /\ Seen'[u] = Seen[u]
  BY <1>1 DEF IndInv
<1>2. th[u] \in Records /\ CallOK(u)
  BY DEF IndInv
<1>3. /\ th'[u].pc = th[u].pc /\ th'[u].op = th[u].op /\ th'[u].old = th[u].old
      /\ th'[u].new = th[u].new /\ th'[u].expect = th[u].expect
      /\ th'[u].store = th[u].store /\ th'[u].r = th[u].r
      /\ th'[u].link => th[u].link /\ word' = word
  BY <1>2 DEF Records
<1>4. Code(u)' = Code(u) /\ Compares(u)' = Compares(u)
  BY <1>3 DEF Code, Compares
<1> QED
  BY <1>2, <1>3, <1>4 DEF CallOK, Seen

LEMMA OneSteps ==
  ASSUME IndInv, NEW t \in Threads, NEW k \in Records, th' = [th EXCEPT ![t] = k],
         platform' = platform, word' = word, CallOK(t)'
  PROVE  /\ IndInv'
         /\ Seen' = [Seen EXCEPT ![t] = Seen'[t]]
         /\ th'[t] = k
BY OthersKept DEF IndInv

LEMMA OneWrites ==
  ASSUME IndInv, NEW t \in Threads, NEW k \in Records, NEW w \in Words, Write(t, w, k),
         platform' = platform, CallOK(t)'
  PROVE  /\ IndInv'
         /\ Seen' = [Seen EXCEPT ![t] = Seen'[t]]
         /\ th'[t] = k
<1>1. \A u \in Threads : th[u] \in Records
  BY DEF IndInv
<1>2. \A u \in Threads : [th[u] EXCEPT !.link = FALSE] \in Records
  BY <1>1 DEF Records
<1>3. th' \in [Threads -> Records] /\ word' = w /\ th'[t] = k
  BY <1>2 DEF Write
<1>4. \A u \in Threads \ {t} : th'[u] = [th[u] EXCEPT !.link = FALSE]
  BY DEF Write
<1> QED
  BY <1>3, <1>4, OthersKept

(* What the abstract word sees of a step inside a call, and of its last.    *)
LEMMA StillCalled ==
  ASSUME IndInv, NEW t \in Threads, Seen' = [Seen EXCEPT ![t] = Seen'[t]], word' = word,
         th[t].pc \notin {"idle", "done"}, th'[t].pc \notin {"idle", "done"},
         th'[t].op = th[t].op, th'[t].old = th[t].old, th'[t].new = th[t].new
  PROVE  UNCHANGED <<word, Seen>>
<1>1. Seen'[t] = Seen[t]
  BY DEF Seen
<1>2. Seen = [Seen EXCEPT ![t] = Seen[t]]
  BY DEF Seen
<1> QED
  BY <1>1, <1>2

LEMMA CallIsDone ==
  ASSUME NEW t \in Threads, Seen' = [Seen EXCEPT ![t] = Seen'[t]],
         th[t].pc \notin {"idle", "done"}, th'[t].pc = "done",
         Abstract!Effect(th[t].op, th[t].old, th[t].new, word)
           = [word |-> word', result |-> th'[t].r]
  PROVE  Abstract!TakeEffect(t)
<1>1. Seen[t] = [stage |-> "called", op |-> th[t].op, old |-> th[t].old, new |-> th[t].new]
  BY DEF Seen
<1>2. Seen'[t] = [stage |-> "done", result |-> th'[t].r]
  BY DEF Seen
<1> QED
  BY <1>1, <1>2 DEF Abstract!TakeEffect

LEMMA EffectOf ==
  ASSUME NEW op \in Ops, NEW old, NEW new, NEW w
  PROVE  /\ op \in CompareAndSwaps =>
              Abstract!Effect(op, old, new, w)
                = [word |-> IF w = old THEN new ELSE w, result |-> w]
         /\ op \in Increments =>
              Abstract!Effect(op, old, new, w)
                = [word |-> Stored(op, new, w), result |-> Stored(op, new, w)]
         /\ op \in Stores =>
              Abstract!Effect(op, old, new, w) = [word |-> Stored(op, new, w), result |-> 0]
         /\ op \in Loads => Abstract!Effect(op, old, new, w) = [word |-> w, result |-> w]
         /\ op = "NoBarrier_AtomicExchange" =>
              Abstract!Effect(op, old, new, w) = [word |-> Stored(op, new, w), result |-> w]
BY DEF Abstract!Effect, Stored, CompareAndSwaps, Increments, Stores, Loads,
   Abstract!CompareAndSwaps, Abstract!Increments, Abstract!Stores, Abstract!Loads

(* The last step of a call, with or without a store.                        *)
LEMMA Finishes ==
  ASSUME WordConstants, IndInv, NEW t \in Threads, th[t].pc \notin {"idle", "done"},
         NEW w \in Words, NEW r \in Words, platform' = platform,
         \/ Write(t, w, Done(t, r))
         \/ w = word /\ word' = word /\ th' = [th EXCEPT ![t] = Done(t, r)],
         Abstract!Effect(th[t].op, th[t].old, th[t].new, word) = [word |-> w, result |-> r]
  PROVE  IndInv' /\ [Abstract!Next]_<<word, Seen>>
<1>1. /\ Done(t, r) \in Records /\ Done(t, r).pc = "done" /\ Done(t, r).link = FALSE
      /\ Done(t, r).r = r
  BY StoredIsWord DEF IndInv, Records, Done
<1>2. th'[t] = Done(t, r) /\ word' = w
  BY <1>1 DEF Write, IndInv
<1>3. CallOK(t)'
  BY <1>1, <1>2 DEF CallOK
<1>4. IndInv' /\ Seen' = [Seen EXCEPT ![t] = Seen'[t]]
  BY <1>1, <1>3, OneSteps, OneWrites
<1>5. Abstract!TakeEffect(t)
  BY <1>1, <1>2, <1>4, CallIsDone
<1> QED
  BY <1>4, <1>5 DEF Abstract!Next

(* A step in the middle of a call.                                          *)
LEMMA GoesOn ==
  ASSUME IndInv, NEW t \in Threads, th[t].pc \notin {"idle", "done"}, NEW k \in Records,
         k.pc \notin {"idle", "done"}, k.op = th[t].op, k.old = th[t].old, k.new = th[t].new,
         platform' = platform, word' = word, th' = [th EXCEPT ![t] = k], CallOK(t)'
  PROVE  IndInv' /\ [Abstract!Next]_<<word, Seen>>
<1>1. IndInv' /\ Seen' = [Seen EXCEPT ![t] = Seen'[t]] /\ th'[t] = k
  BY OneSteps
<1> QED
  BY <1>1, StillCalled

(* A comparison with the value of this moment fails.                        *)
LEMMA MissedStep ==
  ASSUME WordConstants, WholeWords, IndInv, NEW t \in Threads, th[t].pc \in {"locked", "ll"},
         Compares(t), word # th[t].expect, platform' = platform, word' = word,
         th' = [th EXCEPT ![t] = Missed(t, word)]
  PROVE  IndInv' /\ [Abstract!Next]_<<word, Seen>>
<1>1. th[t] \in Records /\ CallOK(t) /\ word \in Words
  BY DEF IndInv
<1>2. th[t].op \in Ops /\ Sound(th[t].op, Code(t))
  BY CodeHere
<1>3. CASE Code(t).loop = "once"
  <2>1. th[t].op \in CompareAndSwaps /\ th[t].expect = th[t].old
    BY <1>1, <1>3 DEF Compares, CallOK
  <2>2. Abstract!Effect(th[t].op, th[t].old, th[t].new, word) = [word |-> word, result |-> word]
    BY <1>2, <2>1, EffectOf
  <2> QED
    BY <1>1, <1>3, <2>2, Finishes DEF Missed
<1>4. CASE Code(t).loop # "once"
  <2> DEFINE k == [th[t] EXCEPT !.pc = IF Code(t).loop = "reread" THEN "reread" ELSE "read",
                                !.link = FALSE]
  <2>1. th' = [th EXCEPT ![t] = k]
    BY <1>4 DEF Missed
  <2>2. /\ k \in Records /\ k.op = th[t].op /\ k.old = th[t].old /\ k.new = th[t].new
        /\ k.expect = th[t].expect /\ k.store = th[t].store /\ k.link = FALSE
        /\ k.pc = IF Code(t).loop = "reread" THEN "reread" ELSE "read"
    BY <1>1 DEF Records
  <2>3. th'[t] = k
    BY <2>1 DEF IndInv
  <2>4. Code(t)' = Code(t)
    BY <2>2, <2>3 DEF Code
  <2> HIDE DEF k
  <2>5. CallOK(t)'
    BY <1>1, <1>2, <1>4, <2>2, <2>3, <2>4 DEF CallOK, Sound
  <2> QED
    BY <2>1, <2>2, <2>5, GoesOn
<1> QED
  BY <1>3, <1>4

(* The store of a swap, when the word is what was expected or loaded.       *)
LEMMA SwappedStep ==
  ASSUME WordConstants, WholeWords, IndInv, NEW t \in Threads, th[t].pc \in {"locked", "sc"},
         IF Compares(t) THEN word = th[t].expect
         ELSE th[t].store = Stored(th[t].op, th[t].new, word),
         platform' = platform, Write(t, th[t].store, Swapped(t, word))
  PROVE  IndInv' /\ [Abstract!Next]_<<word, Seen>>
<1>1. th[t] \in Records /\ CallOK(t) /\ word \in Words /\ th[t].store \in Words
  BY DEF IndInv, Records
<1>2. th[t].op \in Ops \ Loads /\ Sound(th[t].op, Code(t))
  BY <1>1, CodeHere DEF CallOK
<1>3. th[t].op \in CompareAndSwaps => word = th[t].old /\ th[t].store = th[t].new
  BY <1>1 DEF CallOK, Compares
<1>4. th[t].op \notin CompareAndSwaps => th[t].store = Stored(th[t].op, th[t].new, word)
  BY <1>1 DEF CallOK, Compares
<1> DEFINE r == CASE th[t].op \in Increments -> th[t].store
                  [] th[t].op \in Stores -> 0
                  [] OTHER -> word
<1>5. Swapped(t, word) = Done(t, r) /\ r \in Words
  BY <1>1, StoredIsWord DEF Swapped
<1>6. Abstract!Effect(th[t].op, th[t].old, th[t].new, word)
        = [word |-> th[t].store, result |-> r]
  BY <1>2, <1>3, <1>4, EffectOf DEF Ops, CompareAndSwaps, Increments, Stores, Loads
<1> QED
  BY <1>1, <1>5, <1>6, Finishes

LEMMA CallStep ==
  ASSUME WordConstants, WholeWords, IndInv, NEW t \in Threads, Call(t)
  PROVE  IndInv' /\ [Abstract!Next]_<<word, Seen>>
<1>1. PICK op \in UsedOps, old \in OldValues, new \in NewValues :
         th' = [th EXCEPT ![t] = Begun(op, old, new)]
  BY DEF Call
<1> DEFINE c == AtomicWordForward(platform, op, Features)
           k == Begun(op, old, new)
<1>2. op \in Ops /\ platform \in Platforms \ {"ppc/64"} /\ old \in Words /\ new \in Words
  BY DEF WordConstants, WholeWords, IndInv, Words
<1>3. Sound(op, c)
  BY <1>2, CodeIsSound
<1>4. /\ th[t].pc = "idle" /\ platform' = platform /\ word' = word
      /\ th' = [th EXCEPT ![t] = k]
  BY <1>1 DEF Call
<1>5. /\ k \in Records /\ k.op = op /\ k.old = old /\ k.new = new /\ k.expect = old
      /\ k.store = new /\ k.r = 0 /\ k.link = FALSE
      /\ k.pc = IF c.loop = "read_first" /\ c.prim # "abort" THEN "read" ELSE Enter(c)
  BY <1>2, StoredIsWord DEF Records, Idle, Enter, Begun
<1>6. th'[t] = k
  BY <1>4 DEF IndInv
<1>7. Code(t)' = c
  BY <1>4, <1>5, <1>6 DEF Code
<1> HIDE DEF k, c
<1>8. CallOK(t)'
  BY <1>3, <1>5, <1>6, <1>7 DEF CallOK, Sound, Enter
<1>9. IndInv' /\ Seen' = [Seen EXCEPT ![t] = Seen'[t]]
  BY <1>4, <1>5, <1>8, OneSteps
<1>10. k.pc \notin {"idle", "done"}
  BY <1>5 DEF Enter
<1>11. /\ Seen[t] = [stage |-> "idle"]
       /\ Seen'[t] = [stage |-> "called", op |-> op, old |-> old, new |-> new]
  BY <1>4, <1>5, <1>6, <1>10 DEF Seen
<1>12. Seen'[t] \in Abstract!Calls
  BY <1>2, <1>11 DEF Abstract!Calls, Words, Ops, Abstract!Ops, CompareAndSwaps, Increments,
     Stores, Loads, Abstract!CompareAndSwaps, Abstract!Increments, Abstract!Stores,
     Abstract!Loads
<1>13. Abstract!Invoke(t)
  BY <1>4, <1>9, <1>11, <1>12 DEF Abstract!Invoke, Abstract!Idle
<1> QED
  BY <1>9, <1>13 DEF Abstract!Next

LEMMA ReadStep ==
  ASSUME WordConstants, WholeWords, IndInv, NEW t \in Threads, Read(t)
  PROVE  IndInv' /\ [Abstract!Next]_<<word, Seen>>
<1>1. th[t] \in Records /\ CallOK(t) /\ word \in Words /\ th[t].pc = "read"
  BY DEF IndInv, Read
<1>2. th[t].op \in Ops \ Loads /\ Sound(th[t].op, Code(t)) /\ Code(t).loop = "read_first"
  BY <1>1, CodeHere DEF CallOK
<1> DEFINE s == Stored(th[t].op, th[t].new, word)
           k == [th[t] EXCEPT !.expect = word, !.store = s, !.pc = Enter(Code(t))]
<1>3. s \in Words
  BY <1>1, <1>2, StoredIsWord DEF Records
<1>4. th' = [th EXCEPT ![t] = k] /\ platform' = platform /\ word' = word
  BY <1>1 DEF Read, IndInv, Records
<1>5. Enter(Code(t)) \in {"locked", "ll"}
  BY <1>2 DEF Sound, Enter
<1>6. /\ k \in Records /\ k.op = th[t].op /\ k.old = th[t].old /\ k.new = th[t].new
      /\ k.expect = word /\ k.store = s /\ k.pc = Enter(Code(t)) /\ k.link = th[t].link
  BY <1>1, <1>3, <1>5 DEF Records
<1>7. th'[t] = k
  BY <1>4 DEF IndInv
<1> HIDE DEF k
<1>8. Code(t)' = Code(t)
  BY <1>4, <1>6, <1>7 DEF Code
<1>9. CallOK(t)'
  BY <1>1, <1>2, <1>5, <1>6, <1>7, <1>8 DEF CallOK, Sound
<1> QED
  BY <1>1, <1>4, <1>5, <1>6, <1>9, GoesOn

LEMMA LockedStep ==
  ASSUME WordConstants, WholeWords, IndInv, NEW t \in Threads, Locked(t)
  PROVE  IndInv' /\ [Abstract!Next]_<<word, Seen>>
<1>1. th[t] \in Records /\ CallOK(t) /\ word \in Words /\ th[t].pc = "locked"
  BY DEF IndInv, Locked
<1>2. th[t].op \in Ops \ Loads /\ Sound(th[t].op, Code(t)) /\ platform' = platform
  BY <1>1, CodeHere DEF CallOK, Locked
<1>3. Matches(t) <=> word = th[t].expect
  BY <1>2 DEF Matches, Sound
<1>4. CASE ~Compares(t)
  <2> DEFINE s == Stored(th[t].op, th[t].new, word)
             r == IF th[t].op \in Increments THEN s ELSE IF th[t].op \in Stores THEN 0 ELSE word
  <2>1. s \in Words /\ r \in Words
    BY <1>1, <1>2, StoredIsWord DEF Records
  <2>2. Write(t, s, Done(t, r))
    BY <1>4 DEF Locked
  <2>3. Abstract!Effect(th[t].op, th[t].old, th[t].new, word) = [word |-> s, result |-> r]
    BY <1>2, <1>4, EffectOf DEF Compares, Ops, CompareAndSwaps, Increments, Stores, Loads
  <2> QED
    BY <1>1, <1>2, <2>1, <2>2, <2>3, Finishes
<1>5. CASE Compares(t) /\ Matches(t)
  BY <1>1, <1>2, <1>3, <1>5, SwappedStep DEF Locked
<1>6. CASE Compares(t) /\ ~Matches(t)
  BY <1>1, <1>2, <1>3, <1>6, MissedStep DEF Locked
<1> QED
  BY <1>4, <1>5, <1>6

LEMMA LoadLinkedStep ==
  ASSUME WordConstants, WholeWords, IndInv, NEW t \in Threads, LoadLinked(t)
  PROVE  IndInv' /\ [Abstract!Next]_<<word, Seen>>
<1>1. th[t] \in Records /\ CallOK(t) /\ word \in Words /\ th[t].pc = "ll"
  BY DEF IndInv, LoadLinked
<1>2. /\ th[t].op \in Ops \ Loads /\ Sound(th[t].op, Code(t))
      /\ platform' = platform /\ word' = word
  BY <1>1, CodeHere DEF CallOK, LoadLinked
<1>3. Matches(t) <=> word = th[t].expect
  BY <1>2 DEF Matches, Sound
<1>4. CASE Compares(t) /\ ~Matches(t)
  BY <1>1, <1>2, <1>3, <1>4, MissedStep DEF LoadLinked
<1>5. CASE ~(Compares(t) /\ ~Matches(t))
  <2> DEFINE s == IF Compares(t) THEN th[t].store ELSE Stored(th[t].op, th[t].new, word)
             k == [th[t] EXCEPT !.pc = "sc", !.r = word, !.link = TRUE, !.store = s]
  <2>1. s \in Words
    BY <1>1, <1>2, StoredIsWord DEF Records
  <2>2. th' = [th EXCEPT ![t] = k]
    BY <1>1, <1>5 DEF LoadLinked, IndInv, Records
  <2>3. /\ k \in Records /\ k.op = th[t].op /\ k.old = th[t].old /\ k.new = th[t].new
        /\ k.expect = th[t].expect /\ k.store = s /\ k.pc = "sc" /\ k.r = word /\ k.link = TRUE
    BY <1>1, <2>1 DEF Records
  <2>4. th'[t] = k
    BY <2>2 DEF IndInv
  <2> HIDE DEF k
  <2>5. Code(t)' = Code(t) /\ (Compares(t)' <=> Compares(t))
    BY <1>2, <2>3, <2>4 DEF Code, Compares
  <2>6. CallOK(t)'
    BY <1>1, <1>2, <1>3, <1>5, <2>3, <2>4, <2>5 DEF CallOK, Sound, Compares
  <2> QED
    BY <1>1, <1>2, <2>2, <2>3, <2>6, GoesOn
<1> QED
  BY <1>4, <1>5

LEMMA StoreConditionalStep ==
  ASSUME WordConstants, WholeWords, IndInv, NEW t \in Threads, StoreConditional(t)
  PROVE  IndInv' /\ [Abstract!Next]_<<word, Seen>>
<1>1. th[t] \in Records /\ CallOK(t) /\ th[t].pc = "sc" /\ th[t].link
  BY DEF IndInv, StoreConditional
<1>2. th[t].op \in Ops /\ Sound(th[t].op, Code(t)) /\ platform' = platform
  BY <1>1, CodeHere DEF StoreConditional
<1>3. th[t].r = word /\ (Compares(t) => th[t].r = th[t].expect)
      /\ (~Compares(t) => th[t].store = Stored(th[t].op, th[t].new, word))
  BY <1>1 DEF CallOK
<1>4. Code(t).loop # "once" => Compares(t)
  BY <1>2 DEF Sound, Compares
<1>5. Write(t, th[t].store, Swapped(t, word))
  BY <1>3, <1>4 DEF StoreConditional
<1> QED
  BY <1>1, <1>2, <1>3, <1>5, SwappedStep

LEMMA StoreConditionalFailsStep ==
  ASSUME WordConstants, WholeWords, IndInv, NEW t \in Threads, StoreConditionalFails(t)
  PROVE  IndInv' /\ [Abstract!Next]_<<word, Seen>>
<1>1. th[t] \in Records /\ CallOK(t) /\ th[t].pc = "sc"
  BY DEF IndInv, StoreConditionalFails
<1> DEFINE k == [th[t] EXCEPT !.pc = "ll", !.link = FALSE, !.r = 0]
<1>2. th' = [th EXCEPT ![t] = k] /\ platform' = platform /\ word' = word
  BY <1>1 DEF StoreConditionalFails, IndInv, Records
<1>3. /\ k \in Records /\ k.op = th[t].op /\ k.old = th[t].old /\ k.new = th[t].new
      /\ k.expect = th[t].expect /\ k.store = th[t].store /\ k.pc = "ll" /\ k.link = FALSE
  BY <1>1, StoredIsWord DEF Records
<1>4. th'[t] = k
  BY <1>2 DEF IndInv
<1> HIDE DEF k
<1>5. Code(t)' = Code(t)
  BY <1>2, <1>3, <1>4 DEF Code
<1>6. CallOK(t)'
  BY <1>1, <1>3, <1>4, <1>5 DEF CallOK
<1> QED
  BY <1>1, <1>2, <1>3, <1>6, GoesOn

LEMMA RereadStep ==
  ASSUME WordConstants, WholeWords, IndInv, NEW t \in Threads, Reread(t)
  PROVE  IndInv' /\ [Abstract!Next]_<<word, Seen>>
<1>1. th[t] \in Records /\ CallOK(t) /\ word \in Words /\ th[t].pc = "reread"
  BY DEF IndInv, Reread
<1>2. /\ th[t].op \in CompareAndSwaps /\ Sound(th[t].op, Code(t)) /\ Code(t).loop = "reread"
      /\ platform' = platform /\ word' = word
  BY <1>1, CodeHere DEF CallOK, Reread, Sound
<1>3. CASE word = th[t].old
  <2> DEFINE k == [th[t] EXCEPT !.pc = Enter(Code(t))]
  <2>1. Enter(Code(t)) \in {"locked", "ll"}
    BY <1>2 DEF Sound, Enter
  <2>2. th' = [th EXCEPT ![t] = k]
    BY <1>3 DEF Reread
  <2>3. /\ k \in Records /\ k.op = th[t].op /\ k.old = th[t].old /\ k.new = th[t].new
        /\ k.expect = th[t].expect /\ k.store = th[t].store /\ k.pc = Enter(Code(t))
        /\ k.link = th[t].link
    BY <1>1, <2>1 DEF Records
  <2>4. th'[t] = k
    BY <2>2 DEF IndInv
  <2> HIDE DEF k
  <2>5. Code(t)' = Code(t)
    BY <1>2, <2>3, <2>4 DEF Code
  <2>6. CallOK(t)'
    BY <1>1, <1>2, <2>1, <2>3, <2>4, <2>5 DEF CallOK, CompareAndSwaps, Loads
  <2> QED
    BY <1>1, <1>2, <2>1, <2>2, <2>3, <2>6, GoesOn
<1>4. CASE word # th[t].old
  <2>1. th' = [th EXCEPT ![t] = Done(t, word)]
    BY <1>4 DEF Reread
  <2>2. Abstract!Effect(th[t].op, th[t].old, th[t].new, word) = [word |-> word, result |-> word]
    BY <1>2, <1>4, EffectOf DEF Ops
  <2> QED
    BY <1>1, <1>2, <2>1, <2>2, Finishes
<1> QED
  BY <1>3, <1>4

LEMMA AccessStep ==
  ASSUME WordConstants, WholeWords, IndInv, NEW t \in Threads, Access(t)
  PROVE  IndInv' /\ [Abstract!Next]_<<word, Seen>>
<1>1. th[t] \in Records /\ CallOK(t) /\ word \in Words /\ th[t].pc = "access"
  BY DEF IndInv, Access
<1>2. th[t].op \in Ops /\ th[t].op \in Stores \cup Loads /\ platform' = platform
  BY <1>1, CodeHere DEF CallOK, Access
<1>3. CASE th[t].op \in Stores
  <2>1. Stored(th[t].op, th[t].new, word) = th[t].new /\ th[t].new \in Words /\ 0 \in Words
    BY <1>1, <1>3, StoredIsWord DEF Stored, Stores, Increments, Records
  <2>2. Abstract!Effect(th[t].op, th[t].old, th[t].new, word)
          = [word |-> th[t].new, result |-> 0]
    BY <1>2, <1>3, <2>1, EffectOf
  <2>3. Write(t, th[t].new, Done(t, 0))
    BY <1>3 DEF Access
  <2> QED
    BY <1>1, <1>2, <2>1, <2>2, <2>3, Finishes
<1>4. CASE th[t].op \notin Stores
  <2>1. Abstract!Effect(th[t].op, th[t].old, th[t].new, word) = [word |-> word, result |-> word]
    BY <1>2, <1>4, EffectOf
  <2>2. word' = word /\ th' = [th EXCEPT ![t] = Done(t, word)]
    BY <1>4 DEF Access
  <2> QED
    BY <1>1, <1>2, <2>1, <2>2, Finishes
<1> QED
  BY <1>3, <1>4

LEMMA AbortStep ==
  ASSUME IndInv, NEW t \in Threads, Abort(t)
  PROVE  IndInv' /\ [Abstract!Next]_<<word, Seen>>
<1>1. th[t] \in Records /\ CallOK(t) /\ th[t].pc = "abort"
  BY DEF IndInv, Abort
<1> DEFINE k == [th[t] EXCEPT !.pc = "aborted"]
<1>2. th' = [th EXCEPT ![t] = k] /\ platform' = platform /\ word' = word
  BY DEF Abort
<1>3. /\ k \in Records /\ k.op = th[t].op /\ k.old = th[t].old /\ k.new = th[t].new
      /\ k.pc = "aborted" /\ k.link = th[t].link
  BY <1>1 DEF Records
<1>4. th'[t] = k
  BY <1>2 DEF IndInv
<1> HIDE DEF k
<1>5. CallOK(t)'
  BY <1>1, <1>3, <1>4 DEF CallOK
<1> QED
  BY <1>1, <1>2, <1>3, <1>5, GoesOn

LEMMA ReturnStep ==
  ASSUME WordConstants, IndInv, NEW t \in Threads, Return(t)
  PROVE  IndInv' /\ [Abstract!Next]_<<word, Seen>>
<1>1. /\ th[t].pc = "done" /\ th' = [th EXCEPT ![t] = Idle]
      /\ platform' = platform /\ word' = word
  BY DEF Return
<1>2. Idle \in Records /\ Idle.pc = "idle" /\ Idle.link = FALSE
  BY StoredIsWord DEF Idle, Records
<1>3. th'[t] = Idle
  BY <1>1 DEF IndInv
<1>4. CallOK(t)'
  BY <1>2, <1>3 DEF CallOK
<1>5. IndInv' /\ Seen' = [Seen EXCEPT ![t] = Seen'[t]]
  BY <1>1, <1>2, <1>4, OneSteps
<1>6. Seen[t] = [stage |-> "done", result |-> th[t].r] /\ Seen'[t] = [stage |-> "idle"]
  BY <1>1, <1>2, <1>3 DEF Seen
<1>7. Abstract!Return(t)
  BY <1>1, <1>5, <1>6 DEF Abstract!Return, Abstract!Idle
<1> QED
  BY <1>5, <1>7 DEF Abstract!Next

LEMMA InitSteps ==
  ASSUME WordConstants, Init
  PROVE  IndInv /\ Abstract!Init
<1>1. Idle \in Records /\ Idle.pc = "idle" /\ Idle.link = FALSE
  BY StoredIsWord DEF Idle, Records
<1>2. \A t \in Threads : th[t] = Idle
  BY DEF Init
<1>3. IndInv
  BY <1>1, <1>2 DEF Init, IndInv, CallOK
<1>4. Abstract!Init
  BY <1>1, <1>2 DEF Init, Seen, Abstract!Init, Abstract!Idle, Words
<1> QED
  BY <1>3, <1>4

LEMMA NextSteps ==
  ASSUME WordConstants, WholeWords, IndInv, [Next]_vars
  PROVE  IndInv' /\ [Abstract!Next]_<<word, Seen>>
<1>1. CASE UNCHANGED vars
  BY <1>1 DEF vars, IndInv, CallOK, Code, Compares, Seen
<1>2. ASSUME NEW t \in Threads, Call(t) \/ Step(t)
      PROVE  IndInv' /\ [Abstract!Next]_<<word, Seen>>
  BY <1>2, CallStep, ReadStep, LockedStep, LoadLinkedStep, StoreConditionalStep,
     StoreConditionalFailsStep, RereadStep, AccessStep, AbortStep, ReturnStep DEF Step
<1> QED
  BY <1>1, <1>2 DEF Next, Aborted

(* base/atomicops.h:112-114: the word and what a thread holds during a call *)
(* keep the width of the type, and a reservation is only held between a load *)
(* and its store.                                                           *)
THEOREM TypeCorrect ==
  ASSUME WordConstants, WholeWords
  PROVE  Spec => []TypeOK
<1>1. IndInv => TypeOK
  BY DEF IndInv, TypeOK, CallOK, Records
<1> QED
  BY <1>1, InitSteps, NextSteps, PTL DEF Spec

(* "Atomically execute" (base/atomicops.h:126): on every header but that of *)
(* 64-bit PowerPC, for any word size, threads and arguments, each operation *)
(* takes effect at one moment between its call and its return, whatever     *)
(* reservations are lost and however often a loop starts over.              *)
THEOREM TakesEffectAtOnce ==
  ASSUME WordConstants, WholeWords
  PROVE  Spec => Abstract!Spec
BY InitSteps, NextSteps, PTL DEF Spec, Abstract!Spec
=============================================================================
