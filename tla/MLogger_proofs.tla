--------------------------- MODULE MLogger_proofs ---------------------------
(***************************************************************************)
(* The logger's type invariant, NoDuplicateAppender and AppenderPinsLock,  *)
(* for any set of threads, appenders and levels, and for any number of     *)
(* calls.                                                                  *)
(***************************************************************************)
EXTENDS MLogger, SequenceTheorems, TLAPS

(* A thread inside the locked part of an operation owns the lock, and one  *)
(* that is about to append its appender has not been overtaken: no other   *)
(* thread has attached it since the scan.  An attached appender accounts   *)
(* for a hold that no operation will ever give back, beside the hold of an *)
(* operation in progress that will.                                        *)
Releasing == {"removeList", "removeScan", "setFilters", "writeEvent"}

LockInv ==
  /\ \A t \in Threads : pc[t] \in Locked => owner = t
  /\ \A t \in Threads : pc[t] = "addAppend" => ~InList(arg[t])
  /\ logList # <<>> => hold >= 1
  /\ \A t \in Threads : pc[t] \in Releasing /\ logList # <<>> => hold >= 2

IndInv == TypeOK /\ LockInv

-----------------------------------------------------------------------------
(* Removing an element keeps a list of appenders a list of appenders, and  *)
(* only a non-empty list can leave a non-empty one.                        *)
LEMMA WithoutType ==
  ASSUME NEW list \in Seq(Appenders), NEW i \in 1..Len(list)
  PROVE  /\ Without(list, i) \in Seq(Appenders)
         /\ list # <<>>
<1>1. list # <<>>
  BY EmptySeq
<1>2. SubSeq(list, 1, i - 1) \in Seq(Appenders)
  BY SubSeqProperties
<1>3. SubSeq(list, i + 1, Len(list)) \in Seq(Appenders)
  BY SubSeqProperties
<1>4. QED
  BY <1>1, <1>2, <1>3, ConcatProperties DEF Without

LEMMA InitIndInv == Init => IndInv
  BY LoggerAssumption DEF Init, IndInv, TypeOK, LockInv, InList, Releasing, Locked,
                          Ops, Inner

(* While one thread is inside the locked part, no other is.                *)
LEMMA LockExcludes ==
  ASSUME IndInv, NEW t \in Threads, owner \in {NoThread, t}
  PROVE  \A u \in Threads \ {t} : pc[u] \notin Locked
BY LoggerAssumption DEF IndInv, LockInv

LEMMA NextIndInv == IndInv /\ [Next]_vars => IndInv'
<1> SUFFICES ASSUME IndInv, [Next]_vars PROVE IndInv'
  OBVIOUS
<1> USE LoggerAssumption
<1> USE DEF IndInv, TypeOK, LockInv, InList, Releasing, Ops, Inner, Locked
<1>1. CASE UNCHANGED vars
  BY <1>1 DEF vars
<1>2. ASSUME NEW t \in Threads, Call(t) PROVE IndInv'
  BY <1>2 DEF Call, Args
<1>3. ASSUME NEW t \in Threads, LockOverflow(t) PROVE IndInv'
  BY <1>3 DEF LockOverflow, Return
<1>4. ASSUME NEW t \in Threads, Lock(t) PROVE IndInv'
  <2>1. \A u \in Threads \ {t} : pc[u] \notin Locked
    BY <1>4, LockExcludes DEF Lock, CanLock
  <2>2. AfterLock(pc[t]) \in {"addScan", "removeList", "setFilters", "writeEvent"}
    BY <1>4 DEF Lock, AfterLock
  <2>3. /\ pc[t] = "add" \/ pc[t] = "remove" => arg[t] \in Appenders
        /\ pc[t] = "setLevel" \/ pc[t] = "write" => arg[t] \in Levels
    OBVIOUS
  <2>4. /\ AfterLock(pc[t]) \in {"addScan", "removeList"} => arg[t] \in Appenders
        /\ AfterLock(pc[t]) \in {"setFilters", "writeEvent"} => arg[t] \in Levels
    BY <1>4, <2>3 DEF Lock, AfterLock
  <2>5. /\ pc' = [pc EXCEPT ![t] = AfterLock(pc[t])]
        /\ owner' = t /\ hold' = hold + 1 /\ hold < MaxHold
        /\ UNCHANGED logList /\ UNCHANGED levelFilter /\ UNCHANGED lowestLevel
        /\ UNCHANGED shown /\ UNCHANGED arg /\ UNCHANGED returned /\ UNCHANGED calls
    BY <1>4 DEF Lock, CanLock, Goto, dataVars
  <2>6. PICK l \in {"addScan", "removeList", "setFilters", "writeEvent"} :
             /\ pc' = [pc EXCEPT ![t] = l]
             /\ l \in {"addScan", "removeList"} => arg[t] \in Appenders
             /\ l \in {"setFilters", "writeEvent"} => arg[t] \in Levels
    BY <2>2, <2>4, <2>5
  <2>7. TypeOK'
    BY <2>5, <2>6
  <2>8. LockInv'
    BY <2>1, <2>5, <2>6
  <2>9. QED
    BY <2>7, <2>8
<1>5. ASSUME NEW t \in Threads, AddScan(t) PROVE IndInv'
  <2>1. UNCHANGED <<owner, hold, logList, levelFilter, lowestLevel, shown, arg, calls>>
    BY <1>5 DEF AddScan, Goto, Return, dataVars
  <2>2. CASE InList(arg[t])
    BY <1>5, <2>1, <2>2 DEF AddScan, Return
  <2>3. CASE ~InList(arg[t])
    BY <1>5, <2>1, <2>3 DEF AddScan, Goto
  <2>4. QED
    BY <2>2, <2>3
<1>6. ASSUME NEW t \in Threads, AddAppender(t) PROVE IndInv'
  <2>1. \A u \in Threads \ {t} : pc[u] \notin Locked
    BY <1>6, LockExcludes DEF AddAppender
  <2>2. /\ owner = t /\ hold >= 1 /\ arg[t] \in Appenders
        /\ UNCHANGED <<owner, hold, levelFilter, lowestLevel, shown, arg, returned, calls>>
    BY <1>6 DEF AddAppender, Goto
  <2>3. logList' \in Seq(Appenders)
    BY <1>6, <2>2, AppendProperties DEF AddAppender
  <2>4. PICK l \in {"addLower", "addRelock"} : pc' = [pc EXCEPT ![t] = l]
    BY <1>6 DEF AddAppender, Goto
  <2>5. TypeOK'
    BY <2>2, <2>3, <2>4
  <2>6. LockInv'
    BY <2>1, <2>2, <2>4
  <2>7. QED
    BY <2>5, <2>6
<1>7. ASSUME NEW t \in Threads, AddLower(t) PROVE IndInv'
  BY <1>7 DEF AddLower, Goto
<1>8. ASSUME NEW t \in Threads, AddRelock(t) PROVE IndInv'
  <2>1. \A u \in Threads \ {t} : pc[u] \notin Locked
    BY <1>8, LockExcludes DEF AddRelock
  <2>2. QED
    BY <1>8, <2>1 DEF AddRelock, CanLock, Return, dataVars
<1>9. ASSUME NEW t \in Threads, RemoveAppender(t) PROVE IndInv'
  <2>1. \A u \in Threads \ {t} : pc[u] \notin Locked
    BY <1>9, LockExcludes DEF RemoveAppender
  <2>2. /\ logList' \in Seq(Appenders)
        /\ logList' # <<>> => logList # <<>>
    BY <1>9, WithoutType DEF RemoveAppender
  <2>3. QED
    BY <1>9, <2>1, <2>2 DEF RemoveAppender, Goto
<1>10. ASSUME NEW t \in Threads, RemoveScan(t) PROVE IndInv'
  <2>1. \A u \in Threads \ {t} : pc[u] \notin Locked
    BY <1>10, LockExcludes DEF RemoveScan
  <2>2. QED
    BY <1>10, <2>1 DEF RemoveScan, Unlock, Return
<1>11. ASSUME NEW t \in Threads, SetLogLevel(t) PROVE IndInv'
  <2>1. \A u \in Threads \ {t} : pc[u] \notin Locked
    BY <1>11, LockExcludes DEF SetLogLevel
  <2>2. QED
    BY <1>11, <2>1 DEF SetLogLevel, Unlock, Goto
<1>12. ASSUME NEW t \in Threads, LevelCheck(t) PROVE IndInv'
  <2>1. UNCHANGED <<owner, hold, logList, levelFilter, lowestLevel, shown, arg, calls>>
    BY <1>12 DEF LevelCheck, Goto, Return
  <2>2. CASE lowestLevel > arg[t]
    BY <1>12, <2>1, <2>2 DEF LevelCheck, Goto
  <2>3. CASE ~(lowestLevel > arg[t])
    BY <1>12, <2>1, <2>3 DEF LevelCheck, Return
  <2>4. QED
    BY <2>2, <2>3
<1>13. ASSUME NEW t \in Threads, LevelStore(t) PROVE IndInv'
  BY <1>13 DEF LevelStore, Return
<1>14. ASSUME NEW t \in Threads, WriteLog(t) PROVE IndInv'
  <2>1. \A u \in Threads \ {t} : pc[u] \notin Locked
    BY <1>14, LockExcludes DEF WriteLog
  <2>2. QED
    BY <1>14, <2>1 DEF WriteLog, Unlock, Return
<1>15. QED
  BY <1>1, <1>2, <1>3, <1>4, <1>5, <1>6, <1>7, <1>8, <1>9, <1>10, <1>11, <1>12,
     <1>13, <1>14 DEF Next, Step

-----------------------------------------------------------------------------
(* Type correctness of the logger, the lock's owner and count included.    *)
THEOREM TypeCorrect == Spec => []TypeOK
<1>1. IndInv => TypeOK
  BY DEF IndInv
<1>2. QED
  BY InitIndInv, NextIndInv, <1>1, PTL DEF Spec

(* Removing an element leaves the others where they were, or one earlier.  *)
LEMMA WithoutElements ==
  ASSUME NEW list \in Seq(Appenders), NEW i \in 1..Len(list)
  PROVE  /\ Len(Without(list, i)) = Len(list) - 1
         /\ \A k \in 1..(Len(list) - 1) :
              Without(list, i)[k] = IF k < i THEN list[k] ELSE list[k + 1]
<1>1. Len(list) \in Nat
  BY LenProperties
<1>2. /\ SubSeq(list, 1, i - 1) \in Seq(Appenders)
      /\ Len(SubSeq(list, 1, i - 1)) = i - 1
      /\ \A k \in 1..(i - 1) : SubSeq(list, 1, i - 1)[k] = list[k]
  BY <1>1, SubSeqProperties
<1>3. /\ SubSeq(list, i + 1, Len(list)) \in Seq(Appenders)
      /\ Len(SubSeq(list, i + 1, Len(list))) = Len(list) - i
      /\ \A k \in 1..(Len(list) - i) : SubSeq(list, i + 1, Len(list))[k] = list[i + k]
  BY <1>1, SubSeqProperties
<1> DEFINE a == SubSeq(list, 1, i - 1)
           b == SubSeq(list, i + 1, Len(list))
<1>4. Without(list, i) = a \o b
  BY DEF Without
<1> HIDE DEF a, b
<1>5. /\ Len(a \o b) = Len(a) + Len(b)
      /\ \A k \in 1..(Len(a) + Len(b)) : (a \o b)[k] = IF k <= Len(a) THEN a[k] ELSE b[k - Len(a)]
  BY <1>2, <1>3, ConcatProperties DEF a, b
<1>6. /\ Len(a) = i - 1 /\ Len(b) = Len(list) - i
      /\ \A k \in 1..(i - 1) : a[k] = list[k]
      /\ \A k \in 1..(Len(list) - i) : b[k] = list[i + k]
  BY <1>2, <1>3 DEF a, b
<1>7. ASSUME NEW k \in 1..(Len(list) - 1)
      PROVE  (a \o b)[k] = IF k < i THEN list[k] ELSE list[k + 1]
  <2>1. CASE k < i
    <3>1. k \in 1..(i - 1) /\ k <= Len(a) /\ k \in 1..(Len(a) + Len(b))
      BY <1>1, <1>6, <2>1
    <3>2. (a \o b)[k] = a[k]
      BY <1>5, <3>1
    <3>3. QED
      BY <1>6, <2>1, <3>1, <3>2
  <2>2. CASE k >= i
    <3>1. k - (i - 1) \in 1..(Len(list) - i) /\ i + (k - (i - 1)) = k + 1
      BY <1>1, <2>2
    <3>2. (a \o b)[k] = b[k - (i - 1)]
      BY <1>1, <1>5, <1>6, <2>2
    <3>3. QED
      BY <1>1, <1>6, <2>2, <3>1, <3>2
  <2>3. k < i \/ k >= i
    BY <1>1
  <2>4. QED
    BY <2>1, <2>2, <2>3
<1>8. Len(a \o b) = Len(list) - 1
  BY <1>1, <1>5, <1>6
<1>9. QED
  BY <1>4, <1>7, <1>8

(* No interleaving of calls attaches an appender twice: what the scan      *)
(* found is still so when the appender is added.                           *)
THEOREM AppendersDistinct == Spec => []NoDuplicateAppender
<1>1. Init => NoDuplicateAppender
  BY DEF Init, NoDuplicateAppender
<1>2. IndInv /\ NoDuplicateAppender /\ [Next]_vars => NoDuplicateAppender'
  <2> SUFFICES ASSUME IndInv, NoDuplicateAppender, [Next]_vars
               PROVE  NoDuplicateAppender'
    OBVIOUS
  <2>1. logList \in Seq(Appenders) /\ Len(logList) \in Nat /\ DOMAIN logList = 1..Len(logList)
    BY LenProperties DEF IndInv, TypeOK
  <2>2. ASSUME NEW t \in Threads, AddAppender(t) PROVE NoDuplicateAppender'
    <3>1. /\ arg[t] \in Appenders /\ ~InList(arg[t])
          /\ logList' = Append(logList, arg[t])
      BY <2>2 DEF AddAppender, IndInv, TypeOK, LockInv
    <3>2. /\ DOMAIN logList' = 1..(Len(logList) + 1)
          /\ \A k \in 1..Len(logList) : logList'[k] = logList[k]
          /\ logList'[Len(logList) + 1] = arg[t]
      BY <2>1, <3>1, AppendProperties
    <3>3. \A k \in 1..Len(logList) : logList[k] # arg[t]
      BY <2>1, <3>1 DEF InList
    <3>4. QED
      BY <2>1, <3>2, <3>3 DEF NoDuplicateAppender
  <2>3. ASSUME NEW t \in Threads, RemoveAppender(t), ~UNCHANGED logList
        PROVE  NoDuplicateAppender'
    <3>1. PICK i \in 1..Len(logList) : logList' = Without(logList, i)
      BY <2>1, <2>3 DEF RemoveAppender
    <3>2. /\ Len(logList') = Len(logList) - 1
          /\ \A k \in 1..(Len(logList) - 1) :
               logList'[k] = IF k < i THEN logList[k] ELSE logList[k + 1]
      BY <2>1, <3>1, WithoutElements
    <3>3. DOMAIN logList' = 1..(Len(logList) - 1)
      BY <2>1, <3>1, <3>2, WithoutType, LenProperties
    <3>4. ASSUME NEW j \in 1..(Len(logList) - 1), NEW k \in 1..(Len(logList) - 1),
                 logList'[j] = logList'[k]
          PROVE  j = k
      <4> DEFINE old(n) == IF n < i THEN n ELSE n + 1
      <4>1. \A n \in 1..(Len(logList) - 1) : old(n) \in 1..Len(logList) /\ logList'[n] = logList[old(n)]
        BY <2>1, <3>2
      <4>2. old(j) = old(k)
        BY <2>1, <3>4, <4>1 DEF NoDuplicateAppender
      <4>3. QED
        BY <2>1, <4>2
    <3>5. QED
      BY <3>3, <3>4 DEF NoDuplicateAppender
  <2>4. CASE UNCHANGED logList
    BY <2>4 DEF NoDuplicateAppender
  <2>5. ASSUME NEW t \in Threads, Call(t) \/ Step(t),
               ~AddAppender(t), ~RemoveAppender(t)
        PROVE  UNCHANGED logList
    BY <2>5 DEF Step, Call, LockOverflow, Lock, AddScan, AddLower, AddRelock, RemoveScan,
                SetLogLevel, LevelCheck, LevelStore, WriteLog, dataVars
  <2>6. QED
    BY <2>2, <2>3, <2>4, <2>5 DEF Next, vars
<1>3. QED
  BY InitIndInv, NextIndInv, <1>1, <1>2, PTL DEF Spec

(* Once an appender is attached, the lock never changes hands, whatever    *)
(* the threads call afterwards.                                            *)
THEOREM LockPinned == Spec => AppenderPinsLock
<1>1. IndInv /\ [Next]_vars => [logList # <<>> => owner' = owner]_vars
  <2> SUFFICES ASSUME IndInv, Next, logList # <<>> PROVE owner' = owner
    BY DEF vars
  <2>1. owner \in Threads /\ hold >= 1
    BY LoggerAssumption DEF IndInv, TypeOK, LockInv
  <2>2. ASSUME NEW t \in Threads, RemoveScan(t) \/ SetLogLevel(t) \/ WriteLog(t)
        PROVE  owner' = owner
    <3>1. hold # 1
      BY <2>2 DEF RemoveScan, SetLogLevel, WriteLog, IndInv, LockInv, Releasing
    <3>2. QED
      BY <2>2, <3>1 DEF RemoveScan, SetLogLevel, WriteLog, Unlock
  <2>3. ASSUME NEW t \in Threads,
               \/ Call(t) \/ LockOverflow(t) \/ AddScan(t) \/ AddAppender(t) \/ AddLower(t)
               \/ RemoveAppender(t) \/ LevelCheck(t) \/ LevelStore(t)
        PROVE  owner' = owner
    BY <2>3 DEF Call, LockOverflow, AddScan, AddAppender, AddLower, RemoveAppender,
                LevelCheck, LevelStore
  <2>4. ASSUME NEW t \in Threads, Lock(t) \/ AddRelock(t)
        PROVE  owner' = owner
    BY <2>1, <2>4, LoggerAssumption DEF Lock, AddRelock, CanLock
  <2>5. QED
    BY <2>2, <2>3, <2>4 DEF Next, Step
<1>2. QED
  BY InitIndInv, NextIndInv, <1>1, PTL DEF Spec, AppenderPinsLock
=============================================================================
