------------------------------- MODULE MLogger -------------------------------
(***************************************************************************)
(* One MLogger object and the threads that share it                        *)
(* (framework/logger/MLogger.java): the list of appenders, the level       *)
(* filter of each appender, the cached lowest level and the reentrant      *)
(* write lock that guards them.  A thread executes one call at a time.     *)
(* Taking the lock, testing the list, changing it and giving the lock back *)
(* are steps of their own, so that what excludes two threads is the lock   *)
(* and nothing else.  lowestLevel is also written by setLogLevel after it  *)
(* has released the lock.                                                  *)
(***************************************************************************)
EXTENDS Integers, Sequences, FiniteSets

CONSTANTS Threads,      \* threads that share the logger
          Appenders,    \* MLogAppender objects
          Levels,       \* log levels, INFO < WARNING < ERROR < FATAL
          Fatal,        \* MLOG_LEVEL_FATAL
          NoThread,     \* owner of the free lock
          MaxHold,      \* hold count limit of the lock (65535 in the JDK)
          MaxCalls      \* bound: calls each thread makes

ASSUME LoggerAssumption ==
  /\ Levels \subseteq Int
  /\ Fatal \in Levels
  /\ NoThread \notin Threads
  /\ MaxHold \in Nat \ {0}
  /\ MaxCalls \in Nat

VARIABLES owner,        \* the thread that holds wLock, or NoThread
          hold,         \* wLock's hold count
          logList,      \* the appenders, in the order they were added
          levelFilter,  \* levelFilter[a]: the filter of appender a
          lowestLevel,  \* MLogger.lowestLevel
          shown,        \* shown[a]: the levels of the events a has written
          pc,           \* pc[t]: where t is in its call
          arg,          \* arg[t]: the argument of t's call
          returned,     \* returned[t]: how t's last call ended
          calls         \* calls[t]: calls t has made so far

dataVars == <<logList, levelFilter, lowestLevel, shown>>
vars == <<owner, hold, logList, levelFilter, lowestLevel, shown, pc, arg,
          returned, calls>>

Ops == {"add", "remove", "setLevel", "write"}
Locked == {"addScan", "addAppend", "addLower", "addRelock",
           "removeList", "removeScan", "setFilters", "writeEvent"}
Inner == Locked \cup {"levelCheck", "levelStore"}

Args(op) == IF op \in {"add", "remove"} THEN Appenders ELSE Levels

InList(a) == \E i \in DOMAIN logList : logList[i] = a

(* ArrayList.remove: the list without its element at i.                    *)
Without(list, i) == SubSeq(list, 1, i - 1) \o SubSeq(list, i + 1, Len(list))

-----------------------------------------------------------------------------
(* new MLogger(); the appenders exist already, each with its own filter.   *)
Init ==
  /\ owner = NoThread
  /\ hold = 0
  /\ logList = <<>>
  /\ levelFilter \in [Appenders -> Levels]
  /\ lowestLevel = Fatal
  /\ shown = [a \in Appenders |-> <<>>]
  /\ pc = [t \in Threads |-> "idle"]
  /\ arg = [t \in Threads |-> Fatal]
  /\ returned = [t \in Threads |-> "none"]
  /\ calls = [t \in Threads |-> 0]

Goto(t, l) ==
  /\ pc' = [pc EXCEPT ![t] = l]
  /\ UNCHANGED <<arg, returned, calls>>

Return(t, r) ==
  /\ pc' = [pc EXCEPT ![t] = "idle"]
  /\ returned' = [returned EXCEPT ![t] = r]
  /\ UNCHANGED <<arg, calls>>

(* Mutant: the lock does not exclude another thread.                       *)
CanLockShared(t) == hold < MaxHold

(* Mutant: the lock is not reentrant.                                      *)
CanLockOnce(t) == owner = NoThread /\ hold < MaxHold /\ t \in Threads

(* wLock.lock() returns when the lock is free or already t's own, and      *)
(* throws an Error when t holds it MaxHold times.                          *)
CanLock(t) == owner \in {NoThread, t} /\ hold < MaxHold

(* A thread calls an operation: it is now at the operation's first lock(). *)
Call(t) ==
  /\ pc[t] = "idle"
  /\ calls[t] < MaxCalls
  /\ \E op \in Ops : \E x \in Args(op) :
       /\ pc' = [pc EXCEPT ![t] = op]
       /\ arg' = [arg EXCEPT ![t] = x]
  /\ calls' = [calls EXCEPT ![t] = @ + 1]
  /\ UNCHANGED <<owner, hold, logList, levelFilter, lowestLevel, shown, returned>>

(* lock() at the hold count limit throws; the caller unwinds.              *)
LockOverflow(t) ==
  /\ pc[t] \in Ops \cup {"addRelock"}
  /\ owner = t
  /\ hold = MaxHold
  /\ Return(t, "Error")
  /\ UNCHANGED <<owner, hold, logList, levelFilter, lowestLevel, shown>>

(* Every operation begins with wLock.lock().                               *)
AfterLock(op) == CASE op = "add" -> "addScan"
                   [] op = "remove" -> "removeList"
                   [] op = "setLevel" -> "setFilters"
                   [] op = "write" -> "writeEvent"

Lock(t) ==
  /\ pc[t] \in Ops
  /\ CanLock(t)
  /\ owner' = t
  /\ hold' = hold + 1
  /\ Goto(t, AfterLock(pc[t]))
  /\ UNCHANGED dataVars

(* wLock.unlock().                                                         *)
Unlock(t) ==
  /\ hold' = hold - 1
  /\ owner' = IF hold = 1 THEN NoThread ELSE owner

(* addAppender looks for the appender in the list; a duplicate returns     *)
(* without unlock().                                                       *)
AddScan(t) ==
  /\ pc[t] = "addScan"
  /\ IF InList(arg[t]) THEN Return(t, "false") ELSE Goto(t, "addAppend")
  /\ UNCHANGED <<owner, hold, dataVars>>

(* ... attaches it, and compares lowestLevel with its filter ...           *)
AddAppender(t) ==
  /\ pc[t] = "addAppend"
  /\ logList' = Append(logList, arg[t])
  /\ Goto(t, IF lowestLevel > levelFilter[arg[t]] THEN "addLower" ELSE "addRelock")
  /\ UNCHANGED <<owner, hold, levelFilter, lowestLevel, shown>>

AddLower(t) ==
  /\ pc[t] = "addLower"
  /\ lowestLevel' = levelFilter[arg[t]]
  /\ Goto(t, "addRelock")
  /\ UNCHANGED <<owner, hold, logList, levelFilter, shown>>

(* The last statement of addAppender is wLock.lock(), not unlock().        *)
AddRelock(t) ==
  /\ pc[t] = "addRelock"
  /\ CanLock(t)
  /\ owner' = t
  /\ hold' = hold + 1
  /\ Return(t, "true")
  /\ UNCHANGED dataVars

(* removeAppender takes the first occurrence out, if there is one ...      *)
RemoveAppender(t) ==
  /\ pc[t] = "removeList"
  /\ \/ ~InList(arg[t]) /\ UNCHANGED logList
     \/ \E i \in DOMAIN logList :
          /\ logList[i] = arg[t]
          /\ \A j \in 1..(i - 1) : logList[j] # arg[t]
          /\ logList' = Without(logList, i)
  /\ lowestLevel' = Fatal
  /\ Goto(t, "removeScan")
  /\ UNCHANGED <<owner, hold, levelFilter, shown>>

(* ... and computes the lowest level anew.                                 *)
RemoveScan(t) ==
  /\ pc[t] = "removeScan"
  /\ LET filters == {levelFilter[logList[i]] : i \in DOMAIN logList}
     IN  \E m \in filters \cup {lowestLevel} :
           /\ \A l \in filters \cup {lowestLevel} : m <= l
           /\ lowestLevel' = m
  /\ Unlock(t)
  /\ Return(t, "done")
  /\ UNCHANGED <<logList, levelFilter, shown>>

(* setLogLevel sets every filter and unlocks ...                           *)
SetLogLevel(t) ==
  /\ pc[t] = "setFilters"
  /\ levelFilter' = [a \in Appenders |-> IF InList(a) THEN arg[t] ELSE levelFilter[a]]
  /\ Unlock(t)
  /\ Goto(t, "levelCheck")
  /\ UNCHANGED <<logList, lowestLevel, shown>>

(* ... and, after the unlock, the comparison with lowestLevel ...          *)
LevelCheck(t) ==
  /\ pc[t] = "levelCheck"
  /\ IF lowestLevel > arg[t] THEN Goto(t, "levelStore") ELSE Return(t, "done")
  /\ UNCHANGED <<owner, hold, logList, levelFilter, lowestLevel, shown>>

(* ... and the assignment.                                                 *)
LevelStore(t) ==
  /\ pc[t] = "levelStore"
  /\ lowestLevel' = arg[t]
  /\ Return(t, "done")
  /\ UNCHANGED <<owner, hold, logList, levelFilter, shown>>

(* info, warning, error and fatal hand the event to every appender, which  *)
(* writes it when its filter lets it pass, and unlock.                     *)
WriteLog(t) ==
  /\ pc[t] = "writeEvent"
  /\ shown' = [a \in Appenders |-> IF InList(a) /\ arg[t] >= levelFilter[a]
                                   THEN Append(shown[a], arg[t]) ELSE shown[a]]
  /\ Unlock(t)
  /\ Return(t, "done")
  /\ UNCHANGED <<logList, levelFilter, lowestLevel>>

Step(t) ==
  \/ LockOverflow(t) \/ Lock(t)
  \/ AddScan(t) \/ AddAppender(t) \/ AddLower(t) \/ AddRelock(t)
  \/ RemoveAppender(t) \/ RemoveScan(t)
  \/ SetLogLevel(t) \/ LevelCheck(t) \/ LevelStore(t)
  \/ WriteLog(t)

Next == \E t \in Threads : Call(t) \/ Step(t)

Spec == Init /\ [][Next]_vars

-----------------------------------------------------------------------------
(* Every variable keeps its type; the lock is free exactly when its hold   *)
(* count is 0, and never passes the limit.                                 *)
TypeOK ==
  /\ owner \in Threads \cup {NoThread}
  /\ hold \in 0..MaxHold
  /\ owner = NoThread <=> hold = 0
  /\ logList \in Seq(Appenders)
  /\ levelFilter \in [Appenders -> Levels]
  /\ lowestLevel \in Levels
  /\ shown \in [Appenders -> Seq(Levels)]
  /\ pc \in [Threads -> Ops \cup Inner \cup {"idle"}]
  /\ arg \in [Threads -> Appenders \cup Levels]
  /\ \A t \in Threads :
       /\ pc[t] \in {"add", "remove", "addScan", "addAppend", "addLower", "addRelock",
                     "removeList", "removeScan"} => arg[t] \in Appenders
       /\ pc[t] \in {"setLevel", "write", "setFilters", "writeEvent", "levelCheck",
                     "levelStore"} => arg[t] \in Levels
  /\ returned \in [Threads -> {"none", "true", "false", "done", "Error"}]
  /\ calls \in [Threads -> 0..MaxCalls]

(* addAppender never attaches an appender twice, although it looks for it  *)
(* in one step and adds it in another: no thread comes between, whatever   *)
(* two threads call and however often they hold the lock, so no event is   *)
(* written twice to the same destination (MLogger.java:66 to 76).          *)
NoDuplicateAppender ==
  \A i, j \in DOMAIN logList : logList[i] = logList[j] => i = j

(* Once an appender is attached the lock never changes hands again:        *)
(* addAppender returns holding it (MLogger.java:84 locks a second time),   *)
(* so from then on one single thread performs every operation of this      *)
(* logger.                                                                 *)
AppenderPinsLock == [][logList # <<>> => owner' = owner]_vars

(* Every operation a thread calls returns ("@return true if add success,   *)
(* otherwise false", MLogger.java:60).  Two threads that share a logger    *)
(* refute it.                                                              *)
EveryCallReturns == \A t \in Threads : pc[t] # "idle" ~> pc[t] = "idle"

(* The only thing a call can wait for without end is a lock that another   *)
(* thread has kept after its call returned: with one thread, as            *)
(* MLogMag.getLogger() names loggers by thread id, every call returns.     *)
CallReturnsOrLockIsKept ==
  \A t \in Threads :
    pc[t] # "idle" ~> \/ pc[t] = "idle"
                     \/ \E u \in Threads \ {t} : owner = u /\ pc[u] = "idle"

-----------------------------------------------------------------------------
(* A thread that can run does run: the JVM schedules every runnable        *)
(* thread, and a lock that stays available is eventually granted.          *)
FairSpec == Spec /\ \A t \in Threads : WF_vars(Step(t))
=============================================================================
