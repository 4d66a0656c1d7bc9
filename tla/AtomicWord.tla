----------------------------- MODULE AtomicWord -----------------------------
(* What atomicops.h promises of one word: between its call and its return   *)
(* every operation takes effect once, at one moment.                        *)
EXTENDS AtomicPlatforms

CONSTANTS Threads, Size   \* words are 0 .. Size - 1

VARIABLES word, call

Idle == [stage |-> "idle"]
Calls == [stage : {"called"}, op : Ops, old : 0 .. Size - 1, new : 0 .. Size - 1]

(* The word after the operation and what the operation returns.             *)
Effect(op, old, new, w) ==
  CASE op \in CompareAndSwaps -> [word |-> IF w = old THEN new ELSE w, result |-> w]
    [] op = "NoBarrier_AtomicExchange" -> [word |-> new, result |-> w]
    [] op \in Increments -> [word |-> (w + new) % Size, result |-> (w + new) % Size]
    [] op \in Stores -> [word |-> new, result |-> 0]
    [] op \in Loads -> [word |-> w, result |-> w]

Init == word \in 0 .. Size - 1 /\ call = [t \in Threads |-> Idle]

Invoke(t) ==
  /\ call[t] = Idle
  /\ call'[t] \in Calls
  /\ call' = [call EXCEPT ![t] = call'[t]]
  /\ UNCHANGED word

TakeEffect(t) ==
  /\ call[t].stage = "called"
  /\ LET e == Effect(call[t].op, call[t].old, call[t].new, word)
     IN /\ word' = e.word
        /\ call' = [call EXCEPT ![t] = [stage |-> "done", result |-> e.result]]

Return(t) ==
  /\ call[t].stage = "done"
  /\ call' = [call EXCEPT ![t] = Idle]
  /\ UNCHANGED word

Next == \E t \in Threads : Invoke(t) \/ TakeEffect(t) \/ Return(t)

Spec == Init /\ [][Next]_<<word, call>>
=============================================================================
