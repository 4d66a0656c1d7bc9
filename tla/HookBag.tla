------------------------------- MODULE HookBag -------------------------------
(* What a HookList promises its callers (malloc_hook-inl.h): a bag of at     *)
(* most Capacity hooks, to which Add adds one copy and from which Remove     *)
(* takes one copy, each in a single step whatever the other threads do.      *)
(* The copies in the bag are told apart by numbers.                          *)
EXTENDS Naturals

CONSTANTS Hooks, Capacity

VARIABLE bag   \* the hooks in it, by the numbers of the copies

Init == bag = [i \in {} |-> i]

Add(h) == \E i \in (1..Capacity) \ DOMAIN bag :
             bag' = [j \in DOMAIN bag \cup {i} |-> IF j = i THEN h ELSE bag[j]]

Remove(h) == \E i \in DOMAIN bag :
                /\ bag[i] = h
                /\ bag' = [j \in DOMAIN bag \ {i} |-> bag[j]]

Next == \E h \in Hooks : Add(h) \/ Remove(h)

Spec == Init /\ [][Next]_bag
==============================================================================
