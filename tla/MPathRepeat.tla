----------------------------- MODULE MPathRepeat -----------------------------
(***************************************************************************)
(* The path algorithm "repeat" (common/path/MPathAlgoCovRepeat.java): an   *)
(* edge is on a path at most once, but then as often as its repeat time    *)
(* says, in a row.  The search marks an edge as used in the graph itself   *)
(* (its end becomes -1) and restores it when it comes back.                *)
(*                                                                         *)
(* A dfs activation is an element of stack; a step is one loop iteration,  *)
(* one call or one return, as in module MPathSearch.                       *)
(***************************************************************************)
EXTENDS MPathAlgo

CONSTANTS Nodes,      \* state names
          Steps,      \* step numbers
          Graphs,     \* the graphs considered
          Scenarios   \* the scenarios considered

Scenario == [start : SUBSET Nodes, stop : SUBSET Nodes, state : SUBSET Nodes, step : SUBSET Steps]

RepeatAssumption ==
  /\ Graphs \subseteq Seq(Edge(Nodes, Steps))
  /\ Scenarios \subseteq Scenario

VARIABLES
  graph,      \* the graph
  used,       \* the edges whose end is marked with -1
  scenario,   \* the options of the scenario
  pc,         \* where genPath is
  todo,       \* start states still to be searched
  statePath, edgePath, stepPath,
  stack,      \* the dfs activations: the edge looked at, hasOkNeighbour
  paths       \* the result lists

pathVars == <<statePath, edgePath, stepPath>>
vars == <<graph, used, scenario, pc, todo, statePath, edgePath, stepPath, stack, paths>>

stop == StateNumSet(graph, scenario.stop)
curState == Last(statePath)
top == Last(stack)

(* MPathAlgo.init.                                                         *)
Init ==
  /\ graph \in Graphs
  /\ used = {}
  /\ scenario \in Scenarios
  /\ pc = "start"
  /\ todo = StartStateNumSet(graph, scenario.start)
  /\ statePath = <<>> /\ edgePath = <<>> /\ stepPath = <<>>
  /\ stack = <<>>
  /\ paths = [i \in {} |-> <<>>]

Activation == [next |-> 1, ok |-> FALSE]

StartState ==
  /\ pc = "start"
  /\ \E s \in todo :
       /\ todo' = todo \ {s}
       /\ statePath' = <<s>>
  /\ stack' = <<Activation>>
  /\ pc' = "enter"
  /\ UNCHANGED <<graph, used, scenario, edgePath, stepPath, paths>>

AddPath == paths' = Add(paths, [states |-> statePath, edges |-> edgePath, steps |-> stepPath])

AtStop == curState \in stop \/ (OutEdges(graph, curState) = {} /\ stop = {})

(* dfs up to its loop: a path that may end here is added, and then the     *)
(* search goes on from here all the same.                                  *)
Enter ==
  /\ pc = "enter"
  /\ IF AtStop THEN AddPath ELSE UNCHANGED paths
  /\ pc' = "loop"
  /\ UNCHANGED <<graph, used, scenario, todo, pathVars, stack>>

Pending == {e \in OutEdges(graph, curState) : e >= top.next}
IsNext(e) == e \in Pending /\ \A f \in Pending : e <= f

(* The loop's increment.                                                   *)
NextEdge(e) == e + 1

Times(x, n) == [k \in 1..n |-> x]

(* The state path with the end of the edge added repeat time times.        *)
StatesWith(e) == statePath \o Times(graph[e].to, graph[e].repeat)

(* The loop takes an edge that is not on the path: it marks it and adds it *)
(* to the path repeat time times.                                          *)
Follow(e) ==
  /\ pc = "loop"
  /\ IsNext(e)
  /\ e \notin used
  /\ used' = used \cup {e}
  /\ statePath' = StatesWith(e)
  /\ edgePath' = edgePath \o Times(e, graph[e].repeat)
  /\ stepPath' = stepPath \o Times(graph[e].step, graph[e].repeat)
  /\ stack' = Append([stack EXCEPT ![Len(stack)] = [next |-> e, ok |-> TRUE]], Activation)
  /\ pc' = "enter"
  /\ UNCHANGED <<graph, scenario, todo, paths>>

Skip(e) ==
  /\ pc = "loop"
  /\ IsNext(e)
  /\ e \in used
  /\ stack' = [stack EXCEPT ![Len(stack)] = [next |-> NextEdge(e), ok |-> top.ok]]
  /\ UNCHANGED <<graph, used, scenario, pc, todo, pathVars, paths>>

(* Mutant: a path that can go nowhere counts though stop states are given.  *)
ExhaustedAnyStop == ~top.ok

(* No edge could be taken and no stop state is given.                      *)
Exhausted == ~top.ok /\ stop = {}

(* dfs returns; a path that can go nowhere is added.                       *)
Leave ==
  /\ pc = "loop"
  /\ Pending = {}
  /\ IF Exhausted THEN AddPath ELSE UNCHANGED paths
  /\ pc' = "return"
  /\ UNCHANGED <<graph, used, scenario, todo, pathVars, stack>>

Cut(s, n) == SubSeq(s, 1, Len(s) - n)

(* The caller takes the edge off its path and restores its end.            *)
Restore ==
  /\ pc = "return"
  /\ Len(stack) > 1
  /\ LET e == stack[Len(stack) - 1].next
         n == graph[e].repeat
     IN  /\ used' = used \ {e}
         /\ statePath' = Cut(statePath, n)
         /\ edgePath' = Cut(edgePath, n)
         /\ stepPath' = Cut(stepPath, n)
         /\ stack' = [Front(stack) EXCEPT ![Len(stack) - 1] = [next |-> NextEdge(e), ok |-> TRUE]]
  /\ pc' = "loop"
  /\ UNCHANGED <<graph, scenario, todo, paths>>

EndStart ==
  /\ pc = "return"
  /\ Len(stack) = 1
  /\ stack' = <<>>
  /\ statePath' = <<>>
  /\ pc' = "start"
  /\ UNCHANGED <<graph, used, scenario, todo, edgePath, stepPath, paths>>

(* The through filters; genPath returns.                                   *)
Finish ==
  /\ pc = "start"
  /\ todo = {}
  /\ paths' = DelPathWithoutThroughStep(
                DelPathWithoutThroughState(paths, StateNumSet(graph, scenario.state)),
                StepNumSet(graph, scenario.step))
  /\ pc' = "done"
  /\ UNCHANGED <<graph, used, scenario, todo, pathVars, stack>>

Returned == pc = "done" /\ UNCHANGED vars

Next ==
  \/ StartState \/ Enter \/ Leave \/ Restore \/ EndStart \/ Finish
  \/ \E e \in DOMAIN graph : Follow(e) \/ Skip(e)
  \/ Returned

Spec == Init /\ [][Next]_vars

-----------------------------------------------------------------------------
(* Every variable keeps its type, and the three paths stay aligned.        *)
TypeOK ==
  /\ graph \in Seq(Edge(Nodes, Steps))
  /\ used \subseteq DOMAIN graph
  /\ scenario \in Scenario
  /\ pc \in {"start", "enter", "loop", "return", "done"}
  /\ todo \subseteq Nodes
  /\ statePath \in Seq(Nodes) /\ edgePath \in Seq(DOMAIN graph) /\ stepPath \in Seq(Steps)
  /\ stack \in Seq([next : Nat, ok : BOOLEAN])
  /\ Len(edgePath) = Len(stepPath)
  /\ pc \in {"enter", "loop", "return"} => Len(statePath) = Len(edgePath) + 1

(* The marks in the graph, which the next scenario searches too, are the   *)
(* edges of the path under construction and no others, and each of them is *)
(* on the path exactly as often as its repeat time says.                   *)
MarksArePath ==
  /\ used = Elems(edgePath)
  /\ \A e \in used : Count(e, edgePath) = graph[e].repeat
  /\ pc \in {"start", "done"} => used = {}
=============================================================================
