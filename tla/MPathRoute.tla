----------------------------- MODULE MPathRoute -----------------------------
(***************************************************************************)
(* Route coverage (common/path/MPathAlgoCovRoute.java): the paths of the   *)
(* routes a scenario lists.  A partial route asks for the complete paths   *)
(* that have all its states and steps; an overall route describes a whole  *)
(* path, by its states in order and its steps.                             *)
(*                                                                         *)
(* A dfs activation is an element of stack; a step is one loop iteration,  *)
(* one call or one return, as in module MPathSearch.                       *)
(***************************************************************************)
EXTENDS MPathAlgo

CONSTANTS Nodes,      \* state names
          Steps,      \* step numbers
          Graphs,     \* the graphs considered
          Scenarios   \* the scenarios considered

(* MGenScenParser drops routes without a state or without a step.          *)
Route == [cov : {"partial", "overall"}, states : Seq(Nodes) \ {<<>>}, steps : Seq(Steps) \ {<<>>}]
Scenario == [start : SUBSET Nodes, stop : SUBSET Nodes, routes : Seq(Route)]

RouteAssumption ==
  /\ Graphs \subseteq Seq(Edge(Nodes, Steps))
  /\ Scenarios \subseteq Scenario

VARIABLES
  graph,      \* the graph
  repeatTime, \* repeatTime[e]: how often edge e may still be used
  scenario,   \* the options and routes of the scenario
  ri,         \* the route being searched, or the next one
  pc,         \* where genPath is
  todo,       \* start states still to be searched
  statePath, edgePath, stepPath,
  stack,      \* the dfs activations
  paths       \* the result lists

pathVars == <<statePath, edgePath, stepPath>>
vars == <<graph, repeatTime, scenario, ri, pc, todo, statePath, edgePath, stepPath, stack, paths>>

(* genRouteList: states and steps the graph does not have are dropped.     *)
RouteStates(r) == SelectSeq(r.states, LAMBDA n : n \in States(graph))
RouteSteps(r)  == SelectSeq(r.steps, LAMBDA x : x \in StepsOf(graph))

route    == scenario.routes[ri]
overall  == route.cov = "overall"
stateSet == Elems(RouteStates(route))
stepSet  == Elems(RouteSteps(route))
stop     == StateNumSet(graph, scenario.stop)
curState == Last(statePath)
top      == Last(stack)

(* MPathAlgo.init.                                                         *)
Init ==
  /\ graph \in Graphs
  /\ repeatTime = Repeats(graph)
  /\ scenario \in Scenarios
  /\ ri = 1
  /\ pc = "route"
  /\ todo = {}
  /\ statePath = <<>> /\ edgePath = <<>> /\ stepPath = <<>>
  /\ stack = <<>>
  /\ paths = [i \in {} |-> <<>>]

Activation == [next |-> 1, ok |-> FALSE, left |-> 0]

(* A partial route is searched from every start state.                     *)
PartialRoute ==
  /\ pc = "route"
  /\ ri \in DOMAIN scenario.routes
  /\ ~overall
  /\ todo' = StartStateNumSet(graph, scenario.start)
  /\ pc' = "start"
  /\ UNCHANGED <<graph, repeatTime, scenario, ri, pathVars, stack, paths>>

StartState ==
  /\ pc = "start"
  /\ \E s \in todo :
       /\ todo' = todo \ {s}
       /\ statePath' = <<s>>
  /\ stack' = <<Activation>>
  /\ pc' = "enter"
  /\ UNCHANGED <<graph, repeatTime, scenario, ri, edgePath, stepPath, paths>>

(* An overall route is searched from its own first state.                  *)
OverallRoute ==
  /\ pc = "route"
  /\ ri \in DOMAIN scenario.routes
  /\ overall
  /\ RouteStates(route) # <<>>
  /\ statePath' = <<RouteStates(route)[1]>>
  /\ stack' = <<Activation>>
  /\ pc' = "enter"
  /\ UNCHANGED <<graph, repeatTime, scenario, ri, todo, edgePath, stepPath, paths>>

(* get(0) of an empty list throws, and the scenarios after it get no path. *)
RouteFails ==
  /\ pc = "route"
  /\ ri \in DOMAIN scenario.routes
  /\ overall
  /\ RouteStates(route) = <<>>
  /\ pc' = "failed"
  /\ UNCHANGED <<graph, repeatTime, scenario, ri, todo, pathVars, stack, paths>>

AddPathIf(c) ==
  IF c THEN paths' = Add(paths, [states |-> statePath, edges |-> edgePath, steps |-> stepPath])
  ELSE UNCHANGED paths

(* dfsOverall up to its loop; a path that ends here may also go on.        *)
OverallEnter ==
  /\ pc = "enter"
  /\ overall
  /\ AddPathIf(/\ curState = Last(RouteStates(route))
               /\ Len(stepPath) = Cardinality(stepSet))
  /\ pc' = "loop"
  /\ UNCHANGED <<graph, repeatTime, scenario, ri, todo, pathVars, stack>>

PartialFilter == stateSet \subseteq Elems(statePath) /\ stepSet \subseteq Elems(stepPath)

AtStop == curState \in stop \/ (OutEdges(graph, curState) = {} /\ stop = {})

(* dfsPartial up to its loop.                                              *)
PartialStop ==
  /\ pc = "enter"
  /\ ~overall
  /\ AtStop
  /\ AddPathIf(PartialFilter)
  /\ pc' = "return"
  /\ UNCHANGED <<graph, repeatTime, scenario, ri, todo, pathVars, stack>>

PartialEnter ==
  /\ pc = "enter"
  /\ ~overall
  /\ ~AtStop
  /\ pc' = "loop"
  /\ UNCHANGED <<graph, repeatTime, scenario, ri, todo, pathVars, stack, paths>>

Pending == {e \in OutEdges(graph, curState) : e >= top.next}
IsNext(e) == e \in Pending /\ \A f \in Pending : e <= f

(* The loop's increment.                                                   *)
NextEdge(e) == e + 1

HasOneEdge(e) == \A f \in OutEdges(graph, curState) : graph[f].to = graph[e].to => f = e

(* dfsOverall keeps to the states of the route, and compares the step only *)
(* where several edges lead to the same state.                             *)
MayFollow(e) ==
  overall => /\ graph[e].to \in stateSet
             /\ HasOneEdge(e) \/ graph[e].step \in stepSet

Follow(e) ==
  /\ pc = "loop"
  /\ IsNext(e)
  /\ repeatTime[e] > 0
  /\ MayFollow(e)
  /\ repeatTime' = [repeatTime EXCEPT ![e] = @ - 1]
  /\ statePath' = Append(statePath, graph[e].to)
  /\ edgePath' = Append(edgePath, e)
  /\ stepPath' = Append(stepPath, graph[e].step)
  /\ stack' = Append([stack EXCEPT ![Len(stack)] =
                        [next |-> e, ok |-> top.ok, left |-> repeatTime[e]]], Activation)
  /\ pc' = "enter"
  /\ UNCHANGED <<graph, scenario, ri, todo, paths>>

Skip(e) ==
  /\ pc = "loop"
  /\ IsNext(e)
  /\ ~(repeatTime[e] > 0 /\ MayFollow(e))
  /\ stack' = [stack EXCEPT ![Len(stack)] = [top EXCEPT !.next = NextEdge(e)]]
  /\ UNCHANGED <<graph, repeatTime, scenario, ri, pc, todo, pathVars, paths>>

(* After the loop; a partial path that can go nowhere may be complete.     *)
Leave ==
  /\ pc = "loop"
  /\ Pending = {}
  /\ AddPathIf(~overall /\ ~top.ok /\ stop = {} /\ PartialFilter)
  /\ pc' = "return"
  /\ UNCHANGED <<graph, repeatTime, scenario, ri, todo, pathVars, stack>>

RestoreRepeatTime(e, caller) == repeatTime' = [repeatTime EXCEPT ![e] = caller.left]
CutPaths == /\ statePath' = Front(statePath)
            /\ edgePath' = Front(edgePath)
            /\ stepPath' = Front(stepPath)

Restore ==
  /\ pc = "return"
  /\ Len(stack) > 1
  /\ LET caller == stack[Len(stack) - 1]
         e == caller.next
     IN  /\ RestoreRepeatTime(e, caller)
         /\ stack' = [Front(stack) EXCEPT ![Len(stack) - 1] =
                        [next |-> NextEdge(e), ok |-> TRUE, left |-> caller.left]]
  /\ CutPaths
  /\ pc' = "loop"
  /\ UNCHANGED <<graph, scenario, ri, todo, paths>>

(* The search from one state is over.                                      *)
EndStart ==
  /\ pc = "return"
  /\ Len(stack) = 1
  /\ stack' = <<>>
  /\ statePath' = <<>>
  /\ pc' = "start"
  /\ UNCHANGED <<graph, repeatTime, scenario, ri, todo, edgePath, stepPath, paths>>

EndRoute ==
  /\ pc = "start"
  /\ todo = {}
  /\ ri' = ri + 1
  /\ pc' = "route"
  /\ UNCHANGED <<graph, repeatTime, scenario, todo, pathVars, stack, paths>>

Finish ==
  /\ pc = "route"
  /\ ri \notin DOMAIN scenario.routes
  /\ pc' = "done"
  /\ UNCHANGED <<graph, repeatTime, scenario, ri, todo, pathVars, stack, paths>>

Returned == pc \in {"done", "failed"} /\ UNCHANGED vars

Next ==
  \/ PartialRoute \/ OverallRoute \/ RouteFails \/ StartState
  \/ OverallEnter \/ PartialStop \/ PartialEnter
  \/ \E e \in DOMAIN graph : Follow(e) \/ Skip(e)
  \/ Leave \/ Restore \/ EndStart \/ EndRoute \/ Finish \/ Returned

Spec == Init /\ [][Next]_vars

-----------------------------------------------------------------------------
(* Every variable keeps its type, and each dfs activation belongs to one   *)
(* state of the path under construction.                                   *)
TypeOK ==
  /\ graph \in Seq(Edge(Nodes, Steps))
  /\ repeatTime \in [DOMAIN graph -> Nat]
  /\ ri \in 1..(Len(scenario.routes) + 1)
  /\ pc \in {"route", "start", "enter", "loop", "return", "done", "failed"}
  /\ todo \subseteq Nodes
  /\ statePath \in Seq(Nodes) /\ edgePath \in Seq(DOMAIN graph) /\ stepPath \in Seq(Steps)
  /\ stack \in Seq([next : Nat, ok : BOOLEAN, left : Nat])
  /\ Len(stack) = Len(statePath)
  /\ pc \in {"enter", "loop", "return"} <=> stack # <<>>

(* What is left of an edge's repeat time and what the path under           *)
(* construction uses of it add up to the repeat time of the model, so that *)
(* each route, and the next scenario, starts from the graph of the model.  *)
RouteEdgeBudget ==
  \A e \in DOMAIN graph : repeatTime[e] + Count(e, edgePath) = graph[e].repeat
=============================================================================
