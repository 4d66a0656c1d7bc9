---------------------------- MODULE MCPathSearch ----------------------------
(***************************************************************************)
(* The path algorithms on small graphs: a branch, a cycle, a self loop,    *)
(* parallel edges, an unreachable part and repeat times, with scenarios    *)
(* that exercise every option.  Every behaviour is of one part: the search *)
(* of a list of scenarios, "repeat" or "route"; the variables of the other *)
(* two keep one value.  What is to be delivered is said without a search:  *)
(* the walks of the graph that use no edge more often than its repeat time *)
(* and that are complete, the through conditions and the extremal lengths. *)
(***************************************************************************)
EXTENDS MPathSearch

VARIABLES part,
          repeat_graph, repeat_used, repeat_scenario, repeat_pc, repeat_todo,
          repeat_statePath, repeat_edgePath, repeat_stepPath, repeat_stack, repeat_paths,
          route_graph, route_repeatTime, route_scenario, route_ri, route_pc, route_todo,
          route_statePath, route_edgePath, route_stepPath, route_stack, route_paths

-----------------------------------------------------------------------------
E(f, t, s, r) == [from |-> f, to |-> t, step |-> s, repeat |-> r]

Diamond   == <<E("A", "B", 1, 1), E("A", "C", 2, 1), E("B", "D", 3, 1), E("C", "D", 3, 1)>>
Cycle     == <<E("A", "B", 1, 1), E("B", "C", 2, 2), E("C", "B", 3, 1), E("B", "D", 4, 1)>>
SelfLoop  == <<E("A", "B", 1, 1), E("B", "B", 2, 2), E("B", "C", 3, 1), E("B", "C", 4, 1)>>
TwoStarts == <<E("A", "C", 1, 1), E("B", "C", 2, 1), E("C", "D", 3, 2), E("D", "C", 4, 1)>>

MCGraphs == {Diamond, Cycle, SelfLoop, TwoStarts}
MCNodes == {"A", "B", "C", "D", "X"}
MCSteps == 1..9

Sc(n, a, st, sp, ts, tx) ==
  [name |-> n, path |-> a, start |-> st, stop |-> sp, state |-> ts, step |-> tx]

(* Each algorithm with each kind of option, followed by a second scenario. *)
Options(n, algos) ==
  {Sc(n, a, st, sp, ts, tx) : a \in algos, st \in {{}, {"A"}, {"B", "X"}},
     sp \in {{}, {"D"}, {"B", "C"}}, ts \in {{}, {"C"}, {"B", "D"}}, tx \in {{}, {3, 4}}}

Second == Sc("s2", "short", {}, {"D"}, {"C"}, {})

SecondN2N(a) == Sc("s2", a, {"C"}, {"D"}, {}, {})

MCBestLists ==
  {<<sc, SecondN2N("shortn2n")>> : sc \in Options("s1", {"shortn2n"})} \cup
  {<<sc, SecondN2N("longn2n")>> : sc \in Options("s1", {"longn2n"})} \cup
  {<<sc>> : sc \in Options("s1", {"least"})}

MCScenarioLists == {<<>>} \cup
  {<<sc, Second>> : sc \in Options("s1", {"all", "long", "short", "other"})} \cup MCBestLists

RepeatGraphs == {
  <<E("A", "B", 1, 1), E("A", "C", 2, 2), E("B", "D", 3, 1), E("C", "D", 3, 1)>>,
  <<E("A", "B", 1, 1), E("B", "C", 2, 2), E("C", "B", 3, 1), E("B", "D", 4, 1)>>,
  <<E("A", "B", 1, 1), E("B", "B", 2, 2), E("B", "A", 3, 1)>>}
RepeatScenarios ==
  {[start |-> st, stop |-> sp, state |-> ts, step |-> tx] :
     st \in {{}, {"A"}, {"B", "X"}}, sp \in {{}, {"D"}, {"A", "C"}},
     ts \in {{}, {"C"}}, tx \in {{}, {2, 3}}}

Cross == <<E("A", "B", 1, 1), E("B", "C", 2, 1), E("C", "D", 3, 1),
           E("A", "C", 4, 1), E("C", "B", 5, 1), E("B", "D", 6, 1)>>
Loops == <<E("A", "B", 1, 1), E("A", "B", 2, 1), E("B", "B", 3, 2), E("B", "A", 4, 1)>>
RouteGraphs == {Cross, Loops}

RouteOf(c, s, x) == [cov |-> c, states |-> s, steps |-> x]
WithRoutes(st, sp, r) == [start |-> st, stop |-> sp, routes |-> r]
Routes == {RouteOf(c, s, x) : c \in {"partial", "overall"},
             s \in {<<"A", "B">>, <<"B", "X", "D">>, <<"A", "B", "C", "D">>, <<"X">>},
             x \in {<<1>>, <<1, 3>>, <<1, 2, 3>>, <<9>>}}
RouteScenarios ==
  {WithRoutes(st, sp, <<r>>) : st \in {{}, {"A"}}, sp \in {{}, {"D", "A"}}, r \in Routes} \cup
  {WithRoutes({"A"}, {"D"}, <<q, r>>) :
     q \in {RouteOf("partial", <<"B">>, <<1>>), RouteOf("overall", <<"A", "B">>, <<1>>)},
     r \in Routes}

RP == INSTANCE MPathRepeat WITH
        Graphs <- RepeatGraphs, Scenarios <- RepeatScenarios, graph <- repeat_graph,
        used <- repeat_used, scenario <- repeat_scenario, pc <- repeat_pc,
        todo <- repeat_todo, statePath <- repeat_statePath, edgePath <- repeat_edgePath,
        stepPath <- repeat_stepPath, stack <- repeat_stack, paths <- repeat_paths
RO == INSTANCE MPathRoute WITH
        Graphs <- RouteGraphs, Scenarios <- RouteScenarios, graph <- route_graph,
        repeatTime <- route_repeatTime, scenario <- route_scenario, ri <- route_ri,
        pc <- route_pc, todo <- route_todo, statePath <- route_statePath,
        edgePath <- route_edgePath, stepPath <- route_stepPath, stack <- route_stack,
        paths <- route_paths
ASSUME RP!RepeatAssumption /\ RO!RouteAssumption

repeatVars == <<repeat_graph, repeat_used, repeat_scenario, repeat_pc, repeat_todo,
               repeat_statePath, repeat_edgePath, repeat_stepPath, repeat_stack,
               repeat_paths>>
routeVars == <<route_graph, route_repeatTime, route_scenario, route_ri, route_pc,
              route_todo, route_statePath, route_edgePath, route_stepPath, route_stack,
              route_paths>>
repeatUnused ==
    /\ repeat_graph = "unused" /\ repeat_used = "unused" /\ repeat_scenario = "unused"
    /\ repeat_pc = "unused" /\ repeat_todo = "unused" /\ repeat_statePath = "unused"
    /\ repeat_edgePath = "unused" /\ repeat_stepPath = "unused" /\ repeat_stack = "unused"
    /\ repeat_paths = "unused"
routeUnused ==
    /\ route_graph = "unused" /\ route_repeatTime = "unused" /\ route_scenario = "unused"
    /\ route_ri = "unused" /\ route_pc = "unused" /\ route_todo = "unused"
    /\ route_statePath = "unused" /\ route_edgePath = "unused" /\ route_stepPath = "unused"
    /\ route_stack = "unused" /\ route_paths = "unused"

-----------------------------------------------------------------------------
AnyInit ==
  /\ part \in {"search", "repeat", "route"}
  /\ part # "search" => graph = Diamond /\ scenarios = <<>>
  /\ Init
  /\ IF part = "repeat" THEN RP!Init ELSE repeatUnused
  /\ IF part = "route" THEN RO!Init ELSE routeUnused

AnyNext ==
  /\ UNCHANGED part
  /\ IF part = "search" THEN Next ELSE UNCHANGED vars
  /\ IF part = "repeat" THEN RP!Next ELSE UNCHANGED repeatVars
  /\ IF part = "route" THEN RO!Next ELSE UNCHANGED routeVars

anyVars == <<part, vars, repeatVars, routeVars>>

(* A search is one thread that never waits: it takes its next step.        *)
AnySpec == AnyInit /\ [][AnyNext]_anyVars /\ WF_anyVars(AnyNext)

-----------------------------------------------------------------------------
(* Sequences of different edges, each going on where the one before ends.  *)
Trails(g, s) ==
  {w \in UNION {[1..n -> DOMAIN g] : n \in 0..Len(g)} :
     /\ \A k \in DOMAIN w : g[w[k]].from = StatesOn(g, s, w)[k]
     /\ \A j, k \in DOMAIN w : w[j] = w[k] => j = k}

(* How often a trail is added: at a stop state, or with no stop state when *)
(* its last state has no edge left, twice when that state never had one.   *)
TimesAdded(g, stops, s, w) ==
  LET out == OutEdges(g, EndOf(g, s, w)) IN
  IF stops # {} THEN IF EndOf(g, s, w) \in stops THEN 1 ELSE 0
  ELSE IF out = {} THEN 2
  ELSE IF out \subseteq Elems(w) THEN 1 ELSE 0

(* The edges of a trail, each repeated; k counts positions of the result.  *)
Expansions(g, w) ==
  {v \in UNION {[1..n -> DOMAIN g] : n \in {TotalRepeat([k \in DOMAIN w |-> g[w[k]]])}} :
     /\ \A e \in Elems(w) : Count(e, v) = g[e].repeat
     /\ \A j, k \in DOMAIN v : \A x, y \in DOMAIN w :
          j <= k /\ v[j] = w[x] /\ v[k] = w[y] => x <= y}

TrailsThrough(g, sc) ==
  {<<s, w>> \in UNION {{s} \X Trails(g, s) : s \in StartStateNumSet(g, sc.start)} :
     LET ts == StateNumSet(g, sc.state)
         tx == StepNumSet(g, sc.step)
     IN  /\ TimesAdded(g, StateNumSet(g, sc.stop), s, w) > 0
         /\ ts = {} \/ Elems(StatesOn(g, s, w)) \cap ts # {}
         /\ tx = {} \/ Elems(StepsOn(g, w)) \cap tx # {}}

(* "repeat" delivers every trail with a proper end, its edges repeated,    *)
(* once, or twice where the trail ends in a state without outgoing edges.  *)
RepeatDeliversExactly ==
  repeat_pc = "done" =>
    LET T == TrailsThrough(repeat_graph, repeat_scenario)
        Of(t) == {PathOf(repeat_graph, t[1], v) : v \in Expansions(repeat_graph, t[2])}
    IN  /\ Elems(repeat_paths) = UNION {Of(t) : t \in T}
        /\ \A t \in T : \A p \in Of(t) :
             Cardinality({i \in DOMAIN repeat_paths : repeat_paths[i] = p}) =
               TimesAdded(repeat_graph, RP!stop, t[1], t[2])

-----------------------------------------------------------------------------
PartialPaths(r) ==
  {p \in CompleteFrom(route_graph, StartStateNumSet(route_graph, route_scenario.start), RO!stop) :
     /\ Elems(RO!RouteStates(r)) \subseteq Elems(p.states)
     /\ Elems(RO!RouteSteps(r)) \subseteq Elems(p.steps)}

(* The walks between the end states of the route that have as many edges   *)
(* as the route has different steps, keep to its states and, where edges   *)
(* are parallel, to its steps.                                             *)
OverallPaths(r) ==
  LET g == route_graph
      first == RO!RouteStates(r)[1]
      x == Elems(RO!RouteSteps(r))
      Parallel(e) == \E f \in DOMAIN g : f # e /\ g[f].from = g[e].from /\ g[f].to = g[e].to
  IN  {PathOf(g, first, w) : w \in {v \in Walks(g, first) :
         /\ Len(v) = Cardinality(x)
         /\ EndOf(g, first, v) = Last(RO!RouteStates(r))
         /\ \A k \in DOMAIN v : /\ g[v[k]].to \in Elems(RO!RouteStates(r))
                                /\ Parallel(v[k]) => g[v[k]].step \in x}}

PathsOf(r) == IF r.cov = "overall" THEN OverallPaths(r) ELSE PartialPaths(r)

(* The result is the paths of every route, one after the other: a path is  *)
(* there once for each route it belongs to.                                *)
RoutesDeliverExactly ==
  route_pc = "done" =>
    LET R == DOMAIN route_scenario.routes
        due == [i \in R |-> PathsOf(route_scenario.routes[i])]
    IN  /\ Elems(route_paths) = UNION {due[i] : i \in R}
        /\ \A p \in Elems(route_paths) :
             Cardinality({i \in DOMAIN route_paths : route_paths[i] = p}) =
               Cardinality({i \in R : p \in due[i]})

-----------------------------------------------------------------------------
(* "repeat" and "route" deliver exactly the paths they are there for       *)
(* (MPathAlgoCovRepeat.java, MPathAlgoCovRoute.java), each as often as it  *)
(* is due; in every search the three paths under construction are one walk *)
(* and the marks and repeat times that are changed in the graph meanwhile  *)
(* are accounted for by it.                                                *)
DeliverExactly ==
  /\ part = "search" => TypeOK /\ PathIsWalk /\ EdgeBudget
  /\ part = "repeat" => RP!TypeOK /\ RP!MarksArePath /\ RepeatDeliversExactly
  /\ part = "route"  => RO!TypeOK /\ RO!RouteEdgeBudget /\ RoutesDeliverExactly

(* Every search ends, cycles, repeat times and the rounds of the cover     *)
(* notwithstanding (MPathAlgoCovAll.java:93, MPathAlgoCovLeast.java:162).  *)
SearchesReturn ==
  /\ part = "search" ~> Done
  /\ part = "repeat" ~> part = "repeat" /\ repeat_pc = "done"
  /\ part = "route"  ~> part = "route" /\ route_pc \in {"done", "failed"}
=============================================================================
