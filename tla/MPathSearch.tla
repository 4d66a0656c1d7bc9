----------------------------- MODULE MPathSearch -----------------------------
(***************************************************************************)
(* Path generation: MGenPath.genPath runs the scenarios of a model one     *)
(* after the other, each with the path algorithm its option names, on one  *)
(* graph and on algorithm objects that MPathAlgoMag creates once.  The     *)
(* module covers the algorithms all, least, long, short, shortn2n and      *)
(* longn2n, whose depth first searches differ only in which edge may be    *)
(* followed and in what becomes of a complete path.                        *)
(*                                                                         *)
(* A dfs activation is an element of stack (its loop variable and the      *)
(* values it saves for the restore), the k-th activation being the one for *)
(* the k-th state of statePath.  A step is one loop iteration, one call or *)
(* one return.  The edges of the graph keep their remaining repeat times   *)
(* in repeatTime, which the search lowers and restores in place.           *)
(***************************************************************************)
EXTENDS MPathAlgo

CONSTANTS Nodes,          \* state names
          Steps,          \* step numbers
          Graphs,         \* the graphs considered
          ScenarioLists   \* the scenario lists considered

(* MPathConfig.MAX_PATH_DIST and MIN_PATH_DIST.                            *)
MaxPathDist == 99999999
MinPathDist == -1

DistAlgos == {"long", "short", "shortn2n", "longn2n"}
N2NAlgos  == {"shortn2n", "longn2n"}
Algos     == {"all", "least"} \cup DistAlgos

(* "repeat" and "route" name the algorithms of modules MPathRepeat and     *)
(* MPathRoute.                                                             *)
Scenario == [name : STRING, path : STRING \ {"repeat", "route"}, start : SUBSET Nodes,
             stop : SUBSET Nodes, state : SUBSET Nodes, step : SUBSET Steps]

ASSUME SearchAssumption ==
  /\ Graphs \subseteq Seq(Edge(Nodes, Steps))
  /\ ScenarioLists \subseteq Seq(Scenario)

(* MAX_PATH_DIST stands for "not reached": no model has as many states     *)
(* that a distance, which is a place on a path without repeated states,    *)
(* could be as large.                                                      *)
ASSUME DistAssumption == IsFiniteSet(Nodes) /\ Cardinality(Nodes) < MaxPathDist

VARIABLES
  graph,      \* the graph, never changed by the search
  repeatTime, \* repeatTime[e]: how often edge e may still be used
  scenarios,  \* the parsed scenario list
  cur,        \* the scenario being searched, or the next one
  pc,         \* where genPath is
  todo,       \* start states still to be searched
  statePath, edgePath, stepPath,   \* the path under construction
  stack,      \* the dfs activations
  paths,      \* the result lists of this genPath call
  stateDist,  \* stateDist[a]: stateDistList of algorithm object a
  bestDist,   \* bestDist[a]: minDistList or maxDistList of a, per round
  tmpPaths,   \* tmpPaths[a]: the temporary path lists of a
  chosen,     \* getCoverSet: positions of the paths chosen so far
  scenariosPathsMap   \* scenario name |-> its paths

pathVars == <<statePath, edgePath, stepPath>>
vars == <<graph, repeatTime, scenarios, cur, pc, todo, statePath, edgePath, stepPath,
          stack, paths, stateDist, bestDist, tmpPaths, chosen, scenariosPathsMap>>

-----------------------------------------------------------------------------
(* MPathAlgoMag.getAlgorithm: an unknown name means "all".                 *)
GetAlgorithm(name) == IF name \in Algos THEN name ELSE "all"

scen == scenarios[cur]
alg  == GetAlgorithm(scen.path)
stop == StateNumSet(graph, scen.stop)

curState == statePath[Len(statePath)]
top == stack[Len(stack)]

(* The distance a state has before any path reaches it.                    *)
Extreme(a) == IF a \in {"long", "longn2n"} THEN MinPathDist ELSE MaxPathDist

Init ==
  /\ graph \in Graphs
  /\ repeatTime = Repeats(graph)
  /\ scenarios \in ScenarioLists
  /\ cur = 1
  /\ pc = "idle"
  /\ todo = {}
  /\ statePath = <<>> /\ edgePath = <<>> /\ stepPath = <<>>
  /\ stack = <<>>
  /\ paths = <<>>
  /\ stateDist = [a \in DistAlgos |-> [n \in States(graph) |-> Extreme(a)]]
  /\ bestDist  = [a \in N2NAlgos |-> [n \in States(graph) |-> Extreme(a)]]
  /\ tmpPaths  = [a \in N2NAlgos |-> <<>>]
  /\ chosen = {}
  /\ scenariosPathsMap = [n \in {} |-> <<>>]

(* MGenPath picks the algorithm; genPath starts with MPathAlgo.init.       *)
GenPath ==
  /\ pc = "idle"
  /\ cur \in DOMAIN scenarios
  /\ paths' = <<>>
  /\ statePath' = <<>> /\ edgePath' = <<>> /\ stepPath' = <<>>
  /\ todo' = StartStateNumSet(graph, scen.start)
  /\ chosen' = {}
  /\ pc' = "start"
  /\ UNCHANGED <<graph, repeatTime, scenarios, cur, stack, stateDist, bestDist,
                 tmpPaths, scenariosPathsMap>>

(* A new dfs activation.                                                   *)
Activation == [next |-> 1, ok |-> FALSE, left |-> 0, dist |-> 0]

(* The next start state, in the order the HashSet yields; the N2N variants *)
(* reset their distances first (resetMinDistList, resetMaxDistList).       *)
StartState ==
  /\ pc = "start"
  /\ \E s \in todo :
       /\ todo' = todo \ {s}
       /\ statePath' = <<s>>
  /\ stack' = <<Activation>>
  /\ bestDist' = IF alg \in N2NAlgos
                 THEN [bestDist EXCEPT ![alg] = [n \in States(graph) |-> Extreme(alg)]]
                 ELSE bestDist
  /\ pc' = "enter"
  /\ UNCHANGED <<graph, repeatTime, scenarios, cur, edgePath, stepPath, paths,
                 stateDist, tmpPaths, chosen, scenariosPathsMap>>

CurrentPath == [states |-> statePath, edges |-> edgePath, steps |-> stepPath]

(* addPath.                                                                *)
AddPath ==
  /\ alg \notin N2NAlgos
  /\ paths' = Add(paths, CurrentPath)
  /\ UNCHANGED <<bestDist, tmpPaths>>

\* Mutant: an equally short path is turned down.
ShortN2NAcceptsFirst == bestDist["shortn2n"][curState] > Len(statePath)

(* The N2N searches keep a complete path for the moment if it is at least  *)
(* as good as the best one to the same last state found in this round.     *)
ShortN2NAccepts == bestDist["shortn2n"][curState] >= Len(statePath)
LongN2NAccepts  == bestDist["longn2n"][curState] <= Len(statePath)
Accepts == IF alg = "shortn2n" THEN ShortN2NAccepts ELSE LongN2NAccepts

AddTmpPath ==
  /\ alg \in N2NAlgos
  /\ IF Accepts
     THEN /\ bestDist' = [bestDist EXCEPT ![alg][curState] = Len(statePath)]
          /\ tmpPaths' = [tmpPaths EXCEPT ![alg] = Add(@, CurrentPath)]
     ELSE UNCHANGED <<bestDist, tmpPaths>>
  /\ UNCHANGED paths

RecordPath == AddPath \/ AddTmpPath

(* The path ends here: a stop state, or with no stop state a sink.         *)
AtStop == curState \in stop \/ (OutEdges(graph, curState) = {} /\ stop = {})

searchUnchanged == <<graph, scenarios, cur, todo, chosen, scenariosPathsMap>>

(* dfs(curState, curPos) up to its loop.                                   *)
DfsStop ==
  /\ pc = "enter"
  /\ AtStop
  /\ RecordPath
  /\ pc' = "return"
  /\ UNCHANGED <<searchUnchanged, repeatTime, pathVars, stack, stateDist>>

DfsEnter ==
  /\ pc = "enter"
  /\ ~AtStop
  /\ pc' = "loop"
  /\ UNCHANGED <<searchUnchanged, repeatTime, pathVars, stack, paths, stateDist,
                 bestDist, tmpPaths>>

(* The edges the loop has still to look at, in ascending number.           *)
Pending == {e \in OutEdges(graph, curState) : e >= top.next}
IsNext(e) == e \in Pending /\ \A f \in Pending : e <= f

(* Mutant: the loop does not go on to the next edge.                       *)
NextEdgeStuck(e) == e

(* The loop's increment.                                                   *)
NextEdge(e) == e + 1

(* Mutant: the test of the shortest path search.                           *)
LongMayFollowSwapped(n) == stateDist["long"][n] >= Len(statePath)

(* Which end states the searches with distances go on to: the distance     *)
(* recorded for the state against the position it would get.               *)
LongMayFollow(n)     == stateDist["long"][n] <= Len(statePath)
LongN2NMayFollow(n)  == stateDist["longn2n"][n] <= Len(statePath)
ShortMayFollow(n)    == stateDist["short"][n] >= Len(statePath)
ShortN2NMayFollow(n) == stateDist["shortn2n"][n] >= Len(statePath)

MayFollow(e) ==
  LET n == graph[e].to IN
  /\ alg = "long"     => LongMayFollow(n)
  /\ alg = "longn2n"  => LongN2NMayFollow(n)
  /\ alg = "short"    => ShortMayFollow(n)
  /\ alg = "shortn2n" => ShortN2NMayFollow(n)

SetTop(f) == stack' = [stack EXCEPT ![Len(stack)] = f]

(* The loop follows edge e: it takes one repeat time, extends the three    *)
(* paths, records the distance and calls dfs for the end of the edge.      *)
Follow(e) ==
  /\ pc = "loop"
  /\ IsNext(e)
  /\ repeatTime[e] > 0
  /\ MayFollow(e)
  /\ LET to == graph[e].to IN
     /\ repeatTime' = [repeatTime EXCEPT ![e] = @ - 1]
     /\ statePath' = Append(statePath, to)
     /\ edgePath' = Append(edgePath, e)
     /\ stepPath' = Append(stepPath, graph[e].step)
     /\ stateDist' = IF alg \in DistAlgos
                     THEN [stateDist EXCEPT ![alg][to] = Len(statePath)] ELSE stateDist
     /\ stack' = Append([stack EXCEPT ![Len(stack)] =
                           [next |-> e, ok |-> top.ok, left |-> repeatTime[e],
                            dist |-> IF alg \in DistAlgos THEN stateDist[alg][to] ELSE 0]],
                        Activation)
  /\ pc' = "enter"
  /\ UNCHANGED <<searchUnchanged, paths, bestDist, tmpPaths>>

(* The loop passes over edge e: its repeat times are used up, or its end   *)
(* is out of the recorded distance, which still counts as a neighbour.     *)
Skip(e) ==
  /\ pc = "loop"
  /\ IsNext(e)
  /\ ~(repeatTime[e] > 0 /\ MayFollow(e))
  /\ SetTop([top EXCEPT !.next = NextEdge(e), !.ok = @ \/ repeatTime[e] > 0])
  /\ UNCHANGED <<searchUnchanged, repeatTime, pathVars, pc, paths, stateDist,
                 bestDist, tmpPaths>>

(* After the loop: no usable neighbour and no stop state given.            *)
DfsExhausted ==
  /\ pc = "loop"
  /\ Pending = {}
  /\ ~top.ok /\ stop = {}
  /\ RecordPath
  /\ pc' = "return"
  /\ UNCHANGED <<searchUnchanged, repeatTime, pathVars, stack, stateDist>>

DfsDone ==
  /\ pc = "loop"
  /\ Pending = {}
  /\ top.ok \/ stop # {}
  /\ pc' = "return"
  /\ UNCHANGED <<searchUnchanged, repeatTime, pathVars, stack, paths, stateDist,
                 bestDist, tmpPaths>>

\* Mutant: the distances are not restored.
RestoreDistNot(e, caller) == UNCHANGED stateDist

RestoreRepeatTime(e, caller) == repeatTime' = [repeatTime EXCEPT ![e] = caller.left]

RestoreDist(e, caller) ==
  stateDist' = IF alg \in DistAlgos
               THEN [stateDist EXCEPT ![alg][graph[e].to] = caller.dist] ELSE stateDist

CutStepPath == stepPath' = Front(stepPath)
CutPaths == statePath' = Front(statePath) /\ edgePath' = Front(edgePath) /\ CutStepPath

(* The callee has returned: its caller restores the paths, the distance    *)
(* and the repeat time of the edge, and goes on with the next edge.        *)
Restore ==
  /\ pc = "return"
  /\ Len(stack) > 1
  /\ LET caller == stack[Len(stack) - 1]
         e == caller.next
     IN  /\ RestoreRepeatTime(e, caller)
         /\ RestoreDist(e, caller)
         /\ stack' = [Front(stack) EXCEPT ![Len(stack) - 1] =
                        [caller EXCEPT !.next = NextEdge(e), !.ok = TRUE]]
  /\ CutPaths
  /\ pc' = "loop"
  /\ UNCHANGED <<searchUnchanged, paths, bestDist, tmpPaths>>

(* deleteLongPath of "shortn2n" and deleteShortPath of "longn2n": drop the *)
(* temporary paths for which this round found a better one to the same     *)
(* last state.                                                             *)
DeleteLongPathN2N(list) ==
  Keep(list, {i \in DOMAIN list :
                ~(bestDist["shortn2n"][Last(list[i].states)] < Len(list[i].states))})
DeleteShortPathN2N(list) ==
  Keep(list, {i \in DOMAIN list :
                ~(bestDist["longn2n"][Last(list[i].states)] > Len(list[i].states))})
BestOfRound(a) == IF a = "shortn2n" THEN DeleteLongPathN2N(tmpPaths[a])
                                    ELSE DeleteShortPathN2N(tmpPaths[a])

(* The search from one start state is over; the N2N variants add what is   *)
(* left in their temporary lists to the result.                            *)
EndStart ==
  /\ pc = "return"
  /\ Len(stack) = 1
  /\ stack' = <<>>
  /\ statePath' = <<>>
  /\ IF alg \in N2NAlgos
     THEN /\ tmpPaths' = [tmpPaths EXCEPT ![alg] = BestOfRound(alg)]
          /\ paths' = AddAll(paths, BestOfRound(alg))
     ELSE UNCHANGED <<tmpPaths, paths>>
  /\ pc' = "start"
  /\ UNCHANGED <<searchUnchanged, repeatTime, edgePath, stepPath, stateDist, bestDist>>

throughStates == StateNumSet(graph, scen.state)
throughSteps  == StepNumSet(graph, scen.step)

ThroughFiltered ==
  DelPathWithoutThroughStep(DelPathWithoutThroughState(paths, throughStates), throughSteps)

(* The positions of the paths through state n, and with step x.            *)
Through(list, n) == {i \in DOMAIN list : n \in Elems(list[i].states)}
With(list, x)    == {i \in DOMAIN list : x \in Elems(list[i].steps)}

(* deleteShortPath of "long": keep the longest paths through each through  *)
(* state and the longest with each through step, and no other path.        *)
DeleteShortPath(list) ==
  Keep(list,
    (UNION {{i \in Through(list, n) : \A j \in Through(list, n) :
              Len(list[j].states) <= Len(list[i].states)} : n \in throughStates})
    \cup
    (UNION {{i \in With(list, x) : \A j \in With(list, x) :
              Len(list[j].steps) <= Len(list[i].steps)} : x \in throughSteps}))

(* deleteLongPath of "short": the shortest ones instead.                   *)
DeleteLongPath(list) ==
  Keep(list,
    (UNION {{i \in Through(list, n) : \A j \in Through(list, n) :
              Len(list[j].states) >= Len(list[i].states)} : n \in throughStates})
    \cup
    (UNION {{i \in With(list, x) : \A j \in With(list, x) :
              Len(list[j].steps) >= Len(list[i].steps)} : x \in throughSteps}))

(* genPath returns its map; MGenPath stores it under the scenario's name   *)
(* and goes on with the next scenario.                                     *)
Deliver(list) ==
  /\ scenariosPathsMap' =
       [n \in DOMAIN scenariosPathsMap \cup {scen.name} |->
          IF n = scen.name THEN list ELSE scenariosPathsMap[n]]
  /\ cur' = cur + 1
  /\ pc' = "idle"

finishUnchanged == <<graph, repeatTime, scenarios, todo, pathVars, stack, stateDist,
                     bestDist, tmpPaths>>

FinishAll ==
  /\ pc = "start" /\ todo = {}
  /\ alg \in {"all"} \cup N2NAlgos
  /\ Deliver(ThroughFiltered)
  /\ UNCHANGED <<finishUnchanged, paths, chosen>>

FinishDist ==
  /\ pc = "start" /\ todo = {}
  /\ alg \in {"long", "short"}
  /\ Deliver(IF alg = "long" THEN DeleteShortPath(ThroughFiltered)
                             ELSE DeleteLongPath(ThroughFiltered))
  /\ UNCHANGED <<finishUnchanged, paths, chosen>>

(* "least" goes on with the greedy set cover of getCoverSet.               *)
FinishLeast ==
  /\ pc = "start" /\ todo = {}
  /\ alg = "least"
  /\ paths' = ThroughFiltered
  /\ pc' = "cover"
  /\ UNCHANGED <<finishUnchanged, cur, chosen, scenariosPathsMap>>

StepsAt(I) == UNION {Elems(paths[i].steps) : i \in I}

(* The steps covered once path i is added too.                             *)
Gain(i) == Cardinality(StepsAt(chosen \cup {i}))

Covered == Cardinality(StepsAt(chosen)) >= Cardinality(StepsAt(DOMAIN paths))
IsBest(i) == \A j \in DOMAIN paths \ chosen :
               Gain(i) > Gain(j) \/ (Gain(i) = Gain(j) /\ i <= j)

(* One round of the greedy loop: the first unused path that makes the set  *)
(* of covered steps largest.                                               *)
CoverRound(i) ==
  /\ pc = "cover"
  /\ ~Covered
  /\ i \in DOMAIN paths \ chosen
  /\ IsBest(i)
  /\ chosen' = chosen \cup {i}
  /\ UNCHANGED <<finishUnchanged, cur, pc, paths, scenariosPathsMap>>

CoverDone ==
  /\ pc = "cover"
  /\ Covered
  /\ Deliver(Keep(paths, chosen))
  /\ UNCHANGED <<finishUnchanged, paths, chosen>>

-----------------------------------------------------------------------------
Done == pc = "idle" /\ cur \notin DOMAIN scenarios

(* MGenPath.genPath has returned.                                          *)
Returned == Done /\ UNCHANGED vars

Next ==
  \/ GenPath \/ StartState
  \/ DfsStop \/ DfsEnter \/ DfsExhausted \/ DfsDone \/ Restore \/ EndStart
  \/ \E e \in DOMAIN graph : Follow(e) \/ Skip(e)
  \/ FinishAll \/ FinishDist \/ FinishLeast
  \/ \E i \in DOMAIN paths : CoverRound(i)
  \/ CoverDone
  \/ Returned

Spec == Init /\ [][Next]_vars

-----------------------------------------------------------------------------

(* Every variable keeps its type, and each dfs activation belongs to one   *)
(* state of the path under construction.                                   *)
TypeOK ==
  /\ graph \in Seq(Edge(Nodes, Steps))
  /\ repeatTime \in [DOMAIN graph -> Nat]
  /\ scenarios \in Seq(Scenario)
  /\ cur \in Nat \ {0}
  /\ pc \in {"idle", "start", "enter", "loop", "return", "cover"}
  /\ pc # "idle" => cur \in DOMAIN scenarios
  /\ todo \subseteq Nodes
  /\ statePath \in Seq(Nodes) /\ edgePath \in Seq(DOMAIN graph) /\ stepPath \in Seq(Steps)
  /\ stack \in Seq([next : Nat, ok : BOOLEAN, left : Nat, dist : Int])
  /\ stateDist \in [DistAlgos -> [States(graph) -> Int]]
  /\ bestDist \in [N2NAlgos -> [States(graph) -> Int]]
  /\ Len(stack) = Len(statePath)
  /\ pc \in {"enter", "loop", "return"} <=> stack # <<>>

(* The three paths under construction stay aligned and form a walk of the  *)
(* graph: edge k leads from state k to state k + 1 and carries step k.     *)
PathIsWalk ==
  /\ Len(edgePath) = Len(stepPath)
  /\ statePath = <<>> => edgePath = <<>>
  /\ statePath # <<>> => Len(statePath) = Len(edgePath) + 1
  /\ \A k \in DOMAIN edgePath :
       /\ graph[edgePath[k]].from = statePath[k]
       /\ graph[edgePath[k]].to = statePath[k + 1]
       /\ graph[edgePath[k]].step = stepPath[k]

(* What is left of an edge's repeat time and what the path under           *)
(* construction uses of it always add up to the repeat time of the model:  *)
(* no path uses an edge more often than "repeatTime" allows.               *)
EdgeBudget ==
  \A e \in DOMAIN graph : repeatTime[e] + Count(e, edgePath) = graph[e].repeat

(* Between two scenarios the graph and the distance lists, which every     *)
(* scenario of the model shares, are as if no search had run.              *)
CleanBetweenScenarios ==
  pc \in {"idle", "start", "cover"} =>
    /\ repeatTime = Repeats(graph)
    /\ \A a \in DistAlgos : \A n \in States(graph) : stateDist[a][n] = Extreme(a)

(* The distance recorded for a state is the position of its last visit on  *)
(* the path under construction, so "long" never finds an edge whose end is *)
(* too far: its search follows exactly the edges "all" follows.            *)
LongNeverPrunes ==
  pc = "loop" /\ alg \in {"long", "longn2n"} => \A e \in Pending : MayFollow(e)

-----------------------------------------------------------------------------
(* The walks of a graph, defined without a search: the reference that the  *)
(* path algorithms are compared with.  A walk uses edge e as often as      *)
(* there are pairs <<e, i>> in Uses.                                       *)
Uses(g) == UNION {{e} \X (1..g[e].repeat) : e \in DOMAIN g}
TotalRepeat(g) == Cardinality(Uses(g))

Tos(g, w) == [k \in DOMAIN w |-> g[w[k]].to]
StatesOn(g, s, w) == <<s>> \o Tos(g, w)
StepsOn(g, w) == [k \in DOMAIN w |-> g[w[k]].step]
EndOf(g, s, w) == Last(StatesOn(g, s, w))

(* The walks from s, as sequences of edge numbers.                         *)
Walks(g, s) ==
  {w \in UNION {[1..n -> DOMAIN g] : n \in 0..TotalRepeat(g)} :
     /\ \A k \in DOMAIN w : g[w[k]].from = StatesOn(g, s, w)[k]
     /\ \A e \in DOMAIN g : Count(e, w) <= g[e].repeat}

(* A walk is complete when it reaches its first stop state, or, with no    *)
(* stop state, when it has used up every edge out of its last state.       *)
Complete(g, stops, s, w) ==
  IF stops # {}
  THEN /\ EndOf(g, s, w) \in stops
       /\ \A k \in DOMAIN w : StatesOn(g, s, w)[k] \notin stops
  ELSE \A e \in OutEdges(g, EndOf(g, s, w)) : Count(e, w) = g[e].repeat

PathOf(g, s, w) == [states |-> StatesOn(g, s, w), edges |-> w, steps |-> StepsOn(g, w)]

(* The complete walks from the start states.                               *)
CompleteFrom(g, starts, stops) ==
  UNION {{PathOf(g, s, w) : w \in {v \in Walks(g, s) : Complete(g, stops, s, v)}} : s \in starts}

CompletePaths(g, sc) ==
  CompleteFrom(g, StartStateNumSet(g, sc.start), StateNumSet(g, sc.stop))

(* No state but the start state is visited twice.                          *)
Simple(p) == \A j, k \in 2..Len(p.states) : p.states[j] = p.states[k] => j = k

(* What a search looks for: the complete paths, for the shortest path      *)
(* algorithms those that visit no state twice.                             *)
Sought(g, sc) ==
  {p \in CompletePaths(g, sc) : GetAlgorithm(sc.path) \in {"short", "shortn2n"} => Simple(p)}

IsThrough(g, sc, p) ==
  LET ts == StateNumSet(g, sc.state)
      tx == StepNumSet(g, sc.step)
  IN  /\ ts = {} \/ Elems(p.states) \cap ts # {}
      /\ tx = {} \/ Elems(p.steps) \cap tx # {}

(* Algorithm a would rather have q than p.                                 *)
Beats(a, q, p) == IF a \in {"long", "longn2n"} THEN Len(q.edges) > Len(p.edges)
                                               ELSE Len(q.edges) < Len(p.edges)

(* The paths of P that no path of P through the same through state, or     *)
(* with the same through step, beats: none at all when the scenario names  *)
(* no through state and no through step, though the comment of             *)
(* MPathAlgoCovLong.java:20 knows of no such condition.                    *)
BestThrough(g, sc, P) ==
  {p \in P :
     \/ \E n \in StateNumSet(g, sc.state) \cap Elems(p.states) :
          \A q \in P : n \in Elems(q.states) => ~Beats(GetAlgorithm(sc.path), q, p)
     \/ \E x \in StepNumSet(g, sc.step) \cap Elems(p.steps) :
          \A q \in P : x \in Elems(q.steps) => ~Beats(GetAlgorithm(sc.path), q, p)}

SoughtThrough(g, sc) == {p \in Sought(g, sc) : IsThrough(g, sc, p)}
Expected(g, sc) ==
  IF GetAlgorithm(sc.path) \in {"long", "short"}
  THEN BestThrough(g, sc, SoughtThrough(g, sc)) ELSE SoughtThrough(g, sc)

(* No path sought between the same two states beats p.                     *)
BestOfPair(g, sc, p) ==
  \A q \in Sought(g, sc) :
    q.states[1] = p.states[1] /\ Last(q.states) = Last(p.states) =>
      ~Beats(GetAlgorithm(sc.path), q, p)

BestSought(g, sc) == {p \in Sought(g, sc) : BestOfPair(g, sc, p)}

(* A scenario with algorithm a up to the k-th has asked for p.             *)
AskedFor(a, k, p) ==
  \E j \in 1..k : GetAlgorithm(scenarios[j].path) = a /\ p \in BestSought(graph, scenarios[j])

(* The scenario that has just been finished, and what it was given.        *)
Finished == pc = "idle" /\ cur > 1
prev == scenarios[cur - 1]
prevAlg == GetAlgorithm(prev.path)
delivered == scenariosPathsMap[prev.name]

(* "all", "long" and "short" deliver exactly the reference paths, each     *)
(* once: "all" every complete walk through the through sets, "long" and    *)
(* "short" the extremal ones for each through state and step, "short"      *)
(* among the walks that visit no state twice.  Without a through state or  *)
(* step "long" and "short" deliver no path.                                *)
DeliversExactly ==
  Finished /\ prevAlg \in {"all", "long", "short"} =>
    /\ Elems(delivered) = Expected(graph, prev)
    /\ \A i, j \in DOMAIN delivered : delivered[i] = delivered[j] => i = j

(* The N2N searches deliver, for every start state and every last state,   *)
(* all complete paths of extremal length between the two that are in the   *)
(* through sets, "shortn2n" among those that visit no state twice.  The    *)
(* list of temporary paths is never cleared (MPathAlgoCovShortN2N.java:88):*)
(* an earlier scenario's paths, best ones for that scenario, may come      *)
(* along, but no path that neither this scenario nor an earlier one with   *)
(* the same algorithm asked for, and none outside the through sets.        *)
N2NDeliversBest ==
  Finished /\ prevAlg \in N2NAlgos =>
    /\ \A p \in BestSought(graph, prev) : IsThrough(graph, prev, p) => p \in Elems(delivered)
    /\ \A p \in Elems(delivered) : IsThrough(graph, prev, p) /\ AskedFor(prevAlg, cur - 1, p)

(* "least" delivers paths of the model that together have every step some  *)
(* complete path through the through sets has.                             *)
LeastCoversSteps ==
  Finished /\ prevAlg = "least" =>
    /\ Elems(delivered) \subseteq SoughtThrough(graph, prev)
    /\ UNION {Elems(p.steps) : p \in Elems(delivered)} =
         UNION {Elems(p.steps) : p \in SoughtThrough(graph, prev)}

(* genPath delivers what the option of the scenario asks for               *)
(* (MPathAlgoCov*.java), whatever the cycles, the parallel edges, the      *)
(* repeat times and the order of the start states.  Two limits are those   *)
(* of the code: "long" and "short" need a through state or step to deliver *)
(* anything, and to the paths asked for the N2N searches may add those an  *)
(* earlier scenario with the same algorithm asked for.                     *)
SearchDelivers == DeliversExactly /\ N2NDeliversBest /\ LeastCoversSteps

(* Each round of the greedy cover adds a step that was not covered.        *)
CoverProgress == [][chosen' # chosen /\ pc = "cover" => StepsAt(chosen') # StepsAt(chosen)]_vars
=============================================================================
