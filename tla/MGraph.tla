------------------------------- MODULE MGraph -------------------------------
(***************************************************************************)
(* MGenGraph turns the TESTSTEP elements of a model into the MGraph the    *)
(* path algorithms search (common/generate/MGenGraph.java,                 *)
(* framework/graph/MGraph.java): node tables in both directions, one       *)
(* adjacency list per node, edges numbered in the order they are added.    *)
(*                                                                         *)
(* An element names one or more begin and end states, given as the         *)
(* sequences that split(",") yields (none for a lone comma).  The five     *)
(* parallel adjacency lists, which addEdge always appends to together, are *)
(* one list of entries.  origin is a history variable: origin[k] is the    *)
(* element, begin and end position edge k was added for.                   *)
(***************************************************************************)
EXTENDS MPathAlgo

CONSTANTS Nodes,      \* state names
          Steps,      \* step numbers
          StepNames,  \* step names
          Models      \* the models considered: sequences of elements

Element == [name : StepNames, number : Steps, begin : Seq(Nodes), end : Seq(Nodes),
            repeat : Int]

ASSUME GraphAssumption == Models \subseteq Seq(Element)

VARIABLES
  nodes,       \* nodeNumMap, nodeNameMap and nodeCount
  adj,         \* adj[n]: the entries of the adjacency lists of node n
  stepNumMap,  \* step name |-> step number
  edgeCount,   \* the number the next edge gets
  model,       \* the elements
  at,          \* the loop variables: element, begin state, end state
  pc,          \* where the generator is
  res,         \* its result
  origin

vars == <<nodes, adj, stepNumMap, edgeCount, model, at, pc, res, origin>>
graphVars == <<nodes, adj, stepNumMap, edgeCount, origin>>

(* new MGraph().                                                           *)
Init ==
  /\ nodes = [num |-> [n \in {} |-> 0], name |-> [k \in {} |-> ""], count |-> 0]
  /\ adj = [k \in {} |-> <<>>]
  /\ stepNumMap = [n \in {} |-> 0]
  /\ edgeCount = 1
  /\ model \in Models
  /\ at = [elem |-> 1, b |-> 1, e |-> 1]
  /\ pc = "call"
  /\ res = FALSE
  /\ origin = <<>>

AddNode(ns, n) ==
  IF n \in DOMAIN ns.num THEN ns
  ELSE [num   |-> [m \in DOMAIN ns.num \cup {n} |-> IF m = n THEN ns.count ELSE ns.num[m]],
        name  |-> [k \in DOMAIN ns.name \cup {ns.count} |->
                     IF k = ns.count THEN n ELSE ns.name[k]],
        count |-> ns.count + 1]

(* No repeat time given (-1), or none that makes sense, means once.        *)
RepeatTime(r) == IF r < 1 THEN 1 ELSE r

element == model[at.elem]

(* Mutant: the edge is listed under its end node.                          *)
ListAtEnd(ns, b, e) == ns.num[e]

(* The node whose adjacency lists get the edge.                            *)
ListAt(ns, b, e) == ns.num[b]

(* Mutant: a step name keeps its first number.                             *)
PutStepFirst(x) ==
  [n \in DOMAIN stepNumMap \cup {x.name} |->
     IF n \in DOMAIN stepNumMap THEN stepNumMap[n] ELSE x.number]

PutStep(x) ==
  [n \in DOMAIN stepNumMap \cup {x.name} |-> IF n = x.name THEN x.number ELSE stepNumMap[n]]

(* MGraph.addEdge for one begin and one end state of the element.          *)
AddEdge ==
  /\ pc = "loop"
  /\ at.elem \in DOMAIN model
  /\ at.b \in DOMAIN element.begin
  /\ at.e \in DOMAIN element.end
  /\ LET b  == element.begin[at.b]
         e  == element.end[at.e]
         ns == AddNode(AddNode(nodes, b), e)
         entry == [to |-> ns.num[e], repeat |-> RepeatTime(element.repeat),
                   name |-> element.name, number |-> edgeCount, step |-> element.number]
         old(k) == IF k \in DOMAIN adj THEN adj[k] ELSE <<>>
     IN  /\ nodes' = ns
         /\ adj' = [k \in DOMAIN ns.name |->
                      IF k = ListAt(ns, b, e) THEN Append(old(k), entry) ELSE old(k)]
  /\ stepNumMap' = PutStep(element)
  /\ edgeCount' = edgeCount + 1
  /\ origin' = Append(origin, at)
  /\ at' = [elem |-> at.elem, b |-> at.b, e |-> at.e + 1]
  /\ UNCHANGED <<model, pc, res>>

NextBegin ==
  /\ pc = "loop"
  /\ at.elem \in DOMAIN model
  /\ at.b \in DOMAIN element.begin
  /\ at.e \notin DOMAIN element.end
  /\ at' = [elem |-> at.elem, b |-> at.b + 1, e |-> 1]
  /\ UNCHANGED <<graphVars, model, pc, res>>

NextElement ==
  /\ pc = "loop"
  /\ at.elem \in DOMAIN model
  /\ at.b \notin DOMAIN element.begin
  /\ at' = [elem |-> at.elem + 1, b |-> 1, e |-> 1]
  /\ UNCHANGED <<graphVars, model, pc, res>>

(* genGraphFromXML opens the file; genGraphFromClass lists the methods and *)
(* gives up when there is none.                                            *)
GenGraphFromXML ==
  /\ pc = "call"
  /\ pc' = "loop"
  /\ UNCHANGED <<graphVars, model, at, res>>

GenGraphFromClass ==
  /\ pc = "call"
  /\ pc' = IF model = <<>> THEN "done" ELSE "loop"
  /\ UNCHANGED <<graphVars, model, at, res>>

(* The file cannot be parsed, or the class not loaded: the error is logged *)
(* and the caller goes on with the empty graph.                            *)
ParseFails ==
  /\ pc = "call"
  /\ pc' = "done"
  /\ UNCHANGED <<graphVars, model, at, res>>

Finish ==
  /\ pc = "loop"
  /\ at.elem \notin DOMAIN model
  /\ res' = TRUE
  /\ pc' = "done"
  /\ UNCHANGED <<graphVars, model, at>>

Done == pc = "done" /\ UNCHANGED vars

Next ==
  \/ GenGraphFromXML \/ GenGraphFromClass \/ ParseFails
  \/ AddEdge \/ NextBegin \/ NextElement \/ Finish
  \/ Done

Spec == Init /\ [][Next]_vars

-----------------------------------------------------------------------------
Entry == [to : Nat, repeat : Nat \ {0}, name : StepNames, number : Nat \ {0}, step : Steps]
Position == [elem : Nat \ {0}, b : Nat \ {0}, e : Nat \ {0}]

(* Every variable keeps its type: each node has its adjacency list, and no *)
(* repeat time is below one.                                               *)
TypeOK ==
  /\ nodes.count \in Nat
  /\ DOMAIN nodes = {"num", "name", "count"}
  /\ DOMAIN nodes.name = 0..(nodes.count - 1)
  /\ adj \in [DOMAIN nodes.name -> Seq(Entry)]
  /\ edgeCount \in Nat \ {0}
  /\ model \in Seq(Element)
  /\ at \in Position
  /\ origin \in Seq(Position)
  /\ pc \in {"call", "loop", "done"}
  /\ res \in BOOLEAN
  /\ DOMAIN stepNumMap \subseteq StepNames

(* The two node tables are inverse to each other: the numbers are          *)
(* 0..count-1, and a state has one number however often it is named.       *)
NodesNumbered ==
  /\ DOMAIN nodes.num \subseteq Nodes
  /\ \A n \in DOMAIN nodes.num :
       nodes.num[n] \in DOMAIN nodes.name /\ nodes.name[nodes.num[n]] = n
  /\ \A k \in DOMAIN nodes.name :
       nodes.name[k] \in DOMAIN nodes.num /\ nodes.num[nodes.name[k]] = k

(* The edge an element gives at a position.                                *)
EdgeFor(p) == [from |-> model[p.elem].begin[p.b], to |-> model[p.elem].end[p.e],
               step |-> model[p.elem].number, repeat |-> RepeatTime(model[p.elem].repeat)]

(* The edges in the order addEdge got them: the graph of module MPathAlgo. *)
EdgeSeq == [k \in DOMAIN origin |-> EdgeFor(origin[k])]

(* The adjacency lists are the edge sequence: the list of a node holds its *)
(* outgoing edges, each once, in ascending number, with their data.        *)
AdjacencyIsGraph ==
  /\ edgeCount = Len(origin) + 1
  /\ \A n \in DOMAIN adj :
       /\ \A i \in DOMAIN adj[n] :
            LET x == adj[n][i] IN
            /\ x.number \in OutEdges(EdgeSeq, nodes.name[n])
            /\ x.to \in DOMAIN nodes.name
            /\ EdgeSeq[x.number].to = nodes.name[x.to]
            /\ EdgeSeq[x.number].step = x.step
            /\ EdgeSeq[x.number].repeat = x.repeat
       /\ \A i, j \in DOMAIN adj[n] : i < j => adj[n][i].number < adj[n][j].number
  /\ \A k \in DOMAIN origin :
       /\ EdgeSeq[k].from \in DOMAIN nodes.num
       /\ \E i \in DOMAIN adj[nodes.num[EdgeSeq[k].from]] :
            adj[nodes.num[EdgeSeq[k].from]][i].number = k

Before(p, q) ==
  \/ p.elem < q.elem
  \/ p.elem = q.elem /\ p.b < q.b
  \/ p.elem = q.elem /\ p.b = q.b /\ p.e < q.e

IsPair(p) ==
  /\ p.elem \in DOMAIN model
  /\ p.b \in DOMAIN model[p.elem].begin
  /\ p.e \in DOMAIN model[p.elem].end

(* Every pair of a begin and an end state gives one edge, and they come in *)
(* the order of the model: those before the loop's position are there.     *)
PairsInOrder ==
  /\ \A k \in DOMAIN origin : IsPair(origin[k]) /\ Before(origin[k], at)
  /\ \A j, k \in DOMAIN origin : j < k => Before(origin[j], origin[k])
  /\ \A i \in DOMAIN model : \A b \in DOMAIN model[i].begin : \A e \in DOMAIN model[i].end :
       LET p == [elem |-> i, b |-> b, e |-> e]
       IN  Before(p, at) => \E k \in DOMAIN origin : origin[k] = p

(* Steps are looked up by name: a name means the step of the last edge     *)
(* that carries it, though several steps may share it.                     *)
StepNumIsLast ==
  /\ \A k \in DOMAIN origin : model[origin[k].elem].name \in DOMAIN stepNumMap
  /\ \A x \in DOMAIN stepNumMap :
       \E k \in DOMAIN origin :
         /\ model[origin[k].elem].name = x
         /\ stepNumMap[x] = EdgeSeq[k].step
         /\ \A j \in DOMAIN origin : j > k => model[origin[j].elem].name # x

=============================================================================
