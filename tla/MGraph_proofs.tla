---------------------------- MODULE MGraph_proofs ----------------------------
(***************************************************************************)
(* Proofs about the graph builder, for every model: the node tables are    *)
(* inverse to each other, the adjacency lists are the edge sequence that   *)
(* the path algorithms are specified on, and every pair of begin and end   *)
(* states gives one edge, in the order of the model.                       *)
(***************************************************************************)
EXTENDS MGraph, TLAPS

(* What addNode keeps of the node tables.                                  *)
TablesOK(ns) ==
  /\ ns.count \in Nat
  /\ DOMAIN ns = {"num", "name", "count"}
  /\ DOMAIN ns.name = 0..(ns.count - 1)
  /\ DOMAIN ns.num \subseteq Nodes
  /\ \A n \in DOMAIN ns.num : ns.num[n] \in DOMAIN ns.name /\ ns.name[ns.num[n]] = n
  /\ \A k \in DOMAIN ns.name : ns.name[k] \in DOMAIN ns.num /\ ns.num[ns.name[k]] = k

(* The tables ms know all that ns know.                                    *)
Extend(ns, ms) ==
  /\ \A n \in DOMAIN ns.num : n \in DOMAIN ms.num /\ ms.num[n] = ns.num[n]
  /\ \A k \in DOMAIN ns.name : k \in DOMAIN ms.name /\ ms.name[k] = ns.name[k]

IndInv == TypeOK /\ NodesNumbered /\ AdjacencyIsGraph /\ PairsInOrder /\ StepNumIsLast

-----------------------------------------------------------------------------
(* MGraph.addNode keeps the tables inverse, forgets nothing and knows the  *)
(* node it was called with.                                                *)
LEMMA AddNodeFacts ==
  ASSUME NEW ns, TablesOK(ns), NEW n \in Nodes
  PROVE  /\ TablesOK(AddNode(ns, n))
         /\ Extend(ns, AddNode(ns, n))
         /\ n \in DOMAIN AddNode(ns, n).num
<1>1. CASE n \in DOMAIN ns.num
  BY <1>1 DEF AddNode, Extend, TablesOK
<1>2. CASE n \notin DOMAIN ns.num
  <2> DEFINE num  == [m \in DOMAIN ns.num \cup {n} |-> IF m = n THEN ns.count ELSE ns.num[m]]
             name == [k \in DOMAIN ns.name \cup {ns.count} |->
                        IF k = ns.count THEN n ELSE ns.name[k]]
             r == [num |-> num, name |-> name, count |-> ns.count + 1]
  <2>1. AddNode(ns, n) = r
    BY <1>2 DEF AddNode
  <2>2. DOMAIN num = DOMAIN ns.num \cup {n} /\ DOMAIN name = DOMAIN ns.name \cup {ns.count}
    OBVIOUS
  <2>3. ns.count \notin DOMAIN ns.name /\ DOMAIN ns.name \cup {ns.count} = 0..ns.count
    BY DEF TablesOK
  <2>4. \A m \in DOMAIN ns.num : num[m] = ns.num[m]
    BY <1>2
  <2>5. \A k \in DOMAIN ns.name : name[k] = ns.name[k]
    BY <2>3
  <2>6. num[n] = ns.count /\ name[ns.count] = n
    OBVIOUS
  <2>7. r.num = num /\ r.name = name /\ r.count = ns.count + 1 /\ DOMAIN r = {"num", "name", "count"}
    OBVIOUS
  <2> HIDE DEF num, name, r
  <2>8. \A m \in DOMAIN num : num[m] \in DOMAIN name /\ name[num[m]] = m
    BY <2>2, <2>3, <2>4, <2>5, <2>6 DEF TablesOK
  <2>9. \A k \in DOMAIN name : name[k] \in DOMAIN num /\ num[name[k]] = k
    BY <2>2, <2>3, <2>4, <2>5, <2>6 DEF TablesOK
  <2>10. r.count \in Nat /\ DOMAIN r.name = 0..(r.count - 1)
    BY <2>2, <2>3, <2>7 DEF TablesOK
  <2>11. DOMAIN num \subseteq Nodes
    BY <2>2 DEF TablesOK
  <2>12. TablesOK(r)
    BY <2>7, <2>8, <2>9, <2>10, <2>11 DEF TablesOK
  <2>13. Extend(ns, r)
    BY <2>2, <2>4, <2>5, <2>7 DEF Extend
  <2> QED BY <2>1, <2>2, <2>7, <2>12, <2>13
<1> QED BY <1>1, <1>2

(* Two calls, as addEdge makes them.                                       *)
LEMMA AddTwoNodes ==
  ASSUME NEW ns, TablesOK(ns), NEW b \in Nodes, NEW e \in Nodes
  PROVE  LET ms == AddNode(AddNode(ns, b), e)
         IN  /\ TablesOK(ms)
             /\ Extend(ns, ms)
             /\ b \in DOMAIN ms.num
             /\ e \in DOMAIN ms.num
<1> DEFINE one == AddNode(ns, b)
           ms  == AddNode(one, e)
<1>1. TablesOK(one) /\ Extend(ns, one) /\ b \in DOMAIN one.num
  BY AddNodeFacts
<1> HIDE DEF one
<1>2. TablesOK(ms) /\ Extend(one, ms) /\ e \in DOMAIN ms.num
  BY <1>1, AddNodeFacts
<1> HIDE DEF ms
<1>3. Extend(ns, ms) /\ b \in DOMAIN ms.num
  BY <1>1, <1>2 DEF Extend
<1> QED BY <1>2, <1>3 DEF one, ms

LEMMA ElementLists ==
  ASSUME model \in Seq(Element), NEW i \in DOMAIN model
  PROVE  /\ model[i] \in Element
         /\ model[i].begin \in Seq(Nodes)
         /\ model[i].end \in Seq(Nodes)
         /\ i \in Nat \ {0}
<1>1. model[i] \in Element /\ i \in Nat \ {0}
  OBVIOUS
<1> QED BY <1>1 DEF Element

LEMMA InitIndInv == ASSUME Init PROVE IndInv
<1> USE DEF Init
<1>0. model \in Seq(Element)
  BY GraphAssumption
<1>1. TypeOK
  <2>1. DOMAIN nodes.name = 0..(nodes.count - 1) /\ DOMAIN nodes.name = {}
    OBVIOUS
  <2>2. adj \in [DOMAIN nodes.name -> Seq(Entry)]
    BY <2>1
  <2>3. at \in Position /\ origin \in Seq(Position)
    BY DEF Position
  <2>4. nodes.count \in Nat /\ DOMAIN nodes = {"num", "name", "count"}
    OBVIOUS
  <2>5. edgeCount \in Nat \ {0} /\ pc \in {"call", "loop", "done"} /\ DOMAIN stepNumMap = {}
    OBVIOUS
  <2>6. res \in BOOLEAN
    OBVIOUS
  <2> HIDE DEF Init
  <2> QED BY <1>0, <2>1, <2>2, <2>3, <2>4, <2>5, <2>6 DEF TypeOK
<1>2. NodesNumbered
  BY DEF NodesNumbered
<1>3. AdjacencyIsGraph
  BY DEF AdjacencyIsGraph
<1>4. PairsInOrder
  <2>1. ASSUME NEW i \in DOMAIN model, NEW b \in DOMAIN model[i].begin,
               NEW e \in DOMAIN model[i].end
        PROVE  ~Before([elem |-> i, b |-> b, e |-> e], at)
    <3>1. model[i].begin \in Seq(Nodes) /\ model[i].end \in Seq(Nodes)
      BY <1>0, ElementLists
    <3>2. i \in Nat \ {0} /\ b \in Nat \ {0} /\ e \in Nat \ {0}
      BY <1>0, <3>1
    <3> QED BY <3>2 DEF Before
  <2> QED BY <2>1 DEF PairsInOrder
<1>5. StepNumIsLast
  BY DEF StepNumIsLast
<1> QED BY <1>1, <1>2, <1>3, <1>4, <1>5 DEF IndInv

-----------------------------------------------------------------------------
(* The steps of the loop that add no edge.                                 *)
LEMMA LoopIndInv ==
  ASSUME IndInv, NextBegin \/ NextElement
  PROVE  IndInv'
<1> USE DEF IndInv
<1>0. UNCHANGED <<graphVars, model, pc, res>> /\ pc = "loop" /\ at.elem \in DOMAIN model
  BY DEF NextBegin, NextElement
<1>1. model \in Seq(Element) /\ at \in Position
  BY DEF TypeOK
<1>2. element.begin \in Seq(Nodes) /\ element.end \in Seq(Nodes)
  BY <1>0, <1>1, ElementLists DEF element
<1>3. at' \in Position
  BY <1>1 DEF NextBegin, NextElement, Position
<1>4. TypeOK'
  BY <1>0, <1>3 DEF TypeOK, graphVars
<1>5. NodesNumbered'
  BY <1>0 DEF NodesNumbered, graphVars
<1>6. AdjacencyIsGraph'
  <2>1. EdgeSeq' = EdgeSeq
    BY <1>0 DEF graphVars, EdgeSeq, EdgeFor
  <2> QED BY <1>0, <2>1 DEF AdjacencyIsGraph, graphVars
<1>7. StepNumIsLast'
  BY <1>0 DEF StepNumIsLast, graphVars, EdgeSeq, EdgeFor
<1>8. ASSUME NEW p \in Position, Before(p, at)
      PROVE  Before(p, at')
  BY <1>1, <1>8 DEF NextBegin, NextElement, Before, Position
<1>9. ASSUME NEW p \in Position, IsPair(p), Before(p, at')
      PROVE  Before(p, at)
  <2>1. CASE NextBegin
    <3>1. at.e > Len(element.end)
      BY <1>1, <1>2, <2>1 DEF NextBegin, Position
    <3>2. p.elem = at.elem => p.e <= Len(element.end)
      BY <1>2, <1>9 DEF IsPair, element
    <3> QED BY <1>1, <1>2, <1>9, <2>1, <3>1, <3>2 DEF NextBegin, Before, Position
  <2>2. CASE NextElement
    <3>1. at.b > Len(element.begin)
      BY <1>1, <1>2, <2>2 DEF NextElement, Position
    <3>2. p.elem = at.elem => p.b <= Len(element.begin)
      BY <1>2, <1>9 DEF IsPair, element
    <3>3. p.elem < at.elem + 1
      BY <1>1, <1>9, <2>2 DEF NextElement, Before, Position
    <3> QED BY <1>1, <1>2, <3>1, <3>2, <3>3 DEF Before, Position
  <2> QED BY <2>1, <2>2
<1>10. PairsInOrder'
  <2>1. \A k \in DOMAIN origin : IsPair(origin[k]) /\ Before(origin[k], at')
    <3>1. \A k \in DOMAIN origin : origin[k] \in Position
      BY DEF TypeOK
    <3> QED BY <1>8, <3>1 DEF PairsInOrder
  <2>2. ASSUME NEW i \in DOMAIN model, NEW b \in DOMAIN model[i].begin,
               NEW e \in DOMAIN model[i].end, Before([elem |-> i, b |-> b, e |-> e], at')
        PROVE  \E k \in DOMAIN origin : origin[k] = [elem |-> i, b |-> b, e |-> e]
    <3> DEFINE p == [elem |-> i, b |-> b, e |-> e]
    <3>1. model[i].begin \in Seq(Nodes) /\ model[i].end \in Seq(Nodes)
      BY <1>1, ElementLists
    <3>2. p \in Position /\ IsPair(p)
      BY <1>1, <3>1 DEF Position, IsPair
    <3>3. Before(p, at)
      BY <1>9, <2>2, <3>2
    <3> QED BY <3>3 DEF PairsInOrder
  <2>3. (\A k \in DOMAIN origin : IsPair(origin[k]) /\ Before(origin[k], at))'
    BY <1>0, <2>1 DEF IsPair, graphVars
  <2>4. (\A j, k \in DOMAIN origin : j < k => Before(origin[j], origin[k]))'
    BY <1>0 DEF PairsInOrder, graphVars, Before
  <2>5. (\A i \in DOMAIN model : \A b \in DOMAIN model[i].begin : \A e \in DOMAIN model[i].end :
           LET p == [elem |-> i, b |-> b, e |-> e]
           IN  Before(p, at) => \E k \in DOMAIN origin : origin[k] = p)'
    BY <1>0, <2>2 DEF graphVars
  <2> QED BY <2>3, <2>4, <2>5 DEF PairsInOrder
<1> QED BY <1>4, <1>5, <1>6, <1>7, <1>10

(* addEdge: the new edge gets the next number and goes to the end of the   *)
(* list of its begin node.                                                 *)
LEMMA AddEdgeIndInv ==
  ASSUME IndInv, AddEdge
  PROVE  IndInv'
<1> USE DEF IndInv
<1> DEFINE b  == element.begin[at.b]
           e  == element.end[at.e]
           ns == AddNode(AddNode(nodes, b), e)
           entry == [to |-> ns.num[e], repeat |-> RepeatTime(element.repeat),
                     name |-> element.name, number |-> edgeCount, step |-> element.number]
           old(k) == IF k \in DOMAIN adj THEN adj[k] ELSE <<>>
           N  == Len(origin) + 1
           home == ns.num[b]
<1>1. /\ model \in Seq(Element) /\ at \in Position /\ origin \in Seq(Position)
      /\ adj \in [DOMAIN nodes.name -> Seq(Entry)] /\ edgeCount \in Nat \ {0}
      /\ edgeCount = N
  BY DEF TypeOK, AdjacencyIsGraph
<1>2. element \in Element /\ element.begin \in Seq(Nodes) /\ element.end \in Seq(Nodes)
  BY <1>1, ElementLists DEF AddEdge, element
<1>3. b \in Nodes /\ e \in Nodes
  BY <1>2 DEF AddEdge
<1>4. TablesOK(ns) /\ Extend(nodes, ns) /\ b \in DOMAIN ns.num /\ e \in DOMAIN ns.num
  <2>1. TablesOK(nodes)
    BY DEF TablesOK, TypeOK, NodesNumbered
  <2> QED BY <1>3, <2>1, AddTwoNodes
<1>5. /\ nodes' = ns
      /\ adj' = [k \in DOMAIN ns.name |-> IF k = home THEN Append(old(k), entry) ELSE old(k)]
      /\ stepNumMap' = PutStep(element)
      /\ edgeCount' = N + 1
      /\ origin' = Append(origin, at)
      /\ at' = [elem |-> at.elem, b |-> at.b, e |-> at.e + 1]
      /\ UNCHANGED <<model, pc, res>>
  BY <1>1 DEF AddEdge, ListAt
<1>6. entry \in Entry
  <2> HIDE DEF ns, e
  <2>1. ns.num[e] \in Nat
    BY <1>4 DEF TablesOK
  <2>2. RepeatTime(element.repeat) \in Nat \ {0}
    BY <1>2 DEF RepeatTime, Element
  <2>3. element.name \in StepNames /\ element.number \in Steps
    BY <1>2 DEF Element
  <2> QED BY <1>1, <2>1, <2>2, <2>3 DEF Entry
<1>7. /\ entry.number = N /\ entry.to = ns.num[e] /\ entry.step = element.number
      /\ entry.repeat = RepeatTime(element.repeat)
  BY <1>1
<1>8. /\ home \in DOMAIN ns.name /\ ns.name[home] = b
      /\ ns.num[e] \in DOMAIN ns.name /\ ns.name[ns.num[e]] = e
  BY <1>4 DEF TablesOK
<1> HIDE DEF ns, entry, home
<1>9. \A k : old(k) \in Seq(Entry)
  BY <1>1
<1>10. DOMAIN adj' = DOMAIN ns.name /\ \A k \in DOMAIN adj : k \in DOMAIN adj'
  BY <1>1, <1>4, <1>5 DEF Extend
<1>11. /\ adj'[home] = Append(old(home), entry)
       /\ \A k \in DOMAIN adj' : k # home => adj'[k] = old(k)
  BY <1>5, <1>8
<1>12. /\ DOMAIN adj'[home] = 1..(Len(old(home)) + 1)
       /\ adj'[home][Len(old(home)) + 1] = entry
       /\ \A i \in 1..Len(old(home)) : adj'[home][i] = old(home)[i]
  BY <1>6, <1>9, <1>11
<1>13. ASSUME NEW n \in DOMAIN adj', NEW i \in DOMAIN adj'[n]
       PROVE  \/ n \in DOMAIN adj /\ i \in DOMAIN adj[n] /\ adj'[n][i] = adj[n][i]
              \/ n = home /\ i = Len(old(home)) + 1 /\ adj'[n][i] = entry
  <2>1. CASE n = home
    <3>1. CASE i = Len(old(home)) + 1
      BY <1>12, <2>1, <3>1
    <3>2. CASE i # Len(old(home)) + 1
      <4>1. Len(old(home)) \in Nat
        BY <1>9
      <4>2. i \in 1..Len(old(home)) /\ adj'[n][i] = old(n)[i]
        BY <1>12, <2>1, <3>2, <4>1
      <4>3. old(n) # <<>>
        BY <2>1, <4>2
      <4>4. n \in DOMAIN adj
        BY <4>3
      <4>5. old(n) = adj[n] /\ DOMAIN old(n) = 1..Len(old(n))
        BY <1>9, <4>4
      <4> QED BY <2>1, <4>2, <4>4, <4>5
    <3> QED BY <3>1, <3>2
  <2>2. CASE n # home
    <3>1. adj'[n] = old(n)
      BY <1>11, <2>2
    <3>2. n \in DOMAIN adj
      BY <3>1
    <3> QED BY <3>1, <3>2
  <2> QED BY <2>1, <2>2
<1>14. ASSUME NEW n \in DOMAIN adj, NEW i \in DOMAIN adj[n]
       PROVE  n \in DOMAIN adj' /\ i \in DOMAIN adj'[n] /\ adj'[n][i] = adj[n][i]
  <2>1. n \in DOMAIN adj' /\ old(n) = adj[n]
    BY <1>10
  <2>2. CASE n = home
    <3>1. DOMAIN adj[n] = 1..Len(adj[n]) /\ Len(adj[n]) \in Nat
      BY <1>1
    <3> QED BY <1>12, <2>1, <2>2, <3>1
  <2>3. CASE n # home
    BY <1>11, <2>1, <2>3
  <2> QED BY <2>1, <2>2, <2>3
<1> HIDE DEF old
<1>15. /\ DOMAIN origin' = 1..N /\ DOMAIN origin = 1..(N - 1) /\ N \in Nat \ {0}
       /\ origin'[N] = at /\ Len(origin') = N
       /\ \A k \in DOMAIN origin : origin'[k] = origin[k]
  BY <1>1, <1>5
<1> HIDE DEF N
<1>16. /\ \A k \in DOMAIN origin : EdgeSeq'[k] = EdgeSeq[k]
       /\ EdgeSeq'[N] = EdgeFor(at)
       /\ DOMAIN EdgeSeq' = 1..N /\ DOMAIN EdgeSeq = 1..(N - 1)
  <2>2. EdgeSeq' = [k \in DOMAIN origin' |-> EdgeFor(origin'[k])]
    BY <1>5 DEF EdgeSeq, EdgeFor
  <2> QED BY <1>15, <2>2 DEF EdgeSeq
<1>17. /\ EdgeFor(at).from = b /\ EdgeFor(at).to = e /\ EdgeFor(at).step = element.number
       /\ EdgeFor(at).repeat = RepeatTime(element.repeat)
  BY DEF EdgeFor, element
<1> HIDE DEF b, e
<1>18. TypeOK'
  <2>1. adj' \in [DOMAIN ns.name -> Seq(Entry)]
    BY <1>5, <1>6, <1>9
  <2>2. at' \in Position /\ origin' \in Seq(Position)
    BY <1>1, <1>5 DEF Position
  <2>3. DOMAIN stepNumMap' \subseteq StepNames
    BY <1>2, <1>5 DEF PutStep, TypeOK, Element
  <2>4. edgeCount' \in Nat \ {0}
    BY <1>5, <1>15
  <2> QED BY <1>4, <1>5, <2>1, <2>2, <2>3, <2>4 DEF TypeOK, TablesOK
<1>19. NodesNumbered'
  BY <1>4, <1>5 DEF NodesNumbered, TablesOK
<1>20. AdjacencyIsGraph'
  <2>1. ASSUME NEW n \in DOMAIN adj, NEW i \in DOMAIN adj[n]
        PROVE  /\ adj[n][i].number \in 1..(N - 1)
               /\ EdgeSeq[adj[n][i].number].from = nodes.name[n]
               /\ adj[n][i].to \in DOMAIN nodes.name
               /\ EdgeSeq[adj[n][i].number].to = nodes.name[adj[n][i].to]
               /\ EdgeSeq[adj[n][i].number].step = adj[n][i].step
               /\ EdgeSeq[adj[n][i].number].repeat = adj[n][i].repeat
    BY <1>16 DEF AdjacencyIsGraph, OutEdges
  <2>2. ASSUME NEW n \in DOMAIN adj', NEW i \in DOMAIN adj'[n]
        PROVE  /\ adj'[n][i].number \in OutEdges(EdgeSeq', ns.name[n])
               /\ adj'[n][i].to \in DOMAIN ns.name
               /\ EdgeSeq'[adj'[n][i].number].to = ns.name[adj'[n][i].to]
               /\ EdgeSeq'[adj'[n][i].number].step = adj'[n][i].step
               /\ EdgeSeq'[adj'[n][i].number].repeat = adj'[n][i].repeat
    <3>1. CASE n \in DOMAIN adj /\ i \in DOMAIN adj[n] /\ adj'[n][i] = adj[n][i]
      <4> DEFINE x == adj[n][i]
      <4>1. x.number \in DOMAIN origin /\ x.number \in DOMAIN EdgeSeq'
        BY <1>15, <1>16, <2>1, <3>1
      <4>2. EdgeSeq'[x.number] = EdgeSeq[x.number]
        BY <1>16, <4>1
      <4>3. n \in DOMAIN nodes.name
        BY <1>1, <3>1
      <4>4. ns.name[n] = nodes.name[n] /\ x.to \in DOMAIN ns.name /\ ns.name[x.to] = nodes.name[x.to]
        BY <1>4, <2>1, <3>1, <4>3 DEF Extend
      <4>5. /\ EdgeSeq[x.number].from = nodes.name[n]
            /\ EdgeSeq[x.number].to = nodes.name[x.to]
            /\ EdgeSeq[x.number].step = x.step
            /\ EdgeSeq[x.number].repeat = x.repeat
        BY <2>1, <3>1
      <4> QED BY <3>1, <4>1, <4>2, <4>4, <4>5 DEF OutEdges
    <3>2. CASE n = home /\ adj'[n][i] = entry
      <4>1. N \in DOMAIN EdgeSeq'
        BY <1>15, <1>16
      <4> QED BY <1>7, <1>8, <1>16, <1>17, <3>2, <4>1 DEF OutEdges
    <3> QED BY <1>13, <3>1, <3>2
  <2>3. ASSUME NEW n \in DOMAIN adj', NEW i \in DOMAIN adj'[n], NEW j \in DOMAIN adj'[n], i < j
        PROVE  adj'[n][i].number < adj'[n][j].number
    <3>1. CASE /\ n \in DOMAIN adj /\ i \in DOMAIN adj[n] /\ adj'[n][i] = adj[n][i]
               /\ j \in DOMAIN adj[n] /\ adj'[n][j] = adj[n][j]
      BY <2>3, <3>1 DEF AdjacencyIsGraph
    <3>2. CASE /\ n \in DOMAIN adj /\ i \in DOMAIN adj[n] /\ adj'[n][i] = adj[n][i]
               /\ adj'[n][j] = entry
      BY <1>7, <1>15, <2>1, <3>2
    <3>3. CASE n = home /\ i = Len(old(home)) + 1
      <4>1. Len(old(home)) \in Nat /\ j \in 1..(Len(old(home)) + 1)
        BY <1>9, <1>12, <3>3
      <4> QED BY <2>3, <3>3, <4>1
    <3> QED BY <1>13, <3>1, <3>2, <3>3
  <2>4. ASSUME NEW k \in DOMAIN origin'
        PROVE  /\ EdgeSeq'[k].from \in DOMAIN ns.num
               /\ \E i \in DOMAIN adj'[ns.num[EdgeSeq'[k].from]] :
                    adj'[ns.num[EdgeSeq'[k].from]][i].number = k
    <3>1. CASE k = N
      <4>1. EdgeSeq'[k].from = b /\ ns.num[EdgeSeq'[k].from] = home
        BY <1>16, <1>17, <3>1 DEF home
      <4>2. Len(old(home)) + 1 \in DOMAIN adj'[home]
        BY <1>9, <1>12
      <4> QED BY <1>4, <1>7, <1>12, <3>1, <4>1, <4>2
    <3>2. CASE k \in DOMAIN origin
      <4>1. /\ EdgeSeq[k].from \in DOMAIN nodes.num
            /\ \E i \in DOMAIN adj[nodes.num[EdgeSeq[k].from]] :
                 adj[nodes.num[EdgeSeq[k].from]][i].number = k
        BY <3>2 DEF AdjacencyIsGraph
      <4>2. EdgeSeq'[k] = EdgeSeq[k]
        BY <1>16, <3>2
      <4>3. /\ EdgeSeq[k].from \in DOMAIN ns.num
            /\ ns.num[EdgeSeq[k].from] = nodes.num[EdgeSeq[k].from]
        BY <1>4, <4>1 DEF Extend
      <4>4. nodes.num[EdgeSeq[k].from] \in DOMAIN adj
        BY <1>1, <4>1 DEF NodesNumbered
      <4> QED BY <1>14, <4>1, <4>2, <4>3, <4>4
    <3> QED BY <1>15, <3>1, <3>2
  <2>5. edgeCount' = Len(origin') + 1
    BY <1>5, <1>15
  <2>6. /\ \A n \in DOMAIN adj' : \A i \in DOMAIN adj'[n] :
             /\ adj'[n][i].number \in OutEdges(EdgeSeq', nodes'.name[n])
             /\ adj'[n][i].to \in DOMAIN nodes'.name
             /\ EdgeSeq'[adj'[n][i].number].to = nodes'.name[adj'[n][i].to]
             /\ EdgeSeq'[adj'[n][i].number].step = adj'[n][i].step
             /\ EdgeSeq'[adj'[n][i].number].repeat = adj'[n][i].repeat
        /\ \A k \in DOMAIN origin' :
             /\ EdgeSeq'[k].from \in DOMAIN nodes'.num
             /\ \E i \in DOMAIN adj'[nodes'.num[EdgeSeq'[k].from]] :
                  adj'[nodes'.num[EdgeSeq'[k].from]][i].number = k
    <3>1. nodes' = ns
      BY <1>5
    <3> QED BY <2>2, <2>4, <3>1
  <2> QED BY <2>3, <2>5, <2>6 DEF AdjacencyIsGraph
<1>21. PairsInOrder'
  <2>1. at'.elem = at.elem /\ at'.b = at.b /\ at'.e = at.e + 1 /\ at.e \in Nat
    BY <1>1, <1>5 DEF Position
  <2>2. IsPair(at) /\ Before(at, at')
    BY <1>1, <2>1 DEF AddEdge, IsPair, Before, element, Position
  <2>3. \A k \in DOMAIN origin : IsPair(origin[k]) /\ Before(origin[k], at)
    BY DEF PairsInOrder
  <2>4. \A p \in Position : Before(p, at) => Before(p, at')
    BY <1>1, <2>1 DEF Before, Position
  <2>5. \A k \in DOMAIN origin : origin[k] \in Position
    BY <1>1
  <2>6. \A k \in DOMAIN origin' : IsPair(origin'[k]) /\ Before(origin'[k], at')
    BY <1>15, <2>2, <2>3, <2>4, <2>5
  <2>7. \A j, k \in DOMAIN origin' : j < k => Before(origin'[j], origin'[k])
    BY <1>15, <2>3 DEF PairsInOrder
  <2>8. ASSUME NEW i \in DOMAIN model, NEW bb \in DOMAIN model[i].begin,
               NEW ee \in DOMAIN model[i].end, Before([elem |-> i, b |-> bb, e |-> ee], at')
        PROVE  \E k \in DOMAIN origin' : origin'[k] = [elem |-> i, b |-> bb, e |-> ee]
    <3> DEFINE p == [elem |-> i, b |-> bb, e |-> ee]
    <3>1. model[i].begin \in Seq(Nodes) /\ model[i].end \in Seq(Nodes) /\ i \in Nat \ {0}
      BY <1>1, ElementLists
    <3>2. bb \in Nat /\ ee \in Nat
      BY <3>1
    <3>3. Before(p, at) \/ (i = at.elem /\ bb = at.b /\ ee = at.e)
      BY <1>1, <2>1, <2>8, <3>1, <3>2 DEF Before, Position
    <3>4. CASE Before(p, at)
      <4>1. PICK k \in DOMAIN origin : origin[k] = p
        BY <3>4 DEF PairsInOrder
      <4>2. k \in DOMAIN origin' /\ origin'[k] = p
        BY <1>15, <4>1
      <4> QED BY <4>2
    <3>5. CASE i = at.elem /\ bb = at.b /\ ee = at.e
      <4>1. at = p
        BY <1>1, <3>5 DEF Position
      <4>2. N \in DOMAIN origin'
        BY <1>15
      <4> QED BY <1>15, <4>1, <4>2
    <3> QED BY <3>3, <3>4, <3>5
  <2>9. (\A k \in DOMAIN origin : IsPair(origin[k]) /\ Before(origin[k], at))'
    BY <1>5, <2>6 DEF IsPair
  <2>10. (\A i \in DOMAIN model : \A b_1 \in DOMAIN model[i].begin : \A e_1 \in DOMAIN model[i].end :
           LET p == [elem |-> i, b |-> b_1, e |-> e_1]
           IN  Before(p, at) => \E k \in DOMAIN origin : origin[k] = p)'
    BY <1>5, <2>8
  <2> QED BY <2>7, <2>9, <2>10 DEF PairsInOrder
<1>22. StepNumIsLast'
  <2>1. /\ DOMAIN stepNumMap' = DOMAIN stepNumMap \cup {element.name}
        /\ stepNumMap'[element.name] = element.number
        /\ \A x \in DOMAIN stepNumMap : x # element.name => stepNumMap'[x] = stepNumMap[x]
    BY <1>5 DEF PutStep
  <2>2. model[origin'[N].elem].name = element.name
    BY <1>15 DEF element
  <2>3. \A k \in DOMAIN origin' : model[origin'[k].elem].name \in DOMAIN stepNumMap'
    BY <1>15, <2>1, <2>2 DEF StepNumIsLast
  <2>4. ASSUME NEW x \in DOMAIN stepNumMap'
        PROVE  \E k \in DOMAIN origin' :
                 /\ model[origin'[k].elem].name = x
                 /\ stepNumMap'[x] = EdgeSeq'[k].step
                 /\ \A j \in DOMAIN origin' : j > k => model[origin'[j].elem].name # x
    <3>1. CASE x = element.name
      <4>1. N \in DOMAIN origin' /\ \A j \in DOMAIN origin' : ~(j > N)
        BY <1>15
      <4>2. stepNumMap'[x] = EdgeSeq'[N].step
        BY <1>16, <1>17, <2>1, <3>1
      <4> QED BY <2>2, <3>1, <4>1, <4>2
    <3>2. CASE x # element.name
      <4>1. PICK k \in DOMAIN origin :
              /\ model[origin[k].elem].name = x
              /\ stepNumMap[x] = EdgeSeq[k].step
              /\ \A j \in DOMAIN origin : j > k => model[origin[j].elem].name # x
        BY <2>1, <3>2 DEF StepNumIsLast
      <4>2. k \in DOMAIN origin' /\ origin'[k] = origin[k] /\ EdgeSeq'[k] = EdgeSeq[k]
        BY <1>15, <1>16
      <4>3. stepNumMap'[x] = stepNumMap[x]
        BY <2>1, <3>2
      <4>4. \A j \in DOMAIN origin' : j > k => model[origin'[j].elem].name # x
        BY <1>15, <2>2, <3>2, <4>1
      <4> QED BY <4>1, <4>2, <4>3, <4>4
    <3> QED BY <3>1, <3>2
  <2>5. model' = model
    BY <1>5
  <2> QED BY <2>3, <2>4, <2>5 DEF StepNumIsLast
<1> QED BY <1>18, <1>19, <1>20, <1>21, <1>22

(* Every step keeps the inductive invariant.                               *)
LEMMA NextIndInv == ASSUME IndInv, [Next]_vars PROVE IndInv'
<1>1. CASE AddEdge
  BY <1>1, AddEdgeIndInv
<1>2. CASE NextBegin \/ NextElement
  BY <1>2, LoopIndInv
<1>3. CASE \/ GenGraphFromXML \/ GenGraphFromClass \/ ParseFails \/ Finish \/ Done
           \/ UNCHANGED vars
  <2>1. UNCHANGED <<graphVars, model, at>>
    BY <1>3 DEF GenGraphFromXML, GenGraphFromClass, ParseFails, Finish, Done, vars, graphVars
  <2>2. pc' \in {"call", "loop", "done"}
    BY <1>3 DEF GenGraphFromXML, GenGraphFromClass, ParseFails, Finish, Done, vars, IndInv, TypeOK
  <2>3. res' \in BOOLEAN
    BY <1>3 DEF GenGraphFromXML, GenGraphFromClass, ParseFails, Finish, Done, vars, IndInv, TypeOK
  <2>4. TypeOK'
    BY <2>1, <2>2, <2>3 DEF IndInv, TypeOK, graphVars
  <2>5. EdgeSeq' = EdgeSeq
    BY <2>1 DEF graphVars, EdgeSeq, EdgeFor
  <2>6. NodesNumbered' /\ AdjacencyIsGraph'
    BY <2>1, <2>5 DEF IndInv, NodesNumbered, AdjacencyIsGraph, graphVars
  <2>7. PairsInOrder'
    BY <2>1 DEF IndInv, PairsInOrder, IsPair, Before, graphVars
  <2>8. StepNumIsLast'
    BY <2>1, <2>5 DEF IndInv, StepNumIsLast, graphVars
  <2> QED BY <2>4, <2>6, <2>7, <2>8 DEF IndInv
<1> QED BY <1>1, <1>2, <1>3 DEF Next

LEMMA Inductive == Spec => []IndInv
<1>1. Init => IndInv
  BY InitIndInv
<1>2. IndInv /\ [Next]_vars => IndInv'
  BY NextIndInv
<1> QED BY <1>1, <1>2, PTL DEF Spec

-----------------------------------------------------------------------------
(* The tables, lists and counters of MGraph keep their types.              *)
THEOREM TypeCorrect == Spec => []TypeOK
<1>1. IndInv => TypeOK
  BY DEF IndInv
<1> QED BY <1>1, Inductive, PTL

(* nodeNumMap and nodeNameMap stay inverse to each other.                  *)
THEOREM NodesCorrect == Spec => []NodesNumbered
<1>1. IndInv => NodesNumbered
  BY DEF IndInv
<1> QED BY <1>1, Inductive, PTL

(* The adjacency lists are the edge sequence the searches are specified on.*)
THEOREM AdjacencyCorrect == Spec => []AdjacencyIsGraph
<1>1. IndInv => AdjacencyIsGraph
  BY DEF IndInv
<1> QED BY <1>1, Inductive, PTL

(* Each pair of begin and end states of the model gives one edge, in order.*)
THEOREM PairsCorrect == Spec => []PairsInOrder
<1>1. IndInv => PairsInOrder
  BY DEF IndInv
<1> QED BY <1>1, Inductive, PTL

(* A step name is looked up as the step of the last edge that carries it.  *)
THEOREM StepLookup == Spec => []StepNumIsLast
<1>1. IndInv => StepNumIsLast
  BY DEF IndInv
<1> QED BY <1>1, Inductive, PTL
=============================================================================
