------------------------------ MODULE MPathAlgo ------------------------------
(***************************************************************************)
(* What all path algorithms share: the graph they search                   *)
(* (framework/graph/MGraph.java), the sets a scenario's option names       *)
(* resolve to, and the result list with its through filters                *)
(* (common/path/MPathAlgo.java).                                           *)
(*                                                                         *)
(* A graph is the sequence of its edges in the order MGraph.addEdge got    *)
(* them: MGraph numbers edges 1, 2, ... in that order, and the adjacency   *)
(* list of a node holds its outgoing edges in ascending number (module     *)
(* MGraph builds the adjacency lists and shows that).  A node stands for   *)
(* its number and its name, a step for its number and its name.            *)
(***************************************************************************)
EXTENDS Integers, Sequences, FiniteSets

Edge(Nodes, Steps) == [from : Nodes, to : Nodes, step : Steps, repeat : Nat \ {0}]

States(g) == {g[e].from : e \in DOMAIN g} \cup {g[e].to : e \in DOMAIN g}
StepsOf(g) == {g[e].step : e \in DOMAIN g}
OutEdges(g, n) == {e \in DOMAIN g : g[e].from = n}
Repeats(g) == [e \in DOMAIN g |-> g[e].repeat]

Elems(s) == {s[i] : i \in DOMAIN s}
Count(e, s) == Cardinality({k \in DOMAIN s : s[k] = e})
Front(s) == SubSeq(s, 1, Len(s) - 1)
Last(s) == s[Len(s)]

-----------------------------------------------------------------------------
(* genStopStateNumSet and genThroughStateNumSet: names that are not states *)
(* of the graph are dropped, silently.                                     *)
StateNumSet(g, names) == names \cap States(g)

(* genThroughStepNumSet.                                                   *)
StepNumSet(g, names) == names \cap StepsOf(g)

(* genStartStateNumSet: the named states, or with no name given every      *)
(* state no edge enters.                                                   *)
StartStateNumSet(g, names) ==
  IF names # {} THEN names \cap States(g)
  ELSE {n \in States(g) : \A e \in DOMAIN g : g[e].to # n}

-----------------------------------------------------------------------------
(* The lists of state, edge and step paths are added to and removed from   *)
(* at the same index, so they are one list of triples.  Removing an        *)
(* element leaves a hole instead of renumbering the ones behind it: a list *)
(* is a function from its positions to paths.                              *)
NextPos(list) == CHOOSE k \in {i + 1 : i \in DOMAIN list} \cup {1} :
                   \A i \in DOMAIN list : i < k

Add(list, p) ==
  [i \in DOMAIN list \cup {NextPos(list)} |-> IF i \in DOMAIN list THEN list[i] ELSE p]

Keep(list, I) == [i \in I |-> list[i]]

(* Every element of the second list added behind the first list.           *)
AddAll(list, more) ==
  LET base == NextPos(list)
  IN  [i \in DOMAIN list \cup {base + j : j \in DOMAIN more} |->
         IF i \in DOMAIN list THEN list[i] ELSE more[i - base]]

(* delPathWithoutThroughState: with through states given, keep the paths   *)
(* that visit at least one of them.                                        *)
DelPathWithoutThroughState(list, through) ==
  IF through = {} THEN list
  ELSE Keep(list, {i \in DOMAIN list : Elems(list[i].states) \cap through # {}})

(* delPathWithoutThroughStep.                                              *)
DelPathWithoutThroughStep(list, through) ==
  IF through = {} THEN list
  ELSE Keep(list, {i \in DOMAIN list : Elems(list[i].steps) \cap through # {}})
=============================================================================
