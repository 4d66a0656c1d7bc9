------------------------- MODULE MPathSearch_proofs -------------------------
(***************************************************************************)
(* The path search restores what it borrows and finds what it is asked     *)
(* for, whatever the graph and the scenarios.                              *)
(*                                                                         *)
(* IndInv is about the borrowed state: its additional parts say what a     *)
(* suspended dfs activation has saved, the values its edge and the edge's  *)
(* end had when the path was only as long as the activation is deep.       *)
(* FindInv is about the result: each walk searched for is recorded, or its *)
(* start state is still to come, or it is ahead of the search, and every   *)
(* step that takes a walk out of what is ahead records it.                 *)
(***************************************************************************)
EXTENDS MPathSearch, SequenceTheorems, FiniteSetTheorems, WellFoundedInduction, TLAPS

Frame == [next : Nat, ok : BOOLEAN, left : Nat, dist : Int]

(* How often e occurs among the first m elements of s.                     *)
CountTo(s, e, m) == Cardinality({k \in 1..m : s[k] = e})

BudgetInv ==
  \A e \in DOMAIN graph : repeatTime[e] + CountTo(edgePath, e, Len(edgePath)) = graph[e].repeat

SavedLeft ==
  \A k \in DOMAIN edgePath :
    /\ stack[k].next = edgePath[k]
    /\ stack[k].left = graph[edgePath[k]].repeat - CountTo(edgePath, edgePath[k], k - 1)

(* d is the distance of n after the first m edges of a path through the    *)
(* states sp: the place of the last of them that ends in n, or the initial *)
(* distance x.                                                             *)
DistAt(sp, x, d, n, m) ==
  \/ d = x /\ \A j \in 1..m : sp[j + 1] # n
  \/ /\ d \in 1..m
     /\ sp[d + 1] = n
     /\ \A j \in (d + 1)..m : sp[j + 1] # n

DistInv ==
  \A a \in DistAlgos : \A n \in States(graph) :
    IF stack # <<>> /\ a = alg
    THEN DistAt(statePath, Extreme(a), stateDist[a][n], n, Len(edgePath))
    ELSE stateDist[a][n] = Extreme(a)

SavedDist ==
  alg \in DistAlgos =>
    \A k \in DOMAIN edgePath :
      DistAt(statePath, Extreme(alg), stack[k].dist, statePath[k + 1], k - 1)

IndInv == TypeOK /\ PathIsWalk /\ BudgetInv /\ SavedLeft /\ DistInv /\ SavedDist

(* The part of the state IndInv is about.                                  *)
core == <<graph, repeatTime, scenarios, statePath, edgePath, stepPath, stack, stateDist>>

-----------------------------------------------------------------------------
(* Facts about sequences and counts.                                       *)
LEMMA FrontFacts ==
  ASSUME NEW S, NEW s \in Seq(S), s # <<>>
  PROVE  /\ Front(s) \in Seq(S)
         /\ Len(Front(s)) = Len(s) - 1
         /\ \A i \in 1..(Len(s) - 1) : Front(s)[i] = s[i]
<1>1. Len(s) \in Nat /\ Len(s) # 0
  BY EmptySeq
<1>2. \A i \in 1..(Len(s) - 1) : s[i] \in S
  BY ElementOfSeq
<1> DEFINE n == Len(s) - 1
<1>3. /\ SubSeq(s, 1, n) \in Seq(S)
      /\ Len(SubSeq(s, 1, n)) = IF 1 <= n THEN n - 1 + 1 ELSE 0
      /\ \A i \in 1..(n - 1 + 1) : SubSeq(s, 1, n)[i] = s[1 + i - 1]
  <2>1. n \in Int /\ 1 \in Int
    BY <1>1
  <2> HIDE DEF n
  <2>2. QED
    BY <1>2, <2>1, SubSeqProperties DEF n
<1> HIDE DEF n
<1>4. n \in Nat /\ n = Len(s) - 1
  BY <1>1 DEF n
<1>5. Len(SubSeq(s, 1, n)) = n
  BY <1>3, <1>4
<1>6. \A i \in 1..n : SubSeq(s, 1, n)[i] = s[i]
  <2> SUFFICES ASSUME NEW i \in 1..n PROVE SubSeq(s, 1, n)[i] = s[i]
    OBVIOUS
  <2>1. i \in 1..(n - 1 + 1) /\ 1 + i - 1 = i
    BY <1>4
  <2>2. QED
    BY <1>3, <2>1
<1>7. Front(s) = SubSeq(s, 1, n)
  BY DEF Front, n
<1>8. QED
  BY <1>3, <1>4, <1>5, <1>6, <1>7

LEMMA CountFinite ==
  ASSUME NEW s, NEW e, NEW m \in Nat
  PROVE  /\ IsFiniteSet({k \in 1..m : s[k] = e})
         /\ Cardinality({k \in 1..m : s[k] = e}) \in Nat
<1>1. IsFiniteSet(1..m)
  BY FS_Interval
<1>2. QED
  BY <1>1, FS_Subset, FS_CardinalityType

LEMMA CountType ==
  ASSUME NEW s, NEW e, NEW m \in Nat
  PROVE  CountTo(s, e, m) \in Nat
  BY CountFinite DEF CountTo

LEMMA CountAppend ==
  ASSUME NEW S, NEW s \in Seq(S), NEW x \in S, NEW e
  PROVE  CountTo(Append(s, x), e, Len(s) + 1) = CountTo(s, e, Len(s)) + (IF x = e THEN 1 ELSE 0)
<1> DEFINE old == {k \in 1..Len(s) : s[k] = e}
           new == {k \in 1..(Len(s) + 1) : Append(s, x)[k] = e}
<1>1. Len(s) \in Nat
  BY LenProperties
<1>2. IsFiniteSet(old) /\ Cardinality(old) \in Nat
  BY <1>1, CountFinite
<1>3. CountTo(Append(s, x), e, Len(s) + 1) = Cardinality(new) /\ CountTo(s, e, Len(s)) = Cardinality(old)
  BY DEF CountTo
<1>4. CASE x = e
  <2>1. new = old \cup {Len(s) + 1}
    BY <1>1, <1>4, AppendProperties
  <2>2. Len(s) + 1 \notin old
    BY <1>1
  <2> HIDE DEF old, new
  <2>3. Cardinality(old \cup {Len(s) + 1}) = Cardinality(old) + 1
    BY <1>2, <2>2, FS_AddElement
  <2>4. QED
    BY <1>3, <1>4, <2>1, <2>3
<1>5. CASE x # e
  <2>1. new = old
    BY <1>1, <1>5, AppendProperties
  <2> HIDE DEF old, new
  <2>2. QED
    BY <1>2, <1>3, <1>5, <2>1
<1>6. QED
  BY <1>4, <1>5

(* The counts and distances of a prefix depend on that prefix only.        *)
LEMMA CountPrefix ==
  ASSUME NEW s, NEW t, NEW e, NEW m \in Nat, \A k \in 1..m : t[k] = s[k]
  PROVE  CountTo(t, e, m) = CountTo(s, e, m)
<1>1. {k \in 1..m : t[k] = e} = {k \in 1..m : s[k] = e}
  OBVIOUS
<1>2. QED
  BY <1>1 DEF CountTo

LEMMA DistPrefix ==
  ASSUME NEW s, NEW t, NEW x, NEW d, NEW n, NEW m \in Nat,
         \A k \in 2..(m + 1) : t[k] = s[k], DistAt(s, x, d, n, m)
  PROVE  DistAt(t, x, d, n, m)
<1>1. \A j \in 1..m : t[j + 1] = s[j + 1]
  OBVIOUS
<1>2. QED
  BY <1>1 DEF DistAt

(* One more edge: the distance of its end is its place, any other distance *)
(* stays; and the same the other way round.                                *)
LEMMA DistExtend ==
  ASSUME NEW s, NEW x, NEW d, NEW n, NEW m \in Nat, s[m + 2] # n
  PROVE  DistAt(s, x, d, n, m) <=> DistAt(s, x, d, n, m + 1)
<1>1. \A j \in 1..(m + 1) : j \in 1..m \/ j = m + 1
  OBVIOUS
<1>2. (m + 1) + 1 = m + 2
  OBVIOUS
<1>3. QED
  BY <1>1, <1>2 DEF DistAt

LEMMA DistLast ==
  ASSUME NEW s, NEW x, NEW n, NEW m \in Nat, s[m + 2] = n
  PROVE  DistAt(s, x, m + 1, n, m + 1)
<1>1. (m + 1) + 1 = m + 2
  OBVIOUS
<1>2. QED
  BY <1>1 DEF DistAt

LEMMA AlgType == alg \in Algos
  BY DEF alg, GetAlgorithm, Algos

LEMMA ExtremeType == \A a \in DistAlgos : Extreme(a) \in Int
  BY DEF Extreme, MinPathDist, MaxPathDist

-----------------------------------------------------------------------------
LEMMA InitIndInv == Init => IndInv
<1> SUFFICES ASSUME Init PROVE IndInv
  OBVIOUS
<1>1. /\ graph \in Seq(Edge(Nodes, Steps)) /\ scenarios \in Seq(Scenario)
      /\ DOMAIN graph = 1..Len(graph)
      /\ \A e \in DOMAIN graph : graph[e] \in Edge(Nodes, Steps)
  BY SearchAssumption, LenProperties, ElementOfSeq DEF Init
<1>2. TypeOK
  BY <1>1, ExtremeType DEF Init, TypeOK, Repeats, Edge, N2NAlgos, DistAlgos
<1>3. PathIsWalk /\ SavedLeft /\ SavedDist
  BY DEF Init, PathIsWalk, SavedLeft, SavedDist
<1>4. BudgetInv
  <2> SUFFICES ASSUME NEW e \in DOMAIN graph
               PROVE  repeatTime[e] + CountTo(edgePath, e, Len(edgePath)) = graph[e].repeat
    BY DEF BudgetInv
  <2>1. {k \in 1..Len(edgePath) : edgePath[k] = e} = {}
    BY DEF Init
  <2>2. CountTo(edgePath, e, Len(edgePath)) = 0
    BY <2>1, FS_EmptySet DEF CountTo
  <2>3. QED
    BY <1>1, <2>2 DEF Init, Repeats, Edge
<1>5. DistInv
  BY DEF Init, DistInv
<1>6. QED
  BY <1>2, <1>3, <1>4, <1>5 DEF IndInv

(* A step that changes neither the core nor the scenario it belongs to.    *)
LEMMA CoreUnchanged ==
  ASSUME IndInv, UNCHANGED <<core, cur>>, TypeOK'
  PROVE  IndInv'
<1>1. UNCHANGED <<graph, repeatTime, scenarios, statePath, edgePath, stepPath, stack,
                  stateDist, cur>>
  BY DEF core
<1>2. alg' = alg
  BY <1>1 DEF alg, scen
<1>3. PathIsWalk' /\ BudgetInv' /\ SavedLeft'
  BY <1>1 DEF IndInv, PathIsWalk, BudgetInv, SavedLeft, CountTo
<1>4. DistInv' /\ SavedDist'
  BY <1>1, <1>2 DEF IndInv, DistInv, SavedDist
<1>5. QED
  BY <1>3, <1>4 DEF IndInv

(* A step that starts or ends a scenario: no search is in progress.        *)
LEMMA NoSearch ==
  ASSUME IndInv, UNCHANGED core, TypeOK', stack = <<>>
  PROVE  IndInv'
<1>1. UNCHANGED <<graph, repeatTime, scenarios, statePath, edgePath, stepPath, stack,
                  stateDist>>
  BY DEF core
<1>2. edgePath = <<>>
  BY EmptySeq DEF IndInv, TypeOK, PathIsWalk
<1>3. PathIsWalk' /\ BudgetInv' /\ SavedLeft'
  BY <1>1 DEF IndInv, PathIsWalk, BudgetInv, SavedLeft, CountTo
<1>4. DistInv'
  BY <1>1 DEF IndInv, DistInv
<1>5. SavedDist'
  BY <1>1, <1>2 DEF SavedDist
<1>6. QED
  BY <1>3, <1>4, <1>5 DEF IndInv

(* Shape of the state while a search is in progress.                       *)
LEMMA SearchShape ==
  ASSUME IndInv, stack # <<>>
  PROVE  /\ Len(edgePath) \in Nat
         /\ Len(stack) = Len(edgePath) + 1
         /\ Len(statePath) = Len(edgePath) + 1
         /\ Len(stepPath) = Len(edgePath)
         /\ DOMAIN edgePath = 1..Len(edgePath)
         /\ curState \in Nodes
         /\ top \in Frame
<1>1. /\ statePath \in Seq(Nodes) /\ edgePath \in Seq(DOMAIN graph) /\ stepPath \in Seq(Steps)
      /\ stack \in Seq(Frame) /\ Len(stack) = Len(statePath)
  BY DEF IndInv, TypeOK, Frame
<1>2. Len(stack) \in Nat /\ Len(stack) # 0 /\ Len(edgePath) \in Nat
  BY <1>1, EmptySeq, LenProperties
<1>3. statePath # <<>>
  BY <1>1, <1>2, EmptySeq
<1>4. Len(statePath) = Len(edgePath) + 1 /\ Len(stepPath) = Len(edgePath)
  BY <1>3 DEF IndInv, PathIsWalk
<1>5. curState \in Nodes /\ top \in Frame
  BY <1>1, <1>2, <1>4, ElementOfSeq DEF curState, top
<1>6. QED
  BY <1>1, <1>2, <1>4, <1>5, LenProperties

LEMMA GraphFacts ==
  ASSUME IndInv, NEW e \in DOMAIN graph
  PROVE  /\ e \in Nat
         /\ graph[e].from \in States(graph) /\ graph[e].to \in States(graph)
         /\ graph[e].from \in Nodes /\ graph[e].to \in Nodes /\ graph[e].step \in Steps
         /\ graph[e].repeat \in Nat
<1>1. graph \in Seq(Edge(Nodes, Steps))
  BY DEF IndInv, TypeOK
<1>2. e \in 1..Len(graph) /\ Len(graph) \in Nat
  BY <1>1, LenProperties
<1>3. graph[e] \in Edge(Nodes, Steps)
  BY <1>1, <1>2, ElementOfSeq
<1>4. QED
  BY <1>2, <1>3 DEF Edge, States

(* RecordPath touches only the result lists and the distances of a round.  *)
LEMMA RecordPathType ==
  ASSUME IndInv, RecordPath, stack # <<>>
  PROVE  bestDist' \in [N2NAlgos -> [States(graph) -> Int]]
<1>1. Len(statePath) \in Int
  BY SearchShape
<1>2. bestDist \in [N2NAlgos -> [States(graph) -> Int]]
  BY DEF IndInv, TypeOK
<1>3. CASE bestDist' = bestDist
  BY <1>2, <1>3
<1>4. CASE alg \in N2NAlgos /\ bestDist' = [bestDist EXCEPT ![alg][curState] = Len(statePath)]
  <2>1. [bestDist[alg] EXCEPT ![curState] = Len(statePath)] \in [States(graph) -> Int]
    BY <1>1, <1>2, <1>4
  <2>2. QED
    BY <1>2, <1>4, <2>1
<1>5. QED
  BY <1>3, <1>4 DEF RecordPath, AddPath, AddTmpPath

LEMMA QuietSteps ==
  ASSUME IndInv, DfsStop \/ DfsEnter \/ DfsExhausted \/ DfsDone
  PROVE  IndInv'
<1>1. stack # <<>>
  BY DEF DfsStop, DfsEnter, DfsExhausted, DfsDone, IndInv, TypeOK
<1>2. UNCHANGED <<core, cur, todo>> /\ pc' \in {"enter", "loop", "return"}
  BY DEF DfsStop, DfsEnter, DfsExhausted, DfsDone, searchUnchanged, pathVars, core
<1>3. bestDist' \in [N2NAlgos -> [States(graph) -> Int]]
  BY <1>1, RecordPathType DEF DfsStop, DfsEnter, DfsExhausted, DfsDone, IndInv, TypeOK
<1>4. TypeOK'
  BY <1>1, <1>2, <1>3 DEF core, IndInv, TypeOK
<1>5. QED
  BY <1>2, <1>4, CoreUnchanged

LEMMA SkipStep ==
  ASSUME IndInv, NEW e \in DOMAIN graph, Skip(e)
  PROVE  IndInv'
<1>1. stack # <<>>
  BY DEF Skip, IndInv, TypeOK
<1>2. /\ UNCHANGED <<graph, repeatTime, scenarios, cur, pc, todo, statePath, edgePath, stepPath,
                      stateDist, bestDist>>
  BY DEF Skip, searchUnchanged, pathVars
<1> DEFINE f == [top EXCEPT !.next = e + 1, !.ok = @ \/ repeatTime[e] > 0]
<1>3. f \in Frame
  <2>1. top \in Frame /\ e + 1 \in Nat
    BY <1>1, SearchShape, GraphFacts
  <2>2. (top.ok \/ repeatTime[e] > 0) \in BOOLEAN
    OBVIOUS
  <2>3. QED
    BY <2>1, <2>2 DEF Frame
<1>4. stack' = [stack EXCEPT ![Len(stack)] = f]
  BY DEF Skip, SetTop, NextEdge
<1> HIDE DEF f
<1>5. /\ stack \in Seq(Frame) /\ Len(stack) \in 1..Len(stack)
  BY <1>1, SearchShape DEF IndInv, TypeOK, Frame
<1>6. /\ stack' \in Seq(Frame) /\ Len(stack') = Len(stack)
      /\ \A j \in 1..Len(edgePath) : stack'[j] = stack[j]
  BY <1>1, <1>3, <1>4, <1>5, ExceptSeq, SearchShape
<1>7. stack' # <<>>
  BY <1>5, <1>6, EmptySeq
<1>8. TypeOK'
  BY <1>1, <1>2, <1>6, <1>7 DEF IndInv, TypeOK, Frame
<1>9. alg' = alg
  BY <1>2 DEF alg, scen
<1>10. PathIsWalk' /\ BudgetInv'
  BY <1>2 DEF IndInv, PathIsWalk, BudgetInv, CountTo
<1>11. SavedLeft'
  BY <1>1, <1>2, <1>6, SearchShape DEF IndInv, SavedLeft, CountTo
<1>12. DistInv'
  BY <1>1, <1>2, <1>7, <1>9 DEF IndInv, DistInv
<1>13. SavedDist'
  BY <1>1, <1>2, <1>6, <1>9, SearchShape DEF IndInv, SavedDist
<1>14. QED
  BY <1>8, <1>10, <1>11, <1>12, <1>13 DEF IndInv

LEMMA StatesAreNodes ==
  ASSUME IndInv
  PROVE  States(graph) \subseteq Nodes
  BY GraphFacts DEF States

LEMMA GenPathStep ==
  ASSUME IndInv, GenPath
  PROVE  IndInv'
<1>1. stack = <<>> /\ Len(stack) = 0
  BY DEF GenPath, IndInv, TypeOK
<1>2. statePath = <<>>
  BY <1>1, EmptySeq DEF IndInv, TypeOK
<1>3. edgePath = <<>> /\ Len(stepPath) = 0
  BY <1>2 DEF IndInv, PathIsWalk
<1>4. stepPath = <<>>
  BY <1>3, EmptySeq DEF IndInv, TypeOK
<1>5. UNCHANGED core /\ cur' = cur /\ bestDist' = bestDist /\ pc' = "start"
  BY <1>2, <1>3, <1>4 DEF GenPath, core
<1>6. todo' \subseteq Nodes
  BY StatesAreNodes DEF GenPath, StartStateNumSet
<1>7. TypeOK'
  BY <1>1, <1>5, <1>6 DEF GenPath, core, IndInv, TypeOK
<1>8. QED
  BY <1>1, <1>5, <1>7, NoSearch

LEMMA FinishSteps ==
  ASSUME IndInv,
         FinishAll \/ FinishDist \/ FinishLeast \/ CoverDone \/ (\E i \in DOMAIN paths : CoverRound(i))
  PROVE  IndInv'
<1>1. stack = <<>>
  BY DEF FinishAll, FinishDist, FinishLeast, CoverDone, CoverRound, IndInv, TypeOK
<1>2. UNCHANGED <<core, todo, bestDist>>
  BY DEF FinishAll, FinishDist, FinishLeast, CoverDone, CoverRound, finishUnchanged, pathVars, core
<1>3. \/ cur' = cur + 1 /\ pc' = "idle"
      \/ cur' = cur /\ pc' = "cover" /\ pc \in {"start", "cover"}
  BY DEF FinishAll, FinishDist, FinishLeast, CoverDone, CoverRound, Deliver
<1>4. TypeOK'
  BY <1>1, <1>2, <1>3 DEF core, IndInv, TypeOK
<1>5. QED
  BY <1>1, <1>2, <1>4, NoSearch

LEMMA StartStateStep ==
  ASSUME IndInv, StartState
  PROVE  IndInv'
<1>1. stack = <<>> /\ Len(stack) = 0 /\ cur \in DOMAIN scenarios
  BY DEF StartState, IndInv, TypeOK
<1>2. statePath = <<>>
  BY <1>1, EmptySeq DEF IndInv, TypeOK
<1>3. edgePath = <<>> /\ Len(stepPath) = 0
  BY <1>2 DEF IndInv, PathIsWalk
<1>4. PICK s \in todo : todo' = todo \ {s} /\ statePath' = <<s>>
  BY DEF StartState
<1>5. s \in Nodes
  BY DEF IndInv, TypeOK
<1>6. /\ UNCHANGED <<graph, repeatTime, scenarios, cur, edgePath, stepPath, stateDist>>
      /\ pc' = "enter" /\ stack' = <<Activation>>
  BY DEF StartState
<1>7. alg' = alg
  BY <1>6 DEF alg, scen
<1>8. Activation \in Frame
  BY DEF Activation, Frame
<1>9. stack' \in Seq(Frame) /\ Len(stack') = 1 /\ stack' # <<>>
  BY <1>6, <1>8
<1>10. statePath' \in Seq(Nodes) /\ Len(statePath') = 1 /\ statePath' # <<>>
  BY <1>4, <1>5
<1>11. bestDist' \in [N2NAlgos -> [States(graph) -> Int]]
  <2>1. bestDist \in [N2NAlgos -> [States(graph) -> Int]]
    BY DEF IndInv, TypeOK
  <2>2. CASE alg \in N2NAlgos
    <3>1. Extreme(alg) \in Int
      BY <2>2, ExtremeType DEF N2NAlgos, DistAlgos
    <3>2. [n \in States(graph) |-> Extreme(alg)] \in [States(graph) -> Int]
      BY <3>1
    <3>3. bestDist' = [bestDist EXCEPT ![alg] = [n \in States(graph) |-> Extreme(alg)]]
      BY <2>2 DEF StartState
    <3>4. QED
      BY <2>1, <3>2, <3>3
  <2>3. CASE alg \notin N2NAlgos
    BY <2>1, <2>3 DEF StartState
  <2>4. QED
    BY <2>2, <2>3
<1>12. TypeOK'
  BY <1>1, <1>4, <1>6, <1>9, <1>10, <1>11 DEF IndInv, TypeOK, Frame
<1>13. PathIsWalk' /\ SavedLeft' /\ SavedDist'
  BY <1>3, <1>6, <1>10 DEF PathIsWalk, SavedLeft, SavedDist
<1>14. BudgetInv'
  BY <1>6 DEF IndInv, BudgetInv
<1>15. DistInv'
  BY <1>1, <1>3, <1>6, <1>7, <1>9 DEF IndInv, DistInv, DistAt
<1>16. QED
  BY <1>12, <1>13, <1>14, <1>15 DEF IndInv

LEMMA EndStartStep ==
  ASSUME IndInv, EndStart
  PROVE  IndInv'
<1>1. stack # <<>> /\ Len(stack) = 1 /\ cur \in DOMAIN scenarios
  BY DEF EndStart, IndInv, TypeOK
<1>2. Len(edgePath) = 0 /\ Len(stepPath) = 0
  BY <1>1, SearchShape
<1>3. edgePath = <<>> /\ stepPath = <<>>
  BY <1>2, EmptySeq DEF IndInv, TypeOK
<1>4. /\ UNCHANGED <<graph, repeatTime, scenarios, cur, todo, edgePath, stepPath, stateDist,
                      bestDist>>
      /\ stack' = <<>> /\ statePath' = <<>> /\ pc' = "start"
  BY DEF EndStart, searchUnchanged
<1>5. TypeOK'
  BY <1>1, <1>4, EmptySeq DEF IndInv, TypeOK
<1>6. PathIsWalk' /\ SavedLeft' /\ SavedDist'
  BY <1>2, <1>3, <1>4 DEF PathIsWalk, SavedLeft, SavedDist
<1>7. BudgetInv'
  BY <1>4 DEF IndInv, BudgetInv
<1>8. DistInv'
  <2> SUFFICES ASSUME NEW a \in DistAlgos, NEW n \in States(graph)
               PROVE  stateDist[a][n] = Extreme(a)
    BY <1>4 DEF DistInv
  <2>1. CASE a = alg
    <3>1. DistAt(statePath, Extreme(a), stateDist[a][n], n, 0)
      BY <1>1, <1>2, <2>1 DEF IndInv, DistInv
    <3>2. QED
      BY <3>1 DEF DistAt
  <2>2. CASE a # alg
    BY <2>2 DEF IndInv, DistInv
  <2>3. QED
    BY <2>1, <2>2
<1>9. QED
  BY <1>5, <1>6, <1>7, <1>8 DEF IndInv

(* Following an edge: the path and the stack grow by one, and the new      *)
(* suspended activation saves what SavedLeft and SavedDist say.            *)
LEMMA FollowStep ==
  ASSUME IndInv, NEW e \in DOMAIN graph, Follow(e)
  PROVE  IndInv'
<1> DEFINE m  == Len(edgePath)
           to == graph[e].to
           F  == [next |-> e, ok |-> top.ok, left |-> repeatTime[e],
                  dist |-> IF alg \in DistAlgos THEN stateDist[alg][to] ELSE 0]
           S1 == [stack EXCEPT ![Len(stack)] = F]
<1>1. stack # <<>> /\ cur \in DOMAIN scenarios
  BY DEF Follow, IndInv, TypeOK
<1>2. /\ m \in Nat /\ Len(stack) = m + 1 /\ Len(statePath) = m + 1 /\ Len(stepPath) = m
      /\ DOMAIN edgePath = 1..m /\ top \in Frame
  BY <1>1, SearchShape
<1>3. /\ UNCHANGED <<graph, scenarios, cur, todo, bestDist>> /\ pc' = "enter"
      /\ repeatTime[e] > 0 /\ IsNext(e)
      /\ repeatTime' = [repeatTime EXCEPT ![e] = @ - 1]
      /\ statePath' = Append(statePath, to)
      /\ edgePath' = Append(edgePath, e)
      /\ stepPath' = Append(stepPath, graph[e].step)
      /\ stateDist' = IF alg \in DistAlgos
                      THEN [stateDist EXCEPT ![alg][to] = Len(statePath)] ELSE stateDist
      /\ stack' = Append(S1, Activation)
  BY DEF Follow, searchUnchanged
<1>4. alg' = alg
  BY <1>3 DEF alg, scen
<1>5. /\ graph[e].from = statePath[m + 1]
  BY <1>2, <1>3 DEF IsNext, Pending, OutEdges, curState
<1>6. /\ statePath \in Seq(Nodes) /\ edgePath \in Seq(DOMAIN graph) /\ stepPath \in Seq(Steps)
      /\ stack \in Seq(Frame) /\ repeatTime \in [DOMAIN graph -> Nat]
      /\ stateDist \in [DistAlgos -> [States(graph) -> Int]]
  BY DEF IndInv, TypeOK, Frame
<1>7. /\ e \in Nat /\ to \in States(graph) /\ to \in Nodes /\ graph[e].step \in Steps
      /\ graph[e].repeat \in Nat
  BY GraphFacts
<1>8. F \in Frame
  <2>1. top.ok \in BOOLEAN
    BY <1>2 DEF Frame
  <2>2. repeatTime[e] \in Nat
    BY <1>6
  <2>3. (IF alg \in DistAlgos THEN stateDist[alg][to] ELSE 0) \in Int
    BY <1>6, <1>7
  <2>4. QED
    BY <1>7, <2>1, <2>2, <2>3 DEF Frame
<1>9. Activation \in Frame
  BY DEF Activation, Frame
<1> HIDE DEF F
<1>10. /\ S1 \in Seq(Frame) /\ Len(S1) = m + 1
       /\ \A j \in 1..(m + 1) : S1[j] = IF j = m + 1 THEN F ELSE stack[j]
  BY <1>2, <1>6, <1>8, ExceptSeq
<1> HIDE DEF S1
<1>11. /\ stack' \in Seq(Frame) /\ Len(stack') = m + 2
       /\ \A j \in 1..m : stack'[j] = stack[j]
       /\ stack'[m + 1] = F
  <2>1. /\ stack' \in Seq(Frame) /\ Len(stack') = m + 1 + 1
        /\ \A j \in 1..(m + 1) : stack'[j] = S1[j]
    BY <1>3, <1>9, <1>10, AppendProperties
  <2>2. QED
    BY <1>2, <1>10, <2>1
<1>12. stack' # <<>>
  BY <1>2, <1>11, EmptySeq
<1> HIDE DEF m, to
<1>13. /\ edgePath' \in Seq(DOMAIN graph) /\ Len(edgePath') = m + 1
       /\ \A j \in 1..m : edgePath'[j] = edgePath[j]
       /\ edgePath'[m + 1] = e
       /\ DOMAIN edgePath' = 1..(m + 1)
  BY <1>2, <1>3, <1>6, AppendProperties, LenProperties DEF m
<1>14. /\ stepPath' \in Seq(Steps) /\ Len(stepPath') = m + 1
       /\ \A j \in 1..m : stepPath'[j] = stepPath[j]
       /\ stepPath'[m + 1] = graph[e].step
  BY <1>2, <1>3, <1>6, <1>7, AppendProperties
<1>15. /\ statePath' \in Seq(Nodes) /\ Len(statePath') = m + 2
       /\ \A j \in 1..(m + 1) : statePath'[j] = statePath[j]
       /\ statePath'[m + 2] = to
  <2>1. /\ statePath' \in Seq(Nodes) /\ Len(statePath') = m + 1 + 1
        /\ \A j \in 1..(m + 1) : statePath'[j] = statePath[j]
        /\ statePath'[m + 1 + 1] = to
    BY <1>2, <1>3, <1>6, <1>7, AppendProperties
  <2>2. m + 1 + 1 = m + 2
    BY <1>2
  <2>3. QED
    BY <2>1, <2>2
<1>16. /\ repeatTime' \in [DOMAIN graph -> Nat]
       /\ \A x \in DOMAIN graph : repeatTime'[x] = IF x = e THEN repeatTime[e] - 1 ELSE repeatTime[x]
  BY <1>3, <1>6
<1>17. /\ stateDist' \in [DistAlgos -> [States(graph) -> Int]]
       /\ alg \in DistAlgos => stateDist'[alg][to] = m + 1
       /\ \A a \in DistAlgos, n \in States(graph) :
            a # alg \/ n # to => stateDist'[a][n] = stateDist[a][n]
  <2>1. CASE alg \in DistAlgos
    <3>1. [stateDist[alg] EXCEPT ![to] = m + 1] \in [States(graph) -> Int]
      <4>1. stateDist[alg] \in [States(graph) -> Int]
        BY <1>6, <2>1
      <4>2. m + 1 \in Int
        BY <1>2
      <4>3. QED
        BY <4>1, <4>2
    <3>2. stateDist' = [stateDist EXCEPT ![alg] = [stateDist[alg] EXCEPT ![to] = m + 1]]
      BY <1>2, <1>3, <2>1
    <3>3. QED
      BY <1>6, <1>7, <2>1, <3>1, <3>2
  <2>2. CASE alg \notin DistAlgos
    BY <1>3, <1>6, <2>2
  <2>3. QED
    BY <2>1, <2>2
<1>18. TypeOK'
  BY <1>1, <1>3, <1>11, <1>12, <1>13, <1>14, <1>15, <1>16, <1>17 DEF IndInv, TypeOK, Frame
<1>19. PathIsWalk'
  <2>1. statePath' # <<>>
    BY <1>2, <1>15, EmptySeq
  <2>2. ASSUME NEW k \in 1..(m + 1)
        PROVE  /\ graph[edgePath'[k]].from = statePath'[k]
               /\ graph[edgePath'[k]].to = statePath'[k + 1]
               /\ graph[edgePath'[k]].step = stepPath'[k]
    <3>1. CASE k = m + 1
      BY <1>2, <1>5, <1>13, <1>14, <1>15, <3>1 DEF to
    <3>2. CASE k \in 1..m
      <4>1. /\ graph[edgePath[k]].from = statePath[k]
            /\ graph[edgePath[k]].to = statePath[k + 1]
            /\ graph[edgePath[k]].step = stepPath[k]
        BY <1>2, <3>2 DEF IndInv, PathIsWalk
      <4>2. k \in 1..(m + 1) /\ k + 1 \in 1..(m + 1)
        BY <1>2, <3>2
      <4>3. QED
        BY <1>13, <1>14, <1>15, <3>2, <4>1, <4>2
    <3>3. QED
      BY <1>2, <3>1, <3>2
  <2>3. QED
    BY <1>2, <1>3, <1>13, <1>14, <1>15, <2>1, <2>2 DEF PathIsWalk
<1>20. BudgetInv'
  <2> SUFFICES ASSUME NEW x \in DOMAIN graph
               PROVE  repeatTime'[x] + CountTo(edgePath', x, m + 1) = graph[x].repeat
    BY <1>3, <1>13 DEF BudgetInv
  <2>1. CountTo(edgePath', x, m + 1) = CountTo(edgePath, x, m) + (IF e = x THEN 1 ELSE 0)
    BY <1>3, <1>6, CountAppend DEF m
  <2>2. repeatTime[x] + CountTo(edgePath, x, m) = graph[x].repeat
    BY DEF IndInv, BudgetInv, m
  <2>3. CountTo(edgePath, x, m) \in Nat /\ repeatTime[x] \in Nat
    BY <1>2, <1>6, CountType
  <2>4. QED
    BY <1>16, <2>1, <2>2, <2>3
<1>21. SavedLeft'
  <2> SUFFICES ASSUME NEW k \in 1..(m + 1)
               PROVE  /\ stack'[k].next = edgePath'[k]
                      /\ stack'[k].left = graph[edgePath'[k]].repeat
                                            - CountTo(edgePath', edgePath'[k], k - 1)
    BY <1>3, <1>13 DEF SavedLeft
  <2>1. k - 1 \in Nat /\ \A j \in 1..(k - 1) : edgePath'[j] = edgePath[j]
    BY <1>2, <1>13
  <2>2. CountTo(edgePath', edgePath'[k], k - 1) = CountTo(edgePath, edgePath'[k], k - 1)
    BY <2>1, CountPrefix
  <2>3. CASE k = m + 1
    <3>1. repeatTime[e] + CountTo(edgePath, e, m) = graph[e].repeat
      BY DEF IndInv, BudgetInv, m
    <3>2. CountTo(edgePath, e, m) \in Nat /\ repeatTime[e] \in Nat /\ k - 1 = m
      BY <1>2, <1>6, <2>3, CountType
    <3>3. F.next = e /\ F.left = repeatTime[e]
      BY DEF F
    <3>4. QED
      BY <1>7, <1>11, <1>13, <2>2, <2>3, <3>1, <3>2, <3>3
  <2>4. CASE k \in 1..m
    BY <1>2, <1>11, <1>13, <2>2, <2>4 DEF IndInv, SavedLeft
  <2>5. QED
    BY <1>2, <2>3, <2>4
<1>22. DistInv'
  <2> SUFFICES ASSUME NEW a \in DistAlgos, NEW n \in States(graph)
               PROVE  IF a = alg THEN DistAt(statePath', Extreme(a), stateDist'[a][n], n, m + 1)
                                 ELSE stateDist'[a][n] = Extreme(a)
    BY <1>3, <1>4, <1>12, <1>13 DEF DistInv
  <2>1. CASE a # alg
    BY <1>17, <2>1 DEF IndInv, DistInv
  <2>2. CASE a = alg /\ n = to
    <3>1. DistAt(statePath', Extreme(a), m + 1, n, m + 1)
      BY <1>2, <1>15, <2>2, DistLast
    <3>2. QED
      BY <1>17, <2>2, <3>1
  <2>3. CASE a = alg /\ n # to
    <3>1. DistAt(statePath, Extreme(a), stateDist[a][n], n, m)
      BY <1>1, <2>3 DEF IndInv, DistInv, m
    <3>2. \A k \in 2..(m + 1) : statePath'[k] = statePath[k]
      BY <1>2, <1>15
    <3>3. DistAt(statePath', Extreme(a), stateDist[a][n], n, m)
      BY <1>2, <3>1, <3>2, DistPrefix
    <3>4. DistAt(statePath', Extreme(a), stateDist[a][n], n, m + 1)
      BY <1>2, <1>15, <2>3, <3>3, DistExtend
    <3>5. QED
      BY <1>17, <2>3, <3>4
  <2>4. QED
    BY <2>1, <2>2, <2>3
<1>23. SavedDist'
  <2> SUFFICES ASSUME alg \in DistAlgos, NEW k \in 1..(m + 1)
               PROVE  DistAt(statePath', Extreme(alg), stack'[k].dist, statePath'[k + 1], k - 1)
    BY <1>4, <1>13 DEF SavedDist
  <2>1. k - 1 \in Nat /\ \A j \in 2..((k - 1) + 1) : statePath'[j] = statePath[j]
    BY <1>2, <1>15
  <2>2. CASE k = m + 1
    <3>1. DistAt(statePath, Extreme(alg), stateDist[alg][to], to, m)
      BY <1>1, <1>7 DEF IndInv, DistInv, m
    <3>2. F.dist = stateDist[alg][to]
      BY DEF F, to
    <3>3. k - 1 = m /\ k + 1 = m + 2
      BY <1>2, <2>2
    <3>4. QED
      BY <1>11, <1>15, <2>1, <2>2, <3>1, <3>2, <3>3, DistPrefix
  <2>3. CASE k \in 1..m
    <3>1. DistAt(statePath, Extreme(alg), stack[k].dist, statePath[k + 1], k - 1)
      BY <1>2, <2>3 DEF IndInv, SavedDist
    <3>2. stack'[k] = stack[k] /\ statePath'[k + 1] = statePath[k + 1]
      BY <1>2, <1>11, <1>15, <2>3
    <3>3. QED
      BY <2>1, <3>1, <3>2, DistPrefix
  <2>4. QED
    BY <1>2, <2>2, <2>3
<1>24. QED
  BY <1>18, <1>19, <1>20, <1>21, <1>22, <1>23 DEF IndInv

(* A return: what the caller saved is what repeatTime and stateDist held   *)
(* when the path was one edge shorter.                                     *)
LEMMA RestoreStep ==
  ASSUME IndInv, Restore
  PROVE  IndInv'
<1> DEFINE p  == Len(edgePath) - 1
           c  == stack[Len(stack) - 1]
           e  == c.next
           to == graph[e].to
           G  == [c EXCEPT !.next = e + 1, !.ok = TRUE]
<1>1. stack # <<>> /\ cur \in DOMAIN scenarios /\ Len(stack) > 1
  BY DEF Restore, IndInv, TypeOK
<1>2. /\ p \in Nat /\ Len(edgePath) = p + 1 /\ Len(stack) = p + 2 /\ Len(statePath) = p + 2
      /\ Len(stepPath) = p + 1 /\ DOMAIN edgePath = 1..(p + 1)
  BY <1>1, SearchShape
<1>3. /\ UNCHANGED <<graph, scenarios, cur, todo, bestDist>> /\ pc' = "loop"
      /\ repeatTime' = [repeatTime EXCEPT ![e] = c.left]
      /\ stateDist' = IF alg \in DistAlgos
                      THEN [stateDist EXCEPT ![alg][to] = c.dist] ELSE stateDist
      /\ stack' = [Front(stack) EXCEPT ![p + 1] = G]
      /\ statePath' = Front(statePath) /\ edgePath' = Front(edgePath)
      /\ stepPath' = Front(stepPath)
  BY <1>2 DEF Restore, RestoreRepeatTime, RestoreDist, CutPaths, CutStepPath, NextEdge, searchUnchanged
<1>4. alg' = alg
  BY <1>3 DEF alg, scen
<1>5. /\ statePath \in Seq(Nodes) /\ edgePath \in Seq(DOMAIN graph) /\ stepPath \in Seq(Steps)
      /\ stack \in Seq(Frame) /\ repeatTime \in [DOMAIN graph -> Nat]
      /\ stateDist \in [DistAlgos -> [States(graph) -> Int]]
  BY DEF IndInv, TypeOK, Frame
<1>6. c = stack[p + 1] /\ c \in Frame
  <2>1. Len(stack) - 1 = p + 1 /\ p + 1 \in 1..Len(stack)
    BY <1>2
  <2>2. QED
    BY <1>5, <2>1, ElementOfSeq
<1> HIDE DEF c
<1>7. e = edgePath[p + 1] /\ c.left = graph[e].repeat - CountTo(edgePath, e, p)
  <2>1. p + 1 \in DOMAIN edgePath /\ (p + 1) - 1 = p
    BY <1>2
  <2>2. /\ stack[p + 1].next = edgePath[p + 1]
        /\ stack[p + 1].left = graph[edgePath[p + 1]].repeat - CountTo(edgePath, edgePath[p + 1], (p + 1) - 1)
    BY <2>1 DEF IndInv, SavedLeft
  <2>3. QED
    BY <1>6, <2>1, <2>2
<1>8. e \in DOMAIN graph
  BY <1>2, <1>5, <1>7, ElementOfSeq
<1>9. /\ e \in Nat /\ to \in States(graph) /\ graph[e].repeat \in Nat
  BY <1>8, GraphFacts
<1>10. to = statePath[p + 2]
  <2>1. p + 1 \in DOMAIN edgePath /\ (p + 1) + 1 = p + 2
    BY <1>2
  <2>2. graph[edgePath[p + 1]].to = statePath[(p + 1) + 1]
    BY <2>1 DEF IndInv, PathIsWalk
  <2>3. QED
    BY <1>7, <2>1, <2>2
<1>11. c.left \in Nat /\ c.dist \in Int
  BY <1>6 DEF Frame
<1>12. G \in Frame
  <2>1. e + 1 \in Nat /\ TRUE \in BOOLEAN
    BY <1>9
  <2>2. QED
    BY <1>6, <2>1 DEF Frame
<1> HIDE DEF p, e, to, G
<1>13. /\ edgePath' \in Seq(DOMAIN graph) /\ Len(edgePath') = p
       /\ \A j \in 1..p : edgePath'[j] = edgePath[j]
       /\ DOMAIN edgePath' = 1..p
  <2>1. edgePath # <<>> /\ (p + 1) - 1 = p
    BY <1>2
  <2>2. QED
    BY <1>2, <1>3, <1>5, <2>1, FrontFacts, LenProperties
<1>14. /\ stepPath' \in Seq(Steps) /\ Len(stepPath') = p
       /\ \A j \in 1..p : stepPath'[j] = stepPath[j]
  <2>1. stepPath # <<>> /\ (p + 1) - 1 = p
    BY <1>2
  <2>2. QED
    BY <1>2, <1>3, <1>5, <2>1, FrontFacts
<1>15. /\ statePath' \in Seq(Nodes) /\ Len(statePath') = p + 1
       /\ \A j \in 1..(p + 1) : statePath'[j] = statePath[j]
  <2>1. statePath # <<>> /\ (p + 2) - 1 = p + 1
    BY <1>2
  <2>2. QED
    BY <1>2, <1>3, <1>5, <2>1, FrontFacts
<1>16. /\ stack' \in Seq(Frame) /\ Len(stack') = p + 1
       /\ \A j \in 1..p : stack'[j] = stack[j]
  <2>1. (p + 2) - 1 = p + 1 /\ p + 1 \in 1..(p + 1)
    BY <1>2
  <2>2. /\ Front(stack) \in Seq(Frame) /\ Len(Front(stack)) = p + 1
        /\ \A j \in 1..(p + 1) : Front(stack)[j] = stack[j]
    BY <1>1, <1>2, <1>5, <2>1, FrontFacts
  <2>3. /\ stack' \in Seq(Frame) /\ Len(stack') = p + 1
        /\ \A j \in 1..(p + 1) : stack'[j] = IF j = p + 1 THEN G ELSE Front(stack)[j]
    BY <1>3, <1>12, <2>1, <2>2, ExceptSeq
  <2>4. QED
    BY <1>2, <2>2, <2>3
<1>17. stack' # <<>> /\ statePath' # <<>>
  BY <1>2, <1>15, <1>16, EmptySeq
<1>18. /\ repeatTime' \in [DOMAIN graph -> Nat]
       /\ \A x \in DOMAIN graph : repeatTime'[x] = IF x = e THEN c.left ELSE repeatTime[x]
  BY <1>3, <1>5, <1>11
<1>19. /\ stateDist' \in [DistAlgos -> [States(graph) -> Int]]
       /\ alg \in DistAlgos => stateDist'[alg][to] = c.dist
       /\ \A a \in DistAlgos, n \in States(graph) :
            a # alg \/ n # to => stateDist'[a][n] = stateDist[a][n]
  <2>1. CASE alg \in DistAlgos
    <3>1. stateDist[alg] \in [States(graph) -> Int]
      BY <1>5, <2>1
    <3>2. [stateDist[alg] EXCEPT ![to] = c.dist] \in [States(graph) -> Int]
      BY <1>11, <3>1
    <3>3. stateDist' = [stateDist EXCEPT ![alg] = [stateDist[alg] EXCEPT ![to] = c.dist]]
      BY <1>3, <2>1
    <3>4. QED
      BY <1>5, <1>9, <2>1, <3>1, <3>2, <3>3
  <2>2. CASE alg \notin DistAlgos
    BY <1>3, <1>5, <2>2
  <2>3. QED
    BY <2>1, <2>2
<1>20. TypeOK'
  BY <1>1, <1>3, <1>13, <1>14, <1>15, <1>16, <1>17, <1>18, <1>19 DEF IndInv, TypeOK, Frame
<1>21. PathIsWalk'
  <2>1. ASSUME NEW k \in 1..p
        PROVE  /\ graph[edgePath'[k]].from = statePath'[k]
               /\ graph[edgePath'[k]].to = statePath'[k + 1]
               /\ graph[edgePath'[k]].step = stepPath'[k]
    <3>1. k \in DOMAIN edgePath /\ k \in 1..(p + 1) /\ k + 1 \in 1..(p + 1)
      BY <1>2
    <3>2. /\ graph[edgePath[k]].from = statePath[k]
          /\ graph[edgePath[k]].to = statePath[k + 1]
          /\ graph[edgePath[k]].step = stepPath[k]
      BY <3>1 DEF IndInv, PathIsWalk
    <3>3. QED
      BY <1>13, <1>14, <1>15, <3>1, <3>2
  <2>2. QED
    BY <1>2, <1>3, <1>13, <1>14, <1>15, <1>17, <2>1 DEF PathIsWalk
<1>22. BudgetInv'
  <2> SUFFICES ASSUME NEW x \in DOMAIN graph
               PROVE  repeatTime'[x] + CountTo(edgePath', x, p) = graph[x].repeat
    BY <1>3, <1>13 DEF BudgetInv
  <2>1. CountTo(edgePath', x, p) = CountTo(edgePath, x, p)
    BY <1>2, <1>13, CountPrefix
  <2>2. CountTo(edgePath, x, p) \in Nat
    BY <1>2, CountType
  <2>3. CASE x = e
    BY <1>7, <1>9, <1>18, <2>1, <2>2, <2>3
  <2>4. CASE x # e
    <3>1. {k \in 1..(p + 1) : edgePath[k] = x} = {k \in 1..p : edgePath[k] = x}
      BY <1>2, <1>7, <2>4
    <3>2. CountTo(edgePath, x, p + 1) = CountTo(edgePath, x, p)
      BY <3>1 DEF CountTo
    <3>3. repeatTime[x] + CountTo(edgePath, x, p + 1) = graph[x].repeat
      BY <1>2 DEF IndInv, BudgetInv
    <3>4. QED
      BY <1>18, <2>1, <2>4, <3>2, <3>3
  <2>5. QED
    BY <2>3, <2>4
<1>23. SavedLeft'
  <2> SUFFICES ASSUME NEW k \in 1..p
               PROVE  /\ stack'[k].next = edgePath'[k]
                      /\ stack'[k].left = graph[edgePath'[k]].repeat
                                            - CountTo(edgePath', edgePath'[k], k - 1)
    BY <1>3, <1>13 DEF SavedLeft
  <2>1. k - 1 \in Nat /\ k \in DOMAIN edgePath /\ \A j \in 1..(k - 1) : edgePath'[j] = edgePath[j]
    BY <1>2, <1>13
  <2>2. CountTo(edgePath', edgePath[k], k - 1) = CountTo(edgePath, edgePath[k], k - 1)
    BY <2>1, CountPrefix
  <2>3. QED
    BY <1>13, <1>16, <2>1, <2>2 DEF IndInv, SavedLeft
<1>24. DistInv'
  <2> SUFFICES ASSUME NEW a \in DistAlgos, NEW n \in States(graph)
               PROVE  IF a = alg THEN DistAt(statePath', Extreme(a), stateDist'[a][n], n, p)
                                 ELSE stateDist'[a][n] = Extreme(a)
    BY <1>3, <1>4, <1>13, <1>17 DEF DistInv
  <2>1. \A k \in 2..(p + 1) : statePath'[k] = statePath[k]
    BY <1>2, <1>15
  <2>2. CASE a # alg
    BY <1>19, <2>2 DEF IndInv, DistInv
  <2>3. CASE a = alg /\ n = to
    <3>1. p + 1 \in DOMAIN edgePath /\ (p + 1) - 1 = p /\ (p + 1) + 1 = p + 2
      BY <1>2
    <3>2. DistAt(statePath, Extreme(a), stack[p + 1].dist, statePath[(p + 1) + 1], (p + 1) - 1)
      BY <2>3, <3>1 DEF IndInv, SavedDist
    <3>3. DistAt(statePath, Extreme(a), c.dist, n, p)
      BY <1>6, <1>10, <2>3, <3>1, <3>2
    <3>4. DistAt(statePath', Extreme(a), c.dist, n, p)
      BY <1>2, <2>1, <3>3, DistPrefix
    <3>5. QED
      BY <1>19, <2>3, <3>4
  <2>4. CASE a = alg /\ n # to
    <3>1. DistAt(statePath, Extreme(a), stateDist[a][n], n, p + 1)
      BY <1>1, <1>2, <2>4 DEF IndInv, DistInv
    <3>2. DistAt(statePath, Extreme(a), stateDist[a][n], n, p)
      BY <1>2, <1>10, <2>4, <3>1, DistExtend
    <3>3. DistAt(statePath', Extreme(a), stateDist[a][n], n, p)
      BY <1>2, <2>1, <3>2, DistPrefix
    <3>4. QED
      BY <1>19, <2>4, <3>3
  <2>5. QED
    BY <2>2, <2>3, <2>4
<1>25. SavedDist'
  <2> SUFFICES ASSUME alg \in DistAlgos, NEW k \in 1..p
               PROVE  DistAt(statePath', Extreme(alg), stack'[k].dist, statePath'[k + 1], k - 1)
    BY <1>4, <1>13 DEF SavedDist
  <2>1. /\ k - 1 \in Nat /\ k \in DOMAIN edgePath /\ k + 1 \in 1..(p + 1)
        /\ \A j \in 2..((k - 1) + 1) : statePath'[j] = statePath[j]
    BY <1>2, <1>15
  <2>2. DistAt(statePath, Extreme(alg), stack[k].dist, statePath[k + 1], k - 1)
    BY <2>1 DEF IndInv, SavedDist
  <2>3. stack'[k] = stack[k] /\ statePath'[k + 1] = statePath[k + 1]
    BY <1>15, <1>16, <2>1
  <2>4. QED
    BY <2>1, <2>2, <2>3, DistPrefix
<1>26. QED
  BY <1>20, <1>21, <1>22, <1>23, <1>24, <1>25 DEF IndInv

LEMMA NextIndInv == IndInv /\ [Next]_vars => IndInv'
<1> SUFFICES ASSUME IndInv, [Next]_vars PROVE IndInv'
  OBVIOUS
<1>1. CASE UNCHANGED vars
  <2>1. UNCHANGED <<core, cur>> /\ UNCHANGED <<pc, todo, bestDist>>
    BY <1>1 DEF vars, core
  <2>2. TypeOK'
    BY <2>1 DEF IndInv, TypeOK, core
  <2>3. QED
    BY <2>1, <2>2, CoreUnchanged
<1>2. CASE GenPath
  BY <1>2, GenPathStep
<1>3. CASE StartState
  BY <1>3, StartStateStep
<1>4. CASE DfsStop \/ DfsEnter \/ DfsExhausted \/ DfsDone
  BY <1>4, QuietSteps
<1>5. CASE Restore
  BY <1>5, RestoreStep
<1>6. CASE EndStart
  BY <1>6, EndStartStep
<1>7. ASSUME NEW e \in DOMAIN graph, Follow(e) PROVE IndInv'
  BY <1>7, FollowStep
<1>8. ASSUME NEW e \in DOMAIN graph, Skip(e) PROVE IndInv'
  BY <1>8, SkipStep
<1>9. CASE FinishAll \/ FinishDist \/ FinishLeast \/ CoverDone \/ (\E i \in DOMAIN paths : CoverRound(i))
  BY <1>9, FinishSteps
<1>10. QED
  BY <1>1, <1>2, <1>3, <1>4, <1>5, <1>6, <1>7, <1>8, <1>9 DEF Next, Returned

LEMMA Inductive == Spec => []IndInv
  BY InitIndInv, NextIndInv, PTL DEF Spec

-----------------------------------------------------------------------------
(* Every variable of the search keeps its type in every behaviour: the     *)
(* path lists, the dfs activations and the distance lists that genPath and *)
(* dfs work on.                                                            *)
THEOREM TypeCorrect == Spec => []TypeOK
<1>1. IndInv => TypeOK
  BY DEF IndInv
<1>2. QED
  BY <1>1, Inductive, PTL

(* The state, edge and step paths that dfs extends and cuts back in three  *)
(* separate lists stay aligned and form a walk of the graph.               *)
THEOREM WalkCorrect == Spec => []PathIsWalk
<1>1. IndInv => PathIsWalk
  BY DEF IndInv
<1>2. QED
  BY <1>1, Inductive, PTL

(* dfs never uses an edge more often than its repeat time: what is left    *)
(* and what the path under construction uses always add up.                *)
THEOREM BudgetKept == Spec => []EdgeBudget
<1>1. IndInv => EdgeBudget
  <2> SUFFICES ASSUME IndInv, NEW e \in DOMAIN graph
               PROVE  repeatTime[e] + Count(e, edgePath) = graph[e].repeat
    BY DEF EdgeBudget
  <2>1. DOMAIN edgePath = 1..Len(edgePath)
    BY LenProperties DEF IndInv, TypeOK
  <2>2. Count(e, edgePath) = CountTo(edgePath, e, Len(edgePath))
    BY <2>1 DEF Count, CountTo
  <2>3. QED
    BY <2>2 DEF IndInv, BudgetInv
<1>2. QED
  BY <1>1, Inductive, PTL

(* Whatever graph and whatever sequence of scenarios: between two searches *)
(* the repeat times of the shared graph and the distance lists of the      *)
(* shared algorithm objects are as after construction, so no scenario can  *)
(* influence a later one through them.                                     *)
THEOREM CleanScenarios == Spec => []CleanBetweenScenarios
<1>1. IndInv => CleanBetweenScenarios
  <2> SUFFICES ASSUME IndInv, pc \in {"idle", "start", "cover"}
               PROVE  /\ repeatTime = Repeats(graph)
                      /\ \A a \in DistAlgos : \A n \in States(graph) : stateDist[a][n] = Extreme(a)
    BY DEF CleanBetweenScenarios
  <2>1. stack = <<>>
    BY DEF IndInv, TypeOK
  <2>2. statePath = <<>>
    BY <2>1, EmptySeq DEF IndInv, TypeOK
  <2>3. edgePath = <<>> /\ Len(edgePath) = 0
    BY <2>2 DEF IndInv, PathIsWalk
  <2>4. ASSUME NEW e \in DOMAIN graph PROVE repeatTime[e] = graph[e].repeat
    <3>1. {k \in 1..0 : edgePath[k] = e} = {}
      OBVIOUS
    <3>2. CountTo(edgePath, e, 0) = 0
      BY <3>1, FS_EmptySet DEF CountTo
    <3>3. repeatTime[e] + CountTo(edgePath, e, 0) = graph[e].repeat /\ repeatTime[e] \in Nat
      BY <2>3 DEF IndInv, BudgetInv, TypeOK
    <3>4. QED
      BY <3>2, <3>3
  <2>5. repeatTime = Repeats(graph)
    BY <2>4 DEF Repeats, IndInv, TypeOK
  <2>6. \A a \in DistAlgos : \A n \in States(graph) : stateDist[a][n] = Extreme(a)
    BY <2>1 DEF IndInv, DistInv
  <2>7. QED
    BY <2>5, <2>6
<1>2. QED
  BY <1>1, Inductive, PTL

(* The distance test of "long" and "longn2n" never turns an edge down: the *)
(* distances are places on the path so far, or -1.                         *)
THEOREM LongExploresAll == Spec => []LongNeverPrunes
<1>1. IndInv => LongNeverPrunes
  <2> SUFFICES ASSUME IndInv, pc = "loop", alg \in {"long", "longn2n"}, NEW e \in Pending
               PROVE  MayFollow(e)
    BY DEF LongNeverPrunes
  <2> DEFINE n == graph[e].to
  <2>1. stack # <<>> /\ e \in DOMAIN graph
    BY DEF IndInv, TypeOK, Pending, OutEdges
  <2>2. n \in States(graph)
    BY <2>1, GraphFacts
  <2>3. Len(edgePath) \in Nat /\ Len(statePath) = Len(edgePath) + 1
    BY <2>1, SearchShape
  <2>4. alg \in DistAlgos /\ Extreme(alg) = -1
    BY DEF DistAlgos, Extreme, MinPathDist
  <2> HIDE DEF n
  <2>5. DistAt(statePath, Extreme(alg), stateDist[alg][n], n, Len(edgePath))
    BY <2>1, <2>2, <2>4 DEF IndInv, DistInv
  <2>6. stateDist[alg][n] \in 1..Len(edgePath) \cup {-1}
    BY <2>4, <2>5 DEF DistAt
  <2>7. stateDist[alg][n] <= Len(statePath)
    BY <2>3, <2>6
  <2>8. QED
    BY <2>7 DEF MayFollow, LongMayFollow, LongN2NMayFollow, n
<1>2. QED
  BY <1>1, Inductive, PTL

-----------------------------------------------------------------------------
(* What the search finds.  The walks the search is after are those of      *)
(* Target; while the search from the first state of statePath runs, Ahead  *)
(* says which of them it will still come to: those that leave the path     *)
(* under construction at a later edge than the one followed, or go on from *)
(* its end.                                                                *)
Starts(sc) == StartStateNumSet(graph, sc.start)

ShortestOnly(sc) == GetAlgorithm(sc.path) \in {"short", "shortn2n"}

Target(sc, s, w) ==
  /\ w \in Walks(graph, s)
  /\ Complete(graph, StateNumSet(graph, sc.stop), s, w)
  /\ ShortestOnly(sc) => Simple(PathOf(graph, s, w))

(* w starts with the first k edges of the path.                            *)
Agrees(w, k) == k <= Len(w) /\ \A j \in 1..k : w[j] = edgePath[j]

Later(w) ==
  \E k \in 1..Len(edgePath) : k <= Len(w) /\ Agrees(w, k - 1) /\ w[k] > edgePath[k]

Onward(w) ==
  \/ pc = "enter" /\ Agrees(w, Len(edgePath))
  \/ /\ pc = "loop" /\ Agrees(w, Len(edgePath))
     /\ IF Len(w) = Len(edgePath) THEN stop = {} ELSE w[Len(edgePath) + 1] >= top.next

Ahead(w) == Later(w) \/ Onward(w)

Searching == pc \in {"start", "enter", "loop", "return"}
Remains(s, w) == stack # <<>> /\ s = statePath[1] /\ Ahead(w)

(* The loop of an activation has seen an edge with repeat times left, or   *)
(* every edge it has passed was used up.                                   *)
OkAt(g, f, n, ep, k) ==
  IF f.ok THEN \E e \in OutEdges(g, n) : CountTo(ep, e, k) < g[e].repeat
          ELSE \A e \in OutEdges(g, n) : e < f.next => CountTo(ep, e, k) >= g[e].repeat

OkInv ==
  \A k \in 1..Len(stack) : OkAt(graph, stack[k], statePath[k], edgePath, k - 1)

PathInv ==
  /\ pc # "idle" => todo \subseteq Starts(scen)
  /\ stack # <<>> =>
       /\ statePath[1] \in Starts(scen) \ todo
       /\ pc = "enter" => top = Activation
       /\ \A k \in 1..Len(edgePath) : statePath[k] \notin stop
       /\ pc = "loop" => curState \notin stop
       /\ ShortestOnly(scen) =>
            \A j, k \in 2..Len(statePath) : statePath[j] = statePath[k] => j = k

Distinct(list) == \A i, j \in DOMAIN list : list[i] = list[j] => i = j

FoundAll ==
  Searching /\ alg \notin N2NAlgos =>
    /\ \A s \in Starts(scen) : \A w \in Walks(graph, s) : Target(scen, s, w) =>
         s \in todo \/ Remains(s, w) \/ PathOf(graph, s, w) \in Elems(paths)
    /\ \A p \in Elems(paths) : \E s \in Starts(scen) \ todo : \E w \in Walks(graph, s) :
         Target(scen, s, w) /\ p = PathOf(graph, s, w) /\ ~Remains(s, w)
    /\ Distinct(paths)

BestFound ==
  \A s \in Starts(scen) : \A w \in Walks(graph, s) :
    Target(scen, s, w) /\ BestOfPair(graph, scen, PathOf(graph, s, w)) =>
      \/ s \in todo \/ Remains(s, w)
      \/ stack # <<>> /\ s = statePath[1] /\ PathOf(graph, s, w) \in Elems(tmpPaths[alg])
      \/ PathOf(graph, s, w) \in Elems(paths)

RoundDist ==
  \A n \in States(graph) :
    \/ bestDist[alg][n] = Extreme(alg)
    \/ \E w \in Walks(graph, statePath[1]) :
         /\ Target(scen, statePath[1], w)
         /\ EndOf(graph, statePath[1], w) = n
         /\ bestDist[alg][n] = Len(w) + 1

FoundBest ==
  Searching /\ alg \in N2NAlgos => BestFound /\ (stack # <<>> => RoundDist)

(* A complete walk the search has passed is no better than the distance    *)
(* recorded for its last state.                                            *)
RoundBound ==
  stack # <<>> /\ alg \in N2NAlgos =>
    \A w \in Walks(graph, statePath[1]) :
      Target(scen, statePath[1], w) /\ ~Remains(statePath[1], w) =>
        /\ alg = "shortn2n" => bestDist["shortn2n"][EndOf(graph, statePath[1], w)] <= Len(w) + 1
        /\ alg = "longn2n"  => bestDist["longn2n"][EndOf(graph, statePath[1], w)] >= Len(w) + 1

(* The lists of the N2N searches hold what a scenario so far asked for, or *)
(* a walk of the round that is running.                                    *)
FromRound(p) ==
  \E w \in Walks(graph, statePath[1]) :
    Target(scen, statePath[1], w) /\ p = PathOf(graph, statePath[1], w) /\ ~Remains(statePath[1], w)

TmpAsked ==
  \A a \in N2NAlgos : \A p \in Elems(tmpPaths[a]) :
    AskedFor(a, cur, p) \/ (stack # <<>> /\ a = alg /\ FromRound(p))

PathsAsked ==
  Searching /\ alg \in N2NAlgos => \A p \in Elems(paths) : AskedFor(alg, cur, p)

AskedInv == RoundBound /\ TmpAsked /\ PathsAsked

(* The positions of a list are bounded.                                    *)
IsList(list) == \E b \in Nat : DOMAIN list \subseteq 1..b
ListInv ==
  /\ IsList(paths)
  /\ DOMAIN tmpPaths = N2NAlgos /\ \A a \in N2NAlgos : IsList(tmpPaths[a])

CoverInv ==
  /\ Searching => chosen = {}
  /\ pc = "cover" => /\ alg = "least" /\ chosen \subseteq DOMAIN paths
                     /\ Elems(paths) = SoughtThrough(graph, scen)

FindInv == PathInv /\ OkInv /\ FoundAll /\ FoundBest /\ AskedInv /\ ListInv /\ CoverInv /\ SearchDelivers

-----------------------------------------------------------------------------
(* Facts about counts and walks.                                           *)
LEMMA CountStep ==
  ASSUME NEW s, NEW e, NEW m \in Nat
  PROVE  CountTo(s, e, m + 1) = CountTo(s, e, m) + (IF s[m + 1] = e THEN 1 ELSE 0)
<1> DEFINE old == {k \in 1..m : s[k] = e}
           new == {k \in 1..(m + 1) : s[k] = e}
<1>1. IsFiniteSet(old) /\ Cardinality(old) \in Nat
  BY CountFinite
<1>2. CountTo(s, e, m + 1) = Cardinality(new) /\ CountTo(s, e, m) = Cardinality(old)
  BY DEF CountTo
<1>3. CASE s[m + 1] = e
  <2>1. new = old \cup {m + 1} /\ m + 1 \notin old
    BY <1>3
  <2> HIDE DEF old, new
  <2>2. Cardinality(old \cup {m + 1}) = Cardinality(old) + 1
    BY <1>1, <2>1, FS_AddElement
  <2>3. QED
    BY <1>2, <1>3, <2>1, <2>2
<1>4. CASE s[m + 1] # e
  <2>1. new = old
    BY <1>4
  <2> HIDE DEF old, new
  <2>2. QED
    BY <1>1, <1>2, <1>4, <2>1
<1>5. QED
  BY <1>3, <1>4

LEMMA CountMono ==
  ASSUME NEW s, NEW e, NEW m \in Nat, NEW n \in Nat, m <= n
  PROVE  CountTo(s, e, m) <= CountTo(s, e, n)
<1> DEFINE few == {k \in 1..m : s[k] = e}
           all == {k \in 1..n : s[k] = e}
<1>1. few \in SUBSET all
  OBVIOUS
<1>2. IsFiniteSet(all)
  BY CountFinite
<1>3. CountTo(s, e, m) = Cardinality(few) /\ CountTo(s, e, n) = Cardinality(all)
  BY DEF CountTo
<1> HIDE DEF few, all
<1>4. QED
  BY <1>1, <1>2, <1>3, FS_Subset

LEMMA EdgeFacts ==
  ASSUME NEW g \in Seq(Edge(Nodes, Steps)), NEW e \in DOMAIN g
  PROVE  /\ e \in Nat
         /\ g[e].from \in Nodes /\ g[e].to \in Nodes /\ g[e].step \in Steps
         /\ g[e].repeat \in Nat /\ g[e].repeat > 0
         /\ g[e].from \in States(g) /\ g[e].to \in States(g)
<1>1. e \in 1..Len(g) /\ Len(g) \in Nat
  BY LenProperties
<1>2. g[e] \in Edge(Nodes, Steps)
  BY <1>1, ElementOfSeq
<1>3. QED
  BY <1>1, <1>2 DEF Edge, States

LEMMA UsesFinite ==
  ASSUME NEW g \in Seq(Edge(Nodes, Steps))
  PROVE  IsFiniteSet(Uses(g)) /\ TotalRepeat(g) \in Nat
<1> DEFINE Of(e) == {e} \X (1..g[e].repeat)
           S == {Of(e) : e \in DOMAIN g}
<1>1. DOMAIN g = 1..Len(g) /\ Len(g) \in Nat /\ \A e \in DOMAIN g : g[e].repeat \in Nat
  BY LenProperties, EdgeFacts
<1>2. IsFiniteSet(DOMAIN g)
  BY <1>1, FS_Interval
<1>3. \A T \in S : IsFiniteSet(T)
  <2> SUFFICES ASSUME NEW e \in DOMAIN g PROVE IsFiniteSet(Of(e))
    OBVIOUS
  <2>1. g[e].repeat \in Int /\ 1 \in Int
    BY <1>1
  <2>2. IsFiniteSet(1..g[e].repeat)
    BY <2>1, FS_Interval
  <2>3. QED
    BY <2>2, FS_Singleton, FS_Product
<1>4. IsFiniteSet(S)
  <2>1. [e \in DOMAIN g |-> Of(e)] \in Surjection(DOMAIN g, S)
    BY DEF Surjection
  <2> HIDE DEF S, Of
  <2>2. QED
    BY <1>2, <2>1, FS_Surjection
<1>5. Uses(g) = UNION S
  BY DEF Uses
<1> HIDE DEF S
<1>6. QED
  BY <1>3, <1>4, <1>5, FS_UNION, FS_CardinalityType DEF TotalRepeat

(* A walk within the repeat times is no longer than they allow: its k-th   *)
(* edge is the i-th use of that edge, for different k another pair.        *)
LEMMA WalkBound ==
  ASSUME NEW g \in Seq(Edge(Nodes, Steps)), NEW w \in Seq(DOMAIN g),
         \A e \in DOMAIN g : CountTo(w, e, Len(w)) <= g[e].repeat
  PROVE  Len(w) <= TotalRepeat(g)
<1> DEFINE n == Len(w)
           f == [k \in 1..n |-> <<w[k], CountTo(w, w[k], k)>>]
<1>1. n \in Nat /\ \A k \in 1..n : w[k] \in DOMAIN g
  BY LenProperties, ElementOfSeq
<1>2. \A e \in DOMAIN g : g[e].repeat \in Nat
  BY EdgeFacts
<1>3. ASSUME NEW k \in 1..n
      PROVE  /\ k - 1 \in Nat /\ (k - 1) + 1 = k
             /\ CountTo(w, w[k], k - 1) \in Nat
             /\ CountTo(w, w[k], k) = CountTo(w, w[k], k - 1) + 1
  <2>1. k - 1 \in Nat /\ (k - 1) + 1 = k
    BY <1>1
  <2>2. CountTo(w, w[k], k - 1) \in Nat
    BY <2>1, CountType
  <2>3. CountTo(w, w[k], (k - 1) + 1) = CountTo(w, w[k], k - 1) + (IF w[(k - 1) + 1] = w[k] THEN 1 ELSE 0)
    BY <2>1, CountStep
  <2>4. QED
    BY <2>1, <2>2, <2>3
<1>4. ASSUME NEW k \in 1..n PROVE f[k] \in Uses(g)
  <2>1. CountTo(w, w[k], k) <= CountTo(w, w[k], n)
    <3>1. k \in Nat /\ k <= n
      BY <1>1
    <3>2. QED
      BY <1>1, <3>1, CountMono
  <2>2. CountTo(w, w[k], n) \in Nat /\ w[k] \in DOMAIN g
    BY <1>1, CountType
  <2>3. CountTo(w, w[k], n) <= g[w[k]].repeat
    BY <2>2
  <2>4. CountTo(w, w[k], k) \in 1..g[w[k]].repeat
    BY <1>2, <1>3, <2>1, <2>2, <2>3
  <2>5. f[k] = <<w[k], CountTo(w, w[k], k)>>
    OBVIOUS
  <2> HIDE DEF f
  <2>6. QED
    BY <2>2, <2>4, <2>5 DEF Uses
<1>5. ASSUME NEW j \in 1..n, NEW k \in 1..n, j < k, w[j] = w[k]
      PROVE  CountTo(w, w[j], j) # CountTo(w, w[k], k)
  <2>1. j \in Nat /\ k - 1 \in Nat /\ j <= k - 1
    BY <1>1, <1>5
  <2>2. CountTo(w, w[k], j) <= CountTo(w, w[k], k - 1)
    BY <2>1, CountMono
  <2>3. CountTo(w, w[k], j) \in Nat
    BY <2>1, CountType
  <2>4. CountTo(w, w[k], k - 1) \in Nat /\ CountTo(w, w[k], k) = CountTo(w, w[k], k - 1) + 1
    BY <1>3
  <2>5. CountTo(w, w[j], j) = CountTo(w, w[k], j)
    BY <1>5
  <2>6. QED
    BY <2>2, <2>3, <2>4, <2>5
<1>6. f \in Injection(1..n, Uses(g))
  <2>1. f \in [1..n -> Uses(g)]
    BY <1>4
  <2>2. ASSUME NEW j \in 1..n, NEW k \in 1..n, f[j] = f[k] PROVE j = k
    <3>1. w[j] = w[k] /\ CountTo(w, w[j], j) = CountTo(w, w[k], k)
      BY <2>2
    <3>2. ~(j < k) /\ ~(k < j)
      BY <1>5, <3>1
    <3>3. QED
      BY <1>1, <3>2
  <2>3. IsInjective(f)
    BY <2>1, <2>2 DEF IsInjective
  <2>4. QED
    BY <2>1, <2>3 DEF Injection
<1> HIDE DEF f
<1>7. Cardinality(1..n) <= Cardinality(Uses(g))
  BY <1>6, UsesFinite, FS_Injection
<1>8. Cardinality(1..n) = n
  <2> HIDE DEF n
  <2>1. n \in Int /\ 1 \in Int
    BY <1>1
  <2>2. Cardinality(1..n) = IF 1 > n THEN 0 ELSE n - 1 + 1
    BY <2>1, FS_Interval
  <2>3. QED
    BY <1>1, <2>2
<1>9. QED
  BY <1>7, <1>8 DEF TotalRepeat

LEMMA StatesOnFacts ==
  ASSUME NEW g \in Seq(Edge(Nodes, Steps)), NEW s \in Nodes, NEW w \in Seq(DOMAIN g)
  PROVE  /\ StatesOn(g, s, w) \in Seq(Nodes)
         /\ Len(StatesOn(g, s, w)) = Len(w) + 1
         /\ StatesOn(g, s, w)[1] = s
         /\ \A k \in 1..Len(w) : StatesOn(g, s, w)[k + 1] = g[w[k]].to
         /\ EndOf(g, s, w) = StatesOn(g, s, w)[Len(w) + 1]
         /\ StepsOn(g, w) \in Seq(Steps)
         /\ Len(StepsOn(g, w)) = Len(w)
         /\ \A k \in 1..Len(w) : StepsOn(g, w)[k] = g[w[k]].step
<1> DEFINE n == Len(w)
<1>1. n \in Nat /\ DOMAIN w = 1..n /\ \A k \in 1..n : w[k] \in DOMAIN g
  BY LenProperties, ElementOfSeq
<1>2. \A k \in 1..n : g[w[k]].to \in Nodes /\ g[w[k]].step \in Steps
  BY <1>1, EdgeFacts
<1> HIDE DEF n
<1>3. /\ Tos(g, w) \in Seq(Nodes) /\ Len(Tos(g, w)) = n
      /\ \A k \in 1..n : Tos(g, w)[k] = g[w[k]].to
  <2>1. Tos(g, w) = [k \in 1..n |-> g[w[k]].to]
    BY <1>1 DEF Tos
  <2>2. Tos(g, w) \in [1..n -> Nodes]
    BY <1>2, <2>1
  <2>3. QED
    BY <1>1, <2>1, <2>2
<1>4. /\ StepsOn(g, w) \in Seq(Steps) /\ Len(StepsOn(g, w)) = n
      /\ \A k \in 1..n : StepsOn(g, w)[k] = g[w[k]].step
  <2>1. StepsOn(g, w) = [k \in 1..n |-> g[w[k]].step]
    BY <1>1 DEF StepsOn
  <2>2. StepsOn(g, w) \in [1..n -> Steps]
    BY <1>2, <2>1
  <2>3. QED
    BY <1>1, <2>1, <2>2
<1>5. <<s>> \in Seq(Nodes) /\ Len(<<s>>) = 1 /\ <<s>>[1] = s
  OBVIOUS
<1>6. /\ StatesOn(g, s, w) \in Seq(Nodes) /\ Len(StatesOn(g, s, w)) = 1 + n
      /\ \A i \in 1..(1 + n) : StatesOn(g, s, w)[i] = IF i <= 1 THEN <<s>>[i] ELSE Tos(g, w)[i - 1]
  BY <1>3, <1>5, ConcatProperties DEF StatesOn
<1>7. StatesOn(g, s, w)[1] = s
  <2>1. 1 \in 1..(1 + n) /\ 1 <= 1
    BY <1>1
  <2>2. QED
    BY <1>5, <1>6, <2>1
<1>8. ASSUME NEW k \in 1..n PROVE StatesOn(g, s, w)[k + 1] = g[w[k]].to
  <2>1. k + 1 \in 1..(1 + n) /\ ~(k + 1 <= 1) /\ (k + 1) - 1 = k
    BY <1>1
  <2>2. QED
    BY <1>3, <1>6, <2>1
<1>9. Len(StatesOn(g, s, w)) = n + 1
  BY <1>1, <1>6
<1>10. EndOf(g, s, w) = StatesOn(g, s, w)[n + 1]
  BY <1>9 DEF EndOf, Last
<1>11. QED
  BY <1>4, <1>6, <1>7, <1>8, <1>9, <1>10 DEF n

LEMMA WalkFacts ==
  ASSUME NEW g \in Seq(Edge(Nodes, Steps)), NEW s \in Nodes, NEW w \in Walks(g, s)
  PROVE  /\ Len(w) \in Nat /\ DOMAIN w = 1..Len(w) /\ w \in Seq(DOMAIN g)
         /\ \A k \in 1..Len(w) : w[k] \in DOMAIN g /\ g[w[k]].from = StatesOn(g, s, w)[k]
         /\ \A e \in DOMAIN g : Count(e, w) = CountTo(w, e, Len(w))
         /\ \A e \in DOMAIN g : CountTo(w, e, Len(w)) <= g[e].repeat
<1>1. TotalRepeat(g) \in Nat
  BY UsesFinite
<1>2. PICK n \in 0..TotalRepeat(g) : w \in [1..n -> DOMAIN g]
  BY DEF Walks
<1>3. n \in Nat
  BY <1>1
<1>4. Len(w) = n /\ DOMAIN w = 1..n /\ w \in Seq(DOMAIN g)
  BY <1>2, <1>3
<1>5. \A e \in DOMAIN g : Count(e, w) = CountTo(w, e, Len(w))
  BY <1>4 DEF Count, CountTo
<1>6. \A e \in DOMAIN g : Count(e, w) <= g[e].repeat
  BY DEF Walks
<1>7. \A k \in 1..n : w[k] \in DOMAIN g /\ g[w[k]].from = StatesOn(g, s, w)[k]
  BY <1>2, <1>4 DEF Walks
<1>8. QED
  BY <1>3, <1>4, <1>5, <1>6, <1>7

LEMMA WalkIntro ==
  ASSUME NEW g \in Seq(Edge(Nodes, Steps)), NEW s \in Nodes, NEW w \in Seq(DOMAIN g),
         \A k \in 1..Len(w) : g[w[k]].from = StatesOn(g, s, w)[k],
         \A e \in DOMAIN g : CountTo(w, e, Len(w)) <= g[e].repeat
  PROVE  w \in Walks(g, s)
<1>1. Len(w) \in Nat /\ DOMAIN w = 1..Len(w) /\ w \in [1..Len(w) -> DOMAIN g]
  BY LenProperties
<1>2. Len(w) \in 0..TotalRepeat(g)
  BY <1>1, WalkBound, UsesFinite
<1>3. \A e \in DOMAIN g : Count(e, w) <= g[e].repeat
  BY <1>1 DEF Count, CountTo
<1>4. QED
  BY <1>1, <1>2, <1>3 DEF Walks

(* The path under construction is a walk within the repeat times.          *)
LEMMA CurrentWalk ==
  ASSUME IndInv, stack # <<>>
  PROVE  /\ graph \in Seq(Edge(Nodes, Steps))
         /\ statePath[1] \in Nodes
         /\ edgePath \in Walks(graph, statePath[1])
         /\ StatesOn(graph, statePath[1], edgePath) = statePath
         /\ PathOf(graph, statePath[1], edgePath) = CurrentPath
<1> DEFINE s == statePath[1]
           m == Len(edgePath)
<1>1. /\ graph \in Seq(Edge(Nodes, Steps)) /\ statePath \in Seq(Nodes)
      /\ edgePath \in Seq(DOMAIN graph) /\ stepPath \in Seq(Steps)
  BY DEF IndInv, TypeOK
<1>2. /\ m \in Nat /\ Len(statePath) = m + 1 /\ Len(stepPath) = m /\ DOMAIN edgePath = 1..m
  BY SearchShape
<1>3. s \in Nodes
  <2>1. 1 \in 1..Len(statePath)
    BY <1>2
  <2>2. QED
    BY <1>1, <2>1, ElementOfSeq
<1>4. \A k \in 1..m : /\ graph[edgePath[k]].from = statePath[k]
                      /\ graph[edgePath[k]].to = statePath[k + 1]
                      /\ graph[edgePath[k]].step = stepPath[k]
  BY <1>2 DEF IndInv, PathIsWalk
<1> HIDE DEF s
<1>5. /\ StatesOn(graph, s, edgePath) \in Seq(Nodes) /\ Len(StatesOn(graph, s, edgePath)) = m + 1
      /\ StatesOn(graph, s, edgePath)[1] = s
      /\ \A k \in 1..m : StatesOn(graph, s, edgePath)[k + 1] = graph[edgePath[k]].to
      /\ StepsOn(graph, edgePath) \in Seq(Steps) /\ Len(StepsOn(graph, edgePath)) = m
      /\ \A k \in 1..m : StepsOn(graph, edgePath)[k] = graph[edgePath[k]].step
  BY <1>1, <1>3, StatesOnFacts
<1> HIDE DEF m
<1>6. StatesOn(graph, s, edgePath) = statePath
  <2>1. ASSUME NEW i \in 1..(m + 1) PROVE StatesOn(graph, s, edgePath)[i] = statePath[i]
    <3>1. CASE i = 1
      BY <1>5, <3>1 DEF s
    <3>2. CASE i # 1
      <4>1. i - 1 \in 1..m /\ (i - 1) + 1 = i
        BY <1>2, <3>2
      <4>2. /\ StatesOn(graph, s, edgePath)[(i - 1) + 1] = graph[edgePath[i - 1]].to
            /\ graph[edgePath[i - 1]].to = statePath[(i - 1) + 1]
        BY <1>4, <1>5, <4>1
      <4>3. QED
        BY <4>1, <4>2
    <3>3. QED
      BY <3>1, <3>2
  <2>2. QED
    BY <1>1, <1>2, <1>5, <2>1, SeqEqual
<1>7. StepsOn(graph, edgePath) = stepPath
  <2>1. \A i \in 1..m : StepsOn(graph, edgePath)[i] = stepPath[i]
    BY <1>4, <1>5
  <2>2. QED
    BY <1>1, <1>2, <1>5, <2>1, SeqEqual
<1>8. \A e \in DOMAIN graph : CountTo(edgePath, e, m) <= graph[e].repeat
  <2> SUFFICES ASSUME NEW e \in DOMAIN graph PROVE CountTo(edgePath, e, m) <= graph[e].repeat
    OBVIOUS
  <2>1. repeatTime[e] + CountTo(edgePath, e, m) = graph[e].repeat /\ repeatTime[e] \in Nat
    BY DEF m, IndInv, BudgetInv, TypeOK
  <2>2. CountTo(edgePath, e, m) \in Nat
    BY <1>2, CountType
  <2>3. QED
    BY <2>1, <2>2
<1>9. edgePath \in Walks(graph, s)
  BY <1>1, <1>3, <1>4, <1>6, <1>8, WalkIntro DEF m
<1>10. PathOf(graph, s, edgePath) = CurrentPath
  BY <1>6, <1>7 DEF PathOf, CurrentPath
<1>11. QED
  BY <1>1, <1>3, <1>6, <1>9, <1>10 DEF s

(* A walk that agrees with the path under construction visits its states   *)
(* and uses its edges as often.                                            *)
LEMMA AgreeFacts ==
  ASSUME IndInv, stack # <<>>, NEW w \in Walks(graph, statePath[1]),
         NEW k \in 0..Len(edgePath), Agrees(w, k)
  PROVE  /\ \A j \in 1..(k + 1) : StatesOn(graph, statePath[1], w)[j] = statePath[j]
         /\ \A e : CountTo(w, e, k) = CountTo(edgePath, e, k)
         /\ k < Len(w) => w[k + 1] \in OutEdges(graph, statePath[k + 1])
<1> DEFINE s == statePath[1]
<1>1. /\ graph \in Seq(Edge(Nodes, Steps)) /\ s \in Nodes
      /\ edgePath \in Walks(graph, s) /\ StatesOn(graph, s, edgePath) = statePath
  BY CurrentWalk
<1>2. k \in Nat /\ k <= Len(edgePath) /\ k <= Len(w)
      /\ Len(w) \in Nat /\ Len(edgePath) \in Nat
  BY <1>1, WalkFacts DEF Agrees
<1>3. \A j \in 1..k : w[j] = edgePath[j]
  BY DEF Agrees
<1>4. ASSUME NEW j \in 1..(k + 1) PROVE StatesOn(graph, s, w)[j] = statePath[j]
  <2>1. w \in Seq(DOMAIN graph) /\ edgePath \in Seq(DOMAIN graph)
    BY <1>1, WalkFacts
  <2> HIDE DEF s
  <2>2. CASE j = 1
    BY <1>1, <2>1, <2>2, StatesOnFacts DEF s
  <2>3. CASE j # 1
    <3>1. j - 1 \in 1..k /\ (j - 1) + 1 = j /\ j - 1 \in 1..Len(w) /\ j - 1 \in 1..Len(edgePath)
      BY <1>2, <2>3
    <3>2. StatesOn(graph, s, w)[(j - 1) + 1] = graph[w[j - 1]].to
      BY <1>1, <2>1, <3>1, StatesOnFacts
    <3>3. StatesOn(graph, s, edgePath)[(j - 1) + 1] = graph[edgePath[j - 1]].to
      BY <1>1, <2>1, <3>1, StatesOnFacts
    <3>4. QED
      BY <1>1, <1>3, <3>1, <3>2, <3>3
  <2>4. QED
    BY <2>2, <2>3
<1>5. \A e : CountTo(w, e, k) = CountTo(edgePath, e, k)
  BY <1>2, <1>3, CountPrefix
<1>6. ASSUME k < Len(w) PROVE w[k + 1] \in OutEdges(graph, statePath[k + 1])
  <2>1. k + 1 \in 1..Len(w) /\ k + 1 \in 1..(k + 1)
    BY <1>2, <1>6
  <2>2. w[k + 1] \in DOMAIN graph /\ graph[w[k + 1]].from = StatesOn(graph, s, w)[k + 1]
    BY <1>1, <2>1, WalkFacts
  <2>3. QED
    BY <1>4, <2>1, <2>2 DEF OutEdges
<1>7. QED
  BY <1>4, <1>5, <1>6

-----------------------------------------------------------------------------
(* What following an edge and returning over it do to the paths.           *)
LEMMA FollowEffect ==
  ASSUME IndInv, NEW e \in DOMAIN graph, Follow(e)
  PROVE  /\ stack # <<>> /\ pc = "loop" /\ pc' = "enter"
         /\ Len(edgePath) \in Nat /\ Len(stack) = Len(edgePath) + 1
         /\ Len(statePath) = Len(edgePath) + 1
         /\ UNCHANGED <<graph, scenarios, cur, todo, chosen, scenariosPathsMap, paths,
                        bestDist, tmpPaths>>
         /\ e \in OutEdges(graph, statePath[Len(edgePath) + 1])
         /\ repeatTime[e] > 0 /\ MayFollow(e) /\ IsNext(e)
         /\ Len(edgePath') = Len(edgePath) + 1
         /\ \A j \in 1..Len(edgePath) : edgePath'[j] = edgePath[j]
         /\ edgePath'[Len(edgePath) + 1] = e
         /\ Len(statePath') = Len(edgePath) + 2
         /\ \A j \in 1..(Len(edgePath) + 1) : statePath'[j] = statePath[j]
         /\ statePath'[Len(edgePath) + 2] = graph[e].to
         /\ Len(stack') = Len(edgePath) + 2 /\ stack' # <<>>
         /\ \A j \in 1..Len(edgePath) : stack'[j] = stack[j]
         /\ stack'[Len(edgePath) + 1].next = e
         /\ stack'[Len(edgePath) + 1].ok = top.ok
         /\ stack'[Len(edgePath) + 2] = Activation
<1> DEFINE m  == Len(edgePath)
           to == graph[e].to
           F  == [next |-> e, ok |-> top.ok, left |-> repeatTime[e],
                  dist |-> IF alg \in DistAlgos THEN stateDist[alg][to] ELSE 0]
           S1 == [stack EXCEPT ![Len(stack)] = F]
<1>1. stack # <<>>
  BY DEF Follow, IndInv, TypeOK
<1>2. /\ m \in Nat /\ Len(stack) = m + 1 /\ Len(statePath) = m + 1 /\ Len(stepPath) = m
      /\ top \in Frame
  BY <1>1, SearchShape
<1>3. /\ pc = "loop" /\ pc' = "enter"
      /\ UNCHANGED <<graph, scenarios, cur, todo, chosen, scenariosPathsMap, paths,
                     bestDist, tmpPaths>>
      /\ repeatTime[e] > 0 /\ MayFollow(e) /\ IsNext(e)
      /\ statePath' = Append(statePath, to)
      /\ edgePath' = Append(edgePath, e)
      /\ stack' = Append(S1, Activation)
  BY DEF Follow, searchUnchanged
<1>4. e \in OutEdges(graph, statePath[m + 1])
  BY <1>2, <1>3 DEF IsNext, Pending, curState
<1>5. /\ statePath \in Seq(Nodes) /\ edgePath \in Seq(DOMAIN graph) /\ stack \in Seq(Frame)
      /\ repeatTime \in [DOMAIN graph -> Nat]
      /\ stateDist \in [DistAlgos -> [States(graph) -> Int]]
  BY DEF IndInv, TypeOK, Frame
<1>6. e \in Nat /\ to \in States(graph) /\ to \in Nodes
  BY GraphFacts
<1>7. F \in Frame
  <2>1. top.ok \in BOOLEAN /\ repeatTime[e] \in Nat
    BY <1>2, <1>5 DEF Frame
  <2>2. (IF alg \in DistAlgos THEN stateDist[alg][to] ELSE 0) \in Int
    BY <1>5, <1>6
  <2>3. QED
    BY <1>6, <2>1, <2>2 DEF Frame
<1>8. F.next = e /\ F.ok = top.ok
  OBVIOUS
<1>9. Activation \in Frame
  BY DEF Activation, Frame
<1> HIDE DEF F
<1>10. /\ S1 \in Seq(Frame) /\ Len(S1) = m + 1
       /\ \A j \in 1..(m + 1) : S1[j] = IF j = m + 1 THEN F ELSE stack[j]
  BY <1>2, <1>5, <1>7, ExceptSeq
<1> HIDE DEF S1, m, to
<1>11. /\ Len(stack') = m + 1 + 1 /\ stack' # <<>>
       /\ \A j \in 1..(m + 1) : stack'[j] = S1[j]
       /\ stack'[m + 1 + 1] = Activation
  BY <1>3, <1>9, <1>10, AppendProperties
<1>12. /\ Len(edgePath') = m + 1
       /\ \A j \in 1..m : edgePath'[j] = edgePath[j]
       /\ edgePath'[m + 1] = e
  BY <1>3, <1>5, AppendProperties DEF m
<1>13. /\ Len(statePath') = m + 1 + 1
       /\ \A j \in 1..(m + 1) : statePath'[j] = statePath[j]
       /\ statePath'[m + 1 + 1] = to
  BY <1>2, <1>3, <1>5, <1>6, AppendProperties
<1>14. m + 1 + 1 = m + 2 /\ m + 1 \in 1..(m + 1) /\ \A j \in 1..m : j \in 1..(m + 1) /\ j # m + 1
  BY <1>2
<1>15. /\ Len(stack') = m + 2
       /\ \A j \in 1..m : stack'[j] = stack[j]
       /\ stack'[m + 1] = F
       /\ stack'[m + 2] = Activation
  BY <1>10, <1>11, <1>14
<1>16. Len(statePath') = m + 2 /\ statePath'[m + 2] = to
  BY <1>13, <1>14
<1>17. QED
  BY <1>1, <1>2, <1>3, <1>4, <1>8, <1>11, <1>12, <1>13, <1>15, <1>16 DEF m, to

LEMMA RestoreEffect ==
  ASSUME IndInv, Restore
  PROVE  \E p \in Nat, e \in DOMAIN graph :
         /\ stack # <<>> /\ pc = "return" /\ pc' = "loop"
         /\ Len(edgePath) = p + 1 /\ Len(stack) = p + 2 /\ Len(statePath) = p + 2
         /\ UNCHANGED <<graph, scenarios, cur, todo, chosen, scenariosPathsMap, paths,
                        bestDist, tmpPaths>>
         /\ edgePath[p + 1] = e
         /\ e \in OutEdges(graph, statePath[p + 1])
         /\ Len(edgePath') = p
         /\ \A j \in 1..p : edgePath'[j] = edgePath[j]
         /\ Len(statePath') = p + 1
         /\ \A j \in 1..(p + 1) : statePath'[j] = statePath[j]
         /\ Len(stack') = p + 1 /\ stack' # <<>>
         /\ \A j \in 1..p : stack'[j] = stack[j]
         /\ stack'[p + 1].next = e + 1
         /\ stack'[p + 1].ok = TRUE
<1> DEFINE p == Len(edgePath) - 1
           c == stack[Len(stack) - 1]
           e == c.next
           G == [c EXCEPT !.next = e + 1, !.ok = TRUE]
<1>1. stack # <<>> /\ Len(stack) > 1
  BY DEF Restore, IndInv, TypeOK
<1>2. /\ p \in Nat /\ Len(edgePath) = p + 1 /\ Len(stack) = p + 2 /\ Len(statePath) = p + 2
      /\ DOMAIN edgePath = 1..(p + 1)
  BY <1>1, SearchShape
<1>3. /\ pc = "return" /\ pc' = "loop"
      /\ UNCHANGED <<graph, scenarios, cur, todo, chosen, scenariosPathsMap, paths,
                     bestDist, tmpPaths>>
      /\ stack' = [Front(stack) EXCEPT ![p + 1] = G]
      /\ statePath' = Front(statePath) /\ edgePath' = Front(edgePath)
  BY <1>2 DEF Restore, CutPaths, NextEdge, searchUnchanged
<1>4. statePath \in Seq(Nodes) /\ edgePath \in Seq(DOMAIN graph) /\ stack \in Seq(Frame)
  BY DEF IndInv, TypeOK, Frame
<1>5. c = stack[p + 1] /\ c \in Frame
  <2>1. Len(stack) - 1 = p + 1 /\ p + 1 \in 1..Len(stack)
    BY <1>2
  <2>2. QED
    BY <1>4, <2>1, ElementOfSeq
<1> HIDE DEF c
<1>6. e = edgePath[p + 1]
  <2>1. p + 1 \in DOMAIN edgePath
    BY <1>2
  <2>2. stack[p + 1].next = edgePath[p + 1]
    BY <2>1 DEF IndInv, SavedLeft
  <2>3. QED
    BY <1>5, <2>2
<1>7. e \in DOMAIN graph
  <2>1. p + 1 \in 1..Len(edgePath)
    BY <1>2
  <2>2. QED
    BY <1>4, <1>6, <2>1, ElementOfSeq
<1>8. e \in Nat
  BY <1>7, GraphFacts
<1>9. e \in OutEdges(graph, statePath[p + 1])
  <2>1. p + 1 \in DOMAIN edgePath
    BY <1>2
  <2>2. graph[edgePath[p + 1]].from = statePath[p + 1]
    BY <2>1 DEF IndInv, PathIsWalk
  <2>3. QED
    BY <1>6, <1>7, <2>2 DEF OutEdges
<1>10. G \in Frame /\ G.next = e + 1 /\ G.ok = TRUE
  <2>1. e + 1 \in Nat /\ TRUE \in BOOLEAN
    BY <1>8
  <2>2. QED
    BY <1>5, <2>1 DEF Frame
<1> HIDE DEF p, e, G
<1>11. /\ Len(edgePath') = p /\ \A j \in 1..p : edgePath'[j] = edgePath[j]
  <2>1. edgePath # <<>> /\ (p + 1) - 1 = p
    BY <1>2
  <2>2. QED
    BY <1>2, <1>3, <1>4, <2>1, FrontFacts
<1>12. Len(statePath') = p + 1 /\ \A j \in 1..(p + 1) : statePath'[j] = statePath[j]
  <2>1. statePath # <<>> /\ (p + 2) - 1 = p + 1
    BY <1>2
  <2>2. QED
    BY <1>2, <1>3, <1>4, <2>1, FrontFacts
<1>13. /\ Len(stack') = p + 1 /\ stack' \in Seq(Frame)
       /\ \A j \in 1..p : stack'[j] = stack[j]
       /\ stack'[p + 1] = G
  <2>1. (p + 2) - 1 = p + 1 /\ p + 1 \in 1..(p + 1)
    BY <1>2
  <2>2. /\ Front(stack) \in Seq(Frame) /\ Len(Front(stack)) = p + 1
        /\ \A j \in 1..(p + 1) : Front(stack)[j] = stack[j]
    BY <1>1, <1>2, <1>4, <2>1, FrontFacts
  <2>3. /\ stack' \in Seq(Frame) /\ Len(stack') = p + 1
        /\ \A j \in 1..(p + 1) : stack'[j] = IF j = p + 1 THEN G ELSE Front(stack)[j]
    BY <1>3, <1>10, <2>1, <2>2, ExceptSeq
  <2>4. QED
    BY <1>2, <2>1, <2>2, <2>3
<1>14. stack' # <<>>
  BY <1>2, <1>13, EmptySeq
<1>15. QED
  BY <1>1, <1>2, <1>3, <1>6, <1>7, <1>9, <1>10, <1>11, <1>12, <1>13, <1>14

-----------------------------------------------------------------------------
LEMMA ScenFixed ==
  UNCHANGED <<graph, scenarios, cur>> =>
    /\ scen' = scen /\ alg' = alg /\ stop' = stop /\ Starts(scen)' = Starts(scen)
    /\ ShortestOnly(scen)' = ShortestOnly(scen)
  BY DEF scen, alg, stop, Starts, ShortestOnly

LEMMA AlgOf == ShortestOnly(scen) <=> alg \in {"short", "shortn2n"}
  BY DEF ShortestOnly, alg

LEMMA IdlePath ==
  ASSUME IndInv, stack = <<>>
  PROVE  edgePath = <<>> /\ Len(edgePath) = 0 /\ Len(stack) = 0 /\ pc \notin {"enter", "loop", "return"}
<1>1. statePath = <<>>
  BY EmptySeq DEF IndInv, TypeOK
<1>2. QED
  BY <1>1 DEF IndInv, PathIsWalk, TypeOK

LEMMA QuietEffect ==
  ASSUME IndInv, DfsStop \/ DfsEnter \/ DfsExhausted \/ DfsDone
  PROVE  /\ stack # <<>>
         /\ UNCHANGED <<graph, scenarios, cur, todo, chosen, scenariosPathsMap, repeatTime,
                        statePath, edgePath, stepPath, stack>>
         /\ \/ pc = "enter" /\ pc' = "loop" /\ curState \notin stop /\ UNCHANGED <<paths, bestDist, tmpPaths>>
            \/ pc' = "return"
  BY DEF DfsStop, DfsEnter, DfsExhausted, DfsDone, searchUnchanged, pathVars, IndInv, TypeOK, AtStop

LEMMA SkipEffect ==
  ASSUME IndInv, NEW e \in DOMAIN graph, Skip(e)
  PROVE  /\ stack # <<>> /\ pc = "loop" /\ pc' = "loop"
         /\ Len(edgePath) \in Nat /\ Len(stack) = Len(edgePath) + 1
         /\ UNCHANGED <<graph, scenarios, cur, todo, chosen, scenariosPathsMap, repeatTime,
                        statePath, edgePath, stepPath, paths, bestDist, tmpPaths>>
         /\ IsNext(e) /\ ~(repeatTime[e] > 0 /\ MayFollow(e))
         /\ e \in OutEdges(graph, statePath[Len(edgePath) + 1])
         /\ Len(stack') = Len(stack) /\ stack' # <<>>
         /\ \A j \in 1..Len(edgePath) : stack'[j] = stack[j]
         /\ stack'[Len(edgePath) + 1].next = e + 1
         /\ stack'[Len(edgePath) + 1].ok = (top.ok \/ repeatTime[e] > 0)
<1> DEFINE f == [top EXCEPT !.next = e + 1, !.ok = @ \/ repeatTime[e] > 0]
<1>1. stack # <<>>
  BY DEF Skip, IndInv, TypeOK
<1>2. /\ Len(edgePath) \in Nat /\ Len(stack) = Len(edgePath) + 1
      /\ Len(statePath) = Len(edgePath) + 1 /\ top \in Frame /\ e \in Nat
  BY <1>1, SearchShape, GraphFacts
<1>3. /\ UNCHANGED <<graph, scenarios, cur, todo, chosen, scenariosPathsMap, repeatTime,
                     statePath, edgePath, stepPath, paths, bestDist, tmpPaths>>
      /\ pc = "loop" /\ pc' = "loop" /\ IsNext(e) /\ ~(repeatTime[e] > 0 /\ MayFollow(e))
      /\ stack' = [stack EXCEPT ![Len(stack)] = f]
  BY DEF Skip, SetTop, NextEdge, searchUnchanged, pathVars
<1>4. e \in OutEdges(graph, statePath[Len(edgePath) + 1])
  BY <1>2, <1>3 DEF IsNext, Pending, curState
<1>5. f \in Frame /\ f.next = e + 1 /\ f.ok = (top.ok \/ repeatTime[e] > 0)
  <2>1. top \in Frame /\ e + 1 \in Nat
    BY <1>2
  <2>2. (top.ok \/ repeatTime[e] > 0) \in BOOLEAN
    OBVIOUS
  <2>3. QED
    BY <2>1, <2>2 DEF Frame
<1> HIDE DEF f
<1>6. stack \in Seq(Frame) /\ Len(stack) \in 1..Len(stack)
  BY <1>2 DEF IndInv, TypeOK, Frame
<1>7. /\ stack' \in Seq(Frame) /\ Len(stack') = Len(stack)
      /\ \A j \in 1..Len(stack) : stack'[j] = IF j = Len(stack) THEN f ELSE stack[j]
  BY <1>3, <1>5, <1>6, ExceptSeq
<1>8. stack' # <<>>
  BY <1>6, <1>7, EmptySeq
<1>9. QED
  BY <1>1, <1>2, <1>3, <1>4, <1>5, <1>7, <1>8

LEMMA StartEffect ==
  ASSUME IndInv, StartState
  PROVE  \E s \in todo :
         /\ pc = "start" /\ pc' = "enter" /\ stack = <<>>
         /\ edgePath = <<>> /\ Len(edgePath) = 0
         /\ UNCHANGED <<graph, scenarios, cur, edgePath, chosen, scenariosPathsMap, paths, tmpPaths>>
         /\ todo' = todo \ {s}
         /\ statePath' = <<s>> /\ Len(statePath') = 1 /\ statePath'[1] = s
         /\ stack' = <<Activation>> /\ Len(stack') = 1 /\ stack'[1] = Activation /\ stack' # <<>>
         /\ alg \in N2NAlgos => \A n \in States(graph) : bestDist'[alg][n] = Extreme(alg)
<1>1. stack = <<>> /\ pc = "start"
  BY DEF StartState, IndInv, TypeOK
<1>2. edgePath = <<>> /\ Len(edgePath) = 0
  BY <1>1, IdlePath
<1>3. PICK s \in todo : todo' = todo \ {s} /\ statePath' = <<s>>
  BY DEF StartState
<1>4. /\ UNCHANGED <<graph, scenarios, cur, edgePath, chosen, scenariosPathsMap, paths, tmpPaths>>
      /\ pc' = "enter" /\ stack' = <<Activation>>
  BY DEF StartState
<1>5. alg \in N2NAlgos => \A n \in States(graph) : bestDist'[alg][n] = Extreme(alg)
  <2>1. bestDist \in [N2NAlgos -> [States(graph) -> Int]]
    BY DEF IndInv, TypeOK
  <2>2. QED
    BY <2>1 DEF StartState
<1>6. /\ Len(statePath') = 1 /\ statePath'[1] = s
      /\ Len(stack') = 1 /\ stack'[1] = Activation /\ stack' # <<>>
  BY <1>3, <1>4
<1>7. QED
  BY <1>1, <1>2, <1>3, <1>4, <1>5, <1>6

(* The steps outside of a search.                                          *)
OtherStep == GenPath \/ FinishAll \/ FinishDist \/ FinishLeast \/ CoverDone
               \/ (\E i \in DOMAIN paths : CoverRound(i))

LEMMA OtherEffect ==
  ASSUME IndInv, OtherStep
  PROVE  /\ stack = <<>> /\ stack' = <<>> /\ UNCHANGED <<graph, scenarios>>
         /\ \/ GenPath /\ pc' = "start" /\ cur' = cur /\ todo' = Starts(scen)
            \/ todo' = todo /\ pc # "idle" /\ (pc' = "idle" \/ cur' = cur)
  BY DEF OtherStep, GenPath, FinishAll, FinishDist, FinishLeast, CoverDone, CoverRound, Deliver,
         finishUnchanged, IndInv, TypeOK, Starts

(* An edge that the search goes on to leads, for the shortest paths, to a  *)
(* state the path has not visited: the distance of a visited one is its    *)
(* place, which is smaller than the place it would get.                    *)
LEMMA ShortFollowsNew ==
  ASSUME IndInv, pc = "loop", NEW e \in DOMAIN graph, MayFollow(e), ShortestOnly(scen)
  PROVE  \A k \in 2..Len(statePath) : statePath[k] # graph[e].to
<1> DEFINE n == graph[e].to
<1>1. stack # <<>>
  BY DEF IndInv, TypeOK
<1>2. Len(edgePath) \in Nat /\ Len(statePath) = Len(edgePath) + 1
  BY <1>1, SearchShape
<1>3. alg \in {"short", "shortn2n"} /\ alg \in DistAlgos /\ n \in States(graph)
  BY AlgOf, GraphFacts DEF DistAlgos
<1>4. stateDist[alg][n] >= Len(statePath)
  BY <1>3 DEF MayFollow, ShortMayFollow, ShortN2NMayFollow
<1> HIDE DEF n
<1>5. DistAt(statePath, Extreme(alg), stateDist[alg][n], n, Len(edgePath))
  BY <1>1, <1>3 DEF IndInv, DistInv
<1>6. \A j \in 1..Len(edgePath) : statePath[j + 1] # n
  BY <1>2, <1>4, <1>5 DEF DistAt
<1>7. ASSUME NEW k \in 2..Len(statePath) PROVE statePath[k] # n
  <2>1. k - 1 \in 1..Len(edgePath) /\ (k - 1) + 1 = k
    BY <1>2
  <2>2. QED
    BY <1>6, <2>1
<1>8. QED
  BY <1>7 DEF n

LEMMA PathInvNext ==
  ASSUME IndInv, PathInv, Next
  PROVE  PathInv'
<1>1. CASE OtherStep
  <2>1. /\ stack' = <<>> /\ UNCHANGED <<graph, scenarios>>
        /\ \/ GenPath /\ pc' = "start" /\ cur' = cur /\ todo' = Starts(scen)
           \/ todo' = todo /\ pc # "idle" /\ (pc' = "idle" \/ cur' = cur)
    BY <1>1, OtherEffect
  <2>2. pc' # "idle" => todo' \subseteq Starts(scen)'
    BY <2>1, ScenFixed DEF PathInv
  <2>3. QED
    BY <2>1, <2>2 DEF PathInv
<1>2. CASE StartState
  <2>1. PICK s \in todo :
          /\ pc = "start" /\ pc' = "enter" /\ Len(edgePath) = 0
          /\ UNCHANGED <<graph, scenarios, cur, edgePath>>
          /\ todo' = todo \ {s}
          /\ Len(statePath') = 1 /\ statePath'[1] = s
          /\ Len(stack') = 1 /\ stack'[1] = Activation
    BY <1>2, StartEffect
  <2>2. Starts(scen)' = Starts(scen) /\ todo \subseteq Starts(scen)
    BY <2>1, ScenFixed DEF PathInv
  <2>3. top' = Activation
    BY <2>1 DEF top
  <2>4. QED
    BY <2>1, <2>2, <2>3 DEF PathInv
<1>3. CASE DfsStop \/ DfsEnter \/ DfsExhausted \/ DfsDone
  <2>1. /\ stack # <<>>
        /\ UNCHANGED <<graph, scenarios, cur, todo, statePath, edgePath, stack>>
        /\ \/ pc = "enter" /\ pc' = "loop" /\ curState \notin stop
           \/ pc' = "return"
    BY <1>3, QuietEffect
  <2>2. /\ Starts(scen)' = Starts(scen) /\ stop' = stop /\ ShortestOnly(scen)' = ShortestOnly(scen)
        /\ curState' = curState /\ pc # "idle"
    BY <2>1, ScenFixed DEF curState, IndInv, TypeOK
  <2>3. QED
    BY <2>1, <2>2 DEF PathInv
<1>4. ASSUME NEW e \in DOMAIN graph, Skip(e) PROVE PathInv'
  <2>1. /\ stack # <<>> /\ pc = "loop" /\ pc' = "loop"
        /\ UNCHANGED <<graph, scenarios, cur, todo, statePath, edgePath>>
    BY <1>4, SkipEffect
  <2>2. /\ Starts(scen)' = Starts(scen) /\ stop' = stop /\ ShortestOnly(scen)' = ShortestOnly(scen)
        /\ curState' = curState
    BY <2>1, ScenFixed DEF curState
  <2>3. QED
    BY <2>1, <2>2 DEF PathInv
<1>5. ASSUME NEW e \in DOMAIN graph, Follow(e) PROVE PathInv'
  <2> DEFINE m == Len(edgePath)
  <2>1. /\ stack # <<>> /\ pc = "loop" /\ pc' = "enter" /\ m \in Nat
        /\ Len(statePath) = m + 1 /\ UNCHANGED <<graph, scenarios, cur, todo>>
        /\ MayFollow(e) /\ Len(edgePath') = m + 1
        /\ Len(statePath') = m + 2
        /\ \A j \in 1..(m + 1) : statePath'[j] = statePath[j]
        /\ statePath'[m + 2] = graph[e].to
        /\ Len(stack') = m + 2 /\ stack'[m + 2] = Activation
    BY <1>5, FollowEffect
  <2>2. /\ Starts(scen)' = Starts(scen) /\ stop' = stop /\ ShortestOnly(scen)' = ShortestOnly(scen)
    BY <2>1, ScenFixed
  <2>3. top' = Activation
    BY <2>1 DEF top
  <2>4. \A k \in 1..(m + 1) : statePath'[k] \notin stop
    <3>1. statePath[m + 1] \notin stop
      BY <2>1 DEF PathInv, curState
    <3>2. \A k \in 1..m : statePath[k] \notin stop
      BY <2>1 DEF PathInv
    <3>3. \A k \in 1..(m + 1) : k \in 1..m \/ k = m + 1
      BY <2>1
    <3>4. QED
      BY <2>1, <3>1, <3>2, <3>3
  <2>5. ASSUME ShortestOnly(scen), NEW j \in 2..(m + 2), NEW k \in 2..(m + 2),
               statePath'[j] = statePath'[k]
        PROVE  j = k
    <3>1. \A i \in 2..(m + 1) : statePath[i] # graph[e].to
      BY <2>1, <2>5, ShortFollowsNew
    <3>2. \A i \in 2..(m + 2) : i = m + 2 \/ (i \in 2..(m + 1) /\ i \in 1..(m + 1))
      BY <2>1
    <3>3. \A x, y \in 2..(m + 1) : statePath[x] = statePath[y] => x = y
      BY <2>1, <2>5 DEF PathInv
    <3>4. QED
      BY <2>1, <2>5, <3>1, <3>2, <3>3
  <2>6. statePath'[1] = statePath[1]
    BY <2>1
  <2>7. QED
    BY <2>1, <2>2, <2>3, <2>4, <2>5, <2>6 DEF PathInv
<1>6. CASE Restore
  <2>1. PICK p \in Nat, e \in DOMAIN graph :
         /\ stack # <<>> /\ pc' = "loop"
         /\ Len(edgePath) = p + 1 /\ Len(statePath) = p + 2
         /\ UNCHANGED <<graph, scenarios, cur, todo>> /\ pc = "return"
         /\ Len(edgePath') = p
         /\ Len(statePath') = p + 1
         /\ \A j \in 1..(p + 1) : statePath'[j] = statePath[j]
    BY <1>6, RestoreEffect
  <2>2. /\ Starts(scen)' = Starts(scen) /\ stop' = stop /\ ShortestOnly(scen)' = ShortestOnly(scen)
    BY <2>1, ScenFixed
  <2>3. \A k \in 1..(p + 1) : statePath'[k] \notin stop
    BY <2>1 DEF PathInv
  <2>4. curState' \notin stop
    BY <2>1, <2>3 DEF curState
  <2>5. ShortestOnly(scen) => \A j, k \in 2..(p + 1) : statePath'[j] = statePath'[k] => j = k
    <3>1. \A i \in 2..(p + 1) : i \in 2..(p + 2) /\ i \in 1..(p + 1)
      OBVIOUS
    <3>2. QED
      BY <2>1, <3>1 DEF PathInv
  <2>6. /\ statePath'[1] = statePath[1] /\ \A k \in 1..p : k \in 1..(p + 1)
    BY <2>1
  <2>7. QED
    BY <2>1, <2>2, <2>3, <2>4, <2>5, <2>6 DEF PathInv
<1>7. CASE EndStart
  <2>1. stack' = <<>> /\ UNCHANGED <<graph, scenarios, cur, todo>> /\ pc # "idle"
    BY <1>7 DEF EndStart, searchUnchanged
  <2>2. QED
    BY <2>1, ScenFixed DEF PathInv
<1>8. CASE Returned
  <2>1. UNCHANGED <<graph, scenarios, cur, todo, pc, stack, statePath, edgePath>>
    BY <1>8 DEF Returned, vars
  <2>2. top' = top /\ curState' = curState
    BY <2>1 DEF top, curState
  <2>3. QED
    BY <2>1, <2>2, ScenFixed DEF PathInv
<1>9. QED
  BY <1>1, <1>2, <1>3, <1>4, <1>5, <1>6, <1>7, <1>8 DEF Next, OtherStep

LEMMA OkPrefix ==
  ASSUME NEW g, NEW f, NEW n, NEW s, NEW t, NEW k \in Nat,
         \A j \in 1..k : t[j] = s[j], OkAt(g, f, n, s, k)
  PROVE  OkAt(g, f, n, t, k)
<1>1. \A e : CountTo(t, e, k) = CountTo(s, e, k)
  BY CountPrefix
<1>2. QED
  BY <1>1 DEF OkAt

LEMMA OkNew ==
  ASSUME NEW g \in Seq(Edge(Nodes, Steps)), NEW n, NEW s, NEW k
  PROVE  OkAt(g, Activation, n, s, k)
<1>1. \A e \in OutEdges(g, n) : e \in Nat /\ e >= 1
  BY LenProperties DEF OutEdges
<1>2. QED
  BY <1>1 DEF OkAt, Activation

(* The use of an edge and its repeat time.                                 *)
LEMMA Budget ==
  ASSUME IndInv, NEW e \in DOMAIN graph
  PROVE  /\ repeatTime[e] \in Nat /\ CountTo(edgePath, e, Len(edgePath)) \in Nat
         /\ graph[e].repeat \in Nat
         /\ repeatTime[e] + CountTo(edgePath, e, Len(edgePath)) = graph[e].repeat
<1>1. Len(edgePath) \in Nat
  BY LenProperties DEF IndInv, TypeOK
<1>2. QED
  BY <1>1, CountType, GraphFacts DEF IndInv, TypeOK, BudgetInv

(* The edges before the next one have been looked at.                      *)
LEMMA BeforeNext ==
  ASSUME IndInv, stack # <<>>, NEW e \in DOMAIN graph, IsNext(e),
         NEW f \in OutEdges(graph, curState), f < e
  PROVE  f < top.next
<1>1. f \notin Pending
  <2>1. f \in DOMAIN graph
    BY DEF OutEdges
  <2>2. f \in Nat /\ e \in Nat
    BY <2>1, GraphFacts
  <2>3. QED
    BY <2>2 DEF IsNext
<1>2. f \in Nat /\ top.next \in Nat
  <2>1. f \in DOMAIN graph
    BY DEF OutEdges
  <2>2. QED
    BY <2>1, GraphFacts, SearchShape DEF Frame
<1>3. QED
  BY <1>1, <1>2 DEF Pending

LEMMA OkSkip ==
  ASSUME IndInv, OkInv, NEW e \in DOMAIN graph, Skip(e)
  PROVE  OkInv'
<1> DEFINE m == Len(edgePath)
<1>1. /\ stack # <<>> /\ m \in Nat /\ Len(stack) = m + 1
      /\ UNCHANGED <<graph, statePath, edgePath>>
      /\ IsNext(e) /\ e \in OutEdges(graph, statePath[m + 1])
      /\ Len(stack') = Len(stack)
      /\ \A j \in 1..m : stack'[j] = stack[j]
      /\ stack'[m + 1].next = e + 1
      /\ stack'[m + 1].ok = (top.ok \/ repeatTime[e] > 0)
  BY SkipEffect
<1>2. curState = statePath[m + 1] /\ top = stack[m + 1] /\ m + 1 - 1 = m
  BY <1>1, SearchShape DEF curState, top
<1>3. /\ repeatTime[e] \in Nat /\ CountTo(edgePath, e, m) \in Nat /\ graph[e].repeat \in Nat
      /\ repeatTime[e] + CountTo(edgePath, e, m) = graph[e].repeat
  BY Budget
<1>4. OkAt(graph, top, statePath[m + 1], edgePath, m)
  BY <1>1, <1>2 DEF OkInv
<1> HIDE DEF m
<1>5. OkAt(graph, stack'[m + 1], statePath[m + 1], edgePath, m)
  <2>1. CASE top.ok
    <3>1. stack'[m + 1].ok
      BY <1>1, <2>1
    <3>2. QED
      BY <1>4, <2>1, <3>1 DEF OkAt
  <2>2. CASE repeatTime[e] > 0
    <3>1. stack'[m + 1].ok
      BY <1>1, <2>2
    <3>2. CountTo(edgePath, e, m) < graph[e].repeat
      BY <1>3, <2>2
    <3>3. QED
      BY <1>1, <3>1, <3>2 DEF OkAt
  <2>3. CASE ~top.ok /\ ~(repeatTime[e] > 0)
    <3>1. ~stack'[m + 1].ok
      BY <1>1, <2>3
    <3>2. ASSUME NEW f \in OutEdges(graph, statePath[m + 1]), f < e + 1
          PROVE  CountTo(edgePath, f, m) >= graph[f].repeat
      <4>1. f \in DOMAIN graph
        BY DEF OutEdges
      <4>2. f \in Nat /\ e \in Nat
        BY <4>1, GraphFacts
      <4>3. CASE f = e
        BY <1>3, <2>3, <4>3
      <4>4. CASE f < e
        <5>1. f < top.next
          BY <1>1, <1>2, <4>4, BeforeNext
        <5>2. QED
          BY <1>4, <2>3, <5>1 DEF OkAt
      <4>5. QED
        BY <3>2, <4>2, <4>3, <4>4
    <3>3. QED
      BY <1>1, <3>1, <3>2 DEF OkAt
  <2>4. QED
    BY <2>1, <2>2, <2>3
<1>6. ASSUME NEW k \in 1..(m + 1)
      PROVE  OkAt(graph, stack'[k], statePath[k], edgePath, k - 1)
  <2>1. CASE k = m + 1
    <3>1. k - 1 = m
      BY <1>1, <2>1
    <3>2. QED
      BY <1>5, <2>1, <3>1
  <2>2. CASE k \in 1..m
    <3>1. k \in 1..Len(stack)
      BY <1>1, <2>2
    <3>2. QED
      BY <1>1, <2>2, <3>1 DEF OkInv
  <2>3. QED
    BY <1>1, <2>1, <2>2
<1>7. QED
  BY <1>1, <1>6 DEF OkInv

LEMMA OkFollow ==
  ASSUME IndInv, OkInv, NEW e \in DOMAIN graph, Follow(e)
  PROVE  OkInv'
<1> DEFINE m == Len(edgePath)
<1>1. /\ stack # <<>> /\ m \in Nat /\ Len(stack) = m + 1 /\ Len(statePath) = m + 1
      /\ graph' = graph /\ IsNext(e)
      /\ \A j \in 1..m : edgePath'[j] = edgePath[j]
      /\ \A j \in 1..(m + 1) : statePath'[j] = statePath[j]
      /\ Len(stack') = m + 2
      /\ \A j \in 1..m : stack'[j] = stack[j]
      /\ stack'[m + 1].next = e
      /\ stack'[m + 1].ok = top.ok
      /\ stack'[m + 2] = Activation
  BY FollowEffect
<1>2. curState = statePath[m + 1] /\ top = stack[m + 1] /\ m + 1 - 1 = m
  BY <1>1, SearchShape DEF curState, top
<1>3. graph \in Seq(Edge(Nodes, Steps))
  BY DEF IndInv, TypeOK
<1> HIDE DEF m
<1>4. OkAt(graph, top, statePath[m + 1], edgePath, m)
  BY <1>1, <1>2 DEF OkInv
<1>5. OkAt(graph, stack'[m + 1], statePath[m + 1], edgePath, m)
  <2>1. CASE top.ok
    BY <1>1, <1>4, <2>1 DEF OkAt
  <2>2. CASE ~top.ok
    <3>1. \A f \in OutEdges(graph, statePath[m + 1]) : f < e => f < top.next
      BY <1>1, <1>2, BeforeNext
    <3>2. QED
      BY <1>1, <1>4, <2>2, <3>1 DEF OkAt
  <2>3. QED
    BY <2>1, <2>2
<1>6. ASSUME NEW k \in 1..(m + 2)
      PROVE  OkAt(graph, stack'[k], statePath'[k], edgePath', k - 1)
  <2>1. CASE k = m + 2
    BY <1>1, <1>3, <2>1, OkNew
  <2>2. CASE k = m + 1
    <3>1. k \in 1..(m + 1) /\ k - 1 = m
      BY <1>1, <2>2
    <3>2. QED
      BY <1>1, <1>5, <2>2, <3>1, OkPrefix
  <2>3. CASE k \in 1..m
    <3>1. k \in 1..Len(stack) /\ k - 1 \in Nat /\ k \in 1..(m + 1)
      BY <1>1, <2>3
    <3>2. OkAt(graph, stack[k], statePath[k], edgePath, k - 1)
      BY <3>1 DEF OkInv
    <3>3. \A j \in 1..(k - 1) : edgePath'[j] = edgePath[j]
      BY <1>1, <2>3
    <3>4. OkAt(graph, stack[k], statePath[k], edgePath', k - 1)
      BY <3>1, <3>2, <3>3, OkPrefix
    <3>5. QED
      BY <1>1, <2>3, <3>1, <3>4
  <2>4. QED
    BY <1>1, <2>1, <2>2, <2>3
<1>7. QED
  BY <1>1, <1>6 DEF OkInv

LEMMA OkRestore ==
  ASSUME IndInv, OkInv, Restore
  PROVE  OkInv'
<1>1. PICK p \in Nat, e \in DOMAIN graph :
         /\ stack # <<>> /\ Len(edgePath) = p + 1 /\ Len(stack) = p + 2
         /\ graph' = graph
         /\ edgePath[p + 1] = e
         /\ e \in OutEdges(graph, statePath[p + 1])
         /\ \A j \in 1..p : edgePath'[j] = edgePath[j]
         /\ \A j \in 1..(p + 1) : statePath'[j] = statePath[j]
         /\ Len(stack') = p + 1
         /\ \A j \in 1..p : stack'[j] = stack[j]
         /\ stack'[p + 1].ok = TRUE
  BY RestoreEffect
<1>2. CountTo(edgePath, e, p) < graph[e].repeat
  <2>1. CountTo(edgePath, e, p + 1) = CountTo(edgePath, e, p) + (IF edgePath[p + 1] = e THEN 1 ELSE 0)
    BY CountStep
  <2>2. /\ repeatTime[e] \in Nat /\ CountTo(edgePath, e, p + 1) \in Nat /\ graph[e].repeat \in Nat
        /\ repeatTime[e] + CountTo(edgePath, e, p + 1) = graph[e].repeat
    BY <1>1, Budget
  <2>3. CountTo(edgePath, e, p) \in Nat
    BY CountType
  <2>4. QED
    BY <1>1, <2>1, <2>2, <2>3
<1>3. OkAt(graph, stack'[p + 1], statePath[p + 1], edgePath, p)
  BY <1>1, <1>2 DEF OkAt
<1>4. ASSUME NEW k \in 1..(p + 1)
      PROVE  OkAt(graph, stack'[k], statePath'[k], edgePath', k - 1)
  <2>1. CASE k = p + 1
    <3>1. k - 1 = p
      BY <2>1
    <3>2. QED
      BY <1>1, <1>3, <2>1, <3>1, OkPrefix
  <2>2. CASE k \in 1..p
    <3>1. k \in 1..Len(stack) /\ k - 1 \in Nat
      BY <1>1, <2>2
    <3>2. OkAt(graph, stack[k], statePath[k], edgePath, k - 1)
      BY <3>1 DEF OkInv
    <3>3. \A j \in 1..(k - 1) : edgePath'[j] = edgePath[j]
      BY <1>1, <2>2
    <3>4. OkAt(graph, stack[k], statePath[k], edgePath', k - 1)
      BY <3>1, <3>2, <3>3, OkPrefix
    <3>5. QED
      BY <1>1, <2>2, <3>4
  <2>3. QED
    BY <2>1, <2>2
<1>5. QED
  BY <1>1, <1>4 DEF OkInv

LEMMA OkInvNext ==
  ASSUME IndInv, OkInv, Next
  PROVE  OkInv'
<1>1. CASE OtherStep
  BY <1>1, OtherEffect DEF OkInv
<1>2. CASE StartState
  <2>1. /\ graph' = graph /\ Len(stack') = 1 /\ stack'[1] = Activation
    BY <1>2, StartEffect
  <2>2. graph \in Seq(Edge(Nodes, Steps))
    BY DEF IndInv, TypeOK
  <2>3. OkAt(graph', stack'[1], statePath'[1], edgePath', 1 - 1)
    BY <2>1, <2>2, OkNew
  <2>4. QED
    BY <2>1, <2>3 DEF OkInv
<1>3. CASE DfsStop \/ DfsEnter \/ DfsExhausted \/ DfsDone
  <2>1. UNCHANGED <<graph, stack, statePath, edgePath>>
    BY <1>3, QuietEffect
  <2>2. QED
    BY <2>1 DEF OkInv
<1>4. CASE EndStart
  <2>1. stack' = <<>>
    BY <1>4 DEF EndStart
  <2>2. QED
    BY <2>1 DEF OkInv
<1>5. CASE Returned
  <2>1. UNCHANGED <<graph, stack, statePath, edgePath>>
    BY <1>5 DEF Returned, vars
  <2>2. QED
    BY <2>1 DEF OkInv
<1>6. QED
  BY <1>1, <1>2, <1>3, <1>4, <1>5, OkSkip, OkFollow, OkRestore DEF Next, OtherStep

-----------------------------------------------------------------------------
(* Which walks are ahead, step by step.                                    *)
LEMMA StopType ==
  ASSUME IndInv, stack # <<>>
  PROVE  /\ scen \in Scenario
         /\ stop = StateNumSet(graph, scen.stop)
  BY ElementOfSeq DEF IndInv, TypeOK, scen, stop

LEMMA AgreeFull ==
  ASSUME IndInv, stack # <<>>, NEW w \in Walks(graph, statePath[1]),
         Agrees(w, Len(edgePath)), Len(w) = Len(edgePath)
  PROVE  w = edgePath
<1>1. graph \in Seq(Edge(Nodes, Steps)) /\ statePath[1] \in Nodes
  BY CurrentWalk
<1>2. w \in Seq(DOMAIN graph) /\ edgePath \in Seq(DOMAIN graph)
  BY <1>1, WalkFacts DEF IndInv, TypeOK
<1>3. \A j \in 1..Len(w) : w[j] = edgePath[j]
  BY DEF Agrees
<1>4. QED
  BY <1>2, <1>3, SeqEqual

(* A walk that ends where it agrees with the path has used up every edge   *)
(* there, if no stop state is given.                                       *)
LEMMA AgreeEnd ==
  ASSUME IndInv, stack # <<>>, NEW w \in Walks(graph, statePath[1]),
         Complete(graph, stop, statePath[1], w),
         NEW k \in 0..Len(edgePath), Agrees(w, k), Len(w) = k
  PROVE  /\ EndOf(graph, statePath[1], w) = statePath[k + 1]
         /\ stop # {} => statePath[k + 1] \in stop
         /\ stop = {} => \A e \in OutEdges(graph, statePath[k + 1]) :
                            CountTo(edgePath, e, k) = graph[e].repeat
<1> DEFINE s == statePath[1]
<1>1. graph \in Seq(Edge(Nodes, Steps)) /\ s \in Nodes
  BY CurrentWalk
<1>2. /\ k \in Nat
      /\ \A j \in 1..(k + 1) : StatesOn(graph, s, w)[j] = statePath[j]
      /\ \A e : CountTo(w, e, k) = CountTo(edgePath, e, k)
  BY AgreeFacts
<1>3. /\ w \in Seq(DOMAIN graph)
      /\ \A e \in DOMAIN graph : Count(e, w) = CountTo(w, e, k)
  BY <1>1, WalkFacts
<1> HIDE DEF s
<1>4. EndOf(graph, s, w) = StatesOn(graph, s, w)[k + 1]
  BY <1>1, <1>3, StatesOnFacts
<1>5. k + 1 \in 1..(k + 1)
  BY <1>2
<1>6. EndOf(graph, s, w) = statePath[k + 1]
  BY <1>2, <1>4, <1>5
<1>7. ASSUME stop = {}, NEW e \in OutEdges(graph, statePath[k + 1])
      PROVE  CountTo(edgePath, e, k) = graph[e].repeat
  <2>1. e \in DOMAIN graph
    BY DEF OutEdges
  <2>2. Count(e, w) = graph[e].repeat
    BY <1>6, <1>7 DEF Complete, s
  <2>3. QED
    BY <1>2, <1>3, <2>1, <2>2
<1>8. stop # {} => statePath[k + 1] \in stop
  BY <1>6 DEF Complete, s
<1>9. QED
  BY <1>6, <1>7, <1>8 DEF s

(* The edge on which a walk goes on from the end of the path.              *)
LEMMA AgreeOn ==
  ASSUME IndInv, stack # <<>>, NEW w \in Walks(graph, statePath[1]),
         Agrees(w, Len(edgePath)), Len(w) # Len(edgePath)
  PROVE  /\ Len(edgePath) + 1 \in 1..Len(w)
         /\ w[Len(edgePath) + 1] \in OutEdges(graph, curState)
         /\ w[Len(edgePath) + 1] \in DOMAIN graph /\ w[Len(edgePath) + 1] \in Nat
         /\ repeatTime[w[Len(edgePath) + 1]] > 0
<1> DEFINE m == Len(edgePath)
           s == statePath[1]
           e == w[m + 1]
<1>1. graph \in Seq(Edge(Nodes, Steps)) /\ s \in Nodes
  BY CurrentWalk
<1>2. m \in Nat /\ curState = statePath[m + 1]
  BY SearchShape DEF curState
<1>3. Len(w) \in Nat /\ m <= Len(w) /\ m < Len(w) /\ m + 1 \in 1..Len(w) /\ m \in 0..m
  <2>1. Len(w) \in Nat /\ m <= Len(w)
    BY <1>1, WalkFacts DEF Agrees
  <2>2. QED
    BY <1>2, <2>1
<1>4. e \in OutEdges(graph, curState) /\ CountTo(w, e, m) = CountTo(edgePath, e, m)
  BY <1>2, <1>3, AgreeFacts
<1>5. e \in DOMAIN graph
  BY <1>4 DEF OutEdges
<1>6. e \in Nat
  BY <1>5, GraphFacts
<1>7. repeatTime[e] > 0
  <2> HIDE DEF m, s
  <2>1. CountTo(w, e, m + 1) = CountTo(w, e, m) + 1
    BY <1>2, CountStep
  <2>2. CountTo(w, e, m + 1) <= CountTo(w, e, Len(w))
    <3>1. m + 1 \in Nat /\ m + 1 <= Len(w)
      BY <1>3
    <3>2. QED
      BY <1>3, <3>1, CountMono
  <2>3. CountTo(w, e, Len(w)) <= graph[e].repeat
    BY <1>1, <1>5, WalkFacts DEF s
  <2>4. /\ repeatTime[e] \in Nat /\ CountTo(edgePath, e, m) \in Nat /\ graph[e].repeat \in Nat
        /\ repeatTime[e] + CountTo(edgePath, e, m) = graph[e].repeat
    BY <1>5, Budget DEF m
  <2>5. CountTo(w, e, Len(w)) \in Nat /\ CountTo(w, e, m + 1) \in Nat
    <3>1. m + 1 \in Nat
      BY <1>2
    <3>2. QED
      BY <1>3, <3>1, CountType
  <2> HIDE DEF e
  <2>6. QED
    BY <1>4, <2>1, <2>2, <2>3, <2>4, <2>5
<1>8. QED
  BY <1>3, <1>4, <1>5, <1>6, <1>7

(* A path that visits no state twice is shorter than the largest distance. *)
LEMMA SimpleBound ==
  ASSUME NEW g \in Seq(Edge(Nodes, Steps)), NEW s \in Nodes, NEW w \in Walks(g, s),
         Simple(PathOf(g, s, w))
  PROVE  Len(w) + 1 <= MaxPathDist
<1> DEFINE m == Len(w)
           sp == StatesOn(g, s, w)
           f == [j \in 1..m |-> sp[j + 1]]
<1>1. m \in Nat /\ Len(sp) = m + 1 /\ sp \in Seq(Nodes)
  BY WalkFacts, StatesOnFacts
<1>2. \A x, y \in 2..Len(sp) : sp[x] = sp[y] => x = y
  BY DEF Simple, PathOf
<1> HIDE DEF m, sp
<1>3. \A j \in 1..m : j + 1 \in 2..Len(sp) /\ j + 1 \in 1..Len(sp)
  BY <1>1
<1>4. \A j \in 1..m : sp[j + 1] \in Nodes
  BY <1>1, <1>3, ElementOfSeq
<1>5. \A j, k \in 1..m : sp[j + 1] = sp[k + 1] => j = k
  <2> SUFFICES ASSUME NEW j \in 1..m, NEW k \in 1..m, sp[j + 1] = sp[k + 1]
               PROVE  j = k
    OBVIOUS
  <2>1. j + 1 = k + 1
    BY <1>2, <1>3
  <2>2. QED
    BY <1>1, <2>1
<1>6. f \in Injection(1..m, Nodes)
  BY <1>4, <1>5 DEF Injection, IsInjective
<1> HIDE DEF f
<1>7. Cardinality(1..m) <= Cardinality(Nodes)
  BY <1>6, DistAssumption, FS_Injection
<1>8. Cardinality(1..m) = m
  <2>1. m \in Int /\ 1 \in Int
    BY <1>1
  <2>2. Cardinality(1..m) = IF 1 > m THEN 0 ELSE m - 1 + 1
    BY <2>1, FS_Interval
  <2>3. QED
    BY <1>1, <2>2
<1>9. Cardinality(Nodes) \in Nat
  BY DistAssumption, FS_CardinalityType
<1>10. QED
  BY <1>1, <1>7, <1>8, <1>9, DistAssumption DEF MaxPathDist, m

LEMMA SimpleIsShort ==
  ASSUME IndInv, PathInv, stack # <<>>, ShortestOnly(scen)
  PROVE  Len(statePath) <= MaxPathDist /\ Simple(CurrentPath)
<1>1. /\ graph \in Seq(Edge(Nodes, Steps)) /\ statePath[1] \in Nodes
      /\ edgePath \in Walks(graph, statePath[1])
      /\ PathOf(graph, statePath[1], edgePath) = CurrentPath
  BY CurrentWalk
<1>2. Simple(CurrentPath)
  BY DEF PathInv, Simple, CurrentPath
<1>3. Len(edgePath) + 1 <= MaxPathDist
  BY <1>1, <1>2, SimpleBound
<1>4. QED
  BY <1>2, <1>3, SearchShape

(* No walk the search is after goes on over an edge it passes.             *)
LEMMA PassedOver ==
  ASSUME IndInv, PathInv, stack # <<>>, NEW w, Target(scen, statePath[1], w),
         Agrees(w, Len(edgePath)), Len(w) # Len(edgePath)
  PROVE  MayFollow(w[Len(edgePath) + 1])
<1> DEFINE m == Len(edgePath)
           s == statePath[1]
           e == w[m + 1]
           n == graph[e].to
           d == stateDist[alg][n]
<1>1. w \in Walks(graph, s) /\ graph \in Seq(Edge(Nodes, Steps)) /\ s \in Nodes
  BY CurrentWalk DEF Target
<1>2. m \in Nat /\ Len(statePath) = m + 1
  BY SearchShape
<1>3. m + 1 \in 1..Len(w) /\ e \in DOMAIN graph
  BY <1>1, AgreeOn
<1>4. n \in States(graph)
  BY <1>3, GraphFacts
<1>5. alg \in DistAlgos => DistAt(statePath, Extreme(alg), d, n, m)
  BY <1>4 DEF IndInv, DistInv
<1> HIDE DEF m, s, e, d
<1>6. CASE alg \in {"long", "longn2n"}
  <2>1. Extreme(alg) = -1 /\ alg \in DistAlgos
    BY <1>6 DEF Extreme, DistAlgos, MinPathDist
  <2>2. d \in 1..m \cup {-1}
    BY <1>5, <2>1 DEF DistAt
  <2>3. d <= Len(statePath)
    BY <1>2, <2>2
  <2>4. QED
    BY <1>6, <2>3 DEF MayFollow, LongMayFollow, LongN2NMayFollow, d, e, m
<1>7. CASE alg \in {"short", "shortn2n"}
  <2>1. Extreme(alg) = MaxPathDist /\ alg \in DistAlgos /\ ShortestOnly(scen)
    BY <1>7, AlgOf DEF Extreme, DistAlgos
  <2>2. d = MaxPathDist
    <3>1. SUFFICES ASSUME d # MaxPathDist PROVE FALSE
      OBVIOUS
    <3>2. d \in 1..m /\ statePath[d + 1] = n
      BY <1>5, <2>1, <3>1 DEF DistAt
    <3>3. Simple(PathOf(graph, s, w))
      BY <2>1 DEF Target, s
    <3>4. /\ Len(StatesOn(graph, s, w)) = Len(w) + 1 /\ Len(w) \in Nat
          /\ StatesOn(graph, s, w)[(m + 1) + 1] = n
      BY <1>1, <1>3, WalkFacts, StatesOnFacts DEF e
    <3>5. StatesOn(graph, s, w)[d + 1] = statePath[d + 1]
      <4>1. d + 1 \in 1..(m + 1) /\ m \in 0..m
        BY <1>2, <3>2
      <4>2. QED
        BY <1>1, <4>1, AgreeFacts DEF m, s
    <3>6. d + 1 \in 2..(Len(w) + 1) /\ (m + 1) + 1 \in 2..(Len(w) + 1) /\ d + 1 # (m + 1) + 1
      BY <1>2, <1>3, <3>2, <3>4
    <3>7. QED
      BY <3>2, <3>3, <3>4, <3>5, <3>6 DEF Simple, PathOf
  <2>3. d >= Len(statePath)
    BY <1>2, <2>1, <2>2, SimpleIsShort DEF MaxPathDist
  <2>4. QED
    BY <1>7, <2>3 DEF MayFollow, ShortMayFollow, ShortN2NMayFollow, d, e, m
<1>8. CASE alg \in {"all", "least"}
  BY <1>8 DEF MayFollow
<1>9. QED
  BY <1>6, <1>7, <1>8, AlgType DEF Algos, DistAlgos

LEMMA TargetType ==
  ASSUME IndInv, stack # <<>>, NEW w, Target(scen, statePath[1], w)
  PROVE  /\ w \in Walks(graph, statePath[1]) /\ Complete(graph, stop, statePath[1], w)
         /\ Len(w) \in Nat
         /\ Len(edgePath) \in Nat /\ Len(edgePath) \in 0..Len(edgePath)
         /\ curState = statePath[Len(edgePath) + 1]
<1>1. w \in Walks(graph, statePath[1]) /\ Complete(graph, stop, statePath[1], w)
  BY StopType DEF Target
<1>2. Len(w) \in Nat
  BY <1>1, CurrentWalk, WalkFacts
<1>3. Len(edgePath) \in Nat /\ curState = statePath[Len(edgePath) + 1]
  BY SearchShape DEF curState
<1>4. QED
  BY <1>1, <1>2, <1>3

LEMMA NotLater == ASSUME IndInv, Later(edgePath) PROVE FALSE
<1>1. \A k \in 1..Len(edgePath) : edgePath[k] \in Nat
  <2>1. ASSUME NEW k \in 1..Len(edgePath) PROVE edgePath[k] \in DOMAIN graph
    BY ElementOfSeq DEF IndInv, TypeOK
  <2>2. QED
    BY <2>1, GraphFacts
<1>2. QED
  BY <1>1 DEF Later

(* The path ends at a stop state or a sink: of the walks that go on from   *)
(* its end only the path itself is searched for.                           *)
LEMMA AheadStop ==
  ASSUME IndInv, DfsStop, NEW w, Target(scen, statePath[1], w)
  PROVE  Ahead(w)' <=> Ahead(w) /\ w # edgePath
<1> DEFINE m == Len(edgePath)
<1>1. stack # <<>> /\ pc = "enter" /\ pc' = "return" /\ edgePath' = edgePath /\ AtStop
  BY DEF DfsStop, pathVars, IndInv, TypeOK
<1>2. /\ w \in Walks(graph, statePath[1]) /\ Complete(graph, stop, statePath[1], w)
      /\ m \in Nat /\ m \in 0..m /\ curState = statePath[m + 1]
  BY <1>1, TargetType
<1>3. ASSUME Agrees(w, m) PROVE w = edgePath
  <2>1. SUFFICES ASSUME Len(w) # m PROVE FALSE
    BY <1>1, <1>2, <1>3, AgreeFull
  <2>2. m + 1 \in 1..Len(w) /\ w[m + 1] \in OutEdges(graph, curState)
    BY <1>1, <1>2, <1>3, <2>1, AgreeOn
  <2>3. curState \in stop
    BY <1>1, <2>2 DEF AtStop
  <2>4. StatesOn(graph, statePath[1], w)[m + 1] = curState
    <3>1. m + 1 \in 1..(m + 1)
      BY <1>2
    <3>2. QED
      BY <1>1, <1>2, <1>3, <3>1, AgreeFacts
  <2>5. m + 1 \in DOMAIN w
    BY <1>1, <1>2, <2>2, CurrentWalk, WalkFacts
  <2>6. QED
    BY <1>2, <2>3, <2>4, <2>5 DEF Complete
<1>4. Ahead(w)' <=> Later(w)
  BY <1>1 DEF Ahead, Later, Onward, Agrees
<1>5. Ahead(w) <=> Later(w) \/ Agrees(w, m)
  BY <1>1 DEF Ahead, Onward
<1>6. w = edgePath => ~Later(w)
  BY NotLater
<1>7. QED
  BY <1>3, <1>4, <1>5, <1>6

LEMMA AheadEnter ==
  ASSUME IndInv, PathInv, DfsEnter, NEW w, Target(scen, statePath[1], w)
  PROVE  Ahead(w)' <=> Ahead(w)
<1> DEFINE m == Len(edgePath)
<1>1. /\ stack # <<>> /\ pc = "enter" /\ pc' = "loop" /\ edgePath' = edgePath /\ ~AtStop
      /\ stack' = stack /\ top = Activation
      /\ UNCHANGED <<graph, scenarios, cur>>
  BY DEF DfsEnter, pathVars, searchUnchanged, IndInv, TypeOK, PathInv
<1>2. /\ w \in Walks(graph, statePath[1]) /\ Complete(graph, stop, statePath[1], w)
      /\ m \in Nat /\ m \in 0..m /\ curState = statePath[m + 1]
  BY <1>1, TargetType
<1>3. stop' = stop /\ top'.next = 1
  BY <1>1, ScenFixed DEF top, Activation
<1>4. ASSUME Agrees(w, m)
      PROVE  IF Len(w) = m THEN stop = {} ELSE w[m + 1] >= 1
  <2>1. CASE Len(w) = m
    <3>1. stop # {} => curState \in stop
      BY <1>1, <1>2, <1>4, <2>1, AgreeEnd
    <3>2. QED
      BY <1>1, <2>1, <3>1 DEF AtStop
  <2>2. CASE Len(w) # m
    <3>1. w[m + 1] \in DOMAIN graph
      BY <1>1, <1>2, <1>4, <2>2, AgreeOn
    <3>2. DOMAIN graph = 1..Len(graph)
      BY LenProperties DEF IndInv, TypeOK
    <3>3. QED
      BY <2>2, <3>1, <3>2
  <2>3. QED
    BY <2>1, <2>2
<1>5. Ahead(w) <=> Later(w) \/ Agrees(w, m)
  BY <1>1 DEF Ahead, Onward
<1>6. Ahead(w)' <=> Later(w) \/ (Agrees(w, m) /\ IF Len(w) = m THEN stop = {} ELSE w[m + 1] >= 1)
  BY <1>1, <1>3 DEF Ahead, Later, Onward, Agrees
<1>7. QED
  BY <1>4, <1>5, <1>6

(* The edge a walk goes on with has not been looked at: it is pending.     *)
LEMMA StillPending ==
  ASSUME IndInv, stack # <<>>, NEW w \in Walks(graph, statePath[1]),
         Agrees(w, Len(edgePath)), Len(w) # Len(edgePath),
         w[Len(edgePath) + 1] >= top.next
  PROVE  w[Len(edgePath) + 1] \in Pending
  BY AgreeOn DEF Pending

LEMMA AheadSkip ==
  ASSUME IndInv, PathInv, NEW e \in DOMAIN graph, Skip(e), NEW w, Target(scen, statePath[1], w)
  PROVE  Ahead(w)' <=> Ahead(w)
<1> DEFINE m == Len(edgePath)
<1>1. /\ stack # <<>> /\ pc = "loop" /\ pc' = "loop" /\ Len(stack) = m + 1
      /\ UNCHANGED <<graph, scenarios, cur, edgePath>>
      /\ IsNext(e) /\ ~(repeatTime[e] > 0 /\ MayFollow(e))
      /\ Len(stack') = m + 1 /\ stack'[m + 1].next = e + 1
  BY SkipEffect
<1>2. /\ w \in Walks(graph, statePath[1])
      /\ m \in Nat /\ m \in 0..m
  BY <1>1, TargetType
<1>3. stop' = stop /\ top'.next = e + 1
  BY <1>1, ScenFixed DEF top
<1>4. e \in Nat /\ top.next \in Nat /\ e >= top.next
  BY <1>1, GraphFacts, SearchShape DEF IsNext, Pending, Frame
<1>5. ASSUME Agrees(w, m), Len(w) # m
      PROVE  w[m + 1] >= top.next <=> w[m + 1] >= e + 1
  <2>1. w[m + 1] \in Nat /\ repeatTime[w[m + 1]] > 0
    BY <1>1, <1>2, <1>5, AgreeOn
  <2>2. MayFollow(w[m + 1])
    BY <1>1, <1>5, PassedOver
  <2>3. w[m + 1] # e
    BY <1>1, <2>1, <2>2
  <2>4. w[m + 1] >= top.next => w[m + 1] >= e
    BY <1>1, <1>2, <1>5, StillPending DEF IsNext
  <2>5. QED
    BY <1>4, <2>1, <2>3, <2>4
<1>6. Ahead(w) <=> \/ Later(w)
                   \/ Agrees(w, m) /\ (IF Len(w) = m THEN stop = {} ELSE w[m + 1] >= top.next)
  BY <1>1 DEF Ahead, Onward
<1>7. Ahead(w)' <=> \/ Later(w)
                    \/ Agrees(w, m) /\ (IF Len(w) = m THEN stop = {} ELSE w[m + 1] >= e + 1)
  BY <1>1, <1>3 DEF Ahead, Later, Onward, Agrees
<1> HIDE DEF m
<1>8. QED
  BY <1>5, <1>6, <1>7

(* Every edge has been looked at: what is ahead from here is at most the   *)
(* path itself.                                                            *)
LEMMA LoopOver ==
  ASSUME IndInv, stack # <<>>, Pending = {}, NEW w, Target(scen, statePath[1], w), pc = "loop"
  PROVE  Onward(w) => w = edgePath /\ stop = {}
<1> SUFFICES ASSUME Onward(w) PROVE w = edgePath /\ stop = {}
  OBVIOUS
<1>1. w \in Walks(graph, statePath[1])
  BY TargetType
<1>2. /\ Agrees(w, Len(edgePath))
      /\ IF Len(w) = Len(edgePath) THEN stop = {} ELSE w[Len(edgePath) + 1] >= top.next
  BY DEF Onward
<1>3. Len(w) = Len(edgePath)
  BY <1>1, <1>2, StillPending
<1>4. QED
  BY <1>1, <1>2, <1>3, AgreeFull

LEMMA AheadExhausted ==
  ASSUME IndInv, DfsExhausted, NEW w, Target(scen, statePath[1], w)
  PROVE  Ahead(w)' <=> Ahead(w) /\ w # edgePath
<1>1. /\ stack # <<>> /\ pc = "loop" /\ pc' = "return" /\ edgePath' = edgePath
      /\ Pending = {} /\ stop = {}
  BY DEF DfsExhausted, pathVars, IndInv, TypeOK
<1>2. Onward(w) => w = edgePath
  BY <1>1, LoopOver
<1>3. Ahead(w)' <=> Later(w)
  BY <1>1 DEF Ahead, Later, Onward, Agrees
<1>4. w = edgePath => ~Later(w)
  BY NotLater
<1>5. QED
  BY <1>2, <1>3, <1>4 DEF Ahead

LEMMA AheadDone ==
  ASSUME IndInv, OkInv, DfsDone, NEW w, Target(scen, statePath[1], w)
  PROVE  Ahead(w)' <=> Ahead(w)
<1> DEFINE m == Len(edgePath)
<1>1. /\ stack # <<>> /\ pc = "loop" /\ pc' = "return" /\ edgePath' = edgePath
      /\ Pending = {} /\ (top.ok \/ stop # {})
  BY DEF DfsDone, pathVars, IndInv, TypeOK
<1>2. Onward(w) => w = edgePath /\ stop = {}
  BY <1>1, LoopOver
<1>3. Ahead(w)' <=> Later(w)
  BY <1>1 DEF Ahead, Later, Onward, Agrees
<1>4. ASSUME w = edgePath, stop = {} PROVE FALSE
  <2>1. /\ w \in Walks(graph, statePath[1]) /\ Complete(graph, stop, statePath[1], w)
        /\ m \in Nat /\ m \in 0..m
    BY <1>1, TargetType
  <2>2. Agrees(w, m) /\ Len(w) = m
    BY <1>4, <2>1 DEF Agrees
  <2>3. \A e \in OutEdges(graph, statePath[m + 1]) : CountTo(edgePath, e, m) = graph[e].repeat
    BY <1>1, <1>4, <2>1, <2>2, AgreeEnd
  <2>4. Len(stack) = m + 1
    BY <1>1, SearchShape
  <2>5. OkAt(graph, top, statePath[m + 1], edgePath, m)
    <3>1. m + 1 \in 1..Len(stack) /\ (m + 1) - 1 = m
      BY <2>1, <2>4
    <3>2. QED
      BY <2>4, <3>1 DEF OkInv, top
  <2>6. PICK e \in OutEdges(graph, statePath[m + 1]) : CountTo(edgePath, e, m) < graph[e].repeat
    BY <1>1, <1>4, <2>5 DEF OkAt
  <2>7. graph[e].repeat \in Nat
    BY GraphFacts DEF OutEdges
  <2> HIDE DEF m
  <2>8. QED
    BY <2>3, <2>6, <2>7
<1>5. QED
  BY <1>2, <1>3, <1>4 DEF Ahead

LEMMA AheadFollow ==
  ASSUME IndInv, NEW e \in DOMAIN graph, Follow(e), NEW w, Target(scen, statePath[1], w)
  PROVE  Ahead(w)' <=> Ahead(w)
<1>0. PICK m \in Nat : m = Len(edgePath)
  BY FollowEffect
<1>1. /\ stack # <<>> /\ pc = "loop" /\ pc' = "enter" /\ m \in Nat
      /\ UNCHANGED <<graph, scenarios, cur>>
      /\ e \in OutEdges(graph, statePath[m + 1])
      /\ repeatTime[e] > 0 /\ IsNext(e)
      /\ Len(edgePath') = m + 1
      /\ \A j \in 1..m : edgePath'[j] = edgePath[j]
      /\ edgePath'[m + 1] = e
  BY <1>0, FollowEffect
<1>2. /\ w \in Walks(graph, statePath[1]) /\ Complete(graph, stop, statePath[1], w)
      /\ m \in Nat /\ m \in 0..m /\ Len(w) \in Nat
  BY <1>0, <1>1, TargetType
<1>3. e \in Nat /\ top.next \in Nat /\ e >= top.next
  BY <1>1, GraphFacts, SearchShape DEF IsNext, Pending, Frame
<1>4. ASSUME Agrees(w, m), Len(w) # m
      PROVE  /\ m + 1 \in 1..Len(w) /\ w[m + 1] \in Nat
             /\ w[m + 1] >= top.next <=> w[m + 1] >= e
  <2>1. w[m + 1] \in Nat /\ m + 1 \in 1..Len(w)
    BY <1>0, <1>1, <1>2, <1>4, AgreeOn
  <2>2. w[m + 1] >= top.next => w[m + 1] >= e
    BY <1>0, <1>1, <1>2, <1>4, StillPending DEF IsNext
  <2>3. QED
    BY <1>3, <2>1, <2>2
<1>5. ASSUME Agrees(w, m), Len(w) = m PROVE stop # {}
  <2>1. SUFFICES ASSUME stop = {} PROVE FALSE
    OBVIOUS
  <2>2. CountTo(edgePath, e, m) = graph[e].repeat
    BY <1>0, <1>1, <1>2, <1>5, <2>1, AgreeEnd
  <2>3. /\ repeatTime[e] \in Nat /\ CountTo(edgePath, e, m) \in Nat
        /\ repeatTime[e] + CountTo(edgePath, e, m) = graph[e].repeat
    BY <1>0, Budget
  <2>4. QED
    BY <1>1, <2>2, <2>3
<1>6. Ahead(w) <=> Later(w) \/ (Agrees(w, m) /\ m < Len(w) /\ w[m + 1] >= e)
  <2>1. Ahead(w) <=> Later(w) \/ (Agrees(w, m) /\ IF Len(w) = m THEN stop = {} ELSE w[m + 1] >= top.next)
    BY <1>0, <1>1 DEF Ahead, Onward
  <2>2. Agrees(w, m) => m <= Len(w)
    BY DEF Agrees
  <2>3. Agrees(w, m) /\ Len(w) # m => m < Len(w)
    BY <1>2, <2>2
  <2>4. m < Len(w) => Len(w) # m
    BY <1>2
  <2>5. QED
    BY <1>4, <1>5, <2>1, <2>3, <2>4
<1>7. \A k \in 0..m : Agrees(w, k)' <=> Agrees(w, k)
  <2> SUFFICES ASSUME NEW k \in 0..m PROVE Agrees(w, k)' <=> Agrees(w, k)
    OBVIOUS
  <2>1. \A j \in 1..k : edgePath'[j] = edgePath[j]
    BY <1>1, <1>2
  <2>2. QED
    BY <2>1 DEF Agrees
<1>8. Agrees(w, m + 1)' <=> Agrees(w, m) /\ m < Len(w) /\ w[m + 1] = e
  <2>1. \A j : j \in 1..(m + 1) <=> j \in 1..m \/ j = m + 1
    BY <1>1
  <2>2. m + 1 <= Len(w) <=> m < Len(w) /\ m <= Len(w)
    BY <1>2
  <2>3. QED
    BY <1>1, <2>1, <2>2 DEF Agrees
<1>9. Later(w)' <=> Later(w) \/ (Agrees(w, m) /\ m < Len(w) /\ w[m + 1] > e)
  <2> DEFINE At(k) == k <= Len(w) /\ Agrees(w, k - 1) /\ w[k] > edgePath[k]
             New(k) == k <= Len(w) /\ Agrees(w, k - 1)' /\ w[k] > edgePath'[k]
  <2>1. Later(w) <=> \E k \in 1..m : At(k)
    BY <1>0 DEF Later
  <2>2. Later(w)' <=> \E k \in 1..(m + 1) : New(k)
    BY <1>1 DEF Later
  <2>3. ASSUME NEW k \in 1..m PROVE New(k) <=> At(k)
    <3>1. k - 1 \in 0..m /\ edgePath'[k] = edgePath[k]
      BY <1>1
    <3>2. QED
      BY <1>7, <3>1
  <2>4. New(m + 1) <=> Agrees(w, m) /\ m < Len(w) /\ w[m + 1] > e
    <3>1. (m + 1) - 1 = m /\ m \in 0..m /\ (m + 1 <= Len(w) <=> m < Len(w))
      BY <1>2
    <3>2. QED
      BY <1>1, <1>7, <3>1
  <2> HIDE DEF At, New
  <2>5. \A k : k \in 1..(m + 1) <=> k \in 1..m \/ k = m + 1
    BY <1>1
  <2>6. QED
    BY <2>1, <2>2, <2>3, <2>4, <2>5
<1>10. Ahead(w)' <=> Later(w)' \/ Agrees(w, m + 1)'
  BY <1>1 DEF Ahead, Onward
<1>11. Agrees(w, m) /\ m < Len(w) => w[m + 1] \in Nat
  <2>1. m < Len(w) => Len(w) # m
    BY <1>2
  <2>2. QED
    BY <1>4, <2>1
<1>12. QED
  BY <1>3, <1>6, <1>8, <1>9, <1>10, <1>11

LEMMA AheadRestore ==
  ASSUME IndInv, Restore, NEW w, Target(scen, statePath[1], w)
  PROVE  Ahead(w)' <=> Ahead(w)
<1>1. PICK p \in Nat, e \in DOMAIN graph :
         /\ stack # <<>> /\ pc = "return" /\ pc' = "loop"
         /\ Len(edgePath) = p + 1 /\ Len(stack) = p + 2
         /\ UNCHANGED <<graph, scenarios, cur>>
         /\ edgePath[p + 1] = e
         /\ e \in OutEdges(graph, statePath[p + 1])
         /\ Len(edgePath') = p
         /\ \A j \in 1..p : edgePath'[j] = edgePath[j]
         /\ Len(stack') = p + 1
         /\ stack'[p + 1].next = e + 1
  BY RestoreEffect
<1>2. /\ w \in Walks(graph, statePath[1]) /\ Complete(graph, stop, statePath[1], w)
      /\ Len(w) \in Nat /\ p \in 0..Len(edgePath) /\ e \in Nat
  BY <1>1, TargetType, GraphFacts
<1>3. stop' = stop /\ top'.next = e + 1
  BY <1>1, ScenFixed DEF top
<1>4. \A k \in 0..p : Agrees(w, k)' <=> Agrees(w, k)
  <2> SUFFICES ASSUME NEW k \in 0..p PROVE Agrees(w, k)' <=> Agrees(w, k)
    OBVIOUS
  <2>1. \A j \in 1..k : edgePath'[j] = edgePath[j]
    BY <1>1
  <2>2. QED
    BY <2>1 DEF Agrees
<1>5. ASSUME Agrees(w, p), Len(w) = p PROVE stop # {}
  <2>1. SUFFICES ASSUME stop = {} PROVE FALSE
    OBVIOUS
  <2>2. CountTo(edgePath, e, p) = graph[e].repeat
    BY <1>1, <1>2, <1>5, <2>1, AgreeEnd
  <2>3. CountTo(edgePath, e, p + 1) = CountTo(edgePath, e, p) + 1
    BY <1>1, CountStep
  <2>4. /\ repeatTime[e] \in Nat /\ CountTo(edgePath, e, p + 1) \in Nat
        /\ repeatTime[e] + CountTo(edgePath, e, p + 1) = graph[e].repeat
    BY <1>1, Budget
  <2>5. CountTo(edgePath, e, p) \in Nat
    BY CountType
  <2>6. QED
    BY <2>2, <2>3, <2>4, <2>5
<1>6. Agrees(w, p) /\ Len(w) # p => w[p + 1] \in Nat /\ p + 1 <= Len(w)
  <2> SUFFICES ASSUME Agrees(w, p), Len(w) # p PROVE w[p + 1] \in Nat /\ p + 1 <= Len(w)
    OBVIOUS
  <2>1. p < Len(w) /\ p + 1 <= Len(w)
    BY <1>2 DEF Agrees
  <2>2. w[p + 1] \in OutEdges(graph, statePath[p + 1])
    BY <1>1, <1>2, <2>1, AgreeFacts
  <2>3. QED
    BY <2>1, <2>2, GraphFacts DEF OutEdges
<1>7. Ahead(w) <=> Later(w)
  BY <1>1 DEF Ahead, Onward
<1>8. Later(w) <=> Later(w)' \/ (p + 1 <= Len(w) /\ Agrees(w, p) /\ w[p + 1] > e)
  <2> DEFINE At(k) == k <= Len(w) /\ Agrees(w, k - 1) /\ w[k] > edgePath[k]
             New(k) == k <= Len(w) /\ Agrees(w, k - 1)' /\ w[k] > edgePath'[k]
  <2>1. Later(w) <=> \E k \in 1..(p + 1) : At(k)
    BY <1>1 DEF Later
  <2>2. Later(w)' <=> \E k \in 1..p : New(k)
    BY <1>1 DEF Later
  <2>3. ASSUME NEW k \in 1..p PROVE New(k) <=> At(k)
    <3>1. k - 1 \in 0..p /\ edgePath'[k] = edgePath[k]
      BY <1>1
    <3>2. QED
      BY <1>4, <3>1
  <2>4. At(p + 1) <=> p + 1 <= Len(w) /\ Agrees(w, p) /\ w[p + 1] > e
    <3>1. (p + 1) - 1 = p
      OBVIOUS
    <3>2. QED
      BY <1>1, <3>1
  <2> HIDE DEF At, New
  <2>5. \A k : k \in 1..(p + 1) <=> k \in 1..p \/ k = p + 1
    OBVIOUS
  <2>6. QED
    BY <2>1, <2>2, <2>3, <2>4, <2>5
<1>9. Ahead(w)' <=> Later(w)' \/ (Agrees(w, p) /\ IF Len(w) = p THEN stop = {} ELSE w[p + 1] >= e + 1)
  <2>1. p \in 0..p
    OBVIOUS
  <2>2. QED
    BY <1>1, <1>3, <1>4, <2>1 DEF Ahead, Onward
<1>10. p + 1 <= Len(w) => Len(w) # p
  BY <1>2
<1>11. Agrees(w, p) /\ Len(w) # p => (w[p + 1] >= e + 1 <=> w[p + 1] > e)
  BY <1>2, <1>6
<1>12. QED
  BY <1>5, <1>6, <1>7, <1>8, <1>9, <1>10, <1>11

(* When the search from a state ends nothing is ahead.                     *)
LEMMA AheadEnd ==
  ASSUME IndInv, EndStart, NEW w
  PROVE  ~Ahead(w)
<1>1. stack # <<>> /\ Len(stack) = 1 /\ pc = "return"
  BY DEF EndStart, IndInv, TypeOK
<1>2. Len(edgePath) = 0
  BY <1>1, SearchShape
<1>3. QED
  BY <1>1, <1>2 DEF Ahead, Later, Onward

-----------------------------------------------------------------------------
(* The result lists.                                                       *)
LEMMA SmallestNat ==
  ASSUME NEW T, T \subseteq Nat, T # {}
  PROVE  \E x \in T : \A y \in T : x <= y
<1> DEFINE R == OpToRel(<, Nat)
<1>1. \A x, y \in Nat : x < y => <<x, y>> \in R
  BY DEF OpToRel
<1>2. IsWellFoundedOn(R, Nat)
  BY NatLessThanWellFounded
<1> HIDE DEF R
<1>3. PICK x \in T : \A y \in T : ~(<<y, x>> \in R)
  BY <1>2, WFMin
<1>4. ASSUME NEW y \in T PROVE x <= y
  <2>1. ~(y < x)
    BY <1>1, <1>3
  <2>2. QED
    BY <2>1
<1>5. QED
  BY <1>4

LEMMA NextPosFacts ==
  ASSUME NEW list, IsList(list)
  PROVE  /\ NextPos(list) \in Nat \ {0}
         /\ \A i \in DOMAIN list : i \in Nat \ {0} /\ i < NextPos(list)
<1> DEFINE T == {b \in Nat : DOMAIN list \subseteq 1..b}
           C == {i + 1 : i \in DOMAIN list} \cup {1}
<1>1. T \subseteq Nat /\ T # {}
  BY DEF IsList
<1>2. PICK b \in T : \A y \in T : b <= y
  BY <1>1, SmallestNat
<1>3. b \in Nat /\ DOMAIN list \subseteq 1..b
  OBVIOUS
<1>4. b = 0 \/ b \in DOMAIN list
  <2> SUFFICES ASSUME b # 0, b \notin DOMAIN list PROVE FALSE
    OBVIOUS
  <2>1. b - 1 \in Nat /\ \A i \in 1..b : i = b \/ i \in 1..(b - 1)
    BY <1>3
  <2>2. b - 1 \in T
    BY <1>3, <2>1
  <2>3. QED
    BY <1>2, <1>3, <2>2
<1>5. b + 1 \in C /\ \A i \in DOMAIN list : i < b + 1
  <2>1. b = 0 => b + 1 = 1
    OBVIOUS
  <2>2. QED
    BY <1>3, <1>4, <2>1
<1>6. NextPos(list) \in C /\ \A i \in DOMAIN list : i < NextPos(list)
  BY <1>5 DEF NextPos
<1>7. QED
  BY <1>3, <1>6

LEMMA AddFacts ==
  ASSUME NEW list, NEW p, IsList(list)
  PROVE  /\ IsList(Add(list, p))
         /\ Elems(Add(list, p)) = Elems(list) \cup {p}
         /\ Distinct(list) /\ p \notin Elems(list) => Distinct(Add(list, p))
<1> DEFINE n == NextPos(list)
           new == Add(list, p)
<1>1. n \in Nat \ {0} /\ \A i \in DOMAIN list : i \in Nat \ {0} /\ i < n
  BY NextPosFacts
<1>2. n \notin DOMAIN list
  BY <1>1
<1>3. /\ DOMAIN new = DOMAIN list \cup {n}
      /\ \A i \in DOMAIN new : new[i] = IF i \in DOMAIN list THEN list[i] ELSE p
  BY DEF Add
<1> HIDE DEF n, new
<1>4. IsList(new)
  <2>1. DOMAIN new \subseteq 1..n
    BY <1>1, <1>3
  <2>2. QED
    BY <1>1, <2>1 DEF IsList
<1>5. Elems(new) = Elems(list) \cup {p}
  BY <1>2, <1>3 DEF Elems
<1>6. ASSUME Distinct(list), p \notin Elems(list) PROVE Distinct(new)
  <2>1. \A i \in DOMAIN list : list[i] # p
    BY <1>6 DEF Elems
  <2>2. QED
    BY <1>2, <1>3, <1>6, <2>1 DEF Distinct
<1>7. QED
  BY <1>4, <1>5, <1>6 DEF new

LEMMA AddAllFacts ==
  ASSUME NEW list, NEW more, IsList(list), IsList(more)
  PROVE  /\ IsList(AddAll(list, more))
         /\ Elems(AddAll(list, more)) = Elems(list) \cup Elems(more)
<1> DEFINE n == NextPos(list)
           new == AddAll(list, more)
<1>1. n \in Nat \ {0} /\ \A i \in DOMAIN list : i \in Nat \ {0} /\ i < n
  BY NextPosFacts
<1>2. PICK b \in Nat : DOMAIN more \subseteq 1..b
  BY DEF IsList
<1>3. /\ DOMAIN new = DOMAIN list \cup {n + j : j \in DOMAIN more}
      /\ \A i \in DOMAIN new : new[i] = IF i \in DOMAIN list THEN list[i] ELSE more[i - n]
  BY DEF AddAll
<1> HIDE DEF n, new
<1>4. \A j \in DOMAIN more : n + j \in 1..(n + b) /\ n + j \notin DOMAIN list /\ (n + j) - n = j
  BY <1>1, <1>2
<1>5. IsList(new)
  <2>1. \A i \in DOMAIN list : i \in 1..(n + b)
    BY <1>1
  <2>2. DOMAIN new \subseteq 1..(n + b) /\ n + b \in Nat
    BY <1>1, <1>3, <1>4, <2>1
  <2>3. QED
    BY <2>2 DEF IsList
<1>6. ASSUME NEW x \in Elems(new) PROVE x \in Elems(list) \cup Elems(more)
  <2>1. PICK i \in DOMAIN new : x = new[i]
    BY DEF Elems
  <2>2. CASE i \in DOMAIN list
    BY <1>3, <2>1, <2>2 DEF Elems
  <2>3. CASE i \notin DOMAIN list
    <3>1. PICK j \in DOMAIN more : i = n + j
      BY <1>3, <2>3
    <3>2. x = more[j]
      BY <1>3, <1>4, <2>1, <2>3, <3>1
    <3>3. QED
      BY <3>2 DEF Elems
  <2>4. QED
    BY <2>2, <2>3
<1>7. \A x \in Elems(list) : x \in Elems(new)
  BY <1>3 DEF Elems
<1>8. ASSUME NEW x \in Elems(more) PROVE x \in Elems(new)
  <2>1. PICK j \in DOMAIN more : x = more[j]
    BY DEF Elems
  <2>2. n + j \in DOMAIN new /\ new[n + j] = more[j]
    BY <1>3, <1>4
  <2>3. QED
    BY <2>1, <2>2 DEF Elems
<1>9. QED
  BY <1>5, <1>6, <1>7, <1>8 DEF new

LEMMA KeepFacts ==
  ASSUME NEW list, NEW I, I \subseteq DOMAIN list, IsList(list)
  PROVE  /\ IsList(Keep(list, I))
         /\ Elems(Keep(list, I)) = {list[i] : i \in I}
         /\ Distinct(list) => Distinct(Keep(list, I))
<1>1. DOMAIN Keep(list, I) = I /\ \A i \in I : Keep(list, I)[i] = list[i]
  BY DEF Keep
<1>2. IsList(Keep(list, I))
  BY <1>1 DEF IsList
<1>3. Elems(Keep(list, I)) = {list[i] : i \in I}
  BY <1>1 DEF Elems
<1>4. Distinct(list) => Distinct(Keep(list, I))
  BY <1>1 DEF Distinct
<1>5. QED
  BY <1>2, <1>3, <1>4

LEMMA EmptyList == IsList(<<>>) /\ Elems(<<>>) = {} /\ Distinct(<<>>)
<1>1. DOMAIN <<>> = {}
  OBVIOUS
<1>2. QED
  BY <1>1 DEF IsList, Elems, Distinct

LEMMA FilterFacts ==
  ASSUME NEW list, NEW S, NEW T, IsList(list)
  PROVE  LET states == DelPathWithoutThroughState(list, S)
             both == DelPathWithoutThroughStep(states, T)
         IN  /\ IsList(both)
             /\ Elems(both) = {p \in Elems(list) : /\ S = {} \/ Elems(p.states) \cap S # {}
                                                   /\ T = {} \/ Elems(p.steps) \cap T # {}}
             /\ Distinct(list) => Distinct(both)
<1> DEFINE states == DelPathWithoutThroughState(list, S)
           both == DelPathWithoutThroughStep(states, T)
<1>1. /\ IsList(states)
      /\ Elems(states) = {p \in Elems(list) : S = {} \/ Elems(p.states) \cap S # {}}
      /\ Distinct(list) => Distinct(states)
  <2>1. CASE S = {}
    BY <2>1 DEF DelPathWithoutThroughState
  <2>2. CASE S # {}
    <3> DEFINE I == {i \in DOMAIN list : Elems(list[i].states) \cap S # {}}
    <3>1. states = Keep(list, I) /\ I \subseteq DOMAIN list
      BY <2>2 DEF DelPathWithoutThroughState
    <3>2. {list[i] : i \in I} = {p \in Elems(list) : Elems(p.states) \cap S # {}}
      BY DEF Elems
    <3> HIDE DEF I, states
    <3>3. QED
      BY <2>2, <3>1, <3>2, KeepFacts
  <2>3. QED
    BY <2>1, <2>2
<1> HIDE DEF states
<1>2. /\ IsList(both)
      /\ Elems(both) = {p \in Elems(states) : T = {} \/ Elems(p.steps) \cap T # {}}
      /\ Distinct(states) => Distinct(both)
  <2>1. CASE T = {}
    BY <1>1, <2>1 DEF DelPathWithoutThroughStep
  <2>2. CASE T # {}
    <3> DEFINE I == {i \in DOMAIN states : Elems(states[i].steps) \cap T # {}}
    <3>1. both = Keep(states, I) /\ I \subseteq DOMAIN states
      BY <2>2 DEF DelPathWithoutThroughStep
    <3>2. {states[i] : i \in I} = {p \in Elems(states) : Elems(p.steps) \cap T # {}}
      BY DEF Elems
    <3> HIDE DEF I, both
    <3>3. QED
      BY <1>1, <2>2, <3>1, <3>2, KeepFacts
  <2>3. QED
    BY <2>1, <2>2
<1> HIDE DEF both
<1>3. Elems(both) = {p \in Elems(list) : /\ S = {} \/ Elems(p.states) \cap S # {}
                                         /\ T = {} \/ Elems(p.steps) \cap T # {}}
  BY <1>1, <1>2
<1>4. QED
  BY <1>1, <1>2, <1>3 DEF both, states

-----------------------------------------------------------------------------
(* The steps of a search: a move leaves what is ahead as it is, a record   *)
(* takes the path under construction, which is searched for, out of it.    *)
Move == DfsEnter \/ DfsDone \/ Restore \/ \E e \in DOMAIN graph : Follow(e) \/ Skip(e)
Record == DfsStop \/ DfsExhausted

LEMMA TargetFixed ==
  UNCHANGED <<graph, scenarios, cur>> => \A s, w : Target(scen, s, w)' <=> Target(scen, s, w)
<1> SUFFICES ASSUME UNCHANGED <<graph, scenarios, cur>>, NEW s, NEW w
             PROVE  Target(scen, s, w)' <=> Target(scen, s, w)
  OBVIOUS
<1>1. scen' = scen /\ graph' = graph
  BY DEF scen
<1>2. QED
  BY <1>1 DEF Target, ShortestOnly

LEMMA StartsAreNodes ==
  ASSUME IndInv
  PROVE  \A s \in Starts(scen) : s \in Nodes
  BY StatesAreNodes DEF Starts, StartStateNumSet

LEMMA SoughtTarget ==
  ASSUME NEW p
  PROVE  p \in Sought(graph, scen) <=>
           \E s \in Starts(scen) : \E w \in Walks(graph, s) :
             Target(scen, s, w) /\ p = PathOf(graph, s, w)
<1>1. p \in CompletePaths(graph, scen) <=>
        \E s \in Starts(scen) : \E w \in Walks(graph, s) :
          Complete(graph, StateNumSet(graph, scen.stop), s, w) /\ p = PathOf(graph, s, w)
  BY DEF CompletePaths, CompleteFrom, Starts
<1>2. QED
  BY <1>1 DEF Sought, Target, ShortestOnly

LEMMA PathOfInjective ==
  ASSUME NEW g \in Seq(Edge(Nodes, Steps)), NEW s \in Nodes, NEW t \in Nodes,
         NEW w \in Walks(g, s), NEW v \in Walks(g, t), PathOf(g, s, w) = PathOf(g, t, v)
  PROVE  s = t /\ w = v
<1>1. w = v /\ StatesOn(g, s, w) = StatesOn(g, t, v)
  BY DEF PathOf
<1>2. StatesOn(g, s, w)[1] = s /\ StatesOn(g, t, v)[1] = t
  BY WalkFacts, StatesOnFacts
<1>3. QED
  BY <1>1, <1>2

LEMMA MoveEffect ==
  ASSUME IndInv, PathInv, OkInv, Move
  PROVE  /\ stack # <<>> /\ stack' # <<>> /\ statePath'[1] = statePath[1]
         /\ pc \in {"enter", "loop", "return"} /\ pc' \in {"enter", "loop", "return"}
         /\ UNCHANGED <<graph, scenarios, cur, todo, chosen, scenariosPathsMap, paths,
                        bestDist, tmpPaths>>
         /\ \A s, w : Target(scen, s, w) => (Remains(s, w)' <=> Remains(s, w))
<1>1. /\ stack # <<>> /\ stack' # <<>> /\ statePath'[1] = statePath[1]
      /\ pc \in {"enter", "loop", "return"} /\ pc' \in {"enter", "loop", "return"}
      /\ UNCHANGED <<graph, scenarios, cur, todo, chosen, scenariosPathsMap, paths,
                     bestDist, tmpPaths>>
  <2>1. CASE DfsEnter \/ DfsDone
    BY <2>1 DEF DfsEnter, DfsDone, searchUnchanged, pathVars, IndInv, TypeOK
  <2>2. ASSUME NEW e \in DOMAIN graph, Skip(e) PROVE <1>1!:
    BY <2>2, SkipEffect
  <2>3. ASSUME NEW e \in DOMAIN graph, Follow(e) PROVE <1>1!:
    <3>1. Len(edgePath) \in Nat /\ \A j \in 1..(Len(edgePath) + 1) : statePath'[j] = statePath[j]
      BY <2>3, FollowEffect
    <3>2. statePath'[1] = statePath[1]
      BY <3>1
    <3>3. QED
      BY <2>3, <3>2, FollowEffect
  <2>4. CASE Restore
    <3>1. PICK p \in Nat, e \in DOMAIN graph :
         /\ stack # <<>> /\ pc = "return" /\ pc' = "loop"
         /\ UNCHANGED <<graph, scenarios, cur, todo, chosen, scenariosPathsMap, paths,
                        bestDist, tmpPaths>>
         /\ \A j \in 1..(p + 1) : statePath'[j] = statePath[j]
         /\ stack' # <<>>
      BY <2>4, RestoreEffect
    <3>2. statePath'[1] = statePath[1]
      BY <3>1
    <3>3. QED
      BY <3>1, <3>2
  <2>5. QED
    BY <2>1, <2>2, <2>3, <2>4 DEF Move
<1>2. ASSUME NEW w, Target(scen, statePath[1], w) PROVE Ahead(w)' <=> Ahead(w)
  BY <1>2, AheadEnter, AheadDone, AheadRestore, AheadFollow, AheadSkip DEF Move
<1>3. ASSUME NEW s, NEW w, Target(scen, s, w) PROVE Remains(s, w)' <=> Remains(s, w)
  <2>1. CASE s = statePath[1]
    BY <1>1, <1>2, <1>3, <2>1 DEF Remains
  <2>2. CASE s # statePath[1]
    BY <1>1, <2>2 DEF Remains
  <2>3. QED
    BY <2>1, <2>2
<1>4. QED
  BY <1>1, <1>3

LEMMA RecordTarget ==
  ASSUME IndInv, PathInv, OkInv, Record
  PROVE  Target(scen, statePath[1], edgePath) /\ Ahead(edgePath)
<1> DEFINE m == Len(edgePath)
           s == statePath[1]
<1>1. stack # <<>>
  BY DEF Record, DfsStop, DfsExhausted, IndInv, TypeOK
<1>2. /\ graph \in Seq(Edge(Nodes, Steps)) /\ s \in Nodes
      /\ edgePath \in Walks(graph, s) /\ StatesOn(graph, s, edgePath) = statePath
      /\ PathOf(graph, s, edgePath) = CurrentPath
  BY <1>1, CurrentWalk
<1>3. /\ m \in Nat /\ DOMAIN edgePath = 1..m /\ Len(statePath) = m + 1
      /\ Len(stack) = m + 1 /\ curState = statePath[m + 1]
  BY <1>1, SearchShape DEF curState
<1>4. EndOf(graph, s, edgePath) = curState
  BY <1>2, <1>3 DEF EndOf, Last
<1>5. Agrees(edgePath, m)
  BY <1>3 DEF Agrees
<1>6. stop = StateNumSet(graph, scen.stop)
  BY DEF stop
<1>7. Complete(graph, stop, s, edgePath) /\ Ahead(edgePath)
  <2>1. CASE DfsStop
    <3>1. AtStop /\ pc = "enter"
      BY <2>1 DEF DfsStop
    <3>2. Ahead(edgePath)
      BY <1>5, <3>1 DEF Ahead, Onward
    <3>3. CASE stop # {}
      <4>1. curState \in stop
        BY <3>1, <3>3 DEF AtStop
      <4>2. \A k \in DOMAIN edgePath : statePath[k] \notin stop
        BY <1>1, <1>3 DEF PathInv
      <4>3. QED
        BY <1>2, <1>4, <3>2, <3>3, <4>1, <4>2 DEF Complete
    <3>4. CASE stop = {}
      <4>1. OutEdges(graph, curState) = {}
        BY <3>1, <3>4 DEF AtStop
      <4>2. QED
        BY <1>4, <3>2, <3>4, <4>1 DEF Complete
    <3>5. QED
      BY <3>3, <3>4
  <2>2. CASE DfsExhausted
    <3>1. Pending = {} /\ ~top.ok /\ stop = {} /\ pc = "loop"
      BY <2>2 DEF DfsExhausted
    <3>2. Ahead(edgePath)
      BY <1>5, <3>1 DEF Ahead, Onward
    <3>3. OkAt(graph, top, curState, edgePath, m)
      <4>1. m + 1 \in 1..Len(stack) /\ (m + 1) - 1 = m
        BY <1>3
      <4>2. QED
        BY <1>3, <4>1 DEF OkInv, top
    <3>4. ASSUME NEW e \in OutEdges(graph, curState) PROVE Count(e, edgePath) = graph[e].repeat
      <4>1. e \in DOMAIN graph
        BY DEF OutEdges
      <4>2. e \in Nat /\ top.next \in Nat
        BY <1>1, <4>1, GraphFacts, SearchShape DEF Frame
      <4>3. e < top.next
        BY <3>1, <4>2 DEF Pending
      <4>4. CountTo(edgePath, e, m) >= graph[e].repeat
        BY <3>1, <3>3, <4>3 DEF OkAt
      <4>5. /\ repeatTime[e] \in Nat /\ CountTo(edgePath, e, m) \in Nat
            /\ graph[e].repeat \in Nat
            /\ repeatTime[e] + CountTo(edgePath, e, m) = graph[e].repeat
        BY <4>1, Budget
      <4>6. Count(e, edgePath) = CountTo(edgePath, e, m)
        BY <1>3 DEF Count, CountTo
      <4> HIDE DEF m
      <4>7. QED
        BY <4>4, <4>5, <4>6
    <3>5. QED
      BY <1>4, <3>1, <3>2, <3>4 DEF Complete
  <2>3. QED
    BY <2>1, <2>2 DEF Record
<1>8. ShortestOnly(scen) => Simple(PathOf(graph, s, edgePath))
  BY <1>1, <1>2, SimpleIsShort
<1>9. QED
  BY <1>2, <1>6, <1>7, <1>8 DEF Target

LEMMA RecordEffect ==
  ASSUME IndInv, PathInv, OkInv, Record
  PROVE  /\ stack # <<>> /\ RecordPath
         /\ UNCHANGED <<graph, scenarios, cur, todo, chosen, scenariosPathsMap,
                        statePath, edgePath, stack>>
         /\ pc \in {"enter", "loop"} /\ pc' = "return"
         /\ statePath[1] \in Starts(scen) \ todo
         /\ edgePath \in Walks(graph, statePath[1]) /\ Target(scen, statePath[1], edgePath)
         /\ PathOf(graph, statePath[1], edgePath) = CurrentPath
         /\ Remains(statePath[1], edgePath)
         /\ \A s, w : Target(scen, s, w) =>
              (Remains(s, w)' <=> Remains(s, w) /\ ~(s = statePath[1] /\ w = edgePath))
<1>1. /\ stack # <<>> /\ RecordPath
      /\ UNCHANGED <<graph, scenarios, cur, todo, chosen, scenariosPathsMap,
                     statePath, edgePath, stack>>
      /\ pc \in {"enter", "loop"} /\ pc' = "return"
  BY DEF Record, DfsStop, DfsExhausted, searchUnchanged, pathVars, IndInv, TypeOK
<1>2. statePath[1] \in Starts(scen) \ todo
  BY <1>1 DEF PathInv
<1>3. /\ edgePath \in Walks(graph, statePath[1])
      /\ PathOf(graph, statePath[1], edgePath) = CurrentPath
  BY <1>1, CurrentWalk
<1>4. Target(scen, statePath[1], edgePath) /\ Remains(statePath[1], edgePath)
  BY <1>1, RecordTarget DEF Remains
<1>5. ASSUME NEW w, Target(scen, statePath[1], w) PROVE Ahead(w)' <=> Ahead(w) /\ w # edgePath
  BY <1>5, AheadStop, AheadExhausted DEF Record
<1>6. ASSUME NEW s, NEW w, Target(scen, s, w)
      PROVE  Remains(s, w)' <=> Remains(s, w) /\ ~(s = statePath[1] /\ w = edgePath)
  <2>1. CASE s = statePath[1]
    BY <1>1, <1>5, <1>6, <2>1 DEF Remains
  <2>2. CASE s # statePath[1]
    BY <1>1, <2>2 DEF Remains
  <2>3. QED
    BY <2>1, <2>2
<1>7. QED
  BY <1>1, <1>2, <1>3, <1>4, <1>6

-----------------------------------------------------------------------------
(* The steps that begin and end the search from one start state.           *)
LEMMA StartRemains ==
  ASSUME IndInv, StartState
  PROVE  \E t \in todo :
           /\ pc = "start" /\ pc' = "enter" /\ stack = <<>> /\ stack' # <<>>
           /\ UNCHANGED <<graph, scenarios, cur, chosen, scenariosPathsMap, paths, tmpPaths>>
           /\ todo' = todo \ {t} /\ statePath'[1] = t
           /\ alg \in N2NAlgos => \A n \in States(graph) : bestDist'[alg][n] = Extreme(alg)
           /\ \A s, w : ~Remains(s, w)
           /\ \A s \in Nodes : \A w \in Walks(graph, s) : Remains(s, w)' <=> s = t
<1>1. PICK t \in todo :
         /\ pc = "start" /\ pc' = "enter" /\ stack = <<>>
         /\ edgePath = <<>> /\ Len(edgePath) = 0
         /\ UNCHANGED <<graph, scenarios, cur, edgePath, chosen, scenariosPathsMap, paths, tmpPaths>>
         /\ todo' = todo \ {t} /\ statePath'[1] = t /\ stack' # <<>>
         /\ alg \in N2NAlgos => \A n \in States(graph) : bestDist'[alg][n] = Extreme(alg)
  BY StartEffect
<1>2. \A s, w : ~Remains(s, w)
  BY <1>1 DEF Remains
<1>3. ASSUME NEW s \in Nodes, NEW w \in Walks(graph, s) PROVE Remains(s, w)' <=> s = t
  <2>1. Len(w) \in Nat
    BY WalkFacts DEF IndInv, TypeOK
  <2>2. Agrees(w, Len(edgePath))'
    BY <1>1, <2>1 DEF Agrees
  <2>3. Ahead(w)'
    BY <1>1, <2>2 DEF Ahead, Onward
  <2>4. QED
    BY <1>1, <2>3 DEF Remains
<1>4. QED
  BY <1>1, <1>2, <1>3

LEMMA EndRemains ==
  ASSUME IndInv, EndStart
  PROVE  /\ pc = "return" /\ pc' = "start" /\ stack # <<>> /\ stack' = <<>>
         /\ UNCHANGED <<graph, scenarios, cur, todo, chosen, scenariosPathsMap, bestDist>>
         /\ IF alg \in N2NAlgos
            THEN /\ tmpPaths' = [tmpPaths EXCEPT ![alg] = BestOfRound(alg)]
                 /\ paths' = AddAll(paths, BestOfRound(alg))
            ELSE UNCHANGED <<tmpPaths, paths>>
         /\ \A s, w : ~Remains(s, w) /\ ~Remains(s, w)'
<1>1. /\ pc = "return" /\ pc' = "start" /\ stack # <<>> /\ stack' = <<>>
      /\ UNCHANGED <<graph, scenarios, cur, todo, chosen, scenariosPathsMap, bestDist>>
      /\ IF alg \in N2NAlgos
         THEN /\ tmpPaths' = [tmpPaths EXCEPT ![alg] = BestOfRound(alg)]
              /\ paths' = AddAll(paths, BestOfRound(alg))
         ELSE UNCHANGED <<tmpPaths, paths>>
  BY DEF EndStart, searchUnchanged, IndInv, TypeOK
<1>2. \A s, w : ~Remains(s, w)
  BY AheadEnd DEF Remains
<1>3. \A s, w : ~Remains(s, w)'
  BY <1>1 DEF Remains
<1>4. QED
  BY <1>1, <1>2, <1>3

LEMMA FoundAllNext ==
  ASSUME IndInv, PathInv, OkInv, ListInv, FoundAll, Next
  PROVE  FoundAll'
<1>0. graph \in Seq(Edge(Nodes, Steps)) /\ \A s \in Starts(scen) : s \in Nodes
  BY StartsAreNodes DEF IndInv, TypeOK
<1>1. CASE Move
  <2>1. /\ pc \in {"enter", "loop", "return"}
        /\ UNCHANGED <<graph, scenarios, cur, todo, paths>>
        /\ \A s, w : Target(scen, s, w) => (Remains(s, w)' <=> Remains(s, w))
    BY <1>1, MoveEffect
  <2>2. alg' = alg /\ Starts(scen)' = Starts(scen)
        /\ \A s, w : Target(scen, s, w)' <=> Target(scen, s, w)
    BY <2>1, ScenFixed, TargetFixed
  <2>3. CASE alg \notin N2NAlgos
    <3>1. /\ \A s \in Starts(scen) : \A w \in Walks(graph, s) : Target(scen, s, w) =>
               s \in todo \/ Remains(s, w) \/ PathOf(graph, s, w) \in Elems(paths)
          /\ \A p \in Elems(paths) : \E s \in Starts(scen) \ todo : \E w \in Walks(graph, s) :
               Target(scen, s, w) /\ p = PathOf(graph, s, w) /\ ~Remains(s, w)
          /\ Distinct(paths)
      BY <2>1, <2>3 DEF FoundAll, Searching
    <3>2. \A s \in Starts(scen) : \A w \in Walks(graph, s) : Target(scen, s, w) =>
             s \in todo \/ Remains(s, w)' \/ PathOf(graph, s, w) \in Elems(paths)
      BY <2>1, <3>1
    <3>3. \A p \in Elems(paths) : \E s \in Starts(scen) \ todo : \E w \in Walks(graph, s) :
               Target(scen, s, w) /\ p = PathOf(graph, s, w) /\ ~Remains(s, w)'
      BY <2>1, <3>1
    <3>4. QED
      BY <2>1, <2>2, <3>1, <3>2, <3>3 DEF FoundAll
  <2>4. QED
    BY <2>2, <2>3 DEF FoundAll
<1>2. CASE Record
  <2>1. /\ pc \in {"enter", "loop"} /\ RecordPath
        /\ UNCHANGED <<graph, scenarios, cur, todo>>
        /\ statePath[1] \in Starts(scen) \ todo
        /\ edgePath \in Walks(graph, statePath[1]) /\ Target(scen, statePath[1], edgePath)
        /\ PathOf(graph, statePath[1], edgePath) = CurrentPath
        /\ Remains(statePath[1], edgePath)
        /\ \A s, w : Target(scen, s, w) =>
             (Remains(s, w)' <=> Remains(s, w) /\ ~(s = statePath[1] /\ w = edgePath))
    BY <1>2, RecordEffect
  <2>2. alg' = alg /\ Starts(scen)' = Starts(scen)
        /\ \A s, w : Target(scen, s, w)' <=> Target(scen, s, w)
    BY <2>1, ScenFixed, TargetFixed
  <2>3. CASE alg \notin N2NAlgos
    <3>1. /\ \A s \in Starts(scen) : \A w \in Walks(graph, s) : Target(scen, s, w) =>
               s \in todo \/ Remains(s, w) \/ PathOf(graph, s, w) \in Elems(paths)
          /\ \A p \in Elems(paths) : \E s \in Starts(scen) \ todo : \E w \in Walks(graph, s) :
               Target(scen, s, w) /\ p = PathOf(graph, s, w) /\ ~Remains(s, w)
          /\ Distinct(paths)
      BY <2>1, <2>3 DEF FoundAll, Searching
    <3>2. paths' = Add(paths, CurrentPath) /\ IsList(paths)
      BY <2>1, <2>3 DEF RecordPath, AddPath, AddTmpPath, ListInv
    <3>3. CurrentPath \notin Elems(paths)
      <4> SUFFICES ASSUME CurrentPath \in Elems(paths) PROVE FALSE
        OBVIOUS
      <4>0. PICK s \in Starts(scen) \ todo : \E w \in Walks(graph, s) :
               CurrentPath = PathOf(graph, s, w) /\ ~Remains(s, w)
        BY <3>1
      <4>1. PICK w \in Walks(graph, s) : CurrentPath = PathOf(graph, s, w) /\ ~Remains(s, w)
        BY <4>0
      <4>2. s = statePath[1] /\ w = edgePath
        BY <1>0, <2>1, <4>1, PathOfInjective
      <4>3. QED
        BY <2>1, <4>1, <4>2
    <3>4. Elems(paths)' = Elems(paths) \cup {CurrentPath} /\ Distinct(paths)'
      BY <3>1, <3>2, <3>3, AddFacts
    <3>5. ASSUME NEW s \in Starts(scen), NEW w \in Walks(graph, s), Target(scen, s, w)
          PROVE  s \in todo \/ Remains(s, w)' \/ PathOf(graph, s, w) \in Elems(paths)'
      BY <2>1, <3>1, <3>4, <3>5
    <3>6. ASSUME NEW p \in Elems(paths)'
          PROVE  \E s \in Starts(scen) \ todo : \E w \in Walks(graph, s) :
                   Target(scen, s, w) /\ p = PathOf(graph, s, w) /\ ~Remains(s, w)'
      <4>1. CASE p = CurrentPath
        BY <2>1, <4>1
      <4>2. CASE p \in Elems(paths)
        <5>0. PICK s \in Starts(scen) \ todo : \E w \in Walks(graph, s) :
                 Target(scen, s, w) /\ p = PathOf(graph, s, w) /\ ~Remains(s, w)
          BY <3>1, <4>2
        <5>1. PICK w \in Walks(graph, s) :
                 Target(scen, s, w) /\ p = PathOf(graph, s, w) /\ ~Remains(s, w)
          BY <5>0
        <5>2. ~Remains(s, w)'
          BY <2>1, <5>1
        <5>3. QED
          BY <5>1, <5>2
      <4>3. QED
        BY <3>4, <3>6, <4>1, <4>2
    <3>7. QED
      BY <2>1, <2>2, <3>4, <3>5, <3>6 DEF FoundAll
  <2>4. QED
    BY <2>2, <2>3 DEF FoundAll
<1>3. CASE StartState
  <2>1. PICK t \in todo :
           /\ pc = "start"
           /\ UNCHANGED <<graph, scenarios, cur, paths>>
           /\ todo' = todo \ {t}
           /\ \A s, w : ~Remains(s, w)
           /\ \A s \in Nodes : \A w \in Walks(graph, s) : Remains(s, w)' <=> s = t
    BY <1>3, StartRemains
  <2>2. alg' = alg /\ Starts(scen)' = Starts(scen)
        /\ \A s, w : Target(scen, s, w)' <=> Target(scen, s, w)
    BY <2>1, ScenFixed, TargetFixed
  <2>3. CASE alg \notin N2NAlgos
    <3>1. /\ \A s \in Starts(scen) : \A w \in Walks(graph, s) : Target(scen, s, w) =>
               s \in todo \/ Remains(s, w) \/ PathOf(graph, s, w) \in Elems(paths)
          /\ \A p \in Elems(paths) : \E s \in Starts(scen) \ todo : \E w \in Walks(graph, s) :
               Target(scen, s, w) /\ p = PathOf(graph, s, w) /\ ~Remains(s, w)
          /\ Distinct(paths)
      BY <2>1, <2>3 DEF FoundAll, Searching
    <3>2. \A s \in Starts(scen) : \A w \in Walks(graph, s) : Target(scen, s, w) =>
             s \in todo' \/ Remains(s, w)' \/ PathOf(graph, s, w) \in Elems(paths)
      BY <1>0, <2>1, <3>1
    <3>3. ASSUME NEW p \in Elems(paths)
          PROVE  \E s \in Starts(scen) \ todo' : \E w \in Walks(graph, s) :
                   Target(scen, s, w) /\ p = PathOf(graph, s, w) /\ ~Remains(s, w)'
      <4>0. PICK s \in Starts(scen) \ todo : \E w \in Walks(graph, s) :
               Target(scen, s, w) /\ p = PathOf(graph, s, w)
        BY <3>1
      <4>1. PICK w \in Walks(graph, s) : Target(scen, s, w) /\ p = PathOf(graph, s, w)
        BY <4>0
      <4>2. s \in Starts(scen) \ todo' /\ ~Remains(s, w)'
        BY <1>0, <2>1
      <4>3. QED
        BY <4>1, <4>2
    <3>4. QED
      BY <2>1, <2>2, <3>1, <3>2, <3>3 DEF FoundAll
  <2>4. QED
    BY <2>2, <2>3 DEF FoundAll
<1>4. CASE EndStart
  <2>1. /\ pc = "return"
        /\ UNCHANGED <<graph, scenarios, cur, todo>>
        /\ alg \notin N2NAlgos => paths' = paths
        /\ \A s, w : ~Remains(s, w) /\ ~Remains(s, w)'
    BY <1>4, EndRemains
  <2>2. alg' = alg /\ Starts(scen)' = Starts(scen)
        /\ \A s, w : Target(scen, s, w)' <=> Target(scen, s, w)
    BY <2>1, ScenFixed, TargetFixed
  <2>3. CASE alg \notin N2NAlgos
    <3>1. /\ \A s \in Starts(scen) : \A w \in Walks(graph, s) : Target(scen, s, w) =>
               s \in todo \/ Remains(s, w) \/ PathOf(graph, s, w) \in Elems(paths)
          /\ \A p \in Elems(paths) : \E s \in Starts(scen) \ todo : \E w \in Walks(graph, s) :
               Target(scen, s, w) /\ p = PathOf(graph, s, w) /\ ~Remains(s, w)
          /\ Distinct(paths)
      BY <2>1, <2>3 DEF FoundAll, Searching
    <3>2. QED
      BY <2>1, <2>2, <2>3, <3>1 DEF FoundAll
  <2>4. QED
    BY <2>2, <2>3 DEF FoundAll
<1>5. CASE GenPath
  <2>1. UNCHANGED <<graph, scenarios, cur>> /\ paths' = <<>> /\ todo' = Starts(scen)
    BY <1>5 DEF GenPath, Starts
  <2>2. Starts(scen)' = Starts(scen) /\ Elems(paths') = {} /\ Distinct(paths')
    BY <2>1, ScenFixed, EmptyList
  <2>3. QED
    BY <2>1, <2>2 DEF FoundAll
<1>6. CASE FinishAll \/ FinishDist \/ FinishLeast \/ CoverDone \/ (\E i \in DOMAIN paths : CoverRound(i))
  <2>1. pc' \in {"idle", "cover"}
    BY <1>6 DEF FinishAll, FinishDist, FinishLeast, CoverDone, CoverRound, Deliver
  <2>2. QED
    BY <2>1 DEF FoundAll, Searching
<1>7. CASE Returned
  <2>1. pc' = "idle"
    BY <1>7 DEF Returned, Done, vars
  <2>2. QED
    BY <2>1 DEF FoundAll, Searching
<1>8. QED
  BY <1>1, <1>2, <1>3, <1>4, <1>5, <1>6, <1>7 DEF Next, Move, Record

-----------------------------------------------------------------------------
(* The N2N searches: the distance of a round is that of a path to the same *)
(* last state, so no best path is turned down or dropped.                  *)
LEMMA EndInStates ==
  ASSUME NEW g \in Seq(Edge(Nodes, Steps)), NEW s \in States(g), NEW w \in Walks(g, s)
  PROVE  EndOf(g, s, w) \in States(g)
<1>1. s \in Nodes
  BY EdgeFacts DEF States
<1>2. /\ Len(w) \in Nat /\ w \in Seq(DOMAIN g) /\ \A k \in 1..Len(w) : w[k] \in DOMAIN g
  BY <1>1, WalkFacts
<1>3. /\ EndOf(g, s, w) = StatesOn(g, s, w)[Len(w) + 1]
      /\ StatesOn(g, s, w)[1] = s
      /\ \A k \in 1..Len(w) : StatesOn(g, s, w)[k + 1] = g[w[k]].to
  BY <1>1, <1>2, StatesOnFacts
<1>4. CASE Len(w) = 0
  BY <1>3, <1>4
<1>5. CASE Len(w) # 0
  <2>1. Len(w) \in 1..Len(w)
    BY <1>2, <1>5
  <2>2. QED
    BY <1>2, <1>3, <2>1 DEF States
<1>6. QED
  BY <1>4, <1>5

LEMMA PathFacts ==
  ASSUME NEW g \in Seq(Edge(Nodes, Steps)), NEW s \in Nodes, NEW w \in Walks(g, s)
  PROVE  /\ Len(w) \in Nat
         /\ PathOf(g, s, w).edges = w
         /\ Len(PathOf(g, s, w).states) = Len(w) + 1
         /\ Len(PathOf(g, s, w).steps) = Len(w)
         /\ PathOf(g, s, w).states[1] = s
         /\ Last(PathOf(g, s, w).states) = EndOf(g, s, w)
<1>1. PathOf(g, s, w) = [states |-> StatesOn(g, s, w), edges |-> w, steps |-> StepsOn(g, w)]
  BY DEF PathOf
<1>2. w \in Seq(DOMAIN g) /\ Len(w) \in Nat
  BY WalkFacts
<1>3. QED
  BY <1>1, <1>2, StatesOnFacts DEF EndOf

LEMMA BestFacts ==
  ASSUME IndInv, NEW s \in Starts(scen), NEW w \in Walks(graph, s), NEW v \in Walks(graph, s),
         BestOfPair(graph, scen, PathOf(graph, s, w)), Target(scen, s, v),
         EndOf(graph, s, v) = EndOf(graph, s, w)
  PROVE  IF alg \in {"long", "longn2n"} THEN Len(v) <= Len(w) ELSE Len(w) <= Len(v)
<1>1. graph \in Seq(Edge(Nodes, Steps)) /\ s \in Nodes
  BY StartsAreNodes DEF IndInv, TypeOK
<1>2. /\ Len(w) \in Nat
      /\ PathOf(graph, s, w).edges = w
      /\ PathOf(graph, s, w).states[1] = s
      /\ Last(PathOf(graph, s, w).states) = EndOf(graph, s, w)
  BY <1>1, PathFacts
<1>3. /\ Len(v) \in Nat
      /\ PathOf(graph, s, v).edges = v
      /\ PathOf(graph, s, v).states[1] = s
      /\ Last(PathOf(graph, s, v).states) = EndOf(graph, s, v)
  BY <1>1, PathFacts
<1>4. PathOf(graph, s, v) \in Sought(graph, scen)
  BY SoughtTarget
<1>5. ~Beats(alg, PathOf(graph, s, v), PathOf(graph, s, w))
  BY <1>2, <1>3, <1>4 DEF BestOfPair, alg
<1>6. QED
  BY <1>2, <1>3, <1>5 DEF Beats

LEMMA RoundBest ==
  ASSUME IndInv, PathInv, FoundBest, Searching, alg \in N2NAlgos, stack # <<>>,
         NEW w \in Walks(graph, statePath[1]), Target(scen, statePath[1], w),
         BestOfPair(graph, scen, PathOf(graph, statePath[1], w))
  PROVE  /\ EndOf(graph, statePath[1], w) \in States(graph)
         /\ alg = "shortn2n" => bestDist["shortn2n"][EndOf(graph, statePath[1], w)] >= Len(w) + 1
         /\ alg = "longn2n"  => bestDist["longn2n"][EndOf(graph, statePath[1], w)] <= Len(w) + 1
<1> DEFINE s == statePath[1]
           n == EndOf(graph, s, w)
           d == bestDist[alg][n]
<1>1. s \in Starts(scen) /\ s \in States(graph) /\ s \in Nodes
  BY StartsAreNodes DEF PathInv, Starts, StartStateNumSet
<1>2. graph \in Seq(Edge(Nodes, Steps))
  BY DEF IndInv, TypeOK
<1>3. n \in States(graph) /\ Len(w) \in Nat
  BY <1>1, <1>2, EndInStates, WalkFacts
<1>4. \/ d = Extreme(alg)
      \/ \E v \in Walks(graph, s) : Target(scen, s, v) /\ EndOf(graph, s, v) = n /\ d = Len(v) + 1
  BY <1>3 DEF FoundBest, RoundDist
<1> HIDE DEF s, n, d
<1>5. CASE d = Extreme(alg)
  <2>1. CASE alg = "shortn2n"
    <3>1. Simple(PathOf(graph, s, w))
      BY <2>1, AlgOf DEF Target, s
    <3>2. Len(w) + 1 <= MaxPathDist
      BY <1>1, <1>2, <3>1, SimpleBound DEF s
    <3>3. d = MaxPathDist
      BY <1>5, <2>1 DEF Extreme
    <3>4. d >= Len(w) + 1
      BY <1>3, <3>2, <3>3 DEF MaxPathDist
    <3>5. QED
      BY <1>3, <2>1, <3>4 DEF d, n, s
  <2>2. CASE alg = "longn2n"
    <3>1. d = -1
      BY <1>5, <2>2 DEF Extreme, MinPathDist
    <3>2. d <= Len(w) + 1
      BY <1>3, <3>1
    <3>3. QED
      BY <1>3, <2>2, <3>2 DEF d, n, s
  <2>3. QED
    BY <2>1, <2>2 DEF N2NAlgos
<1>6. CASE \E v \in Walks(graph, s) : Target(scen, s, v) /\ EndOf(graph, s, v) = n /\ d = Len(v) + 1
  <2>1. PICK v \in Walks(graph, s) : Target(scen, s, v) /\ EndOf(graph, s, v) = n /\ d = Len(v) + 1
    BY <1>6
  <2>2. Len(v) \in Nat
    BY <1>1, <1>2, <2>1, WalkFacts
  <2>3. IF alg \in {"long", "longn2n"} THEN Len(v) <= Len(w) ELSE Len(w) <= Len(v)
    BY <1>1, <2>1, BestFacts DEF n, s
  <2>4. alg = "shortn2n" => d >= Len(w) + 1
    BY <1>3, <2>1, <2>2, <2>3
  <2>5. alg = "longn2n" => d <= Len(w) + 1
    BY <1>3, <2>1, <2>2, <2>3
  <2>6. QED
    BY <1>3, <2>4, <2>5 DEF d, n, s
<1>7. QED
  BY <1>4, <1>5, <1>6

(* The search keeps a best path when it finds it.                          *)
LEMMA BestAccepted ==
  ASSUME IndInv, PathInv, OkInv, FoundBest, Record, alg \in N2NAlgos,
         BestOfPair(graph, scen, CurrentPath)
  PROVE  Accepts
<1>1. /\ stack # <<>> /\ pc \in {"enter", "loop"}
      /\ edgePath \in Walks(graph, statePath[1]) /\ Target(scen, statePath[1], edgePath)
      /\ PathOf(graph, statePath[1], edgePath) = CurrentPath
  BY RecordEffect
<1>2. StatesOn(graph, statePath[1], edgePath) = statePath
  BY <1>1, CurrentWalk
<1>3. EndOf(graph, statePath[1], edgePath) = curState /\ Len(statePath) = Len(edgePath) + 1
  BY <1>1, <1>2, SearchShape DEF EndOf, Last, curState
<1>4. Searching
  BY <1>1 DEF Searching
<1>5. /\ alg = "shortn2n" => bestDist["shortn2n"][curState] >= Len(statePath)
      /\ alg = "longn2n"  => bestDist["longn2n"][curState] <= Len(statePath)
  BY <1>1, <1>3, <1>4, RoundBest
<1>6. QED
  BY <1>5 DEF Accepts, ShortN2NAccepts, LongN2NAccepts, N2NAlgos

(* The end of a round drops no best path.                                  *)
LEMMA BestKept ==
  ASSUME IndInv, PathInv, FoundBest, ListInv, Searching, alg \in N2NAlgos, stack # <<>>,
         NEW w \in Walks(graph, statePath[1]), Target(scen, statePath[1], w),
         BestOfPair(graph, scen, PathOf(graph, statePath[1], w)),
         PathOf(graph, statePath[1], w) \in Elems(tmpPaths[alg])
  PROVE  PathOf(graph, statePath[1], w) \in Elems(BestOfRound(alg))
<1> DEFINE s == statePath[1]
           p == PathOf(graph, s, w)
<1>1. graph \in Seq(Edge(Nodes, Steps)) /\ s \in Nodes
  BY CurrentWalk
<1>2. Len(p.states) = Len(w) + 1 /\ Last(p.states) = EndOf(graph, s, w) /\ Len(w) \in Nat
  BY <1>1, PathFacts
<1>3. /\ EndOf(graph, s, w) \in States(graph)
      /\ alg = "shortn2n" => bestDist["shortn2n"][EndOf(graph, s, w)] >= Len(w) + 1
      /\ alg = "longn2n"  => bestDist["longn2n"][EndOf(graph, s, w)] <= Len(w) + 1
  BY RoundBest
<1>4. /\ bestDist["shortn2n"][EndOf(graph, s, w)] \in Int
      /\ bestDist["longn2n"][EndOf(graph, s, w)] \in Int
  BY <1>3 DEF IndInv, TypeOK, N2NAlgos
<1>5. PICK i \in DOMAIN tmpPaths[alg] : tmpPaths[alg][i] = p
  BY DEF Elems
<1>6. IsList(tmpPaths[alg])
  BY DEF ListInv
<1> HIDE DEF s, p
<1>7. CASE alg = "shortn2n"
  <2> DEFINE I == {j \in DOMAIN tmpPaths[alg] :
                     ~(bestDist["shortn2n"][Last(tmpPaths[alg][j].states)] < Len(tmpPaths[alg][j].states))}
  <2>1. BestOfRound(alg) = Keep(tmpPaths[alg], I)
    BY <1>7 DEF BestOfRound, DeleteLongPathN2N
  <2>2. i \in I
    BY <1>2, <1>3, <1>4, <1>5, <1>7
  <2>3. I \subseteq DOMAIN tmpPaths[alg]
    OBVIOUS
  <2> HIDE DEF I
  <2>4. QED
    BY <1>5, <1>6, <2>1, <2>2, <2>3, KeepFacts DEF p, s
<1>8. CASE alg = "longn2n"
  <2> DEFINE I == {j \in DOMAIN tmpPaths[alg] :
                     ~(bestDist["longn2n"][Last(tmpPaths[alg][j].states)] > Len(tmpPaths[alg][j].states))}
  <2>1. BestOfRound(alg) = Keep(tmpPaths[alg], I)
    BY <1>8 DEF BestOfRound, DeleteShortPathN2N
  <2>2. i \in I
    BY <1>2, <1>3, <1>4, <1>5, <1>8
  <2>3. I \subseteq DOMAIN tmpPaths[alg]
    OBVIOUS
  <2> HIDE DEF I
  <2>4. QED
    BY <1>5, <1>6, <2>1, <2>2, <2>3, KeepFacts DEF p, s
<1>9. QED
  BY <1>7, <1>8 DEF N2NAlgos

LEMMA BestOfRoundList ==
  ASSUME ListInv, alg \in N2NAlgos
  PROVE  IsList(BestOfRound(alg))
<1>1. IsList(tmpPaths[alg])
  BY DEF ListInv
<1>2. \A list : IsList(list) => IsList(DeleteLongPathN2N(list)) /\ IsList(DeleteShortPathN2N(list))
  BY DEF DeleteLongPathN2N, DeleteShortPathN2N, IsList, Keep
<1>3. QED
  BY <1>1, <1>2 DEF BestOfRound

LEMMA BestFixed ==
  UNCHANGED <<graph, scenarios, cur>> =>
    \A p : BestOfPair(graph, scen, p)' <=> BestOfPair(graph, scen, p)
<1> SUFFICES ASSUME UNCHANGED <<graph, scenarios, cur>>, NEW p
             PROVE  BestOfPair(graph, scen, p)' <=> BestOfPair(graph, scen, p)
  OBVIOUS
<1>1. scen' = scen /\ graph' = graph
  BY DEF scen
<1>2. QED
  BY <1>1 DEF BestOfPair

LEMMA BestRecord ==
  ASSUME IndInv, PathInv, OkInv, ListInv, FoundBest, Record, alg \in N2NAlgos
  PROVE  BestFound' /\ RoundDist'
<1>1. /\ stack # <<>> /\ RecordPath
      /\ UNCHANGED <<graph, scenarios, cur, todo, statePath, edgePath, stack>>
      /\ pc \in {"enter", "loop"}
      /\ statePath[1] \in Starts(scen) \ todo
      /\ edgePath \in Walks(graph, statePath[1]) /\ Target(scen, statePath[1], edgePath)
      /\ PathOf(graph, statePath[1], edgePath) = CurrentPath
      /\ \A s, w : Target(scen, s, w) =>
           (Remains(s, w)' <=> Remains(s, w) /\ ~(s = statePath[1] /\ w = edgePath))
  BY RecordEffect
<1>2. /\ alg' = alg /\ Starts(scen)' = Starts(scen)
      /\ \A s, w : Target(scen, s, w)' <=> Target(scen, s, w)
      /\ \A p : BestOfPair(graph, scen, p)' <=> BestOfPair(graph, scen, p)
  BY <1>1, ScenFixed, TargetFixed, BestFixed
<1>3. BestFound /\ RoundDist
  BY <1>1 DEF FoundBest, Searching
<1>4. paths' = paths
  BY <1>1 DEF RecordPath, AddPath, AddTmpPath
<1>5. IsList(tmpPaths[alg])
  BY DEF ListInv
<1>6. CASE ~Accepts
  <2>1. UNCHANGED <<bestDist, tmpPaths>>
    BY <1>1, <1>6 DEF RecordPath, AddPath, AddTmpPath
  <2>2. ~BestOfPair(graph, scen, CurrentPath)
    BY <1>6, BestAccepted
  <2>3. RoundDist'
    BY <1>1, <1>2, <1>3, <2>1 DEF RoundDist
  <2>4. ASSUME NEW s \in Starts(scen), NEW w \in Walks(graph, s), Target(scen, s, w),
               BestOfPair(graph, scen, PathOf(graph, s, w))
        PROVE  \/ s \in todo \/ Remains(s, w)'
               \/ stack # <<>> /\ s = statePath[1] /\ PathOf(graph, s, w) \in Elems(tmpPaths[alg])
               \/ PathOf(graph, s, w) \in Elems(paths)
    <3>1. ~(s = statePath[1] /\ w = edgePath)
      BY <1>1, <2>2, <2>4
    <3>2. Remains(s, w)' <=> Remains(s, w)
      BY <1>1, <2>4, <3>1
    <3>3. QED
      BY <1>3, <2>4, <3>2 DEF BestFound
  <2>5. BestFound'
    BY <1>1, <1>2, <1>4, <2>1, <2>4 DEF BestFound
  <2>6. QED
    BY <2>3, <2>5
<1>7. CASE Accepts
  <2>1. /\ bestDist' = [bestDist EXCEPT ![alg][curState] = Len(statePath)]
        /\ tmpPaths' = [tmpPaths EXCEPT ![alg] = Add(@, CurrentPath)]
    BY <1>1, <1>7 DEF RecordPath, AddPath, AddTmpPath
  <2>2. tmpPaths'[alg] = Add(tmpPaths[alg], CurrentPath)
    BY <2>1 DEF ListInv
  <2>3. Elems(tmpPaths'[alg]) = Elems(tmpPaths[alg]) \cup {CurrentPath}
    BY <1>5, <2>2, AddFacts
  <2>4. ASSUME NEW s \in Starts(scen), NEW w \in Walks(graph, s), Target(scen, s, w),
               BestOfPair(graph, scen, PathOf(graph, s, w))
        PROVE  \/ s \in todo \/ Remains(s, w)'
               \/ stack # <<>> /\ s = statePath[1] /\ PathOf(graph, s, w) \in Elems(tmpPaths'[alg])
               \/ PathOf(graph, s, w) \in Elems(paths)
    <3>1. CASE s = statePath[1] /\ w = edgePath
      BY <1>1, <2>3, <3>1
    <3>2. CASE ~(s = statePath[1] /\ w = edgePath)
      <4>1. Remains(s, w)' <=> Remains(s, w)
        BY <1>1, <2>4, <3>2
      <4>2. QED
        BY <1>3, <2>3, <2>4, <4>1 DEF BestFound
    <3>3. QED
      BY <3>1, <3>2
  <2>5. BestFound'
    BY <1>1, <1>2, <1>4, <2>4 DEF BestFound
  <2>6. /\ EndOf(graph, statePath[1], edgePath) = curState
        /\ Len(statePath) = Len(edgePath) + 1
    <3>1. StatesOn(graph, statePath[1], edgePath) = statePath
      BY <1>1, CurrentWalk
    <3>2. QED
      BY <1>1, <3>1, SearchShape DEF EndOf, Last, curState
  <2>7. ASSUME NEW n \in States(graph)
        PROVE  \/ bestDist'[alg][n] = Extreme(alg)
               \/ \E w \in Walks(graph, statePath[1]) :
                    /\ Target(scen, statePath[1], w)
                    /\ EndOf(graph, statePath[1], w) = n
                    /\ bestDist'[alg][n] = Len(w) + 1
    <3>1. bestDist \in [N2NAlgos -> [States(graph) -> Int]]
      BY DEF IndInv, TypeOK
    <3>2. bestDist'[alg][n] = IF n = curState THEN Len(statePath) ELSE bestDist[alg][n]
      BY <2>1, <3>1
    <3>3. CASE n = curState
      BY <1>1, <2>6, <3>2, <3>3
    <3>4. CASE n # curState
      BY <1>3, <3>2, <3>4 DEF RoundDist
    <3>5. QED
      BY <3>3, <3>4
  <2>8. Extreme(alg)' = Extreme(alg)
    BY <1>2
  <2>9. RoundDist'
    BY <1>1, <1>2, <2>7, <2>8 DEF RoundDist
  <2>10. QED
    BY <2>5, <2>9
<1>8. QED
  BY <1>6, <1>7

LEMMA FoundBestNext ==
  ASSUME IndInv, PathInv, OkInv, ListInv, FoundBest, Next
  PROVE  FoundBest'
<1>0. graph \in Seq(Edge(Nodes, Steps)) /\ \A s \in Starts(scen) : s \in Nodes
  BY StartsAreNodes DEF IndInv, TypeOK
<1>1. CASE Move
  <2>1. /\ pc \in {"enter", "loop", "return"} /\ stack # <<>> /\ stack' # <<>>
        /\ UNCHANGED <<graph, scenarios, cur, todo, paths, bestDist, tmpPaths>>
        /\ statePath'[1] = statePath[1]
        /\ \A s, w : Target(scen, s, w) => (Remains(s, w)' <=> Remains(s, w))
    BY <1>1, MoveEffect
  <2>2. /\ alg' = alg /\ Starts(scen)' = Starts(scen)
        /\ \A s, w : Target(scen, s, w)' <=> Target(scen, s, w)
        /\ \A p : BestOfPair(graph, scen, p)' <=> BestOfPair(graph, scen, p)
    BY <2>1, ScenFixed, TargetFixed, BestFixed
  <2>3. CASE alg \in N2NAlgos
    <3>1. BestFound /\ RoundDist
      BY <2>1, <2>3 DEF FoundBest, Searching
    <3>2. RoundDist'
      BY <2>1, <2>2, <3>1 DEF RoundDist
    <3>3. BestFound'
      BY <2>1, <2>2, <3>1 DEF BestFound
    <3>4. QED
      BY <3>2, <3>3 DEF FoundBest
  <2>4. QED
    BY <2>2, <2>3 DEF FoundBest
<1>2. CASE Record
  <2>1. UNCHANGED <<graph, scenarios, cur>>
    BY <1>2, RecordEffect
  <2>2. alg' = alg
    BY <2>1, ScenFixed
  <2>3. QED
    BY <1>2, <2>2, BestRecord DEF FoundBest
<1>3. CASE StartState
  <2>1. PICK t \in todo :
           /\ pc = "start" /\ stack = <<>> /\ stack' # <<>>
           /\ UNCHANGED <<graph, scenarios, cur, paths, tmpPaths>>
           /\ todo' = todo \ {t} /\ statePath'[1] = t
           /\ alg \in N2NAlgos => \A n \in States(graph) : bestDist'[alg][n] = Extreme(alg)
           /\ \A s, w : ~Remains(s, w)
           /\ \A s \in Nodes : \A w \in Walks(graph, s) : Remains(s, w)' <=> s = t
    BY <1>3, StartRemains
  <2>2. /\ alg' = alg /\ Starts(scen)' = Starts(scen)
        /\ \A s, w : Target(scen, s, w)' <=> Target(scen, s, w)
        /\ \A p : BestOfPair(graph, scen, p)' <=> BestOfPair(graph, scen, p)
    BY <2>1, ScenFixed, TargetFixed, BestFixed
  <2>3. CASE alg \in N2NAlgos
    <3>1. BestFound
      BY <2>1, <2>3 DEF FoundBest, Searching
    <3>2. RoundDist'
      BY <2>1, <2>2, <2>3 DEF RoundDist
    <3>3. ASSUME NEW s \in Starts(scen), NEW w \in Walks(graph, s), Target(scen, s, w),
                 BestOfPair(graph, scen, PathOf(graph, s, w))
          PROVE  s \in todo' \/ Remains(s, w)' \/ PathOf(graph, s, w) \in Elems(paths)
      BY <1>0, <2>1, <3>1, <3>3 DEF BestFound
    <3>4. BestFound'
      BY <2>1, <2>2, <3>3 DEF BestFound
    <3>5. QED
      BY <3>2, <3>4 DEF FoundBest
  <2>4. QED
    BY <2>2, <2>3 DEF FoundBest
<1>4. CASE EndStart
  <2>1. /\ pc = "return" /\ stack # <<>> /\ stack' = <<>>
        /\ UNCHANGED <<graph, scenarios, cur, todo>>
        /\ alg \in N2NAlgos => paths' = AddAll(paths, BestOfRound(alg))
        /\ \A s, w : ~Remains(s, w) /\ ~Remains(s, w)'
    BY <1>4, EndRemains
  <2>2. /\ alg' = alg /\ Starts(scen)' = Starts(scen)
        /\ \A s, w : Target(scen, s, w)' <=> Target(scen, s, w)
        /\ \A p : BestOfPair(graph, scen, p)' <=> BestOfPair(graph, scen, p)
    BY <2>1, ScenFixed, TargetFixed, BestFixed
  <2>3. CASE alg \in N2NAlgos
    <3>1. BestFound /\ Searching
      BY <2>1, <2>3 DEF FoundBest, Searching
    <3>2. IsList(paths) /\ IsList(BestOfRound(alg))
      BY <2>3, BestOfRoundList DEF ListInv
    <3>3. Elems(paths') = Elems(paths) \cup Elems(BestOfRound(alg))
      BY <2>1, <2>3, <3>2, AddAllFacts
    <3>4. ASSUME NEW s \in Starts(scen), NEW w \in Walks(graph, s), Target(scen, s, w),
                 BestOfPair(graph, scen, PathOf(graph, s, w))
          PROVE  s \in todo \/ PathOf(graph, s, w) \in Elems(paths')
      <4>1. \/ s \in todo
            \/ s = statePath[1] /\ PathOf(graph, s, w) \in Elems(tmpPaths[alg])
            \/ PathOf(graph, s, w) \in Elems(paths)
        BY <2>1, <3>1, <3>4 DEF BestFound
      <4>2. CASE s = statePath[1] /\ PathOf(graph, s, w) \in Elems(tmpPaths[alg])
        <5>1. PathOf(graph, s, w) \in Elems(BestOfRound(alg))
          BY <2>1, <2>3, <3>1, <3>4, <4>2, BestKept
        <5>2. QED
          BY <3>3, <5>1
      <4>3. QED
        BY <3>3, <4>1, <4>2
    <3>5. BestFound'
      BY <2>1, <2>2, <3>4 DEF BestFound
    <3>6. QED
      BY <2>1, <3>5 DEF FoundBest
  <2>4. QED
    BY <2>2, <2>3 DEF FoundBest
<1>5. CASE GenPath
  <2>1. /\ UNCHANGED <<graph, scenarios, cur>> /\ todo' = Starts(scen) /\ stack' = stack
        /\ stack = <<>>
    BY <1>5 DEF GenPath, Starts, IndInv, TypeOK
  <2>2. Starts(scen)' = Starts(scen)
    BY <2>1, ScenFixed
  <2>3. BestFound'
    BY <2>1, <2>2 DEF BestFound
  <2>4. QED
    BY <2>1, <2>3 DEF FoundBest
<1>6. CASE FinishAll \/ FinishDist \/ FinishLeast \/ CoverDone \/ (\E i \in DOMAIN paths : CoverRound(i))
  <2>1. pc' \in {"idle", "cover"}
    BY <1>6 DEF FinishAll, FinishDist, FinishLeast, CoverDone, CoverRound, Deliver
  <2>2. QED
    BY <2>1 DEF FoundBest, Searching
<1>7. CASE Returned
  <2>1. pc' = "idle"
    BY <1>7 DEF Returned, Done, vars
  <2>2. QED
    BY <2>1 DEF FoundBest, Searching
<1>8. QED
  BY <1>1, <1>2, <1>3, <1>4, <1>5, <1>6, <1>7 DEF Next, Move, Record

-----------------------------------------------------------------------------
(* The lists of the N2N searches hold nothing that was not asked for.      *)
LEMMA AskedFixed ==
  ASSUME UNCHANGED <<graph, scenarios>>
  PROVE  \A a, k, p : AskedFor(a, k, p)' <=> AskedFor(a, k, p)
  BY DEF AskedFor, BestSought, BestOfPair

LEMMA AskedNow ==
  ASSUME IndInv, NEW p \in Sought(graph, scen), BestOfPair(graph, scen, p)
  PROVE  AskedFor(alg, cur, p)
<1>1. cur \in 1..cur
  BY DEF IndInv, TypeOK
<1>2. GetAlgorithm(scenarios[cur].path) = alg /\ p \in BestSought(graph, scenarios[cur])
  BY DEF alg, scen, BestSought
<1>3. QED
  BY <1>1, <1>2 DEF AskedFor

LEMMA AskedLater ==
  ASSUME IndInv, NEW a, NEW p, AskedFor(a, cur, p)
  PROVE  AskedFor(a, cur + 1, p)
<1>1. PICK j \in 1..cur : GetAlgorithm(scenarios[j].path) = a /\ p \in BestSought(graph, scenarios[j])
  BY DEF AskedFor
<1>2. j \in 1..(cur + 1)
  BY DEF IndInv, TypeOK
<1>3. QED
  BY <1>1, <1>2 DEF AskedFor

LEMMA BestOfRoundKeeps ==
  ASSUME ListInv, alg \in N2NAlgos
  PROVE  \A p \in Elems(BestOfRound(alg)) :
           /\ p \in Elems(tmpPaths[alg])
           /\ alg = "shortn2n" => ~(bestDist["shortn2n"][Last(p.states)] < Len(p.states))
           /\ alg = "longn2n"  => ~(bestDist["longn2n"][Last(p.states)] > Len(p.states))
<1>1. IsList(tmpPaths[alg])
  BY DEF ListInv
<1>2. CASE alg = "shortn2n"
  <2> DEFINE I == {j \in DOMAIN tmpPaths[alg] :
                     ~(bestDist["shortn2n"][Last(tmpPaths[alg][j].states)] < Len(tmpPaths[alg][j].states))}
  <2>1. BestOfRound(alg) = Keep(tmpPaths[alg], I)
    BY <1>2 DEF BestOfRound, DeleteLongPathN2N
  <2>2. Elems(BestOfRound(alg)) = {tmpPaths[alg][i] : i \in I}
    BY <1>1, <2>1, KeepFacts
  <2>3. QED
    BY <1>2, <2>2 DEF Elems
<1>3. CASE alg = "longn2n"
  <2> DEFINE I == {j \in DOMAIN tmpPaths[alg] :
                     ~(bestDist["longn2n"][Last(tmpPaths[alg][j].states)] > Len(tmpPaths[alg][j].states))}
  <2>1. BestOfRound(alg) = Keep(tmpPaths[alg], I)
    BY <1>3 DEF BestOfRound, DeleteShortPathN2N
  <2>2. Elems(BestOfRound(alg)) = {tmpPaths[alg][i] : i \in I}
    BY <1>1, <2>1, KeepFacts
  <2>3. QED
    BY <1>3, <2>2 DEF Elems
<1>4. QED
  BY <1>2, <1>3 DEF N2NAlgos

(* What is left of a round is best between its two states.                 *)
LEMMA RoundAsked ==
  ASSUME IndInv, PathInv, RoundBound, ListInv, stack # <<>>, alg \in N2NAlgos,
         \A s, w : ~Remains(s, w),
         NEW p \in Elems(BestOfRound(alg)), FromRound(p)
  PROVE  AskedFor(alg, cur, p)
<1> DEFINE s == statePath[1]
<1>1. graph \in Seq(Edge(Nodes, Steps)) /\ s \in Nodes /\ s \in Starts(scen) /\ s \in States(graph)
  BY StartsAreNodes DEF IndInv, TypeOK, PathInv, Starts, StartStateNumSet
<1>2. PICK w \in Walks(graph, s) : Target(scen, s, w) /\ p = PathOf(graph, s, w)
  BY DEF FromRound
<1>3. /\ Len(w) \in Nat /\ p.edges = w /\ Len(p.states) = Len(w) + 1
      /\ p.states[1] = s /\ Last(p.states) = EndOf(graph, s, w)
  BY <1>1, <1>2, PathFacts
<1>4. p \in Sought(graph, scen)
  BY <1>1, <1>2, SoughtTarget
<1>5. EndOf(graph, s, w) \in States(graph)
  BY <1>1, EndInStates
<1>6. /\ bestDist["shortn2n"][EndOf(graph, s, w)] \in Int
      /\ bestDist["longn2n"][EndOf(graph, s, w)] \in Int
  BY <1>5 DEF IndInv, TypeOK, N2NAlgos
<1>7. /\ alg = "shortn2n" => bestDist["shortn2n"][EndOf(graph, s, w)] >= Len(w) + 1
      /\ alg = "longn2n"  => bestDist["longn2n"][EndOf(graph, s, w)] <= Len(w) + 1
  <2> HIDE DEF s
  <2>1. QED
    BY <1>3, <1>6, BestOfRoundKeeps
<1>8. ASSUME NEW q \in Sought(graph, scen), q.states[1] = p.states[1], Last(q.states) = Last(p.states)
      PROVE  ~Beats(alg, q, p)
  <2>1. PICK t \in Starts(scen) : \E v \in Walks(graph, t) : Target(scen, t, v) /\ q = PathOf(graph, t, v)
    BY SoughtTarget
  <2>2. PICK v \in Walks(graph, t) : Target(scen, t, v) /\ q = PathOf(graph, t, v)
    BY <2>1
  <2>3. /\ Len(v) \in Nat /\ q.edges = v
        /\ q.states[1] = t /\ Last(q.states) = EndOf(graph, t, v)
    BY <1>1, <2>2, PathFacts, StartsAreNodes
  <2>4. t = s /\ EndOf(graph, s, v) = EndOf(graph, s, w)
    BY <1>3, <1>8, <2>3
  <2>5. /\ alg = "shortn2n" => bestDist["shortn2n"][EndOf(graph, s, w)] <= Len(v) + 1
        /\ alg = "longn2n"  => bestDist["longn2n"][EndOf(graph, s, w)] >= Len(v) + 1
    BY <2>2, <2>4 DEF RoundBound
  <2> HIDE DEF s
  <2>6. alg = "shortn2n" => Len(w) <= Len(v)
    BY <1>3, <1>6, <1>7, <2>3, <2>5
  <2>7. alg = "longn2n" => Len(v) <= Len(w)
    BY <1>3, <1>6, <1>7, <2>3, <2>5
  <2>8. QED
    BY <1>3, <2>3, <2>6, <2>7 DEF Beats, N2NAlgos
<1>9. BestOfPair(graph, scen, p)
  BY <1>8 DEF BestOfPair, alg
<1>10. QED
  BY <1>4, <1>9, AskedNow

(* The actions between two searches.                                       *)
Between ==
  GenPath \/ FinishAll \/ FinishDist \/ FinishLeast \/ CoverDone \/ Returned
    \/ \E i \in DOMAIN paths : CoverRound(i)

LEMMA BetweenEffect ==
  ASSUME IndInv, Between
  PROVE  /\ stack = <<>> /\ stack' = <<>>
         /\ UNCHANGED <<graph, scenarios, tmpPaths>>
         /\ cur' \in {cur, cur + 1}
         /\ pc' \in {"idle", "cover"} \/ (pc' = "start" /\ paths' = <<>>)
  BY DEF Between, GenPath, FinishAll, FinishDist, FinishLeast, CoverDone, CoverRound, Returned, Done,
         Deliver, finishUnchanged, vars, IndInv, TypeOK

LEMMA RoundBoundNext ==
  ASSUME IndInv, PathInv, OkInv, RoundBound, Next
  PROVE  RoundBound'
<1>1. CASE Move
  <2>1. /\ stack # <<>> /\ UNCHANGED <<graph, scenarios, cur, bestDist>> /\ statePath'[1] = statePath[1]
        /\ \A s, w : Target(scen, s, w) => (Remains(s, w)' <=> Remains(s, w))
    BY <1>1, MoveEffect
  <2>2. alg' = alg /\ \A s, w : Target(scen, s, w)' <=> Target(scen, s, w)
    BY <2>1, ScenFixed, TargetFixed
  <2>3. QED
    BY <2>1, <2>2 DEF RoundBound
<1>2. CASE Record
  <2>1. /\ stack # <<>> /\ RecordPath /\ UNCHANGED <<graph, scenarios, cur, statePath, edgePath, stack>>
        /\ edgePath \in Walks(graph, statePath[1])
        /\ statePath[1] \in Starts(scen)
        /\ \A s, w : Target(scen, s, w) =>
             (Remains(s, w)' <=> Remains(s, w) /\ ~(s = statePath[1] /\ w = edgePath))
    BY <1>2, RecordEffect
  <2>2. alg' = alg /\ \A s, w : Target(scen, s, w)' <=> Target(scen, s, w)
    BY <2>1, ScenFixed, TargetFixed
  <2>3. SUFFICES ASSUME alg \in N2NAlgos, NEW w \in Walks(graph, statePath[1]),
                        Target(scen, statePath[1], w), ~Remains(statePath[1], w)'
                 PROVE  LET n == EndOf(graph, statePath[1], w) IN
                          /\ alg = "shortn2n" => bestDist'["shortn2n"][n] <= Len(w) + 1
                          /\ alg = "longn2n"  => bestDist'["longn2n"][n] >= Len(w) + 1
    BY <2>1, <2>2 DEF RoundBound
  <2> DEFINE n == EndOf(graph, statePath[1], w)
  <2>4. /\ EndOf(graph, statePath[1], edgePath) = curState
        /\ Len(statePath) = Len(edgePath) + 1 /\ Len(edgePath) \in Nat
    <3>1. StatesOn(graph, statePath[1], edgePath) = statePath
      BY <2>1, CurrentWalk
    <3>2. QED
      BY <2>1, <3>1, SearchShape DEF EndOf, Last, curState
  <2>5. /\ graph \in Seq(Edge(Nodes, Steps)) /\ statePath[1] \in Nodes /\ statePath[1] \in States(graph)
        /\ bestDist \in [N2NAlgos -> [States(graph) -> Int]]
    BY <2>1, StartsAreNodes DEF IndInv, TypeOK, Starts, StartStateNumSet
  <2>6. n \in States(graph) /\ curState \in States(graph) /\ Len(w) \in Nat
    BY <2>1, <2>4, <2>5, EndInStates, WalkFacts
  <2>7. w # edgePath =>
          /\ alg = "shortn2n" => bestDist["shortn2n"][n] <= Len(w) + 1
          /\ alg = "longn2n"  => bestDist["longn2n"][n] >= Len(w) + 1
    BY <2>1, <2>3 DEF RoundBound
  <2>8. bestDist[alg][n] \in Int /\ bestDist[alg][curState] \in Int
    BY <2>3, <2>5, <2>6
  <2>9. w = edgePath => n = curState /\ Len(w) + 1 = Len(statePath)
    BY <2>4
  <2> HIDE DEF n
  <2>10. CASE ~Accepts
    <3>1. bestDist' = bestDist
      BY <2>1, <2>3, <2>10 DEF RecordPath, AddPath, AddTmpPath
    <3>2. /\ alg = "shortn2n" => ~(bestDist["shortn2n"][curState] >= Len(statePath))
          /\ alg = "longn2n"  => ~(bestDist["longn2n"][curState] <= Len(statePath))
      BY <2>10 DEF Accepts, ShortN2NAccepts, LongN2NAccepts
    <3>3. /\ alg = "shortn2n" => bestDist["shortn2n"][n] <= Len(w) + 1
          /\ alg = "longn2n"  => bestDist["longn2n"][n] >= Len(w) + 1
      BY <2>4, <2>6, <2>7, <2>8, <2>9, <3>2
    <3>4. QED
      BY <3>1, <3>3 DEF n
  <2>11. CASE Accepts
    <3>1. bestDist' = [bestDist EXCEPT ![alg][curState] = Len(statePath)]
      BY <2>1, <2>3, <2>11 DEF RecordPath, AddPath, AddTmpPath
    <3>2. bestDist'[alg][n] = IF n = curState THEN Len(statePath) ELSE bestDist[alg][n]
      BY <2>3, <2>5, <2>6, <3>1
    <3>3. /\ alg = "shortn2n" => bestDist["shortn2n"][curState] >= Len(statePath)
          /\ alg = "longn2n"  => bestDist["longn2n"][curState] <= Len(statePath)
      BY <2>3, <2>11 DEF Accepts, ShortN2NAccepts, LongN2NAccepts
    <3>4. alg = "shortn2n" => bestDist'["shortn2n"][n] <= Len(w) + 1
      BY <2>4, <2>6, <2>7, <2>8, <2>9, <3>2, <3>3
    <3>5. alg = "longn2n" => bestDist'["longn2n"][n] >= Len(w) + 1
      BY <2>4, <2>6, <2>7, <2>8, <2>9, <3>2, <3>3
    <3>6. QED
      BY <3>4, <3>5 DEF n
  <2>12. QED
    BY <2>10, <2>11
<1>3. CASE StartState
  <2>1. PICK t \in todo :
          /\ pc = "start" /\ UNCHANGED <<graph, scenarios, cur>> /\ statePath'[1] = t
          /\ \A s \in Nodes : \A w \in Walks(graph, s) : Remains(s, w)' <=> s = t
    BY <1>3, StartRemains
  <2>2. t \in Nodes
    BY DEF IndInv, TypeOK
  <2>3. QED
    BY <2>1, <2>2 DEF RoundBound
<1>4. CASE EndStart
  BY <1>4, EndRemains DEF RoundBound
<1>5. CASE Between
  BY <1>5, BetweenEffect DEF RoundBound
<1>6. QED
  BY <1>1, <1>2, <1>3, <1>4, <1>5 DEF Next, Move, Record, Between

LEMMA TmpAskedNext ==
  ASSUME IndInv, PathInv, OkInv, ListInv, RoundBound, TmpAsked, Next
  PROVE  TmpAsked'
<1>1. CASE Move
  <2>1. /\ stack # <<>> /\ stack' # <<>> /\ statePath'[1] = statePath[1]
        /\ UNCHANGED <<graph, scenarios, cur, tmpPaths>>
        /\ \A s, w : Target(scen, s, w) => (Remains(s, w)' <=> Remains(s, w))
    BY <1>1, MoveEffect
  <2>2. /\ alg' = alg /\ \A s, w : Target(scen, s, w)' <=> Target(scen, s, w)
        /\ \A a, k, p : AskedFor(a, k, p)' <=> AskedFor(a, k, p)
    BY <2>1, ScenFixed, TargetFixed, AskedFixed
  <2>3. \A p : FromRound(p) => FromRound(p)'
    BY <2>1, <2>2 DEF FromRound
  <2>4. QED
    BY <2>1, <2>2, <2>3 DEF TmpAsked
<1>2. CASE Record
  <2>1. /\ stack # <<>> /\ RecordPath /\ UNCHANGED <<graph, scenarios, cur, statePath, edgePath, stack>>
        /\ edgePath \in Walks(graph, statePath[1]) /\ Target(scen, statePath[1], edgePath)
        /\ PathOf(graph, statePath[1], edgePath) = CurrentPath
        /\ \A s, w : Target(scen, s, w) =>
             (Remains(s, w)' <=> Remains(s, w) /\ ~(s = statePath[1] /\ w = edgePath))
    BY <1>2, RecordEffect
  <2>2. /\ alg' = alg /\ \A s, w : Target(scen, s, w)' <=> Target(scen, s, w)
        /\ \A a, k, p : AskedFor(a, k, p)' <=> AskedFor(a, k, p)
    BY <2>1, ScenFixed, TargetFixed, AskedFixed
  <2>3. \A p : FromRound(p) => FromRound(p)'
    BY <2>1, <2>2 DEF FromRound
  <2>4. FromRound(CurrentPath)'
    <3>1. Target(scen, statePath[1], edgePath)' /\ ~Remains(statePath[1], edgePath)'
      BY <2>1, <2>2
    <3>2. edgePath \in Walks(graph', statePath'[1]) /\ CurrentPath = PathOf(graph', statePath'[1], edgePath)
      BY <2>1
    <3>3. CurrentPath' = PathOf(graph', statePath'[1], edgePath')
      <4>1. Target(scen, statePath[1], edgePath)'
        BY <3>1
      <4>2. stepPath' = stepPath
        BY <1>2 DEF Record, DfsStop, DfsExhausted, pathVars
      <4>3. QED
        BY <2>1, <3>2, <4>2 DEF CurrentPath
    <3>4. QED
      BY <2>1, <3>1, <3>2, <3>3 DEF FromRound
  <2>5. CurrentPath' = CurrentPath
    BY <1>2, <2>1 DEF Record, DfsStop, DfsExhausted, pathVars, CurrentPath
  <2>6. ASSUME NEW a \in N2NAlgos, NEW p \in Elems(tmpPaths'[a])
        PROVE  p \in Elems(tmpPaths[a]) \/ (a = alg /\ p = CurrentPath)
    <3>1. CASE UNCHANGED tmpPaths
      BY <2>6, <3>1
    <3>2. CASE alg \in N2NAlgos /\ tmpPaths' = [tmpPaths EXCEPT ![alg] = Add(@, CurrentPath)]
      <4>1. CASE a = alg
        <5>1. tmpPaths'[a] = Add(tmpPaths[a], CurrentPath)
          BY <3>2, <4>1 DEF ListInv
        <5>2. QED
          BY <2>6, <4>1, <5>1, AddFacts DEF ListInv
      <4>2. CASE a # alg
        BY <2>6, <3>2, <4>2 DEF ListInv
      <4>3. QED
        BY <4>1, <4>2
    <3>3. QED
      BY <2>1, <3>1, <3>2 DEF RecordPath, AddPath, AddTmpPath
  <2>7. QED
    BY <2>1, <2>2, <2>3, <2>4, <2>5, <2>6 DEF TmpAsked
<1>3. CASE StartState
  <2>1. stack = <<>> /\ UNCHANGED <<graph, scenarios, cur, tmpPaths>>
    BY <1>3, StartRemains
  <2>2. \A a, k, p : AskedFor(a, k, p)' <=> AskedFor(a, k, p)
    BY <2>1, AskedFixed
  <2>3. QED
    BY <2>1, <2>2 DEF TmpAsked
<1>4. CASE EndStart
  <2>1. /\ stack # <<>> /\ UNCHANGED <<graph, scenarios, cur>>
        /\ IF alg \in N2NAlgos THEN tmpPaths' = [tmpPaths EXCEPT ![alg] = BestOfRound(alg)]
                               ELSE UNCHANGED tmpPaths
        /\ \A s, w : ~Remains(s, w)
    BY <1>4, EndRemains
  <2>2. \A a, k, p : AskedFor(a, k, p)' <=> AskedFor(a, k, p)
    BY <2>1, AskedFixed
  <2>3. ASSUME NEW a \in N2NAlgos, NEW p \in Elems(tmpPaths'[a]) PROVE AskedFor(a, cur, p)
    <3>1. CASE a = alg
      <4>1. p \in Elems(BestOfRound(alg))
        BY <2>1, <2>3, <3>1 DEF ListInv
      <4>2. p \in Elems(tmpPaths[alg])
        BY <2>3, <3>1, <4>1, BestOfRoundKeeps
      <4>3. AskedFor(alg, cur, p) \/ FromRound(p)
        BY <2>3, <3>1, <4>2 DEF TmpAsked
      <4>4. QED
        BY <2>1, <2>3, <3>1, <4>1, <4>3, RoundAsked
    <3>2. CASE a # alg
      <4>1. tmpPaths'[a] = tmpPaths[a]
        BY <2>1, <3>2 DEF ListInv
      <4>2. QED
        BY <2>3, <3>2, <4>1 DEF TmpAsked
    <3>3. QED
      BY <3>1, <3>2
  <2>4. QED
    BY <2>1, <2>2, <2>3 DEF TmpAsked
<1>5. CASE Between
  <2>1. stack = <<>> /\ UNCHANGED <<graph, scenarios, tmpPaths>> /\ cur' \in {cur, cur + 1}
    BY <1>5, BetweenEffect
  <2>2. \A a, k, p : AskedFor(a, k, p)' <=> AskedFor(a, k, p)
    BY <2>1, AskedFixed
  <2>3. ASSUME NEW a \in N2NAlgos, NEW p \in Elems(tmpPaths[a]) PROVE AskedFor(a, cur', p)
    <3>1. AskedFor(a, cur, p)
      BY <2>1, <2>3 DEF TmpAsked
    <3>2. QED
      BY <2>1, <3>1, AskedLater
  <2>4. \A a, p : AskedFor(a, cur, p)' <=> AskedFor(a, cur', p)
    BY <2>1 DEF AskedFor, BestSought, BestOfPair
  <2>5. QED
    BY <2>1, <2>3, <2>4 DEF TmpAsked
<1>6. QED
  BY <1>1, <1>2, <1>3, <1>4, <1>5 DEF Next, Move, Record, Between

LEMMA PathsAskedNext ==
  ASSUME IndInv, PathInv, OkInv, ListInv, AskedInv, Next
  PROVE  PathsAsked'
<1>1. CASE Move \/ Record \/ StartState
  <2>1. Searching /\ UNCHANGED <<graph, scenarios, cur>> /\ (alg \in N2NAlgos => paths' = paths)
    BY <1>1, MoveEffect, RecordEffect, StartRemains DEF RecordPath, AddPath, AddTmpPath, Searching
  <2>2. alg' = alg /\ \A a, k, p : AskedFor(a, k, p)' <=> AskedFor(a, k, p)
    BY <2>1, ScenFixed, AskedFixed
  <2>3. QED
    BY <2>1, <2>2 DEF AskedInv, PathsAsked
<1>2. CASE EndStart
  <2>1. /\ Searching /\ stack # <<>> /\ UNCHANGED <<graph, scenarios, cur>>
        /\ alg \in N2NAlgos => paths' = AddAll(paths, BestOfRound(alg))
        /\ \A s, w : ~Remains(s, w)
    BY <1>2, EndRemains DEF Searching
  <2>2. alg' = alg /\ \A a, k, p : AskedFor(a, k, p)' <=> AskedFor(a, k, p)
    BY <2>1, ScenFixed, AskedFixed
  <2>3. ASSUME alg \in N2NAlgos, NEW p \in Elems(paths') PROVE AskedFor(alg, cur, p)
    <3>1. IsList(paths) /\ IsList(BestOfRound(alg))
      BY <2>3, BestOfRoundList DEF ListInv
    <3>2. p \in Elems(paths) \/ p \in Elems(BestOfRound(alg))
      BY <2>1, <2>3, <3>1, AddAllFacts
    <3>3. CASE p \in Elems(BestOfRound(alg))
      <4>1. AskedFor(alg, cur, p) \/ FromRound(p)
        BY <2>3, <3>3, BestOfRoundKeeps DEF AskedInv, TmpAsked
      <4>2. QED
        BY <2>1, <2>3, <3>3, <4>1, RoundAsked DEF AskedInv
    <3>4. QED
      BY <2>1, <2>3, <3>2, <3>3 DEF AskedInv, PathsAsked
  <2>4. QED
    BY <2>1, <2>2, <2>3 DEF PathsAsked
<1>3. CASE Between
  <2>1. Searching' => Elems(paths') = {}
    BY <1>3, BetweenEffect, EmptyList DEF Searching
  <2>2. QED
    BY <2>1 DEF PathsAsked
<1>4. QED
  BY <1>1, <1>2, <1>3 DEF Next, Move, Record, Between

LEMMA AskedInvNext ==
  ASSUME IndInv, PathInv, OkInv, ListInv, AskedInv, Next
  PROVE  AskedInv'
  BY RoundBoundNext, TmpAskedNext, PathsAskedNext DEF AskedInv

-----------------------------------------------------------------------------
LEMMA ListInvNext ==
  ASSUME IndInv, ListInv, Next
  PROVE  ListInv'
<1>1. IsList(<<>>)
  BY EmptyList
<1>2. CASE UNCHANGED <<paths, tmpPaths>>
  BY <1>2 DEF ListInv
<1>3. CASE RecordPath
  <2>1. CASE UNCHANGED tmpPaths /\ paths' = Add(paths, CurrentPath)
    BY <2>1, AddFacts DEF ListInv
  <2>2. CASE UNCHANGED paths /\ alg \in N2NAlgos /\ tmpPaths' = [tmpPaths EXCEPT ![alg] = Add(@, CurrentPath)]
    <3>1. IsList(Add(tmpPaths[alg], CurrentPath))
      BY <2>2, AddFacts DEF ListInv
    <3>2. QED
      BY <2>2, <3>1 DEF ListInv
  <2>3. QED
    BY <1>2, <1>3, <2>1, <2>2 DEF RecordPath, AddPath, AddTmpPath
<1>4. CASE EndStart
  <2>1. CASE alg \in N2NAlgos
    <3>1. /\ tmpPaths' = [tmpPaths EXCEPT ![alg] = BestOfRound(alg)]
          /\ paths' = AddAll(paths, BestOfRound(alg))
      BY <1>4, <2>1 DEF EndStart
    <3>2. IsList(BestOfRound(alg))
      BY <2>1, BestOfRoundList
    <3>3. IsList(paths)'
      BY <3>1, <3>2, AddAllFacts DEF ListInv
    <3>4. QED
      BY <2>1, <3>1, <3>2, <3>3 DEF ListInv
  <2>2. CASE alg \notin N2NAlgos
    BY <1>2, <1>4, <2>2 DEF EndStart
  <2>3. QED
    BY <2>1, <2>2
<1>5. CASE GenPath
  BY <1>1, <1>5 DEF GenPath, ListInv
<1>6. CASE FinishLeast
  <2>1. paths' = ThroughFiltered /\ UNCHANGED tmpPaths
    BY <1>6 DEF FinishLeast, finishUnchanged
  <2>2. IsList(ThroughFiltered)
    BY FilterFacts DEF ListInv, ThroughFiltered
  <2>3. QED
    BY <2>1, <2>2 DEF ListInv
<1>7. CASE DfsEnter \/ DfsDone \/ Restore \/ StartState \/ FinishAll \/ FinishDist \/ CoverDone \/ Returned
  BY <1>2, <1>7 DEF DfsEnter, DfsDone, Restore, StartState, FinishAll, FinishDist, CoverDone,
                    Returned, vars, finishUnchanged
<1>8. CASE (\E i \in DOMAIN paths : CoverRound(i)) \/ (\E e \in DOMAIN graph : Follow(e) \/ Skip(e))
  BY <1>2, <1>8 DEF CoverRound, finishUnchanged, Follow, Skip
<1>9. QED
  BY <1>3, <1>4, <1>5, <1>6, <1>7, <1>8 DEF Next, DfsStop, DfsExhausted

(* The search is over: the list holds exactly the paths searched for.      *)
LEMMA AllFound ==
  ASSUME IndInv, PathInv, FoundAll, pc = "start", todo = {}, alg \notin N2NAlgos
  PROVE  Elems(paths) = Sought(graph, scen) /\ Distinct(paths)
<1>1. stack = <<>>
  BY DEF IndInv, TypeOK
<1>2. \A s, w : ~Remains(s, w)
  BY <1>1 DEF Remains
<1>3. /\ \A s \in Starts(scen) : \A w \in Walks(graph, s) : Target(scen, s, w) =>
           PathOf(graph, s, w) \in Elems(paths)
      /\ \A p \in Elems(paths) : \E s \in Starts(scen) : \E w \in Walks(graph, s) :
           Target(scen, s, w) /\ p = PathOf(graph, s, w)
      /\ Distinct(paths)
  BY <1>2 DEF FoundAll, Searching
<1>4. \A p : p \in Elems(paths) <=> p \in Sought(graph, scen)
  BY <1>3, SoughtTarget
<1>5. QED
  BY <1>3, <1>4

LEMMA BestOnesFound ==
  ASSUME IndInv, PathInv, FoundBest, pc = "start", todo = {}, alg \in N2NAlgos
  PROVE  \A p \in Sought(graph, scen) : BestOfPair(graph, scen, p) => p \in Elems(paths)
<1>1. stack = <<>>
  BY DEF IndInv, TypeOK
<1>2. \A s, w : ~Remains(s, w)
  BY <1>1 DEF Remains
<1>3. \A s \in Starts(scen) : \A w \in Walks(graph, s) :
        Target(scen, s, w) /\ BestOfPair(graph, scen, PathOf(graph, s, w)) =>
          PathOf(graph, s, w) \in Elems(paths)
  BY <1>1, <1>2 DEF FoundBest, BestFound, Searching
<1>4. QED
  BY <1>3, SoughtTarget

LEMMA FilteredPaths ==
  ASSUME IsList(paths)
  PROVE  /\ IsList(ThroughFiltered)
         /\ Elems(ThroughFiltered) = {p \in Elems(paths) : IsThrough(graph, scen, p)}
         /\ Distinct(paths) => Distinct(ThroughFiltered)
<1>1. /\ IsList(ThroughFiltered)
      /\ Elems(ThroughFiltered) =
           {p \in Elems(paths) : /\ throughStates = {} \/ Elems(p.states) \cap throughStates # {}
                                 /\ throughSteps = {} \/ Elems(p.steps) \cap throughSteps # {}}
      /\ Distinct(paths) => Distinct(ThroughFiltered)
  BY FilterFacts DEF ThroughFiltered
<1>2. throughStates = StateNumSet(graph, scen.state) /\ throughSteps = StepNumSet(graph, scen.step)
  BY DEF throughStates, throughSteps
<1>3. QED
  BY <1>1, <1>2 DEF IsThrough

LEMMA SoughtPaths ==
  ASSUME IndInv, NEW p \in Sought(graph, scen)
  PROVE  /\ Len(p.edges) \in Nat
         /\ Len(p.states) = Len(p.edges) + 1
         /\ Len(p.steps) = Len(p.edges)
         /\ Elems(p.steps) \subseteq StepsOf(graph)
<1>1. graph \in Seq(Edge(Nodes, Steps)) /\ \A s \in Starts(scen) : s \in Nodes
  BY StartsAreNodes DEF IndInv, TypeOK
<1>2. PICK s \in Starts(scen) : \E w \in Walks(graph, s) : p = PathOf(graph, s, w)
  BY SoughtTarget
<1>3. PICK w \in Walks(graph, s) : p = PathOf(graph, s, w)
  BY <1>2
<1>4. /\ Len(p.edges) \in Nat /\ Len(p.states) = Len(p.edges) + 1 /\ Len(p.steps) = Len(p.edges)
  BY <1>1, <1>3, PathFacts
<1>5. /\ p.steps = StepsOn(graph, w) /\ DOMAIN StepsOn(graph, w) = DOMAIN w
      /\ \A k \in DOMAIN w : StepsOn(graph, w)[k] = graph[w[k]].step
  BY <1>3 DEF PathOf, StepsOn
<1>6. \A k \in DOMAIN w : w[k] \in DOMAIN graph
  BY <1>1, WalkFacts
<1>7. Elems(p.steps) \subseteq StepsOf(graph)
  BY <1>5, <1>6 DEF Elems, StepsOf
<1>8. QED
  BY <1>4, <1>7

(* deleteShortPath and deleteLongPath keep the paths of extremal length.   *)
LEMMA ExtremalKept ==
  ASSUME IndInv, alg \in {"long", "short"}, NEW list, IsList(list), Distinct(list),
         Elems(list) = SoughtThrough(graph, scen)
  PROVE  LET kept == IF alg = "long" THEN DeleteShortPath(list) ELSE DeleteLongPath(list)
         IN  Elems(kept) = BestThrough(graph, scen, SoughtThrough(graph, scen)) /\ Distinct(kept)
<1> DEFINE P == SoughtThrough(graph, scen)
           Better(i, j) == Beats(alg, list[j], list[i])
           S == StateNumSet(graph, scen.state)
           T == StepNumSet(graph, scen.step)
           Chosen(i) ==
             \/ \E n \in S : i \in Through(list, n) /\ \A j \in Through(list, n) : ~Better(i, j)
             \/ \E x \in T : i \in With(list, x) /\ \A j \in With(list, x) : ~Better(i, j)
           kept == IF alg = "long" THEN DeleteShortPath(list) ELSE DeleteLongPath(list)
<1>1. \A i \in DOMAIN list : list[i] \in P
  BY DEF Elems
<1>2. \A i \in DOMAIN list : /\ Len(list[i].edges) \in Nat
                             /\ Len(list[i].states) = Len(list[i].edges) + 1
                             /\ Len(list[i].steps) = Len(list[i].edges)
  BY <1>1, SoughtPaths DEF SoughtThrough
<1>3. throughStates = S /\ throughSteps = T
  BY DEF throughStates, throughSteps
<1>4. \A n : Through(list, n) \subseteq DOMAIN list
  BY DEF Through
<1>5. \A x : With(list, x) \subseteq DOMAIN list
  BY DEF With
<1>6. \E J : kept = Keep(list, J) /\ \A i : i \in J <=> Chosen(i)
  <2>1. CASE alg = "long"
    <3> DEFINE J == (UNION {{i \in Through(list, n) : \A j \in Through(list, n) :
                                Len(list[j].states) <= Len(list[i].states)} : n \in throughStates})
                    \cup
                    (UNION {{i \in With(list, x) : \A j \in With(list, x) :
                                Len(list[j].steps) <= Len(list[i].steps)} : x \in throughSteps})
    <3>1. kept = Keep(list, J)
      BY <2>1 DEF DeleteShortPath
    <3>2. \A i : i \in J <=>
            \/ \E n \in S : i \in Through(list, n) /\ \A j \in Through(list, n) :
                              Len(list[j].states) <= Len(list[i].states)
            \/ \E x \in T : i \in With(list, x) /\ \A j \in With(list, x) :
                              Len(list[j].steps) <= Len(list[i].steps)
      BY <1>3
    <3> HIDE DEF J, S, T, kept
    <3>3. \A i, j \in DOMAIN list :
            /\ Len(list[j].states) <= Len(list[i].states) <=> ~Better(i, j)
            /\ Len(list[j].steps) <= Len(list[i].steps) <=> ~Better(i, j)
      BY <1>2, <2>1 DEF Beats
    <3> HIDE DEF Better
    <3>4. \A n : \A i \in Through(list, n) :
            (\A j \in Through(list, n) : Len(list[j].states) <= Len(list[i].states)) <=>
            (\A j \in Through(list, n) : ~Better(i, j))
      BY <1>4, <3>3
    <3>5. \A x : \A i \in With(list, x) :
            (\A j \in With(list, x) : Len(list[j].steps) <= Len(list[i].steps)) <=>
            (\A j \in With(list, x) : ~Better(i, j))
      BY <1>5, <3>3
    <3>6. \A i : i \in J <=> Chosen(i)
      BY <3>2, <3>4, <3>5
    <3>7. QED
      BY <3>1, <3>6
  <2>2. CASE alg = "short"
    <3> DEFINE J == (UNION {{i \in Through(list, n) : \A j \in Through(list, n) :
                                Len(list[j].states) >= Len(list[i].states)} : n \in throughStates})
                    \cup
                    (UNION {{i \in With(list, x) : \A j \in With(list, x) :
                                Len(list[j].steps) >= Len(list[i].steps)} : x \in throughSteps})
    <3>1. kept = Keep(list, J)
      BY <2>2 DEF DeleteLongPath
    <3>2. \A i : i \in J <=>
            \/ \E n \in S : i \in Through(list, n) /\ \A j \in Through(list, n) :
                              Len(list[j].states) >= Len(list[i].states)
            \/ \E x \in T : i \in With(list, x) /\ \A j \in With(list, x) :
                              Len(list[j].steps) >= Len(list[i].steps)
      BY <1>3
    <3> HIDE DEF J, S, T, kept
    <3>3. \A i, j \in DOMAIN list :
            /\ Len(list[j].states) >= Len(list[i].states) <=> ~Better(i, j)
            /\ Len(list[j].steps) >= Len(list[i].steps) <=> ~Better(i, j)
      BY <1>2, <2>2 DEF Beats
    <3> HIDE DEF Better
    <3>4. \A n : \A i \in Through(list, n) :
            (\A j \in Through(list, n) : Len(list[j].states) >= Len(list[i].states)) <=>
            (\A j \in Through(list, n) : ~Better(i, j))
      BY <1>4, <3>3
    <3>5. \A x : \A i \in With(list, x) :
            (\A j \in With(list, x) : Len(list[j].steps) >= Len(list[i].steps)) <=>
            (\A j \in With(list, x) : ~Better(i, j))
      BY <1>5, <3>3
    <3>6. \A i : i \in J <=> Chosen(i)
      BY <3>2, <3>4, <3>5
    <3>7. QED
      BY <3>1, <3>6
  <2>3. QED
    BY <2>1, <2>2
<1>7. PICK I : kept = Keep(list, I) /\ \A i : i \in I <=> Chosen(i)
  BY <1>6
<1>8. \A i : i \in I <=>
        /\ i \in DOMAIN list
        /\ \/ \E n \in S \cap Elems(list[i].states) :
                \A j \in DOMAIN list : n \in Elems(list[j].states) => ~Better(i, j)
           \/ \E x \in T \cap Elems(list[i].steps) :
                \A j \in DOMAIN list : x \in Elems(list[j].steps) => ~Better(i, j)
  <2> HIDE DEF Better, S, T, kept
  <2>1. \A n, i : i \in Through(list, n) <=> i \in DOMAIN list /\ n \in Elems(list[i].states)
    BY DEF Through
  <2>2. \A x, i : i \in With(list, x) <=> i \in DOMAIN list /\ x \in Elems(list[i].steps)
    BY DEF With
  <2>3. \A n, i : (\A j \in Through(list, n) : ~Better(i, j)) <=>
                  (\A j \in DOMAIN list : n \in Elems(list[j].states) => ~Better(i, j))
    BY <2>1
  <2>4. \A x, i : (\A j \in With(list, x) : ~Better(i, j)) <=>
                  (\A j \in DOMAIN list : x \in Elems(list[j].steps) => ~Better(i, j))
    BY <2>2
  <2>5. QED
    BY <1>7, <2>1, <2>2, <2>3, <2>4
<1> HIDE DEF Chosen
<1>9. I \subseteq DOMAIN list
  BY <1>8
<1>10. Elems(kept) = {list[i] : i \in I} /\ Distinct(kept)
  <2> HIDE DEF kept, S, T, Better
  <2>1. QED
    BY <1>7, <1>9, KeepFacts
<1>11. \A i \in DOMAIN list : list[i] \in BestThrough(graph, scen, P) <=>
        \/ \E n \in S \cap Elems(list[i].states) :
             \A q \in P : n \in Elems(q.states) => ~Beats(alg, q, list[i])
        \/ \E x \in T \cap Elems(list[i].steps) :
             \A q \in P : x \in Elems(q.steps) => ~Beats(alg, q, list[i])
  BY <1>1 DEF BestThrough, alg
<1>12. \A q : q \in P <=> \E j \in DOMAIN list : q = list[j]
  BY DEF Elems
<1>13. \A i \in DOMAIN list : i \in I <=> list[i] \in BestThrough(graph, scen, P)
  <2> SUFFICES ASSUME NEW i \in DOMAIN list
               PROVE  i \in I <=> list[i] \in BestThrough(graph, scen, P)
    OBVIOUS
  <2>1. \A n : (\A q \in P : n \in Elems(q.states) => ~Beats(alg, q, list[i])) <=>
               (\A j \in DOMAIN list : n \in Elems(list[j].states) => ~Better(i, j))
    BY <1>12
  <2>2. \A x : (\A q \in P : x \in Elems(q.steps) => ~Beats(alg, q, list[i])) <=>
               (\A j \in DOMAIN list : x \in Elems(list[j].steps) => ~Better(i, j))
    BY <1>12
  <2> HIDE DEF P, Better, S, T
  <2>3. QED
    BY <1>8, <1>11, <2>1, <2>2
<1>14. BestThrough(graph, scen, P) \subseteq P
  BY DEF BestThrough
<1> HIDE DEF P, Better, S, T, kept
<1>15. Elems(kept) = BestThrough(graph, scen, P)
  BY <1>9, <1>10, <1>12, <1>13, <1>14
<1>16. QED
  BY <1>10, <1>15 DEF kept, P

-----------------------------------------------------------------------------
(* getCoverSet.                                                            *)
LEMMA CoverInvNext ==
  ASSUME IndInv, PathInv, FoundAll, ListInv, CoverInv, Next
  PROVE  CoverInv'
<1>1. CASE GenPath
  BY <1>1 DEF GenPath, CoverInv, Searching
<1>2. CASE FinishLeast
  <2>1. /\ pc = "start" /\ todo = {} /\ alg = "least"
        /\ paths' = ThroughFiltered /\ pc' = "cover"
        /\ UNCHANGED <<graph, scenarios, cur, chosen>>
    BY <1>2 DEF FinishLeast, finishUnchanged
  <2>2. alg \notin N2NAlgos
    BY <2>1 DEF N2NAlgos
  <2>3. Elems(paths) = Sought(graph, scen)
    BY <2>1, <2>2, AllFound
  <2>4. Elems(ThroughFiltered) = {p \in Elems(paths) : IsThrough(graph, scen, p)}
    BY FilteredPaths DEF ListInv
  <2>5. Elems(paths') = SoughtThrough(graph, scen)
    BY <2>1, <2>3, <2>4 DEF SoughtThrough
  <2>6. alg' = alg /\ scen' = scen
    BY <2>1, ScenFixed
  <2>7. chosen' = {}
    BY <2>1 DEF CoverInv, Searching
  <2>8. SoughtThrough(graph, scen)' = SoughtThrough(graph, scen)
    BY <2>1, <2>6
  <2>9. QED
    BY <2>1, <2>5, <2>6, <2>7, <2>8 DEF CoverInv, Searching
<1>3. CASE \E i \in DOMAIN paths : CoverRound(i)
  <2>1. /\ pc = "cover" /\ pc' = "cover" /\ UNCHANGED <<graph, scenarios, cur, paths>>
        /\ chosen' \subseteq chosen \cup DOMAIN paths
    BY <1>3 DEF CoverRound, finishUnchanged
  <2>2. alg' = alg /\ scen' = scen
    BY <2>1, ScenFixed
  <2>3. SoughtThrough(graph, scen)' = SoughtThrough(graph, scen)
    BY <2>1, <2>2
  <2>4. QED
    BY <2>1, <2>2, <2>3 DEF CoverInv, Searching
<1>4. CASE FinishAll \/ FinishDist \/ CoverDone \/ Returned
  BY <1>4 DEF FinishAll, FinishDist, CoverDone, Returned, Done, Deliver, vars, CoverInv, Searching
<1>5. CASE StartState \/ EndStart \/ Move \/ Record
  <2>1. pc \in {"start", "enter", "loop", "return"} /\ pc' \in {"start", "enter", "loop", "return"} /\ chosen' = chosen
    BY <1>5 DEF StartState, EndStart, Move, Record, DfsEnter, DfsDone, Restore, Follow, Skip,
                DfsStop, DfsExhausted, searchUnchanged
  <2>2. QED
    BY <2>1 DEF CoverInv, Searching
<1>6. QED
  BY <1>1, <1>2, <1>3, <1>4, <1>5 DEF Next, Move, Record

(* genPath returns: the scenario just finished is the one that was run.    *)
LEMMA DeliverEffect ==
  ASSUME IndInv, pc # "idle", NEW list, Deliver(list), UNCHANGED <<graph, scenarios>>
  PROVE  /\ graph' = graph /\ prev' = scen /\ prevAlg' = alg /\ delivered' = list
<1>1. cur \in Nat \ {0} /\ cur' = cur + 1 /\ scenarios' = scenarios
  BY DEF IndInv, TypeOK, Deliver
<1>2. (cur + 1) - 1 = cur
  BY <1>1
<1>3. prev' = scen
  BY <1>1, <1>2 DEF prev, scen
<1>4. scenariosPathsMap'[scen.name] = list
  BY DEF Deliver
<1>5. QED
  BY <1>3, <1>4 DEF prevAlg, alg, delivered

LEMMA DeliveredAll ==
  ASSUME IndInv, PathInv, FoundAll, FoundBest, AskedInv, ListInv, FinishAll
  PROVE  SearchDelivers'
<1>1. /\ pc = "start" /\ todo = {} /\ alg \in {"all"} \cup N2NAlgos
      /\ Deliver(ThroughFiltered) /\ UNCHANGED <<graph, scenarios>>
  BY DEF FinishAll, finishUnchanged
<1>2. graph' = graph /\ prev' = scen /\ prevAlg' = alg /\ delivered' = ThroughFiltered
  BY <1>1, DeliverEffect
<1>3. /\ Elems(ThroughFiltered) = {p \in Elems(paths) : IsThrough(graph, scen, p)}
      /\ Distinct(paths) => Distinct(ThroughFiltered)
  BY FilteredPaths DEF ListInv
<1>4. DeliversExactly'
  <2> SUFFICES ASSUME alg \in {"all", "long", "short"}
               PROVE  /\ Elems(ThroughFiltered) = Expected(graph, scen)
                      /\ Distinct(ThroughFiltered)
    BY <1>2 DEF DeliversExactly, Distinct
  <2>1. alg = "all" /\ alg \notin N2NAlgos
    BY <1>1 DEF N2NAlgos
  <2>2. Elems(paths) = Sought(graph, scen) /\ Distinct(paths)
    BY <1>1, <2>1, AllFound
  <2>3. Expected(graph, scen) = SoughtThrough(graph, scen)
    BY <2>1 DEF Expected, alg
  <2>4. QED
    BY <1>3, <2>2, <2>3 DEF SoughtThrough
<1>5. /\ (cur - 1)' = cur
      /\ \A a, p : AskedFor(a, cur - 1, p)' <=> AskedFor(a, cur, p)
      /\ BestSought(graph, prev)' = BestSought(graph, scen)
  <2>1. cur \in Nat /\ cur' = cur + 1 /\ (cur + 1) - 1 = cur
    BY <1>1 DEF Deliver, IndInv, TypeOK
  <2>2. QED
    BY <1>1, <1>2, <2>1 DEF AskedFor, BestSought, BestOfPair
<1>6. N2NDeliversBest'
  <2> SUFFICES ASSUME alg \in N2NAlgos
               PROVE  /\ \A p \in BestSought(graph, scen) :
                           IsThrough(graph, scen, p) => p \in Elems(ThroughFiltered)
                      /\ \A p \in Elems(ThroughFiltered) :
                           IsThrough(graph, scen, p) /\ AskedFor(alg, cur, p)
    BY <1>2, <1>5 DEF N2NDeliversBest
  <2>1. /\ \A p \in Sought(graph, scen) : BestOfPair(graph, scen, p) => p \in Elems(paths)
        /\ \A p \in Elems(paths) : AskedFor(alg, cur, p)
    BY <1>1, BestOnesFound DEF AskedInv, PathsAsked, Searching
  <2>2. QED
    BY <1>3, <2>1 DEF BestSought
<1>7. LeastCoversSteps'
  BY <1>1, <1>2 DEF LeastCoversSteps, N2NAlgos
<1>8. QED
  BY <1>4, <1>6, <1>7 DEF SearchDelivers

LEMMA DeliveredExtremal ==
  ASSUME IndInv, PathInv, FoundAll, ListInv, FinishDist
  PROVE  SearchDelivers'
<1> DEFINE kept == IF alg = "long" THEN DeleteShortPath(ThroughFiltered)
                                   ELSE DeleteLongPath(ThroughFiltered)
<1>1. /\ pc = "start" /\ todo = {} /\ alg \in {"long", "short"}
      /\ Deliver(kept) /\ UNCHANGED <<graph, scenarios>>
  BY DEF FinishDist, finishUnchanged
<1>2. alg \notin N2NAlgos
  BY <1>1 DEF N2NAlgos
<1>3. Elems(paths) = Sought(graph, scen) /\ Distinct(paths)
  BY <1>1, <1>2, AllFound
<1>4. /\ IsList(ThroughFiltered) /\ Distinct(ThroughFiltered)
      /\ Elems(ThroughFiltered) = SoughtThrough(graph, scen)
  BY <1>3, FilteredPaths DEF ListInv, SoughtThrough
<1>5. Elems(kept) = BestThrough(graph, scen, SoughtThrough(graph, scen)) /\ Distinct(kept)
  BY <1>1, <1>4, ExtremalKept
<1>6. Expected(graph, scen) = BestThrough(graph, scen, SoughtThrough(graph, scen))
  BY <1>1 DEF Expected, alg
<1> HIDE DEF kept
<1>7. graph' = graph /\ prev' = scen /\ prevAlg' = alg /\ delivered' = kept
  BY <1>1, DeliverEffect
<1>8. DeliversExactly'
  BY <1>5, <1>6, <1>7 DEF DeliversExactly, Distinct
<1>9. N2NDeliversBest' /\ LeastCoversSteps'
  BY <1>1, <1>7 DEF N2NDeliversBest, LeastCoversSteps, N2NAlgos
<1>10. QED
  BY <1>8, <1>9 DEF SearchDelivers

LEMMA StepsFinite ==
  ASSUME NEW g \in Seq(Edge(Nodes, Steps))
  PROVE  IsFiniteSet(StepsOf(g))
<1> DEFINE f == [e \in DOMAIN g |-> g[e].step]
<1>1. DOMAIN g = 1..Len(g) /\ Len(g) \in Nat
  BY LenProperties
<1>2. IsFiniteSet(DOMAIN g)
  BY <1>1, FS_Interval
<1>3. f \in Surjection(DOMAIN g, StepsOf(g))
  BY DEF Surjection, StepsOf
<1>4. QED
  BY <1>2, <1>3, FS_Surjection

(* The cover is done when it covers as many steps as all the paths do,     *)
(* which are then the same steps.                                          *)
LEMMA CoverIsWhole ==
  ASSUME IndInv, CoverInv, pc = "cover", Covered
  PROVE  StepsAt(chosen) = StepsAt(DOMAIN paths)
<1>1. chosen \subseteq DOMAIN paths /\ Elems(paths) = SoughtThrough(graph, scen)
  BY DEF CoverInv
<1>2. \A i \in DOMAIN paths : Elems(paths[i].steps) \subseteq StepsOf(graph)
  BY <1>1, SoughtPaths DEF SoughtThrough, Elems
<1>3. StepsAt(DOMAIN paths) \subseteq StepsOf(graph) /\ StepsAt(chosen) \subseteq StepsAt(DOMAIN paths)
  BY <1>1, <1>2 DEF StepsAt
<1>4. IsFiniteSet(StepsOf(graph))
  BY StepsFinite DEF IndInv, TypeOK
<1>5. IsFiniteSet(StepsAt(DOMAIN paths))
  BY <1>3, <1>4, FS_Subset
<1>6. /\ IsFiniteSet(StepsAt(chosen))
      /\ Cardinality(StepsAt(chosen)) <= Cardinality(StepsAt(DOMAIN paths))
      /\ Cardinality(StepsAt(DOMAIN paths)) = Cardinality(StepsAt(chosen)) =>
           StepsAt(DOMAIN paths) = StepsAt(chosen)
  BY <1>3, <1>5, FS_Subset
<1>7. Cardinality(StepsAt(chosen)) \in Nat /\ Cardinality(StepsAt(DOMAIN paths)) \in Nat
  BY <1>5, <1>6, FS_CardinalityType
<1>8. QED
  BY <1>6, <1>7 DEF Covered

LEMMA DeliveredCover ==
  ASSUME IndInv, CoverInv, ListInv, CoverDone
  PROVE  SearchDelivers'
<1>1. /\ pc = "cover" /\ Covered /\ alg = "least"
      /\ Deliver(Keep(paths, chosen)) /\ UNCHANGED <<graph, scenarios>>
      /\ chosen \subseteq DOMAIN paths
      /\ Elems(paths) = SoughtThrough(graph, scen)
  BY DEF CoverDone, finishUnchanged, CoverInv
<1>2. graph' = graph /\ prev' = scen /\ prevAlg' = alg /\ delivered' = Keep(paths, chosen)
  BY <1>1, DeliverEffect
<1>3. Elems(Keep(paths, chosen)) = {paths[i] : i \in chosen}
  BY <1>1, KeepFacts DEF ListInv
<1>4. StepsAt(chosen) = StepsAt(DOMAIN paths)
  BY <1>1, CoverIsWhole
<1>5. Elems(Keep(paths, chosen)) \subseteq SoughtThrough(graph, scen)
  BY <1>1, <1>3 DEF Elems
<1>6. UNION {Elems(p.steps) : p \in Elems(Keep(paths, chosen))} = StepsAt(chosen)
  BY <1>3 DEF StepsAt
<1>7. UNION {Elems(p.steps) : p \in SoughtThrough(graph, scen)} = StepsAt(DOMAIN paths)
  <2>1. SoughtThrough(graph, scen) = {paths[i] : i \in DOMAIN paths}
    BY <1>1 DEF Elems
  <2>2. QED
    BY <2>1 DEF StepsAt
<1>8. LeastCoversSteps'
  BY <1>2, <1>4, <1>5, <1>6, <1>7 DEF LeastCoversSteps
<1>9. DeliversExactly' /\ N2NDeliversBest'
  BY <1>1, <1>2 DEF DeliversExactly, N2NDeliversBest, N2NAlgos
<1>10. QED
  BY <1>8, <1>9 DEF SearchDelivers

LEMMA NotFinished ==
  ASSUME ~Finished
  PROVE  SearchDelivers
BY DEF SearchDelivers, DeliversExactly, N2NDeliversBest, LeastCoversSteps

LEMMA NotFinishedNext == pc' # "idle" => SearchDelivers'
BY DEF SearchDelivers, DeliversExactly, N2NDeliversBest, LeastCoversSteps, Finished

LEMMA InitFindInv == Init => FindInv
<1> SUFFICES ASSUME Init PROVE FindInv
  OBVIOUS
<1>1. /\ pc = "idle" /\ cur = 1 /\ stack = <<>> /\ paths = <<>> /\ chosen = {}
      /\ tmpPaths = [a \in N2NAlgos |-> <<>>]
  BY DEF Init
<1>2. Len(stack) = 0
  BY <1>1
<1>3. PathInv /\ CoverInv /\ FoundAll /\ FoundBest
  BY <1>1 DEF PathInv, CoverInv, Searching, FoundAll, FoundBest
<1>4. OkInv
  BY <1>2 DEF OkInv
<1>5. ListInv
  BY <1>1, EmptyList DEF ListInv
<1>6. ~Finished
  BY <1>1 DEF Finished
<1>7. SearchDelivers
  BY <1>6, NotFinished
<1>8. AskedInv
  BY <1>1, EmptyList DEF AskedInv, RoundBound, TmpAsked, PathsAsked, Searching
<1>9. QED
  BY <1>3, <1>4, <1>5, <1>7, <1>8 DEF FindInv

LEMMA DeliversNext ==
  ASSUME IndInv, FindInv, Next
  PROVE  SearchDelivers'
<1>1. CASE FinishAll
  BY <1>1, DeliveredAll DEF FindInv
<1>2. CASE FinishDist
  BY <1>2, DeliveredExtremal DEF FindInv
<1>3. CASE CoverDone
  BY <1>3, DeliveredCover DEF FindInv
<1>4. CASE Returned
  <2>1. UNCHANGED <<graph, scenarios, cur, pc, scenariosPathsMap>>
    BY <1>4 DEF Returned, vars
  <2>2. graph' = graph /\ prev' = prev /\ prevAlg' = prevAlg /\ delivered' = delivered /\ (Finished' <=> Finished)
    BY <2>1 DEF prev, prevAlg, delivered, Finished
  <2>3. SearchDelivers
    BY DEF FindInv
  <2>4. QED
    BY <2>1, <2>2, <2>3 DEF SearchDelivers, DeliversExactly, N2NDeliversBest, LeastCoversSteps, AskedFor
<1>5. CASE GenPath \/ StartState \/ EndStart \/ Move \/ Record \/ FinishLeast \/ (\E i \in DOMAIN paths : CoverRound(i))
  <2>1. pc' # "idle"
    BY <1>5 DEF GenPath, StartState, EndStart, Move, Record, DfsEnter, DfsDone, Restore, Follow, Skip,
                DfsStop, DfsExhausted, FinishLeast, CoverRound, finishUnchanged
  <2>2. QED
    BY <2>1, NotFinishedNext
<1>6. QED
  BY <1>1, <1>2, <1>3, <1>4, <1>5 DEF Next, Move, Record

LEMMA FindInvStutter ==
  ASSUME FindInv, UNCHANGED vars
  PROVE  FindInv'
<1>1. UNCHANGED <<graph, repeatTime, scenarios, cur, pc, todo, statePath, edgePath, stepPath,
                  stack, paths, stateDist, bestDist, tmpPaths, chosen, scenariosPathsMap>>
  BY DEF vars
<1>2. /\ scen' = scen /\ alg' = alg /\ stop' = stop /\ Starts(scen)' = Starts(scen)
      /\ ShortestOnly(scen)' = ShortestOnly(scen)
  BY <1>1, ScenFixed
<1>3. top' = top /\ curState' = curState
  BY <1>1 DEF top, curState
<1>4. PathInv'
  BY <1>1, <1>2, <1>3 DEF FindInv, PathInv
<1>5. OkInv'
  BY <1>1 DEF FindInv, OkInv
<1>6. \A s, w : Target(scen, s, w)' <=> Target(scen, s, w)
  BY <1>1, TargetFixed
<1>7. \A p : BestOfPair(graph, scen, p)' <=> BestOfPair(graph, scen, p)
  BY <1>1, BestFixed
<1>8. \A s, w : Remains(s, w)' <=> Remains(s, w)
  BY <1>1, <1>2, <1>3 DEF Remains, Ahead, Later, Onward, Agrees
<1>9. (Searching' <=> Searching) /\ graph' = graph
  BY <1>1 DEF Searching
<1>10. FoundAll'
  BY <1>1, <1>2, <1>6, <1>8, <1>9 DEF FindInv, FoundAll
<1>11. FoundBest'
  BY <1>1, <1>2, <1>6, <1>7, <1>8, <1>9 DEF FindInv, FoundBest, BestFound, RoundDist
<1>12. ListInv'
  BY <1>1 DEF FindInv, ListInv
<1>13. CoverInv'
  BY <1>1, <1>2, <1>9 DEF FindInv, CoverInv
<1>14. SearchDelivers'
  <2>1. graph' = graph /\ prev' = prev /\ prevAlg' = prevAlg /\ delivered' = delivered /\ (Finished' <=> Finished)
    BY <1>1 DEF prev, prevAlg, delivered, Finished
  <2>2. SearchDelivers
    BY DEF FindInv
  <2>3. QED
    BY <1>1, <2>1, <2>2 DEF SearchDelivers, DeliversExactly, N2NDeliversBest, LeastCoversSteps, AskedFor
<1>15. AskedInv'
  <2>1. \A a, p : AskedFor(a, cur, p)' <=> AskedFor(a, cur, p)
    BY <1>1 DEF AskedFor, BestSought, BestOfPair
  <2>2. \A p : FromRound(p)' <=> FromRound(p)
    BY <1>1, <1>6, <1>8 DEF FromRound
  <2>3. QED
    BY <1>1, <1>2, <1>6, <1>8, <1>9, <2>1, <2>2 DEF FindInv, AskedInv, RoundBound, TmpAsked, PathsAsked
<1>16. QED
  BY <1>4, <1>5, <1>10, <1>11, <1>12, <1>13, <1>14, <1>15 DEF FindInv

LEMMA FindInvNext == IndInv /\ FindInv /\ [Next]_vars => FindInv'
<1> SUFFICES ASSUME IndInv, FindInv, [Next]_vars PROVE FindInv'
  OBVIOUS
<1>1. CASE Next
  <2>1. PathInv' /\ OkInv' /\ ListInv'
    BY <1>1, PathInvNext, OkInvNext, ListInvNext DEF FindInv
  <2>2. FoundAll' /\ FoundBest' /\ AskedInv'
    BY <1>1, FoundAllNext, FoundBestNext, AskedInvNext DEF FindInv
  <2>3. CoverInv' /\ SearchDelivers'
    BY <1>1, CoverInvNext, DeliversNext DEF FindInv
  <2>4. QED
    BY <2>1, <2>2, <2>3 DEF FindInv
<1>2. CASE UNCHANGED vars
  BY <1>2, FindInvStutter
<1>3. QED
  BY <1>1, <1>2

LEMMA FindInductive == Spec => []FindInv
BY InitFindInv, FindInvNext, Inductive, PTL DEF Spec

(* Whatever the graph, its cycles and parallel edges, the repeat times and *)
(* the order of the start states, the depth first searches deliver what    *)
(* the scenario asks for: "all", "long" and "short" exactly the reference  *)
(* paths, each once (for the last two nothing without through states or    *)
(* steps), the N2N searches every best path between two states and else    *)
(* only what an earlier scenario with the same algorithm asked for,        *)
(* "least" a selection that covers every step.                             *)
THEOREM SearchCorrect == Spec => []SearchDelivers
<1>1. FindInv => SearchDelivers
  BY DEF FindInv
<1>2. QED
  BY <1>1, FindInductive, PTL

(* The greedy loop of getCoverSet never turns without covering a new step. *)
THEOREM CoverProgresses == Spec => CoverProgress
<1>1. ASSUME IndInv, FindInv, [Next]_vars
      PROVE  [chosen' # chosen /\ pc = "cover" => StepsAt(chosen') # StepsAt(chosen)]_vars
  <2> SUFFICES ASSUME Next, chosen' # chosen, pc = "cover"
               PROVE  StepsAt(chosen') # StepsAt(chosen)
    BY <1>1
  <2>1. PICK i \in DOMAIN paths : CoverRound(i)
    BY DEF Next, GenPath, StartState, DfsStop, DfsEnter, DfsExhausted, DfsDone, Restore, EndStart,
           Follow, Skip, FinishAll, FinishDist, FinishLeast, CoverDone, Returned, Done
  <2>2. /\ ~Covered /\ i \in DOMAIN paths \ chosen /\ IsBest(i) /\ chosen' = chosen \cup {i}
    BY <2>1 DEF CoverRound
  <2>3. /\ chosen \subseteq DOMAIN paths
        /\ \A j \in DOMAIN paths : Elems(paths[j].steps) \subseteq StepsOf(graph)
    BY <1>1, SoughtPaths DEF FindInv, CoverInv, SoughtThrough, Elems
  <2>4. IsFiniteSet(StepsOf(graph))
    BY <1>1, StepsFinite DEF IndInv, TypeOK
  <2>5. \A J \in SUBSET DOMAIN paths : IsFiniteSet(StepsAt(J)) /\ Cardinality(StepsAt(J)) \in Nat
    <3> SUFFICES ASSUME NEW J \in SUBSET DOMAIN paths
                 PROVE  IsFiniteSet(StepsAt(J)) /\ Cardinality(StepsAt(J)) \in Nat
      OBVIOUS
    <3>1. StepsAt(J) \subseteq StepsOf(graph)
      BY <2>3 DEF StepsAt
    <3>2. QED
      BY <2>4, <3>1, FS_Subset, FS_CardinalityType
  <2>6. PICK j \in DOMAIN paths : ~(Elems(paths[j].steps) \subseteq StepsAt(chosen))
    <3>1. StepsAt(DOMAIN paths) # StepsAt(chosen)
      BY <2>2, <2>3, <2>5 DEF Covered
    <3>2. StepsAt(chosen) \subseteq StepsAt(DOMAIN paths)
      BY <2>3 DEF StepsAt
    <3>3. PICK x \in StepsAt(DOMAIN paths) : x \notin StepsAt(chosen)
      BY <3>1, <3>2
    <3>4. QED
      BY <3>3 DEF StepsAt
  <2>7. j \in DOMAIN paths \ chosen
    BY <2>6 DEF StepsAt
  <2>8. Gain(j) > Cardinality(StepsAt(chosen))
    <3>1. StepsAt(chosen) \subseteq StepsAt(chosen \cup {j}) /\ StepsAt(chosen) # StepsAt(chosen \cup {j})
      BY <2>6 DEF StepsAt
    <3>2. /\ IsFiniteSet(StepsAt(chosen \cup {j})) /\ Cardinality(StepsAt(chosen \cup {j})) \in Nat
          /\ Cardinality(StepsAt(chosen)) \in Nat
      BY <2>3, <2>5
    <3>3. /\ Cardinality(StepsAt(chosen)) <= Cardinality(StepsAt(chosen \cup {j}))
          /\ Cardinality(StepsAt(chosen \cup {j})) # Cardinality(StepsAt(chosen))
      BY <3>1, <3>2, FS_Subset
    <3>4. QED
      BY <3>2, <3>3 DEF Gain
  <2>9. Gain(i) \in Nat /\ Gain(j) \in Nat
    BY <2>3, <2>5 DEF Gain
  <2>10. Gain(i) > Gain(j) \/ Gain(i) = Gain(j)
    BY <2>2, <2>7 DEF IsBest
  <2>11. Cardinality(StepsAt(chosen)) \in Nat
    BY <2>3, <2>5
  <2>12. Gain(i) # Cardinality(StepsAt(chosen))
    BY <2>8, <2>9, <2>10, <2>11
  <2>13. QED
    BY <2>2, <2>12 DEF Gain
<1>2. QED
  BY <1>1, Inductive, FindInductive, PTL DEF Spec, CoverProgress
=============================================================================
