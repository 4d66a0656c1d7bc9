------------------------------- MODULE MCGraph -------------------------------
(***************************************************************************)
(* Small models for what is made of the XML file.  The graph builder:      *)
(* elements with several begin and end states, a state named twice, no     *)
(* state at all, one step name for two step numbers, and repeat times that *)
(* are not given.  The case documents: steps and scenarios with every kind *)
(* of parameter list, a step used twice on a path, an empty path, two      *)
(* scenarios.  Every behaviour is of one part; the variables of the other  *)
(* keep one value.                                                         *)
(***************************************************************************)
EXTENDS MGraph

VARIABLES part,
          req, dpc, heap, ref, dataMap, datasMap, doc_at, doc_res, doc_model, doc_pc, si,
          combs, sc, pi, pathRows, choice, repl, replaced, docs, cases

-----------------------------------------------------------------------------
El(n, k, b, e, r) == [name |-> n, number |-> k, begin |-> b, end |-> e, repeat |-> r]

MCNodes == {"A", "B", "C"}
MCStepNames == {"s", "t"}
MCSteps == 1..3

First  == {El("s", 1, b, e, r) : b \in {<<"A">>, <<"A", "B">>}, e \in {<<"B">>, <<"C", "A">>, <<>>},
             r \in {-1, 2}}
Second == {El(n, 2, b, e, 0) : n \in {"s", "t"}, b \in {<<"C">>, <<>>, <<"B", "B">>},
             e \in {<<"A">>, <<"C", "B">>}}

MCModels == {<<>>} \cup {<<x>> : x \in First} \cup {<<x, y>> : x \in First, y \in Second}
            \cup {<<x, y, El("t", 3, <<"A">>, <<"A">>, 1)>> : x \in First, y \in Second}

P(n, t) == [name |-> n, tokens |-> t]

(* No parameters, a single value, lists with empty texts, a list of        *)
(* nothing but commas, a name given twice, more values than MaxNum.        *)
ParamLists ==
  {<<>>,
   <<P("x", <<"a">>)>>,
   <<P("x", <<"a", "b">>), P("y", <<"c", "", "d", "">>)>>,
   <<P("x", <<"a", "b">>), P("y", <<"", "">>)>>,
   <<P("x", <<"a", "b">>), P("x", <<"c", "d">>), P("y", <<"a">>)>>,
   <<P("y", <<"a", "b", "c", "d">>)>>}

S(n, a, p, su, cu) == [number |-> n, algo |-> a, params |-> p, stepUsed |-> su, scenUsed |-> cu]
W(e, s) == [edges |-> e, steps |-> s]
C(a, p, w) == [algo |-> a, params |-> p, paths |-> w]

AllPaths == <<W(<<1, 2>>, <<1, 2>>), W(<<>>, <<>>), W(<<1>>, <<1>>), W(<<1, 2, 3>>, <<1, 2, 1>>)>>

DocModels ==
  {[steps |-> <<S(1, a, p, {"x", "y"}, {"x"}), S(2, b, <<P("x", <<"b", "c">>)>>, u, {"y"})>>,
    scenarios |-> <<C(b, q, AllPaths)>>] :
     a \in {"align", "discards"}, b \in {"discards", "none"}, p \in ParamLists,
     u \in {{}, {"x"}}, q \in ParamLists}
  \cup
  {[steps |-> <<S(1, "align", p, {"y"}, {}), S(1, "discards", p, {"x", "y"}, {"x"})>>,
    scenarios |-> <<C("align", q, <<W(<<1>>, <<1>>)>>),
                    C("discards", p, <<W(<<1>>, <<1>>), W(<<1>>, <<1>>)>>)>>] :
     p \in ParamLists, q \in ParamLists}

GD == INSTANCE MGenDocMap WITH
        Names <- {"x", "y"}, Values <- {"", "a", "b", "c", "d"}, MaxNum <- 3,
        Steps <- {1, 2}, Edges <- {1, 2, 3}, Models <- DocModels, at <- doc_at,
        res <- doc_res, model <- doc_model, pc <- doc_pc
ASSUME GD!DocAssumption

docVars == <<req, dpc, heap, ref, dataMap, datasMap, doc_at, doc_res, doc_model, doc_pc, si,
             combs, sc, pi, pathRows, choice, repl, replaced, docs, cases>>
docUnused ==
    /\ req = "unused" /\ dpc = "unused" /\ heap = "unused" /\ ref = "unused"
    /\ dataMap = "unused" /\ datasMap = "unused" /\ doc_at = "unused" /\ doc_res = "unused"
    /\ doc_model = "unused" /\ doc_pc = "unused" /\ si = "unused" /\ combs = "unused"
    /\ sc = "unused" /\ pi = "unused" /\ pathRows = "unused" /\ choice = "unused"
    /\ repl = "unused" /\ replaced = "unused" /\ docs = "unused" /\ cases = "unused"

AnyInit ==
  /\ part \in {"graph", "docs"}
  /\ part # "graph" => model = <<>>
  /\ Init
  /\ IF part = "docs" THEN GD!Init ELSE docUnused

AnyNext ==
  /\ UNCHANGED part
  /\ IF part = "graph" THEN Next ELSE UNCHANGED vars
  /\ IF part = "docs" THEN GD!Next ELSE UNCHANGED docVars

AnySpec == AnyInit /\ [][AnyNext]_<<part, vars, docVars>>

-----------------------------------------------------------------------------
(* Nothing is lost or mixed up on the way from the model to the cases.     *)
(* MGraph.java:100: the node tables are inverse to each other, and every   *)
(* pair of a begin and an end state is one edge, in order.                 *)
(* MGenDocMap.java:149, MDataAlgoAlign.java:37: every path has a case for  *)
(* every choice of step combinations and every combination of the          *)
(* parameters it uses, each once; the rows are those of the call, whatever *)
(* was asked before; every step has the values of its last choice.         *)
CasesComplete ==
  /\ part = "graph" => TypeOK /\ NodesNumbered /\ PairsInOrder
  /\ part = "docs" => /\ GD!TypeOK /\ GD!DataIsCombination
                      /\ GD!CasesComplete /\ GD!LastChoiceWins
=============================================================================
