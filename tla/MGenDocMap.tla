----------------------------- MODULE MGenDocMap -----------------------------
(***************************************************************************)
(* From paths to case documents.  MGenStepXml combines the parameters of   *)
(* every step, MGenDocMap those of the scenario for every path, and        *)
(* MGenReplacedStep goes through the combinations of the steps along the   *)
(* path; each pair of the two is one document, which MGenCase turns into a *)
(* case.  A document is the values put into each step of the path, not its *)
(* text.                                                                   *)
(*                                                                         *)
(* All of them use the two data combination algorithms (common/data):      *)
(* "align" pairs the values of the parameters position by position,        *)
(* "discards" builds their Cartesian product.  MDataAlgoMag creates one    *)
(* object of each for the life of the JVM, and the result genData returns  *)
(* is a field of the object, so every call meets what the calls before it  *)
(* left.  A parameter set is passed by reference: heap holds the sets the  *)
(* callers have created, and "align" keeps a reference to the last one.    *)
(***************************************************************************)
EXTENDS Integers, Sequences, FiniteSets

CONSTANTS Names,     \* parameter names
          Values,    \* value texts, "" among them
          MaxNum,    \* MPARAM_MAX_NUM, 10000 in the code
          Steps,     \* step numbers
          Edges,     \* edge numbers
          Models     \* the models considered

Algos == {"align", "discards"}

(* A parameter: its name and the texts between the commas of its value.    *)
Param == [name : Names, tokens : Seq(Values)]

(* A call of genData.  through tells MGenData.genData, which answers an    *)
(* empty set itself, from a call of the algorithm.                         *)
Request == [algo : STRING, params : Seq(Param), used : SUBSET Names, through : BOOLEAN]

VARIABLES
  req,       \* the current or last call
  dpc,       \* where genData is
  heap,      \* the parameter sets created so far
  ref,       \* the one that align's paramSet refers to, or 0
  dataMap,   \* dataMap[a]: the row under construction
  datasMap,  \* datasMap[a]: the rows of the result
  at,        \* loop indices: of align's row, or one per discards activation
  res        \* what was returned: "null", an "empty" new map or "rows";
             \* "taken" once the caller has used it

dataVars == <<req, dpc, heap, ref, dataMap, datasMap, at, res>>

NoRow == [n \in {} |-> ""]

DataInit ==
  /\ req = [algo |-> "align", params |-> <<>>, used |-> {}, through |-> FALSE]
  /\ dpc = "idle"
  /\ heap = <<>>
  /\ ref = 0
  /\ dataMap = [a \in Algos |-> NoRow]
  /\ datasMap = [a \in Algos |-> <<>>]
  /\ at = <<>>
  /\ res = "taken"

(* getAlgorithm: a name nobody registered means align.                     *)
GetAlgorithm(a) == IF a \in Algos THEN a ELSE "align"

alg == GetAlgorithm(req.algo)
rows == datasMap[alg]

(* split(",") drops the empty texts at the end, but not an only one.       *)
ValueList(p) ==
  IF Len(p.tokens) = 1 THEN p.tokens
  ELSE LET n == CHOOSE k \in 0..Len(p.tokens) :
                  /\ k = 0 \/ p.tokens[k] # ""
                  /\ \A j \in (k + 1)..Len(p.tokens) : p.tokens[j] = ""
       IN  SubSeq(p.tokens, 1, n)

(* An empty value becomes a blank.                                         *)
Fill(v) == IF v = "" THEN " " ELSE v

(* The parameters of the list that are in the set.                         *)
Own(params, set) == SelectSeq(params, LAMBDA p : p.name \in set)

Put(row, p, i) ==
  [n \in DOMAIN row \cup {p.name} |-> IF n = p.name THEN Fill(ValueList(p)[i]) ELSE row[n]]

(* The row with value v[k] of the k-th parameter put for every k in order. *)
Puts(row, params, v) ==
  [n \in DOMAIN row \cup {params[k].name : k \in DOMAIN params} |->
     LET K == {k \in DOMAIN params : params[k].name = n}
         k == CHOOSE k \in K : \A j \in K : j <= k
     IN  IF K = {} THEN row[n] ELSE Fill(ValueList(params[k])[v[k]])]

-----------------------------------------------------------------------------
(* A caller creates the parameter set and calls genData; without           *)
(* parameters there is nothing to combine.                                 *)
Answer(r) == IF r.through /\ r.used = {} THEN "empty"
             ELSE IF r.params = <<>> THEN "null" ELSE "rows"

CallAnswered(r) ==
  /\ dpc = "idle"
  /\ Answer(r) # "rows"
  /\ req' = r
  /\ res' = Answer(r)
  /\ heap' = Append(heap, r.used)
  /\ UNCHANGED <<dpc, ref, dataMap, datasMap, at>>

(* this.paramSet.clear(), on the set of an earlier caller, and then        *)
(* this.paramSet = paramSet.                                               *)
TakeSet(r) ==
  /\ ref' = Len(heap) + 1
  /\ heap' = Append([k \in DOMAIN heap |-> IF k = ref THEN {} ELSE heap[k]], r.used)

CallAlign(r) ==
  /\ dpc = "idle"
  /\ Answer(r) = "rows"
  /\ GetAlgorithm(r.algo) = "align"
  /\ req' = r
  /\ TakeSet(r)
  /\ dataMap' = [dataMap EXCEPT !["align"] = NoRow]
  /\ datasMap' = [datasMap EXCEPT !["align"] = <<>>]
  /\ at' = <<1>>
  /\ dpc' = "align"
  /\ UNCHANGED res

aligned == Own(req.params, heap[ref])

(* As many rows as the shortest value list has values.                     *)
InDataNum(j) == j <= MaxNum /\ \A k \in DOMAIN aligned : j <= Len(ValueList(aligned[k]))

AlignRow ==
  /\ dpc = "align"
  /\ InDataNum(at[1])
  /\ LET row == Puts(dataMap["align"], aligned, [k \in DOMAIN aligned |-> at[1]])
     IN  IF aligned = <<>> THEN UNCHANGED <<dataMap, datasMap>>
         ELSE /\ dataMap' = [dataMap EXCEPT !["align"] = row]
              /\ datasMap' = [datasMap EXCEPT !["align"] = Append(@, row)]
  /\ at' = <<at[1] + 1>>
  /\ UNCHANGED <<req, dpc, heap, ref, res>>

AlignReturns ==
  /\ dpc = "align"
  /\ ~InDataNum(at[1])
  /\ dpc' = "idle"
  /\ res' = "rows"
  /\ UNCHANGED <<req, heap, ref, dataMap, datasMap, at>>

-----------------------------------------------------------------------------
(* genData clears the rows and filters the parameters; dataMap keeps what  *)
(* is in it.                                                               *)
CallDiscards(r) ==
  /\ dpc = "idle"
  /\ Answer(r) = "rows"
  /\ GetAlgorithm(r.algo) = "discards"
  /\ req' = r
  /\ heap' = Append(heap, r.used)
  /\ datasMap' = [datasMap EXCEPT !["discards"] = <<>>]
  /\ IF Own(r.params, r.used) = <<>>
     THEN /\ res' = "rows"
          /\ UNCHANGED <<dpc, at>>
     ELSE /\ at' = <<1>>
          /\ dpc' = "discards"
          /\ UNCHANGED res
  /\ UNCHANGED <<ref, dataMap>>

combined == Own(req.params, req.used)
level == Len(at)
hasValue == at[level] \in DOMAIN ValueList(combined[level])

(* The loop index of the innermost activation goes on.                     *)
Bump(s) == [s EXCEPT ![Len(s)] = @ + 1]

(* getAlgoDiscardsResult takes the next value of a parameter: the last one *)
(* completes a row, any other calls for the parameter after it.            *)
LastParam ==
  /\ dpc = "discards"
  /\ level = Len(combined)
  /\ hasValue
  /\ LET row == Put(dataMap["discards"], combined[level], at[level])
     IN  /\ dataMap' = [dataMap EXCEPT !["discards"] = row]
         /\ datasMap' = [datasMap EXCEPT !["discards"] = Append(@, row)]
  /\ at' = Bump(at)
  /\ UNCHANGED <<req, dpc, heap, ref, res>>

InnerParam ==
  /\ dpc = "discards"
  /\ level < Len(combined)
  /\ hasValue
  /\ dataMap' = [dataMap EXCEPT !["discards"] = Put(@, combined[level], at[level])]
  /\ at' = Append(at, 1)
  /\ UNCHANGED <<req, dpc, heap, ref, datasMap, res>>

ParamDone ==
  /\ dpc = "discards"
  /\ ~hasValue
  /\ level > 1
  /\ at' = Bump(SubSeq(at, 1, level - 1))
  /\ UNCHANGED <<req, dpc, heap, ref, dataMap, datasMap, res>>

DiscardsReturns ==
  /\ dpc = "discards"
  /\ ~hasValue
  /\ level = 1
  /\ dpc' = "idle"
  /\ res' = "rows"
  /\ UNCHANGED <<req, heap, ref, dataMap, datasMap, at>>

-----------------------------------------------------------------------------
Call(r) == CallAnswered(r) \/ CallAlign(r) \/ CallDiscards(r)

GenData == \/ AlignRow \/ AlignReturns
           \/ LastParam \/ InnerParam \/ ParamDone \/ DiscardsReturns

-----------------------------------------------------------------------------
(* No value of a row is empty.                                             *)
Row == UNION {[N -> (Values \ {""}) \cup {" "}] : N \in SUBSET Names}

DataTypeOK ==
  /\ req \in Request
  /\ dpc \in Algos \cup {"idle"}
  /\ dpc \in Algos => dpc = alg
  /\ heap \in Seq(SUBSET Names)
  /\ ref \in 0..Len(heap)
  /\ dataMap \in [Algos -> Row]
  /\ datasMap \in [Algos -> Seq(Row)]
  /\ at \in Seq(Nat)
  /\ res \in {"null", "empty", "rows", "taken"}

-----------------------------------------------------------------------------
(* What the algorithms compute, said without a loop.                       *)
Cut(row, N) == [n \in DOMAIN row \cap N |-> row[n]]

(* A choice takes one value of each parameter.  Choices are ordered like   *)
(* numbers, the first parameter being the most significant digit.          *)
Choices(params) ==
  {v \in [DOMAIN params -> UNION {DOMAIN params[k].tokens : k \in DOMAIN params}] :
     \A k \in DOMAIN params : v[k] \in DOMAIN ValueList(params[k])}
Precedes(v, w) == \E k \in DOMAIN v : v[k] < w[k] /\ \A j \in 1..(k - 1) : v[j] = w[j]
Rank(v, V) == 1 + Cardinality({w \in V : Precedes(w, v)})

Diagonal(params) ==
  {v \in Choices(params) : \A j, k \in DOMAIN params : v[j] = v[k] /\ v[j] <= MaxNum}

NamesIn(params) == {params[k].name : k \in DOMAIN params}
OwnNames(r) == NamesIn(Own(r.params, r.used))

RowsFor(r) ==
  LET params == Own(r.params, r.used)
      V == IF params = <<>> THEN {}
           ELSE IF GetAlgorithm(r.algo) = "align" THEN Diagonal(params) ELSE Choices(params)
  IN  [i \in 1..Cardinality(V) |->
         Puts(NoRow, params, CHOOSE v \in V : Rank(v, V) = i)]

(* genData returns exactly the combinations of the values of the           *)
(* parameters it was asked for, in order, whatever was asked before.       *)
DataIsCombination ==
  dpc = "idle" /\ res = "rows" =>
    [i \in DOMAIN rows |-> Cut(rows[i], OwnNames(req))] = RowsFor(req)

-----------------------------------------------------------------------------
StepElem == [number : Steps, algo : STRING, params : Seq(Param),
             stepUsed : SUBSET Names, scenUsed : SUBSET Names]
Path == [edges : Seq(Edges), steps : Seq(Steps)]
Scen == [algo : STRING, params : Seq(Param), paths : Seq(Path)]

DocAssumption ==
  MaxNum \in Nat /\ Models \subseteq [steps : Seq(StepElem), scenarios : Seq(Scen)]

VARIABLES
  model,     \* the step elements and scenarios of the MBT XML file
  pc,        \* the stage
  si,        \* the step element MGenStepXml is at
  combs,     \* combs[x]: the combinations of step x in the step XML file
  sc, pi,    \* scenario and path that MGenDocMap is at
  pathRows,  \* pathParamMap: the combinations of the scenario's parameters
  choice,    \* the dfs of MGenReplacedStep: one loop index per activation
  repl,      \* replacedStepMap: step |-> the values put into it
  replaced,  \* replacedStepList, with the choice each entry was made for
  docs,      \* scriptDocMap: path name |-> the documents of the path
  cases      \* what each finished scenario has handed to MGenCase

docVars == <<model, pc, si, combs, sc, pi, pathRows, choice, repl, replaced, docs, cases>>
vars == <<req, dpc, heap, ref, dataMap, datasMap, at, res, docVars>>

Empty == [x \in {} |-> <<>>]

Init ==
  /\ DataInit
  /\ model \in Models
  /\ pc = "steps"
  /\ si = 1 /\ sc = 1 /\ pi = 1
  /\ combs = Empty /\ repl = Empty /\ docs = Empty
  /\ pathRows = <<>> /\ choice = <<>> /\ replaced = <<>> /\ cases = <<>>

(* The step elements with a number; maps by number hold the last one.      *)
ElemOf(x) ==
  LET I == {i \in DOMAIN model.steps : model.steps[i].number = x}
  IN  model.steps[CHOOSE i \in I : \A j \in I : j <= i]

scen == model.scenarios[sc]
path == scen.paths[pi]

-----------------------------------------------------------------------------
(* MGenStepXml.genStepXml.                                                 *)
StepRequest(x) == [algo |-> x.algo, params |-> x.params, used |-> x.stepUsed, through |-> FALSE]

StepCall ==
  /\ pc = "steps"
  /\ si \in DOMAIN model.steps
  /\ Call(StepRequest(model.steps[si]))
  /\ pc' = "stepdata"
  /\ UNCHANGED <<model, si, combs, sc, pi, pathRows, choice, repl, replaced, docs, cases>>

PutCombs(x, c) == [y \in DOMAIN combs \cup {x.number} |-> IF y = x.number THEN c ELSE combs[y]]

(* The rows go into the XML file, cut to the parameters the step lists.    *)
StepRows ==
  /\ pc = "stepdata"
  /\ dpc = "idle"
  /\ LET x == model.steps[si]
         c == IF res = "null" THEN <<>> ELSE [i \in DOMAIN rows |-> Cut(rows[i], NamesIn(x.params))]
     IN  combs' = PutCombs(x, c)
  /\ si' = si + 1
  /\ res' = "taken"
  /\ pc' = "steps"
  /\ UNCHANGED <<req, dpc, heap, ref, dataMap, datasMap, at,
                 model, sc, pi, pathRows, choice, repl, replaced, docs, cases>>

StepXml ==
  /\ pc = "steps"
  /\ si \notin DOMAIN model.steps
  /\ pc' = "scenario"
  /\ UNCHANGED <<dataVars, model, si, combs, sc, pi, pathRows, choice, repl, replaced, docs, cases>>

(* The XML files cannot be read or written; the loader ignores it.         *)
StepXmlFails ==
  /\ pc = "steps"
  /\ combs' = Empty
  /\ pc' = "scenario"
  /\ UNCHANGED <<dataVars, model, si, sc, pi, pathRows, choice, repl, replaced, docs, cases>>

-----------------------------------------------------------------------------
(* The loop of MTestLoader.run over the scenarios and MGenDocMap.genDocMap *)
(* over the paths.                                                         *)
BeginScenario ==
  /\ pc = "scenario"
  /\ sc \in DOMAIN model.scenarios
  /\ pi' = 1
  /\ docs' = Empty
  /\ pc' = "path"
  /\ UNCHANGED <<dataVars, model, si, combs, sc, pathRows, choice, repl, replaced, cases>>

(* "ignore illegal paths".                                                 *)
SkipPath ==
  /\ pc = "path"
  /\ pi \in DOMAIN scen.paths
  /\ path.edges = <<>>
  /\ pi' = pi + 1
  /\ UNCHANGED <<dataVars, model, pc, si, combs, sc, pathRows, choice, repl, replaced, docs, cases>>

(* MGenPathParamSet.genPathParamSet: the scenario parameters that the      *)
(* steps of the path use.                                                  *)
PathParamSet(p) == UNION {ElemOf(p.steps[m]).scenUsed : m \in DOMAIN p.steps}

PathRequest(s, p) ==
  [algo |-> s.algo, params |-> s.params, used |-> PathParamSet(p), through |-> TRUE]

PathCall ==
  /\ pc = "path"
  /\ pi \in DOMAIN scen.paths
  /\ path.edges # <<>>
  /\ Call(PathRequest(scen, path))
  /\ pc' = "pathdata"
  /\ UNCHANGED <<model, si, combs, sc, pi, pathRows, choice, repl, replaced, docs, cases>>

(* genData returned null, and the next statement asks for its size.        *)
PathFails ==
  /\ pc = "pathdata"
  /\ dpc = "idle"
  /\ res = "null"
  /\ pc' = "failed"
  /\ UNCHANGED <<dataVars, model, si, combs, sc, pi, pathRows, choice, repl, replaced, docs, cases>>

(* No combination at all is one without values; it is put into the map     *)
(* that genData returned, which may be the algorithm's own.                *)
PathRows ==
  /\ pc = "pathdata"
  /\ dpc = "idle"
  /\ res \in {"empty", "rows"}
  /\ LET got == IF res = "rows" THEN rows ELSE <<>>
     IN  /\ pathRows' = IF got = <<>> THEN <<NoRow>> ELSE got
         /\ datasMap' = IF res = "rows" THEN [datasMap EXCEPT ![alg] = pathRows'] ELSE datasMap
  /\ res' = "taken"
  /\ choice' = <<1>>
  /\ repl' = Empty
  /\ replaced' = <<>>
  /\ pc' = "replace"
  /\ UNCHANGED <<req, dpc, heap, ref, dataMap, at, model, si, combs, sc, pi, docs, cases>>

-----------------------------------------------------------------------------
(* MGenReplacedStep.dfs along the path.                                    *)
pos == Len(choice)
curStep == path.steps[pos]

(* The combinations of a step; none is one without values.                 *)
CombsOf(x) == IF combs[x] = <<>> THEN <<NoRow>> ELSE combs[x]

PutStepValues(x, row) == [y \in DOMAIN repl \cup {x} |-> IF y = x THEN row ELSE repl[y]]

ReplaceStep ==
  /\ pc = "replace"
  /\ curStep \in DOMAIN combs
  /\ choice[pos] \in DOMAIN CombsOf(curStep)
  /\ repl' = PutStepValues(curStep, CombsOf(curStep)[choice[pos]])
  /\ IF pos = Len(path.steps)
     THEN /\ replaced' = Append(replaced, [map |-> repl', choice |-> choice])
          /\ choice' = Bump(choice)
     ELSE /\ choice' = Append(choice, 1)
          /\ UNCHANGED replaced
  /\ UNCHANGED <<dataVars, model, pc, si, combs, sc, pi, pathRows, docs, cases>>

ReplaceBack ==
  /\ pc = "replace"
  /\ curStep \in DOMAIN combs
  /\ choice[pos] \notin DOMAIN CombsOf(curStep)
  /\ pos > 1
  /\ choice' = Bump(SubSeq(choice, 1, pos - 1))
  /\ UNCHANGED <<dataVars, model, pc, si, combs, sc, pi, pathRows, repl, replaced, docs, cases>>

(* Without the step XML file the list of combinations is null.             *)
ReplaceFails ==
  /\ pc = "replace"
  /\ curStep \notin DOMAIN combs
  /\ pc' = "failed"
  /\ UNCHANGED <<dataVars, model, si, combs, sc, pi, pathRows, choice, repl, replaced, docs, cases>>

(* Mutant: the number of a document counts the other loop.                 *)
DocNumberSwapped(j, k) == (k - 1) * Len(replaced) + j

(* Documents are numbered through both loops.                              *)
DocNumber(j, k) == (j - 1) * Len(pathRows) + k

Doc(j, k) ==
  [number |-> DocNumber(j, k), choice |-> replaced[j].choice, row |-> pathRows[k],
   steps |-> [m \in DOMAIN path.steps |-> replaced[j].map[path.steps[m]]]]

(* The dfs returns; one document for every pair, and the path is done.     *)
GenDocs ==
  /\ pc = "replace"
  /\ curStep \in DOMAIN combs
  /\ choice[pos] \notin DOMAIN CombsOf(curStep)
  /\ pos = 1
  /\ LET n == Len(pathRows)
         list == [i \in 1..(n * Len(replaced)) |-> Doc(((i - 1) \div n) + 1, ((i - 1) % n) + 1)]
     IN  docs' = [e \in DOMAIN docs \cup {path.edges} |-> IF e = path.edges THEN list ELSE docs[e]]
  /\ pi' = pi + 1
  /\ pc' = "path"
  /\ UNCHANGED <<dataVars, model, si, combs, sc, pathRows, choice, repl, replaced, cases>>

(* MGenCase for every document of the scenario.                            *)
GenCases ==
  /\ pc = "path"
  /\ pi \notin DOMAIN scen.paths
  /\ cases' = Append(cases, docs)
  /\ sc' = sc + 1
  /\ pc' = "scenario"
  /\ UNCHANGED <<dataVars, model, si, combs, pi, pathRows, choice, repl, replaced, docs>>

Finish ==
  /\ pc = "scenario"
  /\ sc \notin DOMAIN model.scenarios
  /\ pc' = "done"
  /\ UNCHANGED <<dataVars, model, si, combs, sc, pi, pathRows, choice, repl, replaced, docs, cases>>

Ended == pc \in {"done", "failed"} /\ UNCHANGED vars

Next ==
  \/ StepCall \/ StepRows \/ StepXml \/ StepXmlFails
  \/ BeginScenario \/ SkipPath \/ PathCall \/ PathFails \/ PathRows
  \/ ReplaceStep \/ ReplaceBack \/ ReplaceFails \/ GenDocs
  \/ GenCases \/ Finish
  \/ GenData /\ UNCHANGED docVars
  \/ Ended

Spec == Init /\ [][Next]_vars

-----------------------------------------------------------------------------
(* Every variable keeps its type, and the callers of genData wait for it.  *)
TypeOK ==
  /\ DataTypeOK
  /\ pc \in {"steps", "stepdata", "scenario", "path", "pathdata", "replace", "done", "failed"}
  /\ pc \notin {"stepdata", "pathdata"} => dpc = "idle"
  /\ si \in 1..(Len(model.steps) + 1)
  /\ sc \in 1..(Len(model.scenarios) + 1)
  /\ combs \in [DOMAIN combs -> Seq(Row)] /\ DOMAIN combs \subseteq Steps
  /\ pathRows \in Seq(Row)
  /\ choice \in Seq(Nat)
  /\ repl \in [DOMAIN repl -> Row] /\ DOMAIN repl \subseteq Steps
  /\ pc = "replace" => pi \in DOMAIN scen.paths /\ pos \in 1..Len(path.steps)
  /\ DOMAIN docs \subseteq Seq(Edges)
  /\ Len(cases) = sc - 1

(* A choice of one combination for each step of the path, in the order of  *)
(* the dfs.                                                                *)
StepChoices(p) ==
  {v \in [DOMAIN p.steps -> UNION {DOMAIN CombsOf(p.steps[m]) : m \in DOMAIN p.steps}] :
     \A m \in DOMAIN p.steps : v[m] \in DOMAIN CombsOf(p.steps[m])}

RowsOrOne(r) == IF RowsFor(r) = <<>> THEN <<NoRow>> ELSE RowsFor(r)

PathsNamed(s, e) == {i \in DOMAIN s.paths : s.paths[i].edges = e}

(* A finished scenario has a case for every path that is not empty, every  *)
(* choice of step combinations and every combination of the parameters the *)
(* path uses, each once, numbered in that order, and no other case.        *)
CasesComplete ==
  \A c \in DOMAIN cases :
    LET s == model.scenarios[c] IN
    /\ DOMAIN cases[c] = {s.paths[i].edges : i \in DOMAIN s.paths} \ {<<>>}
    /\ \A e \in DOMAIN cases[c] : \E i \in PathsNamed(s, e) :
         LET p == s.paths[i]
             V == StepChoices(p)
             r == PathRequest(s, p)
             expected == RowsOrOne(r)
             n == Len(expected)
             list == cases[c][e]
         IN  /\ Len(list) = Cardinality(V) * n
             /\ \A k \in DOMAIN list :
                  /\ list[k].number = k
                  /\ Rank(list[k].choice, V) = ((k - 1) \div n) + 1
                  /\ Cut(list[k].row, OwnNames(r)) = expected[((k - 1) % n) + 1]

(* The step values of a case are those of the combination it was made for. *)
HasChosenValues(d, p, m) == d.steps[m] = CombsOf(p.steps[m])[d.choice[m]]

(* Every step of a case has the values chosen for its last occurrence on   *)
(* the path, whatever the dfs has put into it for other choices before.    *)
LastChoiceWins ==
  \A c \in DOMAIN cases : \A e \in DOMAIN cases[c] : \A k \in DOMAIN cases[c][e] :
    \E i \in PathsNamed(model.scenarios[c], e) :
      LET p == model.scenarios[c].paths[i] IN
      \A m \in DOMAIN p.steps :
        (\A j \in DOMAIN p.steps : p.steps[j] = p.steps[m] => j <= m)
          => HasChosenValues(cases[c][e][k], p, m)
=============================================================================
