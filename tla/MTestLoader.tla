---------------------------- MODULE MTestLoader ----------------------------
(***************************************************************************)
(* MTestLoader.run, the pipeline from the user's model class to test       *)
(* cases, run after run on one directory.  It generates and compiles       *)
(* temporary classes, invokes the step methods of the model, which leave   *)
(* the step log, turns the log into the MBT XML file, generates the cases  *)
(* and deletes its temporary files.  Any stage may throw, and the process  *)
(* may be killed at any point; what it leaves on disk meets the next run.  *)
(*                                                                         *)
(* Generated classes carry a time stamp, so their files belong to a run.   *)
(* The step log and the XML files have fixed names: a later run meets what *)
(* an earlier one left of them.  Disk writes succeed.                      *)
(***************************************************************************)
EXTENDS Integers, Sequences, FiniteSets

CONSTANTS Models,    \* the model classes: their step methods, as reflection lists them
          MaxRuns    \* bound on the number of runs

(* A step method: its name, its MStepNumber (-1 without one) and the       *)
(* actions it calls.                                                       *)
Step == [name : STRING, number : Int, actions : Seq(STRING)]

ASSUME LoaderAssumption == MaxRuns \in Nat /\ Models \subseteq Seq(Step)

(* Temporary files: four with a time stamp in the name, three without.     *)
StampedFiles == {"sysAction", "sysActionClass", "sysMbt", "sysMbtClass"}
FixedFiles   == {"mbtXml", "varCombXml", "stepVarXml"}
TmpFiles     == StampedFiles \cup FixedFiles

VARIABLES
  run,        \* the number of the current or last run
  model,      \* its model class
  methods,    \* genStepLogFile: tmpMethodList, the step methods to invoke
  pc,         \* the stage of run()
  step, act,  \* genStepLogFile: its loop index, actions of the step invoked so far
  loadable,   \* the class loader will find the compiled class
  files,      \* files on disk: [file, run that wrote it]
  paths,      \* the path variables of run() that are not null
  stepLog,    \* the lines of the step log, none when there is no log
  xml,        \* the TESTSTEP elements of the MBT XML file
  logBefore,  \* whether there was a step log when this run began
  ended       \* ended[r]: how run r ended

vars == <<run, model, methods, pc, step, act, loadable, files, paths, stepLog, xml, logBefore, ended>>

-----------------------------------------------------------------------------
(* Lines of the step log.  Begin stands for STEP BEGIN and the seven lines *)
(* of basic information, which are appended in one write.                  *)
Begin(s)  == [kind |-> "begin", text |-> s.name]
Action(a) == [kind |-> "action", text |-> a]
End       == [kind |-> "end"]

(* Mutant: a block opens only at the first begin line of the log.          *)
OpensFirst(log, i) == log[i].kind = "begin" /\ \A j \in 1..(i - 1) : log[j].kind # "begin"

(* How genMbtXmlFile reads the log: a block opens at the first begin line  *)
(* after the end of the block before, and takes every line up to the next  *)
(* end line for an action.                                                 *)
Opens(log, i) ==
  /\ log[i].kind = "begin"
  /\ \A j \in 1..(i - 1) : log[j].kind = "begin" => \E k \in j..i : log[k].kind = "end"

Closes(log, i, k) ==
  /\ k > i /\ log[k].kind = "end"
  /\ \A j \in i..(k - 1) : log[j].kind # "end"

Headers(log) == {i \in DOMAIN log : Opens(log, i)}
AllClosed(log) == \A i \in Headers(log) : \E k \in DOMAIN log : Closes(log, i, k)

TestSteps(log) ==
  [i \in Headers(log) |->
     LET k == CHOOSE j \in DOMAIN log : Closes(log, i, j)
     IN  [name |-> log[i].text, lines |-> SubSeq(log, i + 1, k - 1)]]

NoSteps == [i \in {} |-> <<>>]

-----------------------------------------------------------------------------
Init ==
  /\ run = 0
  /\ model = <<>> /\ methods = <<>>
  /\ pc = "idle"
  /\ step = 1 /\ act = 0
  /\ loadable = TRUE
  /\ files = {}
  /\ paths = {}
  /\ stepLog = <<>>
  /\ xml = NoSteps
  /\ logBefore = FALSE
  /\ ended = <<>>

Written(names) == {[file |-> n, run |-> run] : n \in names}

Write(names) == files' = files \cup Written(names)

(* Fixed names: MXmlCreate deletes what is there before it writes.         *)
Overwrite(names) == files' = {f \in files : f.file \notin names} \cup Written(names)

(* DelTmpFile: a path that is null or not a file is passed over.           *)
IsAt(f, names) == f.file \in names /\ (f.file \in FixedFiles \/ f.run = run)
DelTmpFile(names) == files' = {f \in files : ~IsAt(f, names)}

(* run() begins; the paths of the action files are set.                    *)
Start(m) ==
  /\ pc = "idle"
  /\ run < MaxRuns
  /\ run' = run + 1
  /\ model' = m /\ methods' = <<>>
  /\ pc' = "action"
  /\ step' = 1 /\ act' = 0
  /\ paths' = {"sysAction", "sysActionClass"}
  /\ logBefore' = (stepLog # <<>>)
  /\ xml' = NoSteps
  /\ UNCHANGED <<loadable, files, stepLog, ended>>

pipelineUnchanged == <<run, model, methods, step, act, logBefore, ended>>

(* Mutant: the paths of the MBT files are not set before they are written. *)
GenActionLatePaths ==
  /\ pc = "action"
  /\ Write({"sysAction"})
  /\ pc' = "mbt"
  /\ UNCHANGED <<pipelineUnchanged, loadable, paths, stepLog, xml>>

(* MGenAction.genAction; then the paths of the MBT files are set.          *)
GenAction ==
  /\ pc = "action"
  /\ Write({"sysAction"})
  /\ paths' = paths \cup {"sysMbt", "sysMbtClass"}
  /\ pc' = "mbt"
  /\ UNCHANGED <<pipelineUnchanged, loadable, stepLog, xml>>

(* MGenMbt.genMbt.                                                         *)
GenMbt ==
  /\ pc = "mbt"
  /\ Write({"sysMbt"})
  /\ pc' = "compile"
  /\ UNCHANGED <<pipelineUnchanged, loadable, paths, stepLog, xml>>

(* MCompiler.compileToDir succeeds; whether the class loader of the JVM    *)
(* looks where the class files are is up to the installation.              *)
Compile ==
  /\ pc = "compile"
  /\ Write({"sysActionClass", "sysMbtClass"})
  /\ loadable' \in BOOLEAN
  /\ pc' = "load"
  /\ UNCHANGED <<pipelineUnchanged, paths, stepLog, xml>>

(* It reports errors, with whatever class files it has written by then.    *)
CompileFails ==
  /\ pc = "compile"
  /\ \E some \in SUBSET {"sysActionClass", "sysMbtClass"} : Write(some)
  /\ pc' = "compilefails"
  /\ UNCHANGED <<pipelineUnchanged, loadable, paths, stepLog, xml>>

(* A stage that reports failure deletes the temporary files and returns,   *)
(* through the finally block.                                              *)
StageFails ==
  /\ pc \in {"action", "mbt", "compilefails", "sort", "steplog"}
  /\ DelTmpFile(paths)
  /\ pc' = "failed"
  /\ UNCHANGED <<pipelineUnchanged, loadable, paths, stepLog, xml>>

(* The loop around MClass.loadClass: sleep, try, and try again.            *)
LoadRetry ==
  /\ pc = "load"
  /\ ~loadable
  /\ UNCHANGED vars

(* Mutant: the loop ends when the class is not found.                      *)
LoadSwapped ==
  /\ pc = "load"
  /\ ~loadable
  /\ paths' = paths \cup {"mbtXml"}
  /\ pc' = "sort"
  /\ UNCHANGED <<pipelineUnchanged, loadable, files, stepLog, xml>>

Load ==
  /\ pc = "load"
  /\ loadable
  /\ paths' = paths \cup {"mbtXml"}
  /\ pc' = "sort"
  /\ UNCHANGED <<pipelineUnchanged, loadable, files, stepLog, xml>>

-----------------------------------------------------------------------------
(* MGenMbtXml.genStepLogFile.  It sorts the step methods: for each number  *)
(* from 1 to the count of methods it takes the first method that has it.   *)
(* Of two methods with one number the second is passed over, and so is a   *)
(* number past the count; a number nobody has is skipped.                  *)
Taken(m) == {i \in DOMAIN m : \E j \in DOMAIN m : m[j].number = i}

IsFirst(m, i, j) == m[j].number = i /\ \A k \in 1..(j - 1) : m[k].number # i

SortStep ==
  /\ pc = "sort"
  /\ step \in DOMAIN model
  /\ \/ /\ step \notin Taken(model)
        /\ UNCHANGED methods
     \/ \E j \in DOMAIN model :
          /\ IsFirst(model, step, j)
          /\ methods' = Append(methods, model[j])
  /\ step' = step + 1
  /\ UNCHANGED <<run, model, pc, act, loadable, files, paths, stepLog, xml, logBefore, ended>>

Sorted ==
  /\ pc = "sort"
  /\ step \notin DOMAIN model
  /\ step' = 1
  /\ pc' = "steplog"
  /\ UNCHANGED <<run, model, methods, act, loadable, files, paths, stepLog, xml, logBefore, ended>>

(* Then it invokes them in this order.                                     *)
logUnchanged == <<run, model, methods, logBefore, ended, loadable, files, paths, xml>>

BeginStep ==
  /\ pc = "steplog"
  /\ step \in DOMAIN methods
  /\ stepLog' = Append(stepLog, Begin(methods[step]))
  /\ act' = 0
  /\ pc' = "invoke"
  /\ UNCHANGED <<logUnchanged, step>>

(* The method calls an action; the generated action class logs it.         *)
RecordAction ==
  /\ pc = "invoke"
  /\ act < Len(methods[step].actions)
  /\ stepLog' = Append(stepLog, Action(methods[step].actions[act + 1]))
  /\ act' = act + 1
  /\ UNCHANGED <<logUnchanged, pc, step>>

EndStep ==
  /\ pc = "invoke"
  /\ act = Len(methods[step].actions)
  /\ stepLog' = Append(stepLog, End)
  /\ step' = step + 1
  /\ pc' = "steplog"
  /\ UNCHANGED <<logUnchanged, act>>

(* The method throws: genMbtXmlFile reports failure.                       *)
StepThrows ==
  /\ pc = "invoke"
  /\ DelTmpFile(paths)
  /\ pc' = "failed"
  /\ UNCHANGED <<pipelineUnchanged, loadable, paths, stepLog, xml>>

(* genMbtXmlFile reads the log and writes the XML file ...                 *)
WriteXml ==
  /\ pc = "steplog"
  /\ step \notin DOMAIN methods
  /\ stepLog # <<>>
  /\ AllClosed(stepLog)
  /\ xml' = TestSteps(stepLog)
  /\ Overwrite({"mbtXml"})
  /\ pc' = "deletelog"
  /\ UNCHANGED <<pipelineUnchanged, loadable, paths, stepLog>>

(* ... and cannot when there is no log, or one that ends within a block:   *)
(* reading it throws what only run() catches.                              *)
ReadLogThrows ==
  /\ pc = "steplog"
  /\ step \notin DOMAIN methods
  /\ stepLog = <<>> \/ ~AllClosed(stepLog)
  /\ pc' = "failed"
  /\ UNCHANGED <<pipelineUnchanged, loadable, files, paths, stepLog, xml>>

(* Mutant: it does not delete the log.                                     *)
DeleteLogNot ==
  /\ pc = "deletelog"
  /\ pc' = "paths"
  /\ UNCHANGED <<pipelineUnchanged, loadable, files, paths, stepLog, xml>>

(* The XML file is written, and the log deleted.                           *)
DeleteLog ==
  /\ pc = "deletelog"
  /\ stepLog' = <<>>
  /\ pc' = "paths"
  /\ UNCHANGED <<pipelineUnchanged, loadable, files, paths, xml>>

(* Graph, drawings, view and paths; then the XML paths are set.            *)
GenPaths ==
  /\ pc = "paths"
  /\ paths' = paths \cup {"varCombXml", "stepVarXml"}
  /\ pc' = "stepxml"
  /\ UNCHANGED <<pipelineUnchanged, loadable, files, stepLog, xml>>

(* MGenStepXml.genStepXml: both files, or neither and the result ignored.  *)
GenStepXml ==
  /\ pc = "stepxml"
  /\ \/ Overwrite({"varCombXml", "stepVarXml"})
     \/ files' = {f \in files : f.file \notin {"varCombXml", "stepVarXml"}}
  /\ pc' = "cases"
  /\ UNCHANGED <<pipelineUnchanged, loadable, paths, stepLog, xml>>

(* The cases of every scenario; a case that fails is only logged.          *)
GenCases ==
  /\ pc = "cases"
  /\ pc' = "finished"
  /\ UNCHANGED <<pipelineUnchanged, loadable, files, paths, stepLog, xml>>

(* Any other exception: the handler of run() reports it.                   *)
Throws ==
  /\ pc \in {"action", "mbt", "compile", "load", "sort", "steplog", "paths", "stepxml", "cases"}
  /\ pc' = "failed"
  /\ UNCHANGED <<pipelineUnchanged, loadable, files, paths, stepLog, xml>>

(* The finally block of run().                                             *)
Finally ==
  /\ pc \in {"failed", "finished"}
  /\ DelTmpFile(paths)
  /\ pc' = "idle"
  /\ ended' = Append(ended, pc)
  /\ UNCHANGED <<run, model, methods, step, act, loadable, paths, stepLog, xml, logBefore>>

(* The process is killed; whatever is on disk stays there.                 *)
Killed ==
  /\ pc # "idle"
  /\ pc' = "idle"
  /\ ended' = Append(ended, "killed")
  /\ UNCHANGED <<run, model, methods, step, act, loadable, files, paths, stepLog, xml, logBefore>>

NoMoreRuns == pc = "idle" /\ run = MaxRuns /\ UNCHANGED vars

-----------------------------------------------------------------------------
(* What the run itself does next, whatever happens around it.              *)
Stage ==
  \/ GenAction \/ GenMbt \/ Compile \/ Load
  \/ SortStep \/ Sorted \/ BeginStep \/ RecordAction \/ EndStep
  \/ WriteXml \/ ReadLogThrows \/ DeleteLog \/ GenPaths \/ GenStepXml \/ GenCases
  \/ pc = "compilefails" /\ StageFails
  \/ Finally

Next ==
  \/ \E m \in Models : Start(m)
  \/ Stage
  \/ CompileFails \/ StageFails \/ StepThrows \/ Throws
  \/ LoadRetry \/ Killed \/ NoMoreRuns

Spec == Init /\ [][Next]_vars

(* A run is one thread: it takes its next step unless it is killed.  No    *)
(* failure is ever due: fairness must not get a run out of a wait.         *)
FairSpec == Spec /\ WF_vars(Stage)

-----------------------------------------------------------------------------
Line == [kind : {"begin", "action"}, text : STRING] \cup {End}

(* Every variable keeps its type, and the step methods are invoked one     *)
(* after the other, each with its own actions.                             *)
TypeOK ==
  /\ run \in 0..MaxRuns
  /\ model \in Seq(Step) /\ methods \in Seq(Step)
  /\ pc \in {"idle", "action", "mbt", "compile", "compilefails", "load", "sort", "steplog",
             "invoke", "deletelog", "paths", "stepxml", "cases", "failed", "finished"}
  /\ step \in Nat \ {0}
  /\ pc = "sort" => step <= Len(model) + 1
  /\ pc \in {"steplog", "invoke"} => step <= Len(methods) + 1
  /\ act \in Nat
  /\ pc = "invoke" => step \in DOMAIN methods /\ act <= Len(methods[step].actions)
  /\ loadable \in BOOLEAN /\ logBefore \in BOOLEAN
  /\ files \subseteq [file : TmpFiles, run : 1..run]
  /\ paths \subseteq TmpFiles
  /\ stepLog \in Seq(Line)
  /\ ended \in Seq({"finished", "failed", "killed"})
  /\ Len(ended) = IF pc = "idle" THEN run ELSE run - 1

(* "Delete temporary files" (MTestLoader.java:226): whatever stage fails   *)
(* or throws, a run that was not killed leaves no temporary file behind.   *)
NoTmpFileLeft ==
  \A f \in files : \/ f.run = run /\ pc # "idle"
                   \/ f.run \in DOMAIN ended /\ ended[f.run] = "killed"

XmlWritten == pc \in {"deletelog", "paths", "stepxml", "cases", "finished"}

Element(s) == [name |-> s.name, lines |-> [i \in DOMAIN s.actions |-> Action(s.actions[i])]]

(* "sort test steps by the value of step number annotation"                *)
(* (MGenMbtXml.java:239): the steps of the XML file are the first methods  *)
(* of this run's model with the numbers 1 to the count of methods.  The    *)
(* code drops every other method, without a word: one whose number another *)
(* one before it has, or that lies past the count.                         *)
XmlIsModel ==
  XmlWritten =>
    /\ \A i \in Taken(model) : \E j \in DOMAIN model, l \in DOMAIN xml :
         IsFirst(model, i, j) /\ xml[l] = Element(model[j])
    /\ \A l \in DOMAIN xml : \E i \in Taken(model), j \in DOMAIN model :
         IsFirst(model, i, j) /\ xml[l] = Element(model[j])
    /\ Cardinality(DOMAIN xml) = Cardinality(Taken(model))

(* The numbers are those of a well-formed model: 1 to n, each once.        *)
WellNumbered(m) ==
  /\ \A j \in DOMAIN m : m[j].number \in DOMAIN m
  /\ \A j, k \in DOMAIN m : m[j].number = m[k].number => j = k

(* A run that found no step log of an earlier one writes exactly the steps *)
(* it takes, and all the steps of a well-numbered model.  A log that an    *)
(* earlier run has left never costs more than the first step taken: every  *)
(* later one is in the XML file with all its actions (MGenMbtXml.java:270  *)
(* appends, and the reader goes on from one begin of a step to the next).  *)
LaterStepsIntact ==
  /\ ~logBefore => XmlIsModel
  /\ XmlWritten =>
       /\ \A i \in Taken(model) : (\E k \in Taken(model) : k < i) =>
            \E j \in DOMAIN model, l \in DOMAIN xml :
              IsFirst(model, i, j) /\ xml[l] = Element(model[j])
       /\ ~logBefore /\ WellNumbered(model) =>
            \A j \in DOMAIN model : \E l \in DOMAIN xml : xml[l] = Element(model[j])

(* A run finds a step log only when the run before it did not finish.      *)
LogLeftByFailure == logBefore => run > 1 /\ ended[run - 1] # "finished"

(* A run that is not killed comes to its end, unless the class loader      *)
(* never finds the class it has compiled.                                  *)
RunEnds == (pc # "idle") ~> (pc = "idle" \/ (pc = "load" /\ ~loadable))

-----------------------------------------------------------------------------
(* Small models for the runs: no step at all, three steps in an order of   *)
(* their own, numbers with a gap, and a number twice beside one past the   *)
(* count.                                                                  *)
OfStep(n, k, a) == [name |-> n, number |-> k, actions |-> a]

MCModels == {<<>>,
             <<OfStep("send", 2, <<"put">>), OfStep("logout", 3, <<>>),
               OfStep("login", 1, <<"open">>)>>,
             <<OfStep("login", 1, <<"open", "send">>), OfStep("send", 3, <<>>)>>,
             <<OfStep("login", 2, <<"open">>), OfStep("send", 2, <<"put">>),
               OfStep("logout", 1, <<>>), OfStep("close", 5, <<>>)>>}
=============================================================================
