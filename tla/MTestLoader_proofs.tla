------------------------- MODULE MTestLoader_proofs -------------------------
(***************************************************************************)
(* What a run of the loader leaves on disk and what it writes into the XML *)
(* file, for every model and every number of runs: the type invariant,     *)
(* NoTmpFileLeft, LogLeftByFailure and LaterStepsIntact.                   *)
(***************************************************************************)
EXTENDS MTestLoader, SequenceTheorems, FiniteSetTheorems, FunctionTheorems, TLAPS

(* The path variables that are set when run() is at a stage: a file is     *)
(* never written before the variable DelTmpFile will find it by.           *)
PathsSet ==
  /\ pc # "idle" => {"sysAction", "sysActionClass"} \subseteq paths
  /\ pc \in {"mbt", "compile"} => {"sysMbt", "sysMbtClass"} \subseteq paths
  /\ pc \in {"sort", "steplog", "invoke"} => "mbtXml" \in paths
  /\ pc = "stepxml" => {"varCombXml", "stepVarXml"} \subseteq paths

(* Every file this run has written can be deleted by it.                   *)
OwnFilesKnown == pc # "idle" => \A f \in files : f.run = run => f.file \in paths

(* The step log is gone from the moment the XML file has been written, so  *)
(* that a log found between two runs tells of one that did not finish.     *)
LogHistory ==
  /\ pc \in {"paths", "stepxml", "cases", "finished"} => stepLog = <<>>
  /\ pc = "idle" /\ stepLog # <<>> => run \in DOMAIN ended /\ ended[run] # "finished"
  /\ run = 0 => pc = "idle" /\ ~logBefore

(* genStepLogFile begins with an empty list, at the number 1.              *)
NothingSorted ==
  pc \in {"action", "mbt", "compile", "load"} => step = 1 /\ methods = <<>>

IndInv == TypeOK /\ NothingSorted /\ PathsSet /\ OwnFilesKnown /\ NoTmpFileLeft /\ LogHistory /\ LogLeftByFailure

-----------------------------------------------------------------------------
(* What happened to earlier runs is not changed by the end of this one.    *)
LEMMA EndedFacts ==
  ASSUME TypeOK, pc # "idle", NEW how \in {"finished", "failed", "killed"},
         ended' = Append(ended, how)
  PROVE  /\ ended' \in Seq({"finished", "failed", "killed"})
         /\ Len(ended') = run
         /\ DOMAIN ended' = 1..run
         /\ DOMAIN ended = 1..(run - 1)
         /\ ended'[run] = how
         /\ \A r \in 1..(run - 1) : ended'[r] = ended[r]
<1>1. /\ ended \in Seq({"finished", "failed", "killed"})
      /\ Len(ended) = run - 1 /\ run \in Nat
  BY LoaderAssumption DEF TypeOK
<1>2. QED
  BY <1>1, AppendProperties, LenProperties

LEMMA InitIndInv == Init => IndInv
<1> SUFFICES ASSUME Init PROVE IndInv
  OBVIOUS
<1>1. TypeOK
  <2>1. <<>> \in Seq(Step) /\ <<>> \in Seq(Line) /\ Len(<<>>) = 0
        /\ <<>> \in Seq({"finished", "failed", "killed"})
    BY EmptySeq
  <2>2. loadable \in BOOLEAN /\ logBefore \in BOOLEAN
    BY Zenon DEF Init
  <2>3. QED
    BY <2>1, <2>2, LoaderAssumption DEF Init, TypeOK
<1>2. QED
  BY <1>1 DEF Init, IndInv, NothingSorted, PathsSet, OwnFilesKnown, NoTmpFileLeft, LogHistory, LogLeftByFailure

(* A step inside a run that neither ends it nor touches the history: it is *)
(* enough to look at the files, the paths and the log.                     *)
LEMMA InRun ==
  ASSUME IndInv, TypeOK', NothingSorted', PathsSet', OwnFilesKnown',
         pc # "idle", pc' # "idle", UNCHANGED <<run, ended, logBefore>>,
         \A f \in files' : f \in files \/ f.run = run,
         pc' \in {"paths", "stepxml", "cases", "finished"} => stepLog' = <<>>
  PROVE  IndInv'
<1>1. NoTmpFileLeft'
  BY DEF IndInv, NoTmpFileLeft
<1>2. LogHistory'
  BY DEF IndInv, LogHistory
<1>3. LogLeftByFailure'
  BY DEF IndInv, LogLeftByFailure
<1>4. QED
  BY <1>1, <1>2, <1>3 DEF IndInv

(* The stages that write, delete or keep files.                            *)
LEMMA FileStages ==
  ASSUME IndInv,
         GenAction \/ GenMbt \/ Compile \/ CompileFails \/ StageFails \/ Load
           \/ StepThrows \/ WriteXml \/ ReadLogThrows \/ DeleteLog
           \/ GenPaths \/ GenStepXml \/ GenCases \/ Throws
  PROVE  IndInv'
<1> USE LoaderAssumption
<1>1. /\ pc # "idle" /\ pc' # "idle"
      /\ UNCHANGED <<run, model, methods, step, act, logBefore, ended>>
      /\ pc' \in {"mbt", "compile", "compilefails", "load", "sort", "deletelog", "paths",
                  "stepxml", "cases", "failed", "finished"}
      /\ pc' \in {"mbt", "compile", "load", "sort"} => pc \in {"action", "mbt", "compile", "load"}
      /\ loadable' \in BOOLEAN
  BY DEF GenAction, GenMbt, Compile, CompileFails, StageFails, Load, StepThrows, WriteXml,
         ReadLogThrows, DeleteLog, GenPaths, GenStepXml, GenCases, Throws, pipelineUnchanged,
         IndInv, TypeOK
<1>2. /\ paths \subseteq paths' /\ paths' \subseteq TmpFiles
      /\ stepLog' \in {stepLog, <<>>}
      /\ pc' \in {"paths", "stepxml", "cases", "finished"} => stepLog' = <<>>
  BY DEF GenAction, GenMbt, Compile, CompileFails, StageFails, Load, StepThrows, WriteXml,
         ReadLogThrows, DeleteLog, GenPaths, GenStepXml, GenCases, Throws,
         IndInv, TypeOK, LogHistory, TmpFiles, StampedFiles, FixedFiles
<1>3. PathsSet'
  BY <1>1, <1>2 DEF GenAction, GenMbt, Compile, CompileFails, StageFails, Load, StepThrows, WriteXml,
         ReadLogThrows, DeleteLog, GenPaths, GenStepXml, GenCases, Throws, IndInv, PathsSet
<1>4. \A f \in files' : f \in files \/ (f.run = run /\ f.file \in paths' /\ f \in [file : TmpFiles, run : {run}])
  <2>1. CASE GenAction
    BY <1>1, <2>1 DEF GenAction, Write, Written, IndInv, PathsSet, TmpFiles, StampedFiles
  <2>2. CASE GenMbt
    BY <1>1, <2>2 DEF GenMbt, Write, Written, IndInv, PathsSet, TmpFiles, StampedFiles
  <2>3. CASE Compile
    BY <1>1, <2>3 DEF Compile, Write, Written, IndInv, PathsSet, TmpFiles, StampedFiles
  <2>4. CASE CompileFails
    BY <1>1, <2>4 DEF CompileFails, Write, Written, IndInv, PathsSet, TmpFiles, StampedFiles
  <2>5. CASE StageFails \/ StepThrows
    BY <2>5 DEF StageFails, StepThrows, DelTmpFile
  <2>6. CASE WriteXml
    BY <1>1, <2>6 DEF WriteXml, Overwrite, Written, IndInv, PathsSet, TmpFiles, FixedFiles
  <2>7. CASE GenStepXml
    BY <1>1, <2>7 DEF GenStepXml, Overwrite, Written, IndInv, PathsSet, TmpFiles, FixedFiles
  <2>8. CASE Load \/ ReadLogThrows \/ DeleteLog \/ GenPaths \/ GenCases \/ Throws
    BY <2>8 DEF Load, ReadLogThrows, DeleteLog, GenPaths, GenCases, Throws
  <2>9. QED
    BY <2>1, <2>2, <2>3, <2>4, <2>5, <2>6, <2>7, <2>8
<1>5. OwnFilesKnown'
  BY <1>1, <1>2, <1>4 DEF IndInv, OwnFilesKnown
<1>6. files' \subseteq [file : TmpFiles, run : 1..run]
  <2>1. run \in Nat /\ run >= 1
    BY <1>1 DEF IndInv, TypeOK, LogHistory
  <2>2. QED
    BY <1>4, <2>1 DEF IndInv, TypeOK
<1>7. stepLog' \in Seq(Line)
  BY <1>2, EmptySeq DEF IndInv, TypeOK
<1>8. Len(model) \in Nat
  BY LenProperties DEF IndInv, TypeOK
<1>9. TypeOK'
  BY <1>1, <1>2, <1>6, <1>7, <1>8 DEF IndInv, NothingSorted, TypeOK
<1>10. NothingSorted'
  BY <1>1 DEF IndInv, NothingSorted
<1>11. QED
  BY <1>1, <1>2, <1>3, <1>4, <1>5, <1>9, <1>10, InRun

(* genStepLogFile sorts the methods.                                       *)
LEMMA SortStages ==
  ASSUME IndInv, SortStep \/ Sorted
  PROVE  IndInv'
<1> USE LoaderAssumption
<1>1. /\ pc = "sort" /\ pc' \in {"sort", "steplog"}
      /\ UNCHANGED <<run, model, act, loadable, files, paths, stepLog, xml, logBefore, ended>>
  BY DEF SortStep, Sorted
<1>2. model \in Seq(Step) /\ DOMAIN model = 1..Len(model) /\ Len(model) \in Nat
      /\ methods \in Seq(Step)
  BY LenProperties DEF IndInv, TypeOK
<1>3. methods' \in Seq(Step)
  <2>1. \A j \in DOMAIN model : model[j] \in Step
    BY <1>2
  <2>2. CASE SortStep
    <3>1. methods' = methods \/ \E j \in DOMAIN model : methods' = Append(methods, model[j])
      BY <2>2 DEF SortStep
    <3>2. QED
      BY <1>2, <2>1, <3>1, AppendProperties
  <2>3. CASE Sorted
    BY <1>2, <2>3 DEF Sorted
  <2>4. QED
    BY <2>2, <2>3
<1>4. Len(methods') \in Nat
  BY <1>3, LenProperties
<1>5. /\ step' \in Nat \ {0}
      /\ pc' = "sort" => step' <= Len(model) + 1
      /\ pc' = "steplog" => step' <= Len(methods') + 1
  BY <1>1, <1>2, <1>4 DEF SortStep, Sorted, IndInv, TypeOK
<1>6. TypeOK'
  BY <1>1, <1>3, <1>5 DEF IndInv, TypeOK
<1>7. NothingSorted' /\ PathsSet' /\ OwnFilesKnown'
  BY <1>1 DEF IndInv, NothingSorted, PathsSet, OwnFilesKnown
<1>8. QED
  BY <1>1, <1>6, <1>7, InRun

(* genStepLogFile, which only writes the log.                              *)
LEMMA LogStages ==
  ASSUME IndInv, BeginStep \/ RecordAction \/ EndStep
  PROVE  IndInv'
<1> USE LoaderAssumption
<1>1. /\ pc \in {"steplog", "invoke"} /\ pc' \in {"steplog", "invoke"}
      /\ UNCHANGED <<run, model, methods, logBefore, ended, loadable, files, paths, xml>>
  BY DEF BeginStep, RecordAction, EndStep, logUnchanged
<1>2. methods \in Seq(Step) /\ DOMAIN methods = 1..Len(methods) /\ Len(methods) \in Nat
  BY LenProperties DEF IndInv, TypeOK
<1>3. /\ \A s \in Step : Begin(s) \in Line
      /\ End \in Line
      /\ \A s \in Step : \A k \in 1..Len(s.actions) : Action(s.actions[k]) \in Line
  <2>1. \A s \in Step : s.name \in STRING /\ s.actions \in Seq(STRING)
    BY DEF Step
  <2>2. \A s \in Step : \A k \in 1..Len(s.actions) : s.actions[k] \in STRING
    BY <2>1, ElementOfSeq
  <2>3. \A x \in STRING : Begin([name |-> x]) \in Line /\ Action(x) \in Line
    BY DEF Line, Begin, Action
  <2>4. End \in Line
    BY DEF Line
  <2>5. \A s \in Step : Begin(s) \in Line
    BY <2>1 DEF Line, Begin
  <2>6. QED
    BY <2>2, <2>3, <2>4, <2>5
<1>4. \A k \in DOMAIN methods : methods[k] \in Step /\ Len(methods[k].actions) \in Nat
  BY <1>2, LenProperties DEF Step
<1>5. /\ stepLog' \in Seq(Line)
      /\ step' \in Nat \ {0} /\ step' <= Len(methods) + 1
      /\ act' \in Nat
      /\ pc' = "invoke" => step' \in DOMAIN methods /\ act' <= Len(methods[step'].actions)
  <2>1. CASE BeginStep
    BY <1>2, <1>3, <1>4, <2>1, AppendProperties DEF BeginStep, IndInv, TypeOK
  <2>2. CASE RecordAction
    <3>1. step \in DOMAIN methods /\ act \in Nat /\ act + 1 \in 1..Len(methods[step].actions)
      BY <1>4, <2>2 DEF RecordAction, IndInv, TypeOK
    <3>2. QED
      BY <1>1, <1>2, <1>3, <1>4, <2>2, <3>1, AppendProperties DEF RecordAction, IndInv, TypeOK
  <2>3. CASE EndStep
    <3>1. step \in DOMAIN methods
      BY <2>3 DEF EndStep, IndInv, TypeOK
    <3>2. QED
      BY <1>1, <1>2, <1>3, <2>3, <3>1, AppendProperties DEF EndStep, IndInv, TypeOK
  <2>4. QED
    BY <2>1, <2>2, <2>3
<1>6. TypeOK'
  BY <1>1, <1>5 DEF IndInv, TypeOK
<1>7. NothingSorted' /\ PathsSet' /\ OwnFilesKnown'
  BY <1>1 DEF IndInv, NothingSorted, PathsSet, OwnFilesKnown
<1>8. QED
  BY <1>1, <1>6, <1>7, InRun

(* A new run: the files on disk are those of earlier runs.                 *)
LEMMA StartStage ==
  ASSUME IndInv, NEW m \in Models, Start(m)
  PROVE  IndInv'
<1> USE LoaderAssumption
<1>1. /\ pc = "idle" /\ pc' = "action" /\ run \in Nat /\ run < MaxRuns /\ run' = run + 1
      /\ Len(ended) = run /\ DOMAIN ended = 1..run
      /\ files \subseteq [file : TmpFiles, run : 1..run]
      /\ UNCHANGED <<loadable, files, stepLog, ended>>
      /\ paths' = {"sysAction", "sysActionClass"}
  BY LenProperties DEF Start, IndInv, TypeOK
<1>2. m \in Seq(Step) /\ Len(m) \in Nat
  BY LenProperties
<1>3. TypeOK'
  <2>1. paths' \subseteq TmpFiles
    BY <1>1 DEF TmpFiles, StampedFiles
  <2>2. files' \subseteq [file : TmpFiles, run : 1..run']
    BY <1>1
  <2>3. QED
    BY <1>1, <1>2, <2>1, <2>2, EmptySeq DEF Start, IndInv, TypeOK
<1>4. NothingSorted' /\ PathsSet'
  BY <1>1 DEF Start, NothingSorted, PathsSet
<1>5. OwnFilesKnown'
  BY <1>1 DEF OwnFilesKnown
<1>6. NoTmpFileLeft'
  BY <1>1 DEF IndInv, NoTmpFileLeft
<1>7. LogHistory'
  BY <1>1 DEF LogHistory
<1>8. LogLeftByFailure'
  <2>1. logBefore' => stepLog # <<>>
    BY Zenon DEF Start
  <2>2. QED
    BY <1>1, <2>1 DEF IndInv, LogHistory, LogLeftByFailure
<1>9. QED
  BY <1>3, <1>4, <1>5, <1>6, <1>7, <1>8 DEF IndInv

(* The two ways out of a run.  The finally block deletes every file of the *)
(* run; a run that is killed says so in its history.                       *)
LEMMA EndOfRun ==
  ASSUME IndInv, Finally \/ Killed
  PROVE  IndInv'
<1> USE LoaderAssumption
<1>1. /\ pc # "idle" /\ pc' = "idle"
      /\ UNCHANGED <<run, model, methods, step, act, loadable, paths, stepLog, xml, logBefore>>
      /\ files' \subseteq files
      /\ run \in Nat /\ run >= 1
  BY DEF Finally, Killed, DelTmpFile, IndInv, TypeOK, LogHistory
<1>2. PICK how \in {"finished", "failed", "killed"} :
        /\ ended' = Append(ended, how)
        /\ how = "killed" \/ Finally
        /\ how = "finished" => pc = "finished"
  BY DEF Finally, Killed
<1>3. /\ ended' \in Seq({"finished", "failed", "killed"})
      /\ Len(ended') = run
      /\ DOMAIN ended' = 1..run
      /\ DOMAIN ended = 1..(run - 1)
      /\ ended'[run] = how
      /\ \A r \in 1..(run - 1) : ended'[r] = ended[r]
  BY <1>1, <1>2, EndedFacts DEF IndInv
<1>4. TypeOK'
  BY <1>1, <1>3 DEF IndInv, TypeOK
<1>5. NoTmpFileLeft'
  <2> SUFFICES ASSUME NEW f \in files' PROVE f.run \in DOMAIN ended' /\ ended'[f.run] = "killed"
    BY <1>1 DEF NoTmpFileLeft
  <2>1. f \in files
    BY <1>1
  <2>2. CASE f.run = run
    <3>1. f.file \in paths
      BY <1>1, <2>1, <2>2 DEF IndInv, OwnFilesKnown
    <3>2. ~Finally
      BY <2>2, <3>1 DEF Finally, DelTmpFile, IsAt
    <3>3. QED
      BY <1>1, <1>2, <1>3, <2>2, <3>2
  <2>3. CASE f.run # run
    BY <1>1, <1>3, <2>1, <2>3 DEF IndInv, NoTmpFileLeft
  <2>4. QED
    BY <2>2, <2>3
<1>6. LogHistory'
  BY <1>1, <1>2, <1>3 DEF IndInv, LogHistory
<1>7. LogLeftByFailure'
  BY <1>1, <1>3 DEF IndInv, LogLeftByFailure
<1>8. QED
  BY <1>1, <1>4, <1>5, <1>6, <1>7 DEF IndInv, NothingSorted, PathsSet, OwnFilesKnown

LEMMA NextIndInv == IndInv /\ [Next]_vars => IndInv'
<1> SUFFICES ASSUME IndInv, [Next]_vars PROVE IndInv'
  OBVIOUS
<1>1. CASE UNCHANGED vars \/ LoadRetry \/ NoMoreRuns
  BY <1>1 DEF vars, LoadRetry, NoMoreRuns, IndInv, TypeOK, NothingSorted, PathsSet, OwnFilesKnown,
              NoTmpFileLeft, LogHistory, LogLeftByFailure
<1>2. QED
  BY <1>1, FileStages, SortStages, LogStages, StartStage, EndOfRun DEF Next, Stage

LEMMA Inductive == Spec => []IndInv
  BY InitIndInv, NextIndInv, PTL DEF Spec

-----------------------------------------------------------------------------
(* Type correctness of the loader, its disk and its step log.              *)
THEOREM TypeCorrect == Spec => []TypeOK
<1>1. IndInv => TypeOK
  BY DEF IndInv
<1>2. QED
  BY Inductive, <1>1, PTL

(* A run that was not killed leaves none of its temporary files behind, at *)
(* whatever stage it failed or threw, for every model and number of runs.  *)
THEOREM DiskClean == Spec => []NoTmpFileLeft
<1>1. IndInv => NoTmpFileLeft
  BY DEF IndInv
<1>2. QED
  BY Inductive, <1>1, PTL

(* A step log found at the start of a run was left by a run before it that *)
(* did not finish.                                                         *)
THEOREM StaleLogMeansFailure == Spec => []LogLeftByFailure
<1>1. IndInv => LogLeftByFailure
  BY DEF IndInv
<1>2. QED
  BY Inductive, <1>1, PTL

-----------------------------------------------------------------------------
(* How the step log is laid out.  A block is what one step method leaves.     *)
Block(log, i, s) ==
  /\ log[i] = Begin(s)
  /\ \A k \in 1..Len(s.actions) : log[i + k] = Action(s.actions[k])
  /\ log[i + Len(s.actions) + 1] = End

(* The steps before n have their blocks at start[1], start[2], ..., one after *)
(* the other to the end of the log, and step n has `lines` lines of its own   *)
(* block from start[n] on.  A log that is fresh has nothing before them.      *)
Laid(log, m, n, lines, fresh, start) ==
  /\ fresh => start[1] = 1
  /\ start[1] > 0
  /\ \A i, j \in 1..n : i < j => start[i] < start[j]
  /\ \A i \in 1..(n - 1) : /\ start[i + 1] = start[i] + Len(m[i].actions) + 2
                           /\ Block(log, start[i], m[i])
  /\ \A p \in Nat : start[1] <= p /\ p < start[n] =>
       \E i \in 1..(n - 1) : start[i] <= p /\ p < start[i + 1]
  /\ Len(log) = start[n] - 1 + lines
  /\ lines > 0 => /\ log[start[n]] = Begin(m[n])
                  /\ \A k \in 1..(lines - 1) : log[start[n] + k] = Action(m[n].actions[k])

OpenLines == IF pc = "invoke" THEN act + 1 ELSE 0

LaidOut ==
  /\ pc \in {"action", "mbt", "compile", "load", "sort"} =>
       \E start \in [1..1 -> Nat] : Laid(stepLog, methods, 1, 0, ~logBefore, start)
  /\ pc \in {"steplog", "invoke"} =>
       \E start \in [1..step -> Nat] : Laid(stepLog, methods, step, OpenLines, ~logBefore, start)

(* Before the first step the layout says nothing of the steps.                *)
LEMMA NoStepLaid ==
  ASSUME NEW log, NEW m, NEW other, NEW fresh, NEW start, Laid(log, m, 1, 0, fresh, start)
  PROVE  Laid(log, other, 1, 0, fresh, start)
<1>1. 1..(1 - 1) = {}
  OBVIOUS
<1>2. QED
  BY <1>1 DEF Laid

(* A line is appended, and the lines before it stay.                          *)
LEMMA AppendFacts ==
  ASSUME NEW log \in Seq(Line), NEW x \in Line
  PROVE  /\ Append(log, x) \in Seq(Line)
         /\ Len(log) \in Nat /\ Len(Append(log, x)) = Len(log) + 1
         /\ \A p \in 1..Len(log) : Append(log, x)[p] = log[p]
         /\ Append(log, x)[Len(log) + 1] = x
  BY AppendProperties, LenProperties

(* A block that is in the log stays one when lines are added behind it.       *)
LEMMA BlockKept ==
  ASSUME NEW log, NEW longer, NEW s \in Step, NEW i \in Nat, NEW top \in Nat,
         i > 0, i + Len(s.actions) + 1 <= top,
         \A p \in 1..top : longer[p] = log[p], Block(log, i, s)
  PROVE  Block(longer, i, s)
<1>1. Len(s.actions) \in Nat
  BY LenProperties DEF Step
<1>2. longer[i] = log[i] /\ longer[i + Len(s.actions) + 1] = log[i + Len(s.actions) + 1]
  BY <1>1
<1>3. \A k \in 1..Len(s.actions) : longer[i + k] = log[i + k]
  BY <1>1
<1>4. QED
  BY <1>2, <1>3 DEF Block

(* Where the blocks of a layout are.                                          *)
LEMMA LayoutFacts ==
  ASSUME NEW log \in Seq(Line), NEW m \in Seq(Step), NEW n \in 1..(Len(m) + 1), NEW lines \in Nat,
         NEW fresh, NEW start \in [1..n -> Nat], Laid(log, m, n, lines, fresh, start)
  PROVE  /\ start[1] \in Nat /\ start[n] \in Nat /\ start[n] > 0 /\ Len(log) \in Nat
         /\ \A i \in 1..(n - 1) :
              /\ m[i] \in Step /\ Len(m[i].actions) \in Nat
              /\ start[i] \in Nat /\ start[i] > 0 /\ start[i + 1] \in Nat
              /\ start[i] + Len(m[i].actions) + 1 < start[n]
              /\ start[i] + Len(m[i].actions) + 1 <= Len(log)
<1>1. Len(m) \in Nat /\ n \in Nat /\ n > 0 /\ Len(log) \in Nat
  BY LenProperties
<1>2. \A i \in 1..n : start[i] \in Nat
  OBVIOUS
<1>3. 1 \in 1..n /\ n \in 1..n
  BY <1>1
<1>4. \A i \in 1..n : start[i] > 0
  <2> SUFFICES ASSUME NEW i \in 1..n PROVE start[i] > 0
    OBVIOUS
  <2>1. CASE i = 1
    BY <2>1 DEF Laid
  <2>2. CASE i # 1
    <3>1. 1 < i
      BY <1>1, <2>2
    <3>2. start[1] < start[i]
      BY <1>3, <3>1 DEF Laid
    <3>3. QED
      BY <1>2, <1>3, <3>2
  <2>3. QED
    BY <2>1, <2>2
<1>5. ASSUME NEW i \in 1..(n - 1)
      PROVE  /\ m[i] \in Step /\ Len(m[i].actions) \in Nat
             /\ start[i] + Len(m[i].actions) + 1 < start[n]
  <2>1. m[i] \in Step
    BY <1>1, ElementOfSeq
  <2>2. Len(m[i].actions) \in Nat
    BY <2>1, LenProperties DEF Step
  <2>3. i \in 1..n /\ i + 1 \in 1..n
    BY <1>1
  <2>4. start[i + 1] = start[i] + Len(m[i].actions) + 2
    BY DEF Laid
  <2>5. start[i + 1] <= start[n]
    <3>1. CASE i + 1 = n
      BY <1>2, <2>3, <3>1
    <3>2. CASE i + 1 # n
      <4>1. i + 1 < n
        BY <1>1, <2>3, <3>2
      <4>2. start[i + 1] < start[n]
        BY <1>3, <2>3, <4>1 DEF Laid
      <4>3. QED
        BY <1>2, <1>3, <2>3, <4>2
    <3>3. QED
      BY <3>1, <3>2
  <2>6. start[i] \in Nat /\ start[n] \in Nat /\ start[i + 1] \in Nat
    BY <1>2, <1>3, <2>3
  <2>7. start[i] + Len(m[i].actions) + 1 < start[n]
    <3>1. \A a, b, c, d \in Nat : b = a + c + 2 /\ b <= d => a + c + 1 < d
      OBVIOUS
    <3>2. QED
      BY <2>2, <2>4, <2>5, <2>6, <3>1
  <2>8. QED
    BY <2>1, <2>2, <2>7
<1>6. Len(log) = start[n] - 1 + lines
  BY DEF Laid
<1>7. QED
  BY <1>1, <1>2, <1>3, <1>4, <1>5, <1>6

(* BeginStep and RecordAction: the open block gets its next line.             *)
LEMMA OpenBlockGrows ==
  ASSUME NEW log \in Seq(Line), NEW m \in Seq(Step), NEW n \in 1..Len(m), NEW lines \in Nat,
         NEW fresh, NEW start \in [1..n -> Nat], Laid(log, m, n, lines, fresh, start),
         NEW x \in Line,
         x = IF lines = 0 THEN Begin(m[n]) ELSE Action(m[n].actions[lines])
  PROVE  Laid(Append(log, x), m, n, lines + 1, fresh, start)
<1>1. Len(m) \in Nat /\ n \in 1..(Len(m) + 1) /\ n \in Nat
  BY LenProperties
<1>2. /\ start[n] \in Nat /\ start[n] > 0 /\ Len(log) \in Nat
      /\ \A i \in 1..(n - 1) : /\ m[i] \in Step /\ start[i] \in Nat /\ start[i] > 0
                               /\ start[i] + Len(m[i].actions) + 1 <= Len(log)
  BY <1>1, LayoutFacts
<1>3. Len(log) = start[n] - 1 + lines
  BY DEF Laid
<1>4. /\ Len(Append(log, x)) = Len(log) + 1
      /\ \A p \in 1..Len(log) : Append(log, x)[p] = log[p]
      /\ Append(log, x)[Len(log) + 1] = x
  BY AppendFacts
<1>5. \A i \in 1..(n - 1) : Block(Append(log, x), start[i], m[i])
  <2> SUFFICES ASSUME NEW i \in 1..(n - 1) PROVE Block(Append(log, x), start[i], m[i])
    OBVIOUS
  <2>1. Block(log, start[i], m[i])
    BY DEF Laid
  <2>2. QED
    BY <1>2, <1>4, <2>1, BlockKept
<1>6. Append(log, x)[start[n]] = Begin(m[n])
  <2>1. CASE lines = 0
    <3>1. start[n] = Len(log) + 1
      BY <1>2, <1>3, <2>1
    <3>2. QED
      BY <1>4, <2>1, <3>1
  <2>2. CASE lines > 0
    <3>1. start[n] \in 1..Len(log)
      BY <1>2, <1>3, <2>2
    <3>2. QED
      BY <1>4, <2>2, <3>1 DEF Laid
  <2>3. lines = 0 \/ lines > 0
    OBVIOUS
  <2>4. QED
    BY <2>1, <2>2, <2>3
<1>7. \A k \in 1..lines : Append(log, x)[start[n] + k] = Action(m[n].actions[k])
  <2> SUFFICES ASSUME NEW k \in 1..lines
               PROVE  Append(log, x)[start[n] + k] = Action(m[n].actions[k])
    OBVIOUS
  <2>1. CASE k = lines
    <3>1. start[n] + k = Len(log) + 1
      BY <1>2, <1>3, <2>1
    <3>2. lines # 0
      OBVIOUS
    <3>3. QED
      BY <1>4, <2>1, <3>1, <3>2
  <2>2. CASE k # lines
    <3>1. k \in 1..(lines - 1) /\ start[n] + k \in 1..Len(log) /\ lines > 0
      BY <1>2, <1>3, <2>2
    <3>2. log[start[n] + k] = Action(m[n].actions[k])
      BY <3>1 DEF Laid
    <3>3. QED
      BY <1>4, <3>1, <3>2
  <2>3. QED
    BY <2>1, <2>2
<1>8. Len(Append(log, x)) = start[n] - 1 + (lines + 1) /\ (lines + 1) - 1 = lines
  BY <1>2, <1>3, <1>4
<1>9. QED
  BY <1>5, <1>6, <1>7, <1>8 DEF Laid

(* EndStep: the open block is closed, and the next one will begin behind it.  *)
LEMMA BlockCloses ==
  ASSUME NEW log \in Seq(Line), NEW m \in Seq(Step), NEW n \in 1..Len(m), NEW fresh,
         NEW start \in [1..n -> Nat],
         Laid(log, m, n, Len(m[n].actions) + 1, fresh, start)
  PROVE  \E next \in [1..(n + 1) -> Nat] : Laid(Append(log, End), m, n + 1, 0, fresh, next)
<1> DEFINE len == Len(m[n].actions)
           next == [i \in 1..(n + 1) |-> IF i <= n THEN start[i] ELSE start[n] + len + 2]
<1>1. Len(m) \in Nat /\ n \in 1..(Len(m) + 1) /\ n \in Nat /\ n > 0 /\ m[n] \in Step /\ End \in Line
  BY LenProperties, ElementOfSeq DEF Line
<1>2. len \in Nat
  BY <1>1, LenProperties DEF Step
<1>3. /\ start[1] \in Nat /\ start[n] \in Nat /\ start[n] > 0 /\ Len(log) \in Nat
      /\ \A i \in 1..(n - 1) : /\ m[i] \in Step /\ start[i] \in Nat /\ start[i] > 0
                               /\ start[i + 1] \in Nat
                               /\ start[i] + Len(m[i].actions) + 1 <= Len(log)
  <2>1. len + 1 \in Nat
    BY <1>2
  <2>2. QED
    BY <1>1, <2>1, LayoutFacts
<1>4. Len(log) = start[n] + len
  BY <1>2, <1>3 DEF Laid
<1>5. /\ Len(Append(log, End)) = Len(log) + 1
      /\ \A p \in 1..Len(log) : Append(log, End)[p] = log[p]
      /\ Append(log, End)[Len(log) + 1] = End
  BY <1>1, AppendFacts
<1>6. next \in [1..(n + 1) -> Nat] /\ next[n + 1] = start[n] + len + 2
      /\ \A i \in 1..n : next[i] = start[i]
  BY <1>1, <1>2, <1>3
<1> HIDE DEF next
<1>7. /\ log[start[n]] = Begin(m[n])
      /\ \A k \in 1..len : log[start[n] + k] = Action(m[n].actions[k])
  <2>1. len + 1 > 0 /\ (len + 1) - 1 = len
    BY <1>2
  <2>2. QED
    BY <2>1 DEF Laid
<1>8. Block(Append(log, End), start[n], m[n])
  <2>1. start[n] \in 1..Len(log) /\ start[n] + len + 1 = Len(log) + 1
        /\ \A k \in 1..len : start[n] + k \in 1..Len(log)
    BY <1>2, <1>3, <1>4
  <2>2. QED
    BY <1>5, <1>7, <2>1 DEF Block
<1>9. ASSUME NEW i \in 1..n
      PROVE  next[i + 1] = next[i] + Len(m[i].actions) + 2 /\ Block(Append(log, End), next[i], m[i])
  <2>1. CASE i = n
    BY <1>1, <1>6, <1>8, <2>1
  <2>2. CASE i # n
    <3>1. i \in 1..(n - 1) /\ i + 1 \in 1..n
      BY <1>1, <2>2
    <3>2. start[i + 1] = start[i] + Len(m[i].actions) + 2 /\ Block(log, start[i], m[i])
      BY <3>1 DEF Laid
    <3>3. Block(Append(log, End), start[i], m[i])
      BY <1>3, <1>5, <3>1, <3>2, BlockKept
    <3>4. QED
      BY <1>6, <3>1, <3>2, <3>3
  <2>3. QED
    BY <2>1, <2>2
<1>10. \A i, j \in 1..(n + 1) : i < j => next[i] < next[j]
  <2> SUFFICES ASSUME NEW i \in 1..(n + 1), NEW j \in 1..(n + 1), i < j PROVE next[i] < next[j]
    OBVIOUS
  <2>1. i \in 1..n /\ next[i] = start[i] /\ start[i] \in Nat
    BY <1>1, <1>6
  <2>2. CASE j \in 1..n
    BY <1>6, <2>1, <2>2 DEF Laid
  <2>3. CASE j = n + 1
    <3>1. start[i] <= start[n]
      <4>1. CASE i = n
        BY <1>3, <4>1
      <4>2. CASE i # n
        <5>1. i < n /\ n \in 1..n
          BY <1>1, <2>1, <4>2
        <5>2. start[i] < start[n]
          BY <2>1, <5>1 DEF Laid
        <5>3. QED
          BY <1>3, <2>1, <5>2
      <4>3. QED
        BY <4>1, <4>2
    <3>2. QED
      BY <1>2, <1>3, <1>6, <2>1, <2>3, <3>1
  <2>4. QED
    BY <1>1, <2>2, <2>3
<1>11. ASSUME NEW p \in Nat, next[1] <= p, p < next[n + 1]
       PROVE  \E i \in 1..n : next[i] <= p /\ p < next[i + 1]
  <2>0. next[1] = start[1]
    BY <1>1, <1>6
  <2>1. CASE p < start[n]
    <3>1. PICK i \in 1..(n - 1) : start[i] <= p /\ p < start[i + 1]
      BY <1>11, <2>0, <2>1 DEF Laid
    <3>2. i \in 1..n /\ i + 1 \in 1..n
      BY <1>1
    <3>3. QED
      BY <1>6, <3>1, <3>2
  <2>2. CASE ~(p < start[n])
    BY <1>1, <1>3, <1>6, <1>11, <2>2
  <2>3. QED
    BY <2>1, <2>2
<1>12. Len(Append(log, End)) = next[n + 1] - 1 + 0 /\ (n + 1) - 1 = n
  <2>1. start[n] \in Nat /\ len \in Nat /\ n \in Nat
    BY <1>1, <1>2, <1>3
  <2>2. Len(Append(log, End)) = start[n] + len + 1
    BY <1>4, <1>5
  <2>3. QED
    BY <1>6, <2>1, <2>2
<1>13. (fresh => next[1] = 1) /\ next[1] > 0
  <2>1. next[1] = start[1]
    BY <1>1, <1>6
  <2>2. QED
    BY <2>1 DEF Laid
<1>14. Laid(Append(log, End), m, n + 1, 0, fresh, next)
  BY <1>9, <1>10, <1>11, <1>12, <1>13 DEF Laid
<1>15. QED
  BY <1>6, <1>14

-----------------------------------------------------------------------------
(* What the reader makes of a block that opens.                               *)
LEMMA BlockIsRead ==
  ASSUME NEW log \in Seq(Line), NEW s \in Step, NEW i \in Nat, i > 0,
         i + Len(s.actions) + 1 <= Len(log), Block(log, i, s), Opens(log, i)
  PROVE  i \in Headers(log) /\ TestSteps(log)[i] = Element(s)
<1> DEFINE len == Len(s.actions)
           k == i + len + 1
<1>1. len \in Nat /\ Len(log) \in Nat /\ DOMAIN log = 1..Len(log) /\ DOMAIN s.actions = 1..len
  BY LenProperties DEF Step
<1>2. i \in DOMAIN log /\ k \in DOMAIN log /\ k \in Nat /\ k > i
  BY <1>1
<1>3. i \in Headers(log)
  BY <1>2 DEF Headers
<1>4. /\ log[i] = Begin(s) /\ log[k] = End
      /\ \A a \in 1..len : log[i + a] = Action(s.actions[a])
  BY DEF Block
<1>5. \A j \in i..(k - 1) : log[j].kind # "end"
  <2> SUFFICES ASSUME NEW j \in i..(k - 1) PROVE log[j].kind # "end"
    OBVIOUS
  <2>1. CASE j = i
    BY <1>4, <2>1 DEF Begin
  <2>2. CASE j # i
    <3>1. j - i \in 1..len /\ j = i + (j - i)
      BY <1>1, <2>2
    <3>2. log[j] = Action(s.actions[j - i])
      BY <1>4, <3>1
    <3>3. QED
      BY <3>2 DEF Action
  <2>3. QED
    BY <2>1, <2>2
<1>6. log[k].kind = "end"
  BY <1>4 DEF End
<1> HIDE DEF k
<1>7. Closes(log, i, k)
  BY <1>2, <1>5, <1>6 DEF Closes
<1>8. \A j \in DOMAIN log : Closes(log, i, j) => j = k
  <2> SUFFICES ASSUME NEW j \in DOMAIN log, Closes(log, i, j), j # k PROVE FALSE
    OBVIOUS
  <2>1. j \in Nat /\ j > i /\ log[j].kind = "end" /\ \A l \in i..(j - 1) : log[l].kind # "end"
    BY <1>1 DEF Closes
  <2>2. CASE j < k
    BY <1>2, <1>5, <2>1, <2>2
  <2>3. CASE j > k
    BY <1>2, <1>6, <2>1, <2>3
  <2>4. QED
    BY <1>2, <2>1, <2>2, <2>3
<1>9. (CHOOSE j \in DOMAIN log : Closes(log, i, j)) = k
  BY <1>2, <1>7, <1>8
<1>10. SubSeq(log, i + 1, k - 1) = [a \in DOMAIN s.actions |-> Action(s.actions[a])]
  <2>1. \A a \in (i + 1)..(k - 1) : log[a] \in Line
    BY <1>1, <1>2, ElementOfSeq
  <2>2. k - 1 = i + len
    BY <1>1 DEF k
  <2>3. /\ SubSeq(log, i + 1, k - 1) \in Seq(Line)
        /\ Len(SubSeq(log, i + 1, k - 1)) = len
        /\ \A a \in 1..len : SubSeq(log, i + 1, k - 1)[a] = log[i + a]
    <3>1. i + 1 \in Int /\ k - 1 \in Int
      BY <1>2
    <3>2. /\ SubSeq(log, i + 1, k - 1) \in Seq(Line)
          /\ Len(SubSeq(log, i + 1, k - 1)) =
               IF i + 1 <= k - 1 THEN (k - 1) - (i + 1) + 1 ELSE 0
          /\ \A a \in 1..((k - 1) - (i + 1) + 1) :
               SubSeq(log, i + 1, k - 1)[a] = log[(i + 1) + a - 1]
      BY <2>1, <3>1, SubSeqProperties
    <3>3. (k - 1) - (i + 1) + 1 = len /\ (i + 1 <= k - 1 <=> len > 0)
      BY <1>1, <1>2, <2>2
    <3>4. \A a \in 1..len : (i + 1) + a - 1 = i + a
      BY <1>1
    <3>5. QED
      BY <1>1, <3>2, <3>3, <3>4
  <2>4. \A a \in 1..len : SubSeq(log, i + 1, k - 1)[a] = Action(s.actions[a])
    BY <1>4, <2>3
  <2>5. DOMAIN SubSeq(log, i + 1, k - 1) = 1..len
        /\ SubSeq(log, i + 1, k - 1) = [a \in 1..len |-> SubSeq(log, i + 1, k - 1)[a]]
    BY <2>3, LenProperties
  <2>6. QED
    BY <1>1, <2>4, <2>5
<1>11. log[i].text = s.name
  BY <1>4 DEF Begin
<1>12. TestSteps(log)[i] = [name |-> log[i].text, lines |-> SubSeq(log, i + 1, k - 1)]
  BY <1>3, <1>9 DEF TestSteps
<1>13. QED
  BY <1>3, <1>10, <1>11, <1>12 DEF Element

(* Every block behind an end line opens, whatever is before it in the log.    *)
LEMMA LaterStepsRead ==
  ASSUME NEW log \in Seq(Line), NEW m \in Seq(Step), NEW fresh,
         NEW start \in [1..(Len(m) + 1) -> Nat],
         Laid(log, m, Len(m) + 1, 0, fresh, start), NEW i \in 2..Len(m)
  PROVE  start[i] \in Headers(log) /\ TestSteps(log)[start[i]] = Element(m[i])
<1> DEFINE n == Len(m) + 1
<1>1. Len(m) \in Nat /\ n \in 1..(Len(m) + 1) /\ i \in 1..(n - 1) /\ i - 1 \in 1..(n - 1)
      /\ (i - 1) + 1 = i
  BY LenProperties
<1>2. \A j \in 1..(n - 1) : /\ m[j] \in Step /\ Len(m[j].actions) \in Nat
                            /\ start[j] \in Nat /\ start[j] > 0
                            /\ start[j] + Len(m[j].actions) + 1 <= Len(log)
  BY <1>1, LayoutFacts
<1>3. /\ start[i] = start[i - 1] + Len(m[i - 1].actions) + 2
      /\ Block(log, start[i - 1], m[i - 1]) /\ Block(log, start[i], m[i])
  BY <1>1 DEF Laid
<1>4. log[start[i] - 1] = End /\ start[i] - 1 \in Nat
  <2>0. start[i - 1] \in Nat /\ Len(m[i - 1].actions) \in Nat
    BY <1>1, <1>2
  <2>1. start[i] - 1 = start[i - 1] + Len(m[i - 1].actions) + 1
    BY <1>3, <2>0
  <2>2. log[start[i - 1] + Len(m[i - 1].actions) + 1] = End
    BY <1>3 DEF Block
  <2>3. start[i - 1] + Len(m[i - 1].actions) + 1 \in Nat
    BY <2>0
  <2>4. QED
    BY <2>1, <2>2, <2>3
<1>5. Opens(log, start[i])
  <2>1. log[start[i]].kind = "begin"
    BY <1>3 DEF Block, Begin
  <2>2. ASSUME NEW j \in 1..(start[i] - 1) PROVE \E k \in j..start[i] : log[k].kind = "end"
    <3>1. start[i] - 1 \in j..start[i] /\ log[start[i] - 1].kind = "end"
      BY <1>1, <1>2, <1>4 DEF End
    <3>2. QED
      BY <3>1
  <2>3. QED
    BY <2>1, <2>2 DEF Opens
<1>6. QED
  BY <1>1, <1>2, <1>3, <1>5, BlockIsRead

(* Of a fresh log, the blocks that are read are those of the steps.           *)
LEMMA FreshLogRead ==
  ASSUME NEW log \in Seq(Line), NEW m \in Seq(Step),
         NEW start \in [1..(Len(m) + 1) -> Nat], Laid(log, m, Len(m) + 1, 0, TRUE, start)
  PROVE  /\ Headers(log) = {start[i] : i \in 1..Len(m)}
         /\ \A i \in 1..Len(m) : TestSteps(log)[start[i]] = Element(m[i])
         /\ Cardinality(Headers(log)) = Len(m)
<1> DEFINE n == Len(m) + 1
<1>1. Len(m) \in Nat /\ n \in 1..(Len(m) + 1) /\ n - 1 = Len(m)
      /\ DOMAIN log = 1..Len(log) /\ Len(log) \in Nat
  BY LenProperties
<1>2. /\ start[1] = 1 /\ start[n] \in Nat /\ Len(log) = start[n] - 1
      /\ \A j \in 1..Len(m) : /\ m[j] \in Step /\ Len(m[j].actions) \in Nat
                              /\ start[j] \in Nat /\ start[j] > 0
                              /\ start[j] + Len(m[j].actions) + 1 <= Len(log)
  <2>1. start[1] = 1 /\ Len(log) = start[n] - 1 + 0
    BY DEF Laid
  <2>2. start[n] \in Nat
    BY <1>1
  <2>3. 0 \in Nat
    OBVIOUS
  <2>4. \A j \in 1..(n - 1) : /\ m[j] \in Step /\ Len(m[j].actions) \in Nat
                              /\ start[j] \in Nat /\ start[j] > 0
                              /\ start[j] + Len(m[j].actions) + 1 <= Len(log)
    BY <1>1, <2>3, LayoutFacts
  <2>5. QED
    BY <1>1, <2>1, <2>2, <2>4
<1>3. \A j \in 1..Len(m) : /\ start[j + 1] = start[j] + Len(m[j].actions) + 2
                           /\ Block(log, start[j], m[j])
  BY <1>1 DEF Laid
<1>4. \A i \in 1..Len(m) :
        start[i] \in Headers(log) /\ TestSteps(log)[start[i]] = Element(m[i])
  <2> SUFFICES ASSUME NEW i \in 1..Len(m)
               PROVE  start[i] \in Headers(log) /\ TestSteps(log)[start[i]] = Element(m[i])
    OBVIOUS
  <2>1. CASE i = 1
    <3>1. Opens(log, start[i])
      <4>1. log[start[i]] = Begin(m[i])
        BY <1>3 DEF Block
      <4>2. 1..(start[i] - 1) = {}
        BY <1>2, <2>1
      <4>3. QED
        BY <4>1, <4>2 DEF Opens, Begin
    <3>2. QED
      BY <1>2, <1>3, <3>1, BlockIsRead
  <2>2. CASE i # 1
    <3>1. i \in 2..Len(m)
      BY <1>1, <2>2
    <3>2. QED
      BY <3>1, LaterStepsRead
  <2>3. QED
    BY <2>1, <2>2
<1>5. ASSUME NEW p \in Headers(log)
      PROVE  \E i \in 1..Len(m) : p = start[i]
  <2>1. p \in 1..Len(log) /\ log[p].kind = "begin"
    BY <1>1 DEF Headers, Opens
  <2>2. p \in Nat /\ start[1] <= p /\ p < start[n]
    BY <1>1, <1>2, <2>1
  <2>3. PICK i \in 1..Len(m) : start[i] <= p /\ p < start[i + 1]
    BY <1>1, <2>2 DEF Laid
  <2>4. Block(log, start[i], m[i]) /\ start[i] \in Nat /\ Len(m[i].actions) \in Nat
        /\ p < start[i] + Len(m[i].actions) + 2
    BY <1>2, <1>3, <2>3
  <2>5. p \in Nat /\ start[i] \in Nat /\ Len(m[i].actions) \in Nat
    BY <2>2, <2>4
  <2>6. p = start[i] \/ p - start[i] \in 1..Len(m[i].actions) \/ p = start[i] + Len(m[i].actions) + 1
    <3>1. \A a, b, c \in Nat : a <= b /\ b < a + c + 2 => b = a \/ b - a \in 1..c \/ b = a + c + 1
      OBVIOUS
    <3>2. QED
      BY <2>3, <2>4, <2>5, <3>1
  <2>7. ASSUME p - start[i] \in 1..Len(m[i].actions) PROVE FALSE
    <3>1. p = start[i] + (p - start[i])
      BY <2>2, <2>4
    <3>2. log[p] = Action(m[i].actions[p - start[i]])
      BY <2>4, <2>7, <3>1 DEF Block
    <3>3. QED
      BY <2>1, <3>2 DEF Action
  <2>8. ASSUME p = start[i] + Len(m[i].actions) + 1 PROVE FALSE
    BY <2>1, <2>4, <2>8 DEF Block, End
  <2>9. QED
    BY <2>6, <2>7, <2>8
<1>6. Headers(log) = {start[i] : i \in 1..Len(m)}
  BY <1>4, <1>5
<1>7. Cardinality(Headers(log)) = Len(m)
  <2> DEFINE f == [i \in 1..Len(m) |-> start[i]]
  <2>1. f \in [1..Len(m) -> Headers(log)] /\ \A p \in Headers(log) : \E i \in 1..Len(m) : f[i] = p
    BY <1>6
  <2>2. ASSUME NEW i \in 1..Len(m), NEW j \in 1..Len(m), f[i] = f[j] PROVE i = j
    <3>1. i \in 1..n /\ j \in 1..n /\ i \in Nat /\ j \in Nat
      BY <1>1
    <3>2. start[i] \in Nat /\ start[j] \in Nat /\ start[i] = start[j]
      BY <1>2, <2>2
    <3>3. (i < j => start[i] < start[j]) /\ (j < i => start[j] < start[i])
      BY <3>1 DEF Laid
    <3>4. QED
      BY <3>1, <3>2, <3>3
  <2>3. f \in Bijection(1..Len(m), Headers(log))
    BY <2>1, <2>2, Fun_IsBij
  <2>4. ExistsBijection(1..Len(m), Headers(log))
    BY <2>3 DEF ExistsBijection
  <2>5. QED
    BY <1>1, <2>4, FS_CountingElements
<1>8. QED
  BY <1>4, <1>6, <1>7

-----------------------------------------------------------------------------
(* What genStepLogFile has sorted when it has looked for the numbers up to n: *)
(* the first method with each number it found, in the order of the numbers.   *)
SortedUpTo(n) ==
  /\ \A i \in Taken(model) : i <= n =>
       \E j \in DOMAIN model, k \in DOMAIN methods :
         IsFirst(model, i, j) /\ methods[k] = model[j]
  /\ \A k \in DOMAIN methods :
       /\ methods[k].number \in Taken(model) /\ methods[k].number <= n
       /\ \E j \in DOMAIN model :
            IsFirst(model, methods[k].number, j) /\ methods[k] = model[j]
  /\ \A k, l \in DOMAIN methods : k < l => methods[k].number < methods[l].number

SortInv ==
  /\ pc = "sort" => SortedUpTo(step - 1)
  /\ pc \in {"steplog", "invoke"} => SortedUpTo(Len(model))

LEMMA InitLaidOut == Init => LaidOut /\ SortInv /\ LaterStepsIntact
  BY DEF Init, LaidOut, SortInv, LaterStepsIntact, XmlIsModel, XmlWritten

(* The sort goes through the numbers one by one.                              *)
LEMMA SortGrows ==
  ASSUME IndInv, SortInv, SortStep
  PROVE  SortedUpTo(step - 1)'
<1>1. /\ pc = "sort" /\ model \in Seq(Step) /\ methods \in Seq(Step)
      /\ DOMAIN model = 1..Len(model) /\ Len(model) \in Nat
      /\ DOMAIN methods = 1..Len(methods) /\ Len(methods) \in Nat
      /\ step \in 1..Len(model) /\ step' - 1 = step /\ UNCHANGED model
  BY LenProperties DEF SortStep, IndInv, TypeOK
<1>2. SortedUpTo(step - 1)
  BY <1>1 DEF SortInv
<1>3. \A k \in DOMAIN methods : methods[k].number \in 1..Len(model) /\ methods[k].number < step
  BY <1>1, <1>2 DEF SortedUpTo, Taken
<1>4. Taken(model) \subseteq 1..Len(model)
  BY <1>1 DEF Taken
<1>5. CASE step \notin Taken(model) /\ UNCHANGED methods
  <2>1. \A i \in Taken(model) : i <= step => i <= step - 1
    BY <1>1, <1>4, <1>5
  <2>2. \A k \in DOMAIN methods : methods[k].number <= step
    BY <1>1, <1>3
  <2>3. QED
    BY <1>1, <1>2, <1>5, <2>1, <2>2 DEF SortedUpTo
<1>6. ASSUME NEW j \in DOMAIN model, IsFirst(model, step, j), methods' = Append(methods, model[j])
      PROVE  SortedUpTo(step - 1)'
  <2>1. model[j] \in Step
    BY <1>1
  <2>2. /\ DOMAIN methods' = 1..(Len(methods) + 1)
        /\ \A k \in 1..Len(methods) : methods'[k] = methods[k]
        /\ methods'[Len(methods) + 1] = model[j]
    BY <1>1, <1>6, <2>1, AppendProperties
  <2>3. model[j].number = step /\ step \in Taken(model)
    BY <1>1, <1>6 DEF IsFirst, Taken
  <2>4. ASSUME NEW i \in Taken(model), i <= step
        PROVE  \E h \in DOMAIN model, k \in DOMAIN methods' :
                 IsFirst(model, i, h) /\ methods'[k] = model[h]
    <3>1. CASE i = step
      BY <1>1, <1>6, <2>2, <3>1
    <3>2. CASE i # step
      <4>1. i <= step - 1
        BY <1>1, <1>4, <2>4, <3>2
      <4>2. PICK h \in DOMAIN model, k \in DOMAIN methods :
               IsFirst(model, i, h) /\ methods[k] = model[h]
        BY <1>2, <4>1 DEF SortedUpTo
      <4>3. k \in DOMAIN methods' /\ methods'[k] = methods[k]
        BY <1>1, <2>2
      <4>4. QED
        BY <4>2, <4>3
    <3>3. QED
      BY <3>1, <3>2
  <2>5. ASSUME NEW k \in DOMAIN methods'
        PROVE  /\ methods'[k].number \in Taken(model) /\ methods'[k].number <= step
               /\ \E h \in DOMAIN model :
                    IsFirst(model, methods'[k].number, h) /\ methods'[k] = model[h]
    <3>1. CASE k = Len(methods) + 1
      BY <1>1, <1>6, <2>2, <2>3, <3>1
    <3>2. CASE k # Len(methods) + 1
      <4>1. k \in DOMAIN methods /\ methods'[k] = methods[k]
        BY <1>1, <2>2, <3>2
      <4>2. /\ methods[k].number \in Taken(model)
            /\ \E h \in DOMAIN model :
                 IsFirst(model, methods[k].number, h) /\ methods[k] = model[h]
        BY <1>2, <4>1 DEF SortedUpTo
      <4>3. methods[k].number <= step
        BY <1>1, <1>3, <4>1
      <4>4. QED
        BY <4>1, <4>2, <4>3
    <3>3. QED
      BY <3>1, <3>2
  <2>6. ASSUME NEW k \in DOMAIN methods', NEW l \in DOMAIN methods', k < l
        PROVE  methods'[k].number < methods'[l].number
    <3>1. k \in DOMAIN methods /\ methods'[k] = methods[k]
      BY <1>1, <2>2, <2>6
    <3>2. CASE l = Len(methods) + 1
      BY <1>3, <2>2, <2>3, <3>1, <3>2
    <3>3. CASE l # Len(methods) + 1
      <4>1. l \in DOMAIN methods /\ methods'[l] = methods[l]
        BY <1>1, <2>2, <3>3
      <4>2. QED
        BY <1>2, <2>6, <3>1, <4>1 DEF SortedUpTo
    <3>4. QED
      BY <3>2, <3>3
  <2>7. /\ \A i \in Taken(model') : i <= step =>
             \E h \in DOMAIN model', k \in DOMAIN methods' :
               IsFirst(model', i, h) /\ methods'[k] = model'[h]
        /\ \A k \in DOMAIN methods' :
             /\ methods'[k].number \in Taken(model') /\ methods'[k].number <= step
             /\ \E h \in DOMAIN model' :
                  IsFirst(model', methods'[k].number, h) /\ methods'[k] = model'[h]
        /\ \A k, l \in DOMAIN methods' : k < l => methods'[k].number < methods'[l].number
    BY <1>1, <2>4, <2>5, <2>6
  <2>8. QED
    BY <1>1, <2>7 DEF SortedUpTo
<1>7. QED
  BY <1>5, <1>6 DEF SortStep

(* The layout through a step: a run begins behind what is in the log, and the *)
(* three actions of genStepLogFile are the only ones that write it.           *)
LEMMA NextLaidOut == IndInv /\ LaidOut /\ [Next]_vars => LaidOut'
<1> SUFFICES ASSUME IndInv, LaidOut, [Next]_vars PROVE LaidOut'
  OBVIOUS
<1>1. /\ stepLog \in Seq(Line) /\ methods \in Seq(Step) /\ Len(methods) \in Nat
      /\ DOMAIN methods = 1..Len(methods) /\ Len(stepLog) \in Nat
      /\ pc \in {"steplog", "invoke"} => step \in 1..(Len(methods) + 1)
      /\ act \in Nat
      /\ pc = "invoke" => step \in 1..Len(methods) /\ act <= Len(methods[step].actions)
  BY LenProperties DEF IndInv, TypeOK
<1>2. /\ \A k \in 1..Len(methods) : Begin(methods[k]) \in Line /\ methods[k] \in Step
      /\ \A k \in 1..Len(methods) : \A a \in 1..Len(methods[k].actions) :
           Action(methods[k].actions[a]) \in Line
  <2>1. \A k \in 1..Len(methods) : methods[k] \in Step
    BY <1>1, ElementOfSeq
  <2>2. \A s \in Step : s.name \in STRING /\ s.actions \in Seq(STRING)
    BY DEF Step
  <2>3. \A s \in Step : \A a \in 1..Len(s.actions) : s.actions[a] \in STRING
    BY <2>2, ElementOfSeq
  <2>4. \A s \in Step : Begin(s) \in Line
    BY <2>2 DEF Line, Begin
  <2>5. \A x \in STRING : Action(x) \in Line
    BY DEF Line, Action
  <2>6. QED
    BY <2>1, <2>3, <2>4, <2>5
<1>3. CASE \E m \in Models : Start(m)
  <2>1. /\ pc' = "action" /\ stepLog' = stepLog /\ logBefore' = (stepLog # <<>>)
    BY <1>3 DEF Start
  <2> DEFINE start == [i \in 1..1 |-> Len(stepLog) + 1]
  <2>2. start \in [1..1 -> Nat] /\ start[1] = Len(stepLog) + 1
    BY <1>1
  <2> HIDE DEF start
  <2>3. ~logBefore' => Len(stepLog) = 0
    BY <1>1, <2>1, EmptySeq
  <2>4. Laid(stepLog, methods', 1, 0, ~logBefore', start)
    BY <1>1, <2>2, <2>3 DEF Laid
  <2>5. QED
    BY <2>1, <2>2, <2>4 DEF LaidOut
<1>4. CASE BeginStep
  <2>1. /\ pc = "steplog" /\ OpenLines = 0 /\ OpenLines' = 0 + 1 /\ step \in 1..Len(methods)
        /\ stepLog' = Append(stepLog, Begin(methods[step]))
        /\ pc' \in {"steplog", "invoke"} /\ UNCHANGED <<methods, step, logBefore>>
    BY <1>1, <1>4 DEF BeginStep, OpenLines, logUnchanged
  <2>2. PICK start \in [1..step -> Nat] :
          Laid(stepLog, methods, step, 0, ~logBefore, start)
    BY <2>1 DEF LaidOut
  <2>3. Laid(Append(stepLog, Begin(methods[step])), methods, step, 0 + 1, ~logBefore, start)
    BY <1>1, <1>2, <2>1, <2>2, OpenBlockGrows
  <2>4. QED
    BY <2>1, <2>3 DEF LaidOut
<1>5. CASE RecordAction
  <2>1. /\ pc = "invoke" /\ OpenLines = act + 1 /\ OpenLines' = (act + 1) + 1
        /\ step \in 1..Len(methods) /\ act < Len(methods[step].actions)
        /\ stepLog' = Append(stepLog, Action(methods[step].actions[act + 1]))
        /\ pc' \in {"steplog", "invoke"} /\ UNCHANGED <<methods, step, logBefore>>
    BY <1>1, <1>5 DEF RecordAction, OpenLines, logUnchanged
  <2>2. PICK start \in [1..step -> Nat] :
          Laid(stepLog, methods, step, act + 1, ~logBefore, start)
    BY <2>1 DEF LaidOut
  <2>3. Len(methods[step].actions) \in Nat
    BY <1>2, <2>1, LenProperties DEF Step
  <2>4. act + 1 \in 1..Len(methods[step].actions) /\ act + 1 \in Nat /\ act + 1 # 0
    BY <1>1, <2>1, <2>3
  <2>5. Laid(Append(stepLog, Action(methods[step].actions[act + 1])), methods, step, (act + 1) + 1,
             ~logBefore, start)
    BY <1>1, <1>2, <2>1, <2>2, <2>4, OpenBlockGrows
  <2>6. QED
    BY <2>1, <2>5 DEF LaidOut
<1>6. CASE EndStep
  <2>1. /\ pc = "invoke" /\ OpenLines = Len(methods[step].actions) + 1 /\ OpenLines' = 0
        /\ step \in 1..Len(methods) /\ step' = step + 1
        /\ stepLog' = Append(stepLog, End)
        /\ pc' = "steplog" /\ UNCHANGED <<methods, logBefore>>
    BY <1>1, <1>6 DEF EndStep, OpenLines, logUnchanged
  <2>2. PICK start \in [1..step -> Nat] :
          Laid(stepLog, methods, step, Len(methods[step].actions) + 1, ~logBefore, start)
    BY <2>1 DEF LaidOut
  <2>3. \E next \in [1..(step + 1) -> Nat] :
          Laid(Append(stepLog, End), methods, step + 1, 0, ~logBefore, next)
    BY <1>1, <2>1, <2>2, BlockCloses
  <2>4. QED
    BY <2>1, <2>3 DEF LaidOut
<1>7. CASE GenAction \/ GenMbt \/ Compile \/ Load \/ SortStep
  <2>1. /\ pc \in {"action", "mbt", "compile", "load", "sort"}
        /\ pc' \in {"action", "mbt", "compile", "load", "sort"}
        /\ UNCHANGED <<stepLog, logBefore>>
    BY <1>7 DEF GenAction, GenMbt, Compile, Load, SortStep, pipelineUnchanged
  <2>2. PICK start \in [1..1 -> Nat] : Laid(stepLog, methods, 1, 0, ~logBefore, start)
    BY <2>1 DEF LaidOut
  <2>3. Laid(stepLog, methods', 1, 0, ~logBefore, start)
    BY <2>2, NoStepLaid
  <2>4. QED
    BY <2>1, <2>3 DEF LaidOut
<1>8. CASE Sorted
  <2>1. /\ pc = "sort" /\ pc' = "steplog" /\ step' = 1 /\ OpenLines' = 0
        /\ UNCHANGED <<methods, stepLog, logBefore>>
    BY <1>8 DEF Sorted, OpenLines
  <2>2. QED
    BY <2>1 DEF LaidOut
<1>9. CASE LoadRetry \/ UNCHANGED vars
  BY <1>9 DEF LoadRetry, vars, OpenLines, LaidOut
<1>10. CASE \/ CompileFails \/ StageFails \/ StepThrows \/ Throws \/ WriteXml \/ ReadLogThrows
            \/ DeleteLog \/ GenPaths \/ GenStepXml \/ GenCases \/ Finally \/ Killed \/ NoMoreRuns
  BY <1>10 DEF CompileFails, StageFails, StepThrows, Throws, WriteXml, ReadLogThrows, DeleteLog,
               GenPaths, GenStepXml, GenCases, Finally, Killed, NoMoreRuns, vars, OpenLines, LaidOut
<1>11. QED
  BY <1>3, <1>4, <1>5, <1>6, <1>7, <1>8, <1>9, <1>10 DEF Next, Stage

(* The sorted list through a step: it is complete when the sort ends, and     *)
(* stays until the run is over.                                               *)
LEMMA NextSortInv == IndInv /\ SortInv /\ [Next]_vars => SortInv'
<1> SUFFICES ASSUME IndInv, SortInv, [Next]_vars PROVE SortInv'
  OBVIOUS
<1>1. CASE SortStep
  <2>1. pc' = "sort"
    BY <1>1 DEF SortStep
  <2>2. QED
    BY <1>1, <2>1, SortGrows DEF SortInv
<1>2. CASE Sorted
  <2>1. /\ pc = "sort" /\ pc' = "steplog" /\ step - 1 = Len(model)
        /\ UNCHANGED <<model, methods>>
    BY <1>2, LenProperties DEF Sorted, IndInv, TypeOK
  <2>2. SortedUpTo(Len(model))
    BY <2>1 DEF SortInv
  <2>3. QED
    BY <2>1, <2>2 DEF SortInv, SortedUpTo
<1>3. CASE Load
  <2>1. /\ pc' = "sort" /\ step' = 1 /\ methods' = <<>> /\ UNCHANGED model
        /\ model \in Seq(Step) /\ DOMAIN model = 1..Len(model)
    BY <1>3, LenProperties DEF Load, pipelineUnchanged, IndInv, NothingSorted, TypeOK
  <2>2. DOMAIN methods' = {} /\ \A i \in Taken(model) : ~(i <= 0)
    BY <2>1 DEF Taken
  <2>3. QED
    BY <2>1, <2>2 DEF SortInv, SortedUpTo
<1>4. CASE BeginStep \/ RecordAction \/ EndStep
  <2>1. /\ pc \in {"steplog", "invoke"} /\ pc' \in {"steplog", "invoke"}
        /\ UNCHANGED <<model, methods>>
    BY <1>4 DEF BeginStep, RecordAction, EndStep, logUnchanged
  <2>2. QED
    BY <2>1 DEF SortInv, SortedUpTo
<1>5. CASE \/ \E m \in Models : Start(m)
           \/ GenAction \/ GenMbt \/ Compile \/ LoadRetry
           \/ CompileFails \/ StageFails \/ StepThrows \/ Throws \/ WriteXml \/ ReadLogThrows
           \/ DeleteLog \/ GenPaths \/ GenStepXml \/ GenCases \/ Finally \/ Killed \/ NoMoreRuns
           \/ UNCHANGED vars
  <2>1. \/ pc' \notin {"sort", "steplog", "invoke"}
        \/ UNCHANGED <<pc, model, methods, step>>
    BY <1>5 DEF Start, GenAction, GenMbt, Compile, LoadRetry, CompileFails, StageFails, StepThrows,
                Throws, WriteXml, ReadLogThrows, DeleteLog, GenPaths, GenStepXml, GenCases, Finally,
                Killed, NoMoreRuns, vars
  <2>2. QED
    BY <2>1 DEF SortInv, SortedUpTo
<1>6. QED
  BY <1>1, <1>2, <1>3, <1>4, <1>5 DEF Next, Stage

(* The list holds as many methods as there are numbers that are taken.        *)
LEMMA SortedCount ==
  ASSUME model \in Seq(Step), methods \in Seq(Step), SortedUpTo(Len(model))
  PROVE  Cardinality(Taken(model)) = Len(methods)
<1>1. /\ Len(model) \in Nat /\ DOMAIN model = 1..Len(model)
      /\ Len(methods) \in Nat /\ DOMAIN methods = 1..Len(methods)
  BY LenProperties
<1> DEFINE f == [k \in 1..Len(methods) |-> methods[k].number]
<1>2. f \in [1..Len(methods) -> Taken(model)]
  BY <1>1 DEF SortedUpTo
<1>3. ASSUME NEW i \in Taken(model) PROVE \E k \in 1..Len(methods) : f[k] = i
  <2>1. i <= Len(model)
    BY <1>1 DEF Taken
  <2>2. PICK j \in DOMAIN model, k \in DOMAIN methods : IsFirst(model, i, j) /\ methods[k] = model[j]
    BY <2>1 DEF SortedUpTo
  <2>3. QED
    BY <1>1, <2>2 DEF IsFirst
<1>4. ASSUME NEW k \in 1..Len(methods), NEW l \in 1..Len(methods), f[k] = f[l] PROVE k = l
  <2>1. methods[k].number \in Int /\ methods[k].number = methods[l].number
    BY <1>1, <1>4 DEF SortedUpTo, Taken
  <2>2. (k < l => methods[k].number < methods[l].number)
        /\ (l < k => methods[l].number < methods[k].number)
    BY <1>1 DEF SortedUpTo
  <2>3. QED
    BY <1>1, <2>1, <2>2
<1>5. f \in Bijection(1..Len(methods), Taken(model))
  BY <1>2, <1>3, <1>4, Fun_IsBij
<1>6. ExistsBijection(1..Len(methods), Taken(model))
  BY <1>5 DEF ExistsBijection
<1>7. QED
  BY <1>1, <1>6, FS_CountingElements

(* The XML file through a step: WriteXml reads a log that is laid out, and    *)
(* nothing writes the file again.                                             *)
LEMMA NextStepsIntact ==
  IndInv /\ LaidOut /\ SortInv /\ LaterStepsIntact /\ [Next]_vars => LaterStepsIntact'
<1> SUFFICES ASSUME IndInv, LaidOut, SortInv, LaterStepsIntact, [Next]_vars, XmlWritten'
             PROVE  LaterStepsIntact'
  BY DEF LaterStepsIntact, XmlIsModel
<1>1. CASE WriteXml
  <2>1. /\ stepLog \in Seq(Line) /\ methods \in Seq(Step) /\ Len(methods) \in Nat
        /\ DOMAIN methods = 1..Len(methods) /\ step = Len(methods) + 1 /\ OpenLines = 0
        /\ model \in Seq(Step) /\ Len(model) \in Nat /\ DOMAIN model = 1..Len(model)
        /\ xml' = TestSteps(stepLog) /\ UNCHANGED <<model, logBefore>> /\ pc = "steplog"
    BY <1>1, LenProperties DEF WriteXml, pipelineUnchanged, OpenLines, IndInv, TypeOK
  <2>2. PICK start \in [1..(Len(methods) + 1) -> Nat] :
          Laid(stepLog, methods, Len(methods) + 1, 0, ~logBefore, start)
    BY <2>1 DEF LaidOut
  <2>3. SortedUpTo(Len(model)) /\ Cardinality(Taken(model)) = Len(methods)
    BY <2>1, SortedCount DEF SortInv
  <2>4. DOMAIN xml' = Headers(stepLog)
    BY <2>1 DEF TestSteps
  <2>5. ASSUME NEW i \in Taken(model)
        PROVE  \E j \in DOMAIN model, k \in DOMAIN methods :
                 IsFirst(model, i, j) /\ methods[k] = model[j]
    <3>1. i <= Len(model)
      BY <2>1 DEF Taken
    <3>2. QED
      BY <2>3, <3>1 DEF SortedUpTo
  <2>6. ASSUME ~logBefore
        PROVE  /\ \A k \in 1..Len(methods) : start[k] \in DOMAIN xml'
                                             /\ xml'[start[k]] = Element(methods[k])
               /\ \A l \in DOMAIN xml' : \E k \in 1..Len(methods) : xml'[l] = Element(methods[k])
               /\ Cardinality(DOMAIN xml') = Len(methods)
    <3>1. Laid(stepLog, methods, Len(methods) + 1, 0, TRUE, start)
      BY <2>2, <2>6 DEF Laid
    <3>2. /\ Headers(stepLog) = {start[i] : i \in 1..Len(methods)}
          /\ \A i \in 1..Len(methods) : TestSteps(stepLog)[start[i]] = Element(methods[i])
          /\ Cardinality(Headers(stepLog)) = Len(methods)
      BY <2>1, <3>1, FreshLogRead
    <3>3. QED
      BY <2>1, <2>4, <3>2
  <2>7. ASSUME ~logBefore
        PROVE  /\ \A i \in Taken(model) : \E j \in DOMAIN model, l \in DOMAIN xml' :
                    IsFirst(model, i, j) /\ xml'[l] = Element(model[j])
               /\ \A l \in DOMAIN xml' : \E i \in Taken(model), j \in DOMAIN model :
                    IsFirst(model, i, j) /\ xml'[l] = Element(model[j])
               /\ Cardinality(DOMAIN xml') = Cardinality(Taken(model))
    <3>1. ASSUME NEW i \in Taken(model)
          PROVE  \E j \in DOMAIN model, l \in DOMAIN xml' :
                   IsFirst(model, i, j) /\ xml'[l] = Element(model[j])
      <4>1. PICK j \in DOMAIN model, k \in DOMAIN methods :
              IsFirst(model, i, j) /\ methods[k] = model[j]
        BY <2>5
      <4>2. start[k] \in DOMAIN xml' /\ xml'[start[k]] = Element(model[j])
        BY <2>1, <2>6, <2>7, <4>1
      <4>3. QED
        BY <4>1, <4>2
    <3>2. ASSUME NEW l \in DOMAIN xml'
          PROVE  \E i \in Taken(model), j \in DOMAIN model :
                   IsFirst(model, i, j) /\ xml'[l] = Element(model[j])
      <4>1. PICK k \in 1..Len(methods) : xml'[l] = Element(methods[k])
        BY <2>6, <2>7
      <4>2. /\ methods[k].number \in Taken(model)
            /\ \E j \in DOMAIN model : IsFirst(model, methods[k].number, j) /\ methods[k] = model[j]
        BY <2>1, <2>3 DEF SortedUpTo
      <4>3. QED
        BY <4>1, <4>2
    <3>3. QED
      BY <2>3, <2>6, <2>7, <3>1, <3>2
  <2>8. ASSUME NEW i \in Taken(model), NEW h \in Taken(model), h < i
        PROVE  \E j \in DOMAIN model, l \in DOMAIN xml' :
                 IsFirst(model, i, j) /\ xml'[l] = Element(model[j])
    <3>1. PICK j \in DOMAIN model, k \in DOMAIN methods :
            IsFirst(model, i, j) /\ methods[k] = model[j]
      BY <2>5
    <3>2. PICK g \in DOMAIN model, p \in DOMAIN methods :
            IsFirst(model, h, g) /\ methods[p] = model[g]
      BY <2>5
    <3>3. methods[k].number = i /\ methods[p].number = h /\ i \in Int /\ h \in Int
      BY <2>1, <3>1, <3>2 DEF IsFirst, Taken
    <3>4. k # 1
      <4>1. SUFFICES ASSUME k = 1 PROVE FALSE
        OBVIOUS
      <4>2. p = 1 \/ 1 < p
        BY <2>1, <3>2
      <4>3. 1 < p => methods[1].number < methods[p].number
        BY <2>1, <2>3, <3>1, <3>2, <4>1 DEF SortedUpTo
      <4>4. QED
        BY <2>8, <3>3, <4>1, <4>2, <4>3
    <3>5. k \in 2..Len(methods)
      BY <2>1, <3>1, <3>4
    <3>6. start[k] \in Headers(stepLog) /\ TestSteps(stepLog)[start[k]] = Element(methods[k])
      BY <2>1, <2>2, <3>5, LaterStepsRead
    <3>7. QED
      BY <2>1, <2>4, <3>1, <3>6
  <2>9. ASSUME ~logBefore, WellNumbered(model), NEW j \in DOMAIN model
        PROVE  \E l \in DOMAIN xml' : xml'[l] = Element(model[j])
    <3>1. model[j].number \in Taken(model)
      BY <2>9 DEF WellNumbered, Taken
    <3>2. PICK g \in DOMAIN model, l \in DOMAIN xml' :
            IsFirst(model, model[j].number, g) /\ xml'[l] = Element(model[g])
      BY <2>7, <2>9, <3>1
    <3>3. g = j
      BY <2>9, <3>2 DEF WellNumbered, IsFirst
    <3>4. QED
      BY <3>2, <3>3
  <2>10. model' = model /\ logBefore' = logBefore
    BY <2>1
  <2>11. XmlIsModel' \/ logBefore'
    BY <2>7, <2>10 DEF XmlIsModel
  <2>12. QED
    BY <2>8, <2>9, <2>10, <2>11 DEF LaterStepsIntact
<1>2. CASE DeleteLog \/ GenPaths \/ GenStepXml \/ GenCases \/ UNCHANGED vars
  <2>1. XmlWritten /\ UNCHANGED <<xml, model, logBefore>>
    BY <1>2 DEF DeleteLog, GenPaths, GenStepXml, GenCases, vars, pipelineUnchanged, XmlWritten
  <2>2. QED
    BY <2>1 DEF LaterStepsIntact, XmlIsModel
<1>3. CASE \/ \E m \in Models : Start(m)
           \/ GenAction \/ GenMbt \/ Compile \/ CompileFails \/ Load \/ LoadRetry
           \/ SortStep \/ Sorted \/ BeginStep \/ RecordAction \/ EndStep \/ ReadLogThrows
           \/ StageFails \/ StepThrows \/ Throws \/ Finally \/ Killed \/ NoMoreRuns
  BY <1>3 DEF Start, GenAction, GenMbt, Compile, CompileFails, Load, LoadRetry, SortStep, Sorted,
              BeginStep, RecordAction, EndStep, ReadLogThrows, StageFails, StepThrows, Throws,
              Finally, Killed, NoMoreRuns, vars, XmlWritten
<1>4. QED
  BY <1>1, <1>2, <1>3 DEF Next, Stage

(* For every model and number of runs: the methods the sort takes are the     *)
(* steps of the XML file, each with all its actions, but for the first of     *)
(* them when an earlier run has left a log; a run that found none has exactly *)
(* those in it, and every method of a model numbered from 1 to n.             *)
THEOREM StepsAreInXml == Spec => []LaterStepsIntact
<1>1. Init => IndInv /\ LaidOut /\ SortInv /\ LaterStepsIntact
  BY InitIndInv, InitLaidOut
<1>2. IndInv /\ LaidOut /\ SortInv /\ LaterStepsIntact /\ [Next]_vars
        => (IndInv /\ LaidOut /\ SortInv /\ LaterStepsIntact)'
  BY NextIndInv, NextLaidOut, NextSortInv, NextStepsIntact
<1>3. QED
  BY <1>1, <1>2, PTL DEF Spec
=============================================================================
