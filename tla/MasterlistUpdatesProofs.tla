----------------------- MODULE MasterlistUpdatesProofs -----------------------
(***************************************************************************)
(* Theorems about MasterlistUpdates for any games, sources, revisions and   *)
(* faults.                                                                 *)
(***************************************************************************)
EXTENDS MasterlistUpdates, TLAPS

Signals == {"updated", "unchanged", "unopened", "error"}
Results == Signals \cup {"none"}
Jobs == {"none", "current", "all"}

-----------------------------------------------------------------------------
(* Type correctness.                                                       *)

\* Membership facts about the constants.
LEMMA ContentFacts ==
  /\ Revisions \subseteq Contents
  /\ Missing \in Contents
  /\ Torn \in Contents
  /\ 1 \in Revisions
  /\ Prelude \in Files
  /\ Games \subseteq Files
  /\ NoTask \in Task
BY DEF Contents, Revisions, Missing, Torn, Files, NoTask, Task, Stages

\* What can be loaded from the files is metadata.
LEMMA OnDiskType ==
  ASSUME NEW g \in Games, content \in [Files -> Contents]
  PROVE  OnDisk(g) \in [masterlist : Contents, prelude : Contents]
BY ContentFacts DEF OnDisk

\* A task never goes back to its request, and the rest of its type.
StepType(f) ==
  /\ \E task \in Task : task.stage # "request" /\ tasks' = [tasks EXCEPT ![f] = task]
  /\ \E r \in Results : result' = [result EXCEPT ![f] = r]
  /\ content' \in [Files -> Contents]
  /\ recorded' \in [Files -> Contents]
  /\ UNCHANGED <<source, current, loaded, job, warned>>

\* A signal sets at most the one result of its task.
LEMMA EmitType ==
  ASSUME TypeOK, NEW f \in Files, NEW signal \in Signals, Emit(f, signal)
  PROVE  \E r \in Results : result' = [result EXCEPT ![f] = r]
<1> DEFINE r == IF job # "none" /\ result[f] = "none" THEN signal ELSE result[f]
<1>1. r \in Results
  BY DEF TypeOK, Results, Signals
<1>2. result' = [result EXCEPT ![f] = r]
  BY DEF Emit
<1> QED BY <1>1, <1>2

\* A step without a signal is also a step that sets one result.
LEMMA NoSignalType ==
  ASSUME TypeOK, NEW f \in Files, result' = result
  PROVE  \E r \in Results : result' = [result EXCEPT ![f] = r]
<1>1. result[f] \in Results
  BY DEF TypeOK, Results, Signals
<1>2. result' = [result EXCEPT ![f] = result[f]]
  BY DEF TypeOK
<1> QED BY <1>1, <1>2

\* A task that is replaced keeps its type.
LEMMA BecomesType ==
  ASSUME NEW f \in Files, NEW task \in Task, task.stage # "request", Becomes(f, task)
  PROVE  \E t \in Task : t.stage # "request" /\ tasks' = [tasks EXCEPT ![f] = t]
BY DEF Becomes

\* A task that moves to another stage keeps its type.
LEMMA MovesType ==
  ASSUME TypeOK, NEW f \in Files, NEW stage \in Stages, stage # "request",
         Moves(f, stage)
  PROVE  \E t \in Task : t.stage # "request" /\ tasks' = [tasks EXCEPT ![f] = t]
<1> DEFINE t == [tasks[f] EXCEPT !.stage = stage]
<1>1. t \in Task /\ t.stage # "request"
  BY DEF TypeOK, Task
<1>2. tasks' = [tasks EXCEPT ![f] = t]
  BY DEF Moves
<1> QED BY <1>1, <1>2

\* Handling data that has come keeps the types.
LEMMA ReceiveType ==
  ASSUME TypeOK, NEW f \in Files, NEW data \in Contents, Receive(f, data), TaskOnly
  PROVE  StepType(f)
<1>1. CASE /\ Becomes(f, [stage |-> "record", data |-> data, changed |-> FALSE])
           /\ UNCHANGED <<files, result>>
  <2>1. [stage |-> "record", data |-> data, changed |-> FALSE] \in Task
    BY DEF Task, Stages
  <2> QED
    BY <1>1, <2>1, BecomesType, NoSignalType DEF StepType, TaskOnly, files, TypeOK
<1>2. CASE /\ Emit(f, IF f \in Local THEN "error" ELSE "unopened")
           /\ Becomes(f, NoTask)
           /\ UNCHANGED files
  <2>1. (IF f \in Local THEN "error" ELSE "unopened") \in Signals
    BY DEF Signals
  <2>2. \E r \in Results : result' = [result EXCEPT ![f] = r]
    BY <1>2, <2>1, EmitType
  <2>3. NoTask.stage # "request"
    BY DEF NoTask
  <2> QED
    BY <1>2, <2>2, <2>3, BecomesType, ContentFacts
    DEF StepType, TaskOnly, files, TypeOK
<1>3. CASE /\ content' = [content EXCEPT ![f] = Torn]
           /\ Becomes(f, [stage |-> "close", data |-> data, changed |-> TRUE])
           /\ UNCHANGED <<recorded, result>>
  <2>1. [stage |-> "close", data |-> data, changed |-> TRUE] \in Task
    BY DEF Task, Stages
  <2>2. content' \in [Files -> Contents]
    BY <1>3, ContentFacts DEF TypeOK
  <2> QED
    BY <1>3, <2>1, <2>2, BecomesType, NoSignalType DEF StepType, TaskOnly, TypeOK
<1> QED BY <1>1, <1>2, <1>3 DEF Receive

\* Every step of a task keeps the types of what it changes.
LEMMA TaskStepType ==
  ASSUME TypeOK, NEW f \in Files, TaskStep(f)
  PROVE  StepType(f)
<1> USE DEF StepType, TaskOnly, files
<1>0. NoTask \in Task /\ NoTask.stage # "request" /\ "error" \in Signals
  BY ContentFacts DEF NoTask, Signals
<1>1. CASE Reply(f)
  <2>1. source[f] \in Contents
    BY ContentFacts DEF TypeOK
  <2> QED BY <1>1, <2>1, ReceiveType DEF Reply
<1>2. CASE RequestFails(f)
  <2>1. \E r \in Results : result' = [result EXCEPT ![f] = r]
    BY <1>0, <1>2, EmitType DEF RequestFails
  <2>2. \E t \in Task : t.stage # "request" /\ tasks' = [tasks EXCEPT ![f] = t]
    BY <1>0, <1>2, BecomesType, MovesType DEF RequestFails, Stages
  <2> QED BY <1>2, <2>1, <2>2 DEF RequestFails, TypeOK
<1>3. CASE FailedReplyFinishes(f)
  <2>1. CASE Becomes(f, NoTask) /\ UNCHANGED <<files, result>>
    BY <1>0, <1>3, <2>1, BecomesType, NoSignalType DEF FailedReplyFinishes, TypeOK
  <2>2. CASE Receive(f, Torn)
    BY <1>3, <2>2, ReceiveType, ContentFacts DEF FailedReplyFinishes
  <2> QED BY <1>3, <2>1, <2>2 DEF FailedReplyFinishes
<1>4. CASE Close(f)
  <2>1. content' \in [Files -> Contents]
    BY <1>4 DEF Close, TypeOK, Task
  <2>2. \E t \in Task : t.stage # "request" /\ tasks' = [tasks EXCEPT ![f] = t]
    BY <1>4, MovesType DEF Close, Stages
  <2> QED BY <1>4, <2>1, <2>2, NoSignalType DEF Close, TypeOK
<1>5. CASE WriteFails(f)
  <2>1. \E t \in Task : t.stage # "request" /\ tasks' = [tasks EXCEPT ![f] = t]
    BY <1>0, <1>5, BecomesType, MovesType DEF WriteFails, Stages
  <2>2. \E r \in Results : result' = [result EXCEPT ![f] = r]
    BY <1>0, <1>5, EmitType, NoSignalType DEF WriteFails
  <2> QED BY <1>5, <2>1, <2>2 DEF WriteFails, TypeOK
<1>6. CASE Record(f)
  <2>1. recorded' \in [Files -> Contents]
    BY <1>6, ContentFacts DEF Record, TypeOK, Task
  <2>2. (IF tasks[f].changed THEN "updated" ELSE "unchanged") \in Signals
    BY DEF Signals
  <2>3. \E r \in Results : result' = [result EXCEPT ![f] = r]
    BY <1>6, <2>2, EmitType DEF Record
  <2> QED BY <1>0, <1>6, <2>1, <2>3, BecomesType DEF Record, TypeOK
<1>7. CASE RecordFails(f)
  BY <1>0, <1>7, EmitType, BecomesType DEF RecordFails, TypeOK
<1> QED BY <1>1, <1>2, <1>3, <1>4, <1>5, <1>6, <1>7 DEF TaskStep

\* Loading keeps the types.
LEMMA LoadType ==
  ASSUME TypeOK, NEW g \in Games,
         NEW before \in [masterlist : Contents, prelude : Contents],
         Load(g, before)
  PROVE  /\ loaded' \in [masterlist : Contents, prelude : Contents]
         /\ warned' \in BOOLEAN
BY OnDiskType DEF TypeOK, Load

\* A game that has loaded nothing has metadata all the same.
LEMMA NothingLoadedType ==
  NothingLoaded \in [masterlist : Contents, prelude : Contents]
BY ContentFacts DEF NothingLoaded

\* The initial states have the types.
LEMMA TypeInit == Init => TypeOK
<1> SUFFICES ASSUME Init PROVE TypeOK
  OBVIOUS
<1>1. content \in [Files -> Contents]
  BY ContentFacts DEF Init
<1>2. tasks \in [Files -> Task] /\ \A f \in Files : tasks[f].stage = "none"
  BY ContentFacts DEF Init, NoTask
<1>3. loaded \in [masterlist : Contents, prelude : Contents]
  BY <1>1, OnDiskType DEF Init
<1> QED BY <1>1, <1>2, <1>3, ContentFacts DEF Init, TypeOK, NoResults

\* A step of one task leaves the requests of the others as they are.
LEMMA TaskStepKeepsType ==
  ASSUME TypeOK, NEW f \in Files, TaskStep(f)
  PROVE  TypeOK'
<1>1. StepType(f)
  BY TaskStepType
<1>2. PICK task \in Task :
        task.stage # "request" /\ tasks' = [tasks EXCEPT ![f] = task]
  BY <1>1 DEF StepType
<1>3. PICK r \in Results : result' = [result EXCEPT ![f] = r]
  BY <1>1 DEF StepType
<1>4. tasks' \in [Files -> Task]
  BY <1>2 DEF TypeOK
<1>5. result' \in [Files -> Results]
  BY <1>3 DEF TypeOK, Results, Signals
<1>6. Targets' = Targets
  BY <1>1 DEF StepType, Targets, TargetsOf
<1>7. ASSUME NEW h \in Files, tasks'[h].stage = "request"
      PROVE  job' # "none" /\ h \in Targets' /\ result'[h] = "none"
  <2>1. h # f
    BY <1>2, <1>7 DEF TypeOK
  <2>2. tasks'[h] = tasks[h] /\ result'[h] = result[h]
    BY <1>2, <1>3, <2>1 DEF TypeOK
  <2> QED BY <1>1, <1>6, <1>7, <2>2 DEF StepType, TypeOK
<1> QED BY <1>1, <1>4, <1>5, <1>7 DEF StepType, TypeOK, Results, Signals

\* An update starts and ends with results of the right type.
LEMMA NoResultsType == NoResults \in [Files -> Results]
BY DEF NoResults, Results

\* Starting an update keeps the types.
LEMMA StartType ==
  ASSUME TypeOK, NEW kind \in {"current", "all"}, Start(kind), result = NoResults
  PROVE  TypeOK'
<1>1. tasks' \in [Files -> Task]
  BY ContentFacts DEF Start, NoTask, Task, Stages
<1>2. Targets' = TargetsOf(kind)
  BY DEF Start, Targets, TargetsOf
<1>3. ASSUME NEW f \in Files, tasks'[f].stage = "request"
      PROVE  f \in Targets'
  BY <1>2, <1>3 DEF Start, NoTask
<1>4. \A f \in Files : result'[f] = "none"
  BY DEF Start, NoResults
<1>5. /\ job' = kind
      /\ UNCHANGED <<source, content, recorded, current, loaded, result, warned>>
  BY DEF Start, files
<1>6. job' \in Jobs /\ job' # "none"
  BY <1>5 DEF Jobs
<1>7. \A f \in Files :
        tasks'[f].stage = "request" => job' # "none" /\ f \in Targets' /\ result'[f] = "none"
  BY <1>3, <1>4, <1>6
<1> QED BY <1>1, <1>5, <1>6, <1>7 DEF TypeOK, Jobs

\* The other steps of the main thread keep the types.
LEMMA MainThreadType ==
  ASSUME TypeOK,
         \/ HandleError \/ HandleUpdates \/ (\E g \in Games : ChangeGame(g)) \/ Restart
  PROVE  TypeOK'
<1>1. CASE HandleError
  <2>1. \A f \in Files : tasks[f].stage # "request"
    BY <1>1 DEF HandleError, AllEnded, TypeOK
  <2> QED BY <1>1, <2>1, NoResultsType
    DEF HandleError, EndJob, files, TypeOK, Results, Signals
<1>2. CASE HandleUpdates
  <2>1. \A f \in Files : tasks[f].stage # "request"
    BY <1>2 DEF HandleUpdates, AllEnded, TypeOK
  <2>2. /\ loaded' \in [masterlist : Contents, prelude : Contents]
        /\ warned' \in BOOLEAN
    <3>1. CASE NeedsLoad
      BY <1>2, <3>1, LoadType DEF HandleUpdates, TypeOK
    <3>2. CASE ~NeedsLoad
      BY <1>2, <3>2 DEF HandleUpdates, TypeOK
    <3> QED BY <3>1, <3>2
  <2> QED BY <1>2, <2>1, <2>2, NoResultsType
    DEF HandleUpdates, EndJob, files, TypeOK, Results, Signals
<1>3. ASSUME NEW g \in Games, ChangeGame(g)
      PROVE  TypeOK'
  <2>1. /\ loaded' \in [masterlist : Contents, prelude : Contents]
        /\ warned' \in BOOLEAN
    BY <1>3, LoadType, NothingLoadedType DEF ChangeGame
  <2>2. \A f \in Files : tasks[f].stage # "request"
    BY <1>3 DEF ChangeGame, Quiet, NoTask
  <2> QED BY <1>3, <2>1, <2>2 DEF ChangeGame, files, work, TypeOK
<1>4. CASE Restart
  <2>1. /\ loaded' \in [masterlist : Contents, prelude : Contents]
        /\ warned' \in BOOLEAN
        /\ current' \in Games
    BY <1>4, LoadType, NothingLoadedType DEF Restart
  <2>2. tasks' \in [Files -> Task] /\ \A f \in Files : tasks'[f].stage = "none"
    BY <1>4, ContentFacts DEF Restart, NoTask
  <2>3. recorded' \in [Files -> Contents]
    BY <1>4, ContentFacts DEF Restart, TypeOK
  <2> QED BY <1>4, <2>1, <2>2, <2>3, NoResultsType
    DEF Restart, files, TypeOK, Results, Signals
<1> QED BY <1>1, <1>2, <1>3, <1>4

\* Publishing a revision keeps the types.
LEMMA PublishType ==
  ASSUME TypeOK, NEW f \in Files, Publish(f)
  PROVE  TypeOK'
<1>1. source' \in [Files -> Revisions]
  BY DEF Publish, TypeOK, Revisions
<1>2. Targets' = Targets
  BY DEF Publish, work, Targets, TargetsOf
<1> QED BY <1>1, <1>2 DEF Publish, files, work, TypeOK

\* A step that changes nothing keeps the types.
LEMMA StutterType == TypeOK /\ UNCHANGED vars => TypeOK'
BY DEF TypeOK, vars, Targets, TargetsOf

-----------------------------------------------------------------------------
(* The inductive invariant.                                                *)

\* A task that has not ended belongs to the update under way and has emitted no
\* success, or the update has ended in an error that the user was shown; and
\* what it writes or records is what it received, which is not the part of a
\* body unless it has failed.
FileInv(f) ==
  /\ tasks[f] # NoTask =>
       IF job = "none" THEN warned
                       ELSE f \in Targets /\ result[f] \in {"none", "error"}
  /\ tasks[f].stage = "failed" /\ job # "none" => result[f] = "error"
  /\ tasks[f].stage = "close" => tasks[f].changed /\ content[f] = Torn
  /\ tasks[f].stage = "record" =>
       \/ content[f] = tasks[f].data
       \/ content[f] = Torn /\ tasks[f].changed
  /\ tasks[f].stage \in {"close", "record"} /\ tasks[f].data = Torn /\ job # "none" =>
       result[f] = "error"
  /\ result[f] = "unchanged" => content[f] # Torn
  /\ result[f] \in {"unchanged", "updated"} =>
       recorded[f] \in {content[f], Missing} \/ content[f] = Torn

\* The result of f will make the update load f, or fail.
Pending(f) ==
  \/ result[f] \in {"updated", "error"}
  \/ tasks[f].stage \in {"close", "record"} /\ tasks[f].changed

\* Metadata that is out of date and no error explains is still to be loaded.
Mirrors ==
  ~warned /\ loaded # OnDisk(current) =>
    job # "none" /\ \E f \in {Prelude, current} : Pending(f)

NoStaleResults == job = "none" => result = NoResults

IInv ==
  /\ TypeOK
  /\ NoStaleResults
  /\ \A f \in Files : FileInv(f)
  /\ Mirrors

\* The initial states satisfy the invariant.
LEMMA InitInv == Init => IInv
<1> SUFFICES ASSUME Init PROVE IInv
  OBVIOUS
<1>1. TypeOK
  BY TypeInit
<1>2. \A f \in Files : FileInv(f)
  BY DEF Init, FileInv, NoTask, NoResults
<1>3. NoStaleResults /\ Mirrors
  BY DEF Init, NoStaleResults, Mirrors
<1> QED BY <1>1, <1>2, <1>3 DEF IInv

-----------------------------------------------------------------------------
(* Steps of the tasks.                                                     *)

\* While nothing is being updated a task's signal reaches nobody.
LEMMA EmitUnheard ==
  ASSUME TypeOK, NEW f \in Files, NEW signal, Emit(f, signal)
  PROVE  /\ job = "none" => result' = result
         /\ job # "none" =>
              result'[f] = IF result[f] = "none" THEN signal ELSE result[f]
         /\ \A h \in Files : h # f => result'[h] = result[h]
BY DEF Emit, TypeOK

\* What a step of the task of f leaves alone.
LEMMA OthersUnchanged ==
  ASSUME TypeOK, NEW f \in Files, TaskStep(f)
  PROVE  /\ \A h \in Files : h # f =>
              /\ tasks'[h] = tasks[h] /\ result'[h] = result[h]
              /\ content'[h] = content[h] /\ recorded'[h] = recorded[h]
         /\ UNCHANGED <<source, current, loaded, job, warned>>
         /\ Targets' = Targets
<1>1. StepType(f)
  BY TaskStepType
<1>2. PICK task \in Task : tasks' = [tasks EXCEPT ![f] = task]
  BY <1>1 DEF StepType
<1>3. PICK r \in Results : result' = [result EXCEPT ![f] = r]
  BY <1>1 DEF StepType
<1>4. ASSUME NEW h \in Files, h # f
      PROVE  content'[h] = content[h] /\ recorded'[h] = recorded[h]
  BY <1>4 DEF TaskStep, Reply, RequestFails, FailedReplyFinishes, Receive, Close,
     WriteFails, Record, RecordFails, files, TypeOK
<1>5. UNCHANGED <<source, current, loaded, job, warned>>
  BY <1>1 DEF StepType
<1>6. Targets' = Targets
  BY <1>5 DEF Targets, TargetsOf
<1>7. \A h \in Files : h # f => tasks'[h] = tasks[h] /\ result'[h] = result[h]
  BY <1>2, <1>3 DEF TypeOK
<1> QED BY <1>4, <1>5, <1>6, <1>7

\* Handling data that has come keeps the invariant of the file.
LEMMA ReceiveInv ==
  ASSUME IInv, NEW f \in Files, NEW data \in Contents, Receive(f, data), TaskOnly,
         tasks[f].stage \in {"request", "failed"},
         data = Torn => tasks[f].stage = "failed",
         Targets' = Targets
  PROVE  FileInv(f)'
<1> USE DEF TaskOnly, Torn
<1>0. /\ TypeOK /\ FileInv(f) /\ NoStaleResults
      /\ tasks[f] # NoTask
  BY DEF IInv, NoTask
<1>1. job # "none" => /\ f \in Targets /\ result[f] \in {"none", "error"}
                      /\ (data = Torn => result[f] = "error")
  BY <1>0 DEF FileInv
<1>2. job = "none" => warned /\ result[f] = "none"
  BY <1>0 DEF FileInv, NoStaleResults, NoResults
<1>3. CASE /\ UpToDate(f, data)
           /\ Becomes(f, [stage |-> "record", data |-> data, changed |-> FALSE])
           /\ UNCHANGED <<files, result>>
  <2>1. tasks'[f] = [stage |-> "record", data |-> data, changed |-> FALSE]
    BY <1>0, <1>3 DEF Becomes, TypeOK
  <2> QED BY <1>1, <1>2, <1>3, <2>1 DEF FileInv, UpToDate, files
<1>4. CASE /\ Emit(f, IF f \in Local THEN "error" ELSE "unopened")
           /\ Becomes(f, NoTask)
           /\ UNCHANGED files
  <2>1. tasks'[f] = NoTask
    BY <1>0, <1>4 DEF Becomes, TypeOK
  <2>2. result'[f] \in {"none", "error", "unopened"}
    BY <1>0, <1>1, <1>2, <1>4, EmitUnheard
  <2> QED BY <1>4, <2>1, <2>2 DEF FileInv, NoTask
<1>5. CASE /\ content' = [content EXCEPT ![f] = Torn]
           /\ Becomes(f, [stage |-> "close", data |-> data, changed |-> TRUE])
           /\ UNCHANGED <<recorded, result>>
  <2>1. /\ tasks'[f] = [stage |-> "close", data |-> data, changed |-> TRUE]
        /\ content'[f] = Torn
    BY <1>0, <1>5 DEF Becomes, TypeOK
  <2> QED BY <1>1, <1>2, <1>5, <2>1 DEF FileInv
<1> QED BY <1>3, <1>4, <1>5 DEF Receive

\* A step of a task keeps the invariant of its own file.
LEMMA TaskStepFileInv ==
  ASSUME IInv, NEW f \in Files, TaskStep(f)
  PROVE  FileInv(f)'
<1> USE DEF TaskOnly
<1>0. /\ TypeOK /\ FileInv(f) /\ NoStaleResults
      /\ UNCHANGED <<source, current, loaded, job, warned>>
      /\ Targets' = Targets
  BY OthersUnchanged DEF IInv
<1>1. tasks[f].stage # "none" =>
        IF job = "none" THEN warned /\ result[f] = "none"
                        ELSE f \in Targets /\ result[f] \in {"none", "error"}
  BY <1>0 DEF FileInv, NoStaleResults, NoResults, NoTask
<1>2. CASE Reply(f)
  <2>1. source[f] \in Contents /\ source[f] # Torn
    BY <1>0, ContentFacts DEF TypeOK, Revisions, Torn
  <2> QED BY <1>0, <1>2, <2>1, ReceiveInv DEF Reply
<1>3. CASE RequestFails(f)
  <2>1. result'[f] \in {"none", "error"} /\ (job # "none" => result'[f] = "error")
    BY <1>0, <1>1, <1>3, EmitUnheard DEF RequestFails
  <2>2. tasks'[f] \in {NoTask, [tasks[f] EXCEPT !.stage = "failed"]}
    BY <1>0, <1>3 DEF RequestFails, Becomes, Moves, TypeOK
  <2>3. tasks'[f] = NoTask \/ tasks'[f].stage = "failed"
    BY <1>0, <2>2 DEF TypeOK, Task
  <2> QED BY <1>0, <1>1, <1>3, <2>1, <2>3 DEF RequestFails, FileInv, NoTask
<1>4. CASE FailedReplyFinishes(f)
  <2>1. CASE Becomes(f, NoTask) /\ UNCHANGED <<files, result>>
    <3>1. tasks'[f] = NoTask /\ result'[f] \in {"none", "error"}
      BY <1>0, <1>1, <1>4, <2>1 DEF FailedReplyFinishes, Becomes, TypeOK
    <3> QED BY <3>1 DEF FileInv, NoTask
  <2>2. CASE Receive(f, Torn)
    BY <1>0, <1>4, <2>2, ReceiveInv, ContentFacts DEF FailedReplyFinishes
  <2> QED BY <1>4, <2>1, <2>2 DEF FailedReplyFinishes
<1>5. CASE Close(f)
  <2>1. tasks'[f] = [tasks[f] EXCEPT !.stage = "record"]
    BY <1>0, <1>5 DEF Close, Moves, TypeOK
  <2>2. /\ tasks'[f].stage = "record"
        /\ tasks'[f].data = tasks[f].data /\ tasks'[f].changed = tasks[f].changed
    BY <1>0, <2>1 DEF TypeOK, Task
  <2>3. content'[f] = tasks[f].data /\ result'[f] = result[f]
    BY <1>0, <1>5 DEF Close, TypeOK
  <2> QED BY <1>0, <1>1, <1>5, <2>2, <2>3 DEF Close, FileInv
<1>6. CASE WriteFails(f)
  <2>1. CASE Emit(f, "error") /\ Becomes(f, NoTask)
    <3>1. tasks'[f] = NoTask
      BY <1>0, <2>1 DEF Becomes, TypeOK
    <3>2. result'[f] \in {"none", "error"}
      BY <1>0, <1>1, <1>6, <2>1, EmitUnheard DEF WriteFails
    <3> QED BY <3>1, <3>2 DEF FileInv, NoTask
  <2>2. CASE UNCHANGED result /\ Moves(f, "record")
    <3>1. tasks'[f] = [tasks[f] EXCEPT !.stage = "record"]
      BY <1>0, <2>2 DEF Moves, TypeOK
    <3>2. /\ tasks'[f].stage = "record"
          /\ tasks'[f].data = tasks[f].data /\ tasks'[f].changed = tasks[f].changed
      BY <1>0, <3>1 DEF TypeOK, Task
    <3> QED BY <1>0, <1>1, <1>6, <2>2, <3>2 DEF WriteFails, files, FileInv
  <2> QED BY <1>6, <2>1, <2>2 DEF WriteFails
<1>7. CASE Record(f)
  <2>1. tasks'[f] = NoTask /\ recorded'[f] \in {tasks[f].data, Missing}
    BY <1>0, <1>7 DEF Record, Becomes, TypeOK
  <2>2. result'[f] \in {"none", "error", "updated", "unchanged"}
    BY <1>0, <1>1, <1>7, EmitUnheard DEF Record
  <2>3. content'[f] = content[f] /\ content[f] \in {tasks[f].data, Torn}
    BY <1>0, <1>7 DEF Record, FileInv
  <2>4. result'[f] = "unchanged" =>
          ~tasks[f].changed /\ job # "none" /\ result[f] = "none"
    BY <1>0, <1>1, <1>7, EmitUnheard DEF Record
  <2>5. recorded'[f] \in {content'[f], Missing} \/ content'[f] = Torn
    BY <2>1, <2>3
  <2>6. result'[f] = "unchanged" => content'[f] # Torn
    BY <1>0, <1>7, <2>3, <2>4 DEF Record, FileInv
  <2> QED BY <2>1, <2>5, <2>6 DEF FileInv, NoTask
<1>8. CASE RecordFails(f)
  <2>1. tasks'[f] = NoTask
    BY <1>0, <1>8 DEF RecordFails, Becomes, TypeOK
  <2>2. result'[f] \in {"none", "error"}
    BY <1>0, <1>1, <1>8, EmitUnheard DEF RecordFails
  <2> QED BY <2>1, <2>2 DEF FileInv, NoTask
<1> QED BY <1>2, <1>3, <1>4, <1>5, <1>6, <1>7, <1>8 DEF TaskStep

\* A task that was pending and makes a step is still pending: what it has written
\* is announced when it is recorded, and an error otherwise.
LEMMA StaysPending ==
  ASSUME IInv, NEW f \in Files, TaskStep(f), Pending(f), job # "none"
  PROVE  Pending(f)'
<1>0. TypeOK /\ FileInv(f)
  BY DEF IInv
<1>1. tasks[f].stage \in {"request", "failed", "close", "record"}
  BY DEF TaskStep, Reply, RequestFails, FailedReplyFinishes, Close, WriteFails,
     Record, RecordFails
<1>2. f \in Targets /\ result[f] \in {"none", "error"}
  BY <1>0, <1>1 DEF FileInv, NoTask
<1>3. CASE result[f] = "error"
  <2>1. \A signal : Emit(f, signal) => result'[f] = "error"
    BY <1>0, <1>3, EmitUnheard
  <2>2. result'[f] = "error"
    BY <1>3, <2>1 DEF TaskStep, Reply, RequestFails, FailedReplyFinishes, Receive,
       Close, WriteFails, Record, RecordFails
  <2> QED BY <2>2 DEF Pending
<1>4. CASE result[f] = "none"
  <2>1. tasks[f].stage \in {"close", "record"} /\ tasks[f].changed
    BY <1>4 DEF Pending
  <2>2. \A signal : Emit(f, signal) => result'[f] = signal
    BY <1>0, <1>4, EmitUnheard
  <2>3. CASE Moves(f, "record")
    <3>1. tasks'[f] = [tasks[f] EXCEPT !.stage = "record"]
      BY <1>0, <2>3 DEF Moves, TypeOK
    <3>2. tasks'[f].stage = "record" /\ tasks'[f].changed
      BY <1>0, <2>1, <3>1 DEF TypeOK, Task
    <3> QED BY <3>2 DEF Pending
  <2>4. CASE \E signal \in {"updated", "error"} : Emit(f, signal)
    BY <2>2, <2>4 DEF Pending
  <2> QED BY <2>1, <2>3, <2>4 DEF TaskStep, Reply, RequestFails, FailedReplyFinishes,
     Close, WriteFails, Record, RecordFails
<1> QED BY <1>2, <1>3, <1>4

\* A step that changes what a file holds leaves it pending.
LEMMA WritesArePending ==
  ASSUME IInv, NEW f \in Files, TaskStep(f), job # "none"
  PROVE  content' = content \/ Pending(f)'
<1>0. TypeOK /\ FileInv(f)
  BY DEF IInv
<1>1. ASSUME NEW data, Receive(f, data)
      PROVE  content' = content \/ Pending(f)'
  <2>1. CASE Becomes(f, [stage |-> "close", data |-> data, changed |-> TRUE])
    <3>1. tasks'[f] = [stage |-> "close", data |-> data, changed |-> TRUE]
      BY <1>0, <2>1 DEF Becomes, TypeOK
    <3> QED BY <3>1 DEF Pending
  <2> QED BY <1>1, <2>1 DEF Receive, files
<1>2. CASE Close(f)
  BY <1>0, <1>2, StaysPending DEF Close, Pending, FileInv
<1> QED BY <1>1, <1>2 DEF TaskStep, Reply, RequestFails, FailedReplyFinishes,
   WriteFails, Record, RecordFails, files

\* A step of a task keeps the whole invariant.
LEMMA TaskStepInv ==
  ASSUME IInv, NEW f \in Files, TaskStep(f)
  PROVE  IInv'
<1>0. /\ TypeOK /\ NoStaleResults /\ Mirrors
      /\ \A h \in Files : FileInv(h)
  BY DEF IInv
<1>1. /\ \A h \in Files : h # f =>
           /\ tasks'[h] = tasks[h] /\ result'[h] = result[h]
           /\ content'[h] = content[h] /\ recorded'[h] = recorded[h]
      /\ UNCHANGED <<source, current, loaded, job, warned>>
      /\ Targets' = Targets
  BY <1>0, OthersUnchanged
<1>2. TypeOK'
  BY <1>0, TaskStepKeepsType
<1>3. NoStaleResults'
  <2>1. job = "none" => result' = result
    BY <1>0, EmitUnheard DEF TaskStep, Reply, RequestFails, FailedReplyFinishes,
       Receive, Close, WriteFails, Record, RecordFails
  <2> QED BY <1>0, <1>1, <2>1 DEF NoStaleResults, NoResults
<1>4. ASSUME NEW h \in Files
      PROVE  FileInv(h)'
  <2>1. CASE h = f
    BY <2>1, TaskStepFileInv
  <2>2. CASE h # f
    <3>1. FileInv(h)
      BY <1>0
    <3> QED BY <1>1, <2>2, <3>1 DEF FileInv
  <2> QED BY <2>1, <2>2
<1>5. Mirrors'
  <2> SUFFICES ASSUME ~warned', loaded' # OnDisk(current)'
               PROVE  job' # "none" /\ \E h \in {Prelude, current'} : Pending(h)'
    BY DEF Mirrors
  <2>1. job # "none"
    <3>1. tasks[f] # NoTask
      BY DEF TaskStep, Reply, RequestFails, FailedReplyFinishes, Close, WriteFails,
         Record, RecordFails, NoTask
    <3> QED BY <1>0, <1>1, <3>1 DEF FileInv
  <2>2. {Prelude, current} \subseteq Files
    BY <1>0, ContentFacts DEF TypeOK
  <2>3. CASE f \in {Prelude, current} /\ Pending(f)'
    BY <1>1, <2>1, <2>3
  <2>4. CASE OnDisk(current)' = OnDisk(current)
    <3>1. PICK h \in {Prelude, current} : Pending(h)
      BY <1>0, <1>1, <2>4 DEF Mirrors
    <3>2. Pending(h)'
      BY <1>1, <2>1, <2>2, <3>1, StaysPending DEF Pending
    <3> QED BY <1>1, <2>1, <3>1, <3>2
  <2>5. CASE f \notin {Prelude, current}
    <3>1. OnDisk(current)' = OnDisk(current)
      BY <1>1, <2>2, <2>5 DEF OnDisk
    <3> QED BY <2>4, <3>1
  <2>6. CASE content' = content
    BY <1>1, <2>4, <2>6 DEF OnDisk
  <2> QED BY <2>1, <2>3, <2>5, <2>6, WritesArePending
<1> QED BY <1>2, <1>3, <1>4, <1>5 DEF IInv

-----------------------------------------------------------------------------
(* Steps of the main thread and of the world outside.                      *)

\* What is loaded is what the files hold, or the user is shown an error.
LEMMA LoadMirrors ==
  ASSUME NEW g \in Games, NEW before, Load(g, before), current' = g, UNCHANGED content
  PROVE  Mirrors'
BY DEF Load, Mirrors, OnDisk

\* Starting an update, which only a quiet window does, keeps it.
LEMMA StartInv ==
  ASSUME IInv, NEW kind \in {"current", "all"}, Start(kind)
  PROVE  IInv'
<1>0. /\ TypeOK /\ NoStaleResults /\ Mirrors
      /\ \A h \in Files : FileInv(h)
  BY DEF IInv
<1>1. result = NoResults /\ job' # "none"
  BY <1>0 DEF Start, Quiet, NoStaleResults
<1>2. TypeOK'
  BY <1>0, <1>1, StartType
<1>3. ASSUME NEW f \in Files
      PROVE  FileInv(f)'
  <2>1. result'[f] = "none"
    BY <1>1 DEF Start, NoResults
  <2>2. Targets' = TargetsOf(kind)
    BY DEF Start, Targets, TargetsOf
  <2>3. CASE f \in TargetsOf(kind)
    <3>1. tasks'[f] = [NoTask EXCEPT !.stage = "request"]
      BY <2>3 DEF Start
    <3>2. tasks'[f].stage = "request"
      BY <3>1 DEF NoTask
    <3> QED BY <1>1, <2>1, <2>2, <2>3, <3>2 DEF FileInv
  <2>4. CASE f \notin TargetsOf(kind)
    <3>1. tasks'[f] = NoTask
      BY <2>4 DEF Start
    <3> QED BY <2>1, <3>1 DEF FileInv, NoTask
  <2> QED BY <2>3, <2>4
<1>4. Mirrors'
  BY <1>0 DEF Start, Quiet, Mirrors, OnDisk, files
<1> QED BY <1>1, <1>2, <1>3, <1>4 DEF IInv, NoStaleResults

\* Ending an update in an error keeps it: the user is shown the error.
LEMMA HandleErrorInv == ASSUME IInv, HandleError PROVE IInv'
<1>0. TypeOK' /\ \A h \in Files : FileInv(h)
  BY MainThreadType DEF IInv
<1>1. ASSUME NEW f \in Files
      PROVE  FileInv(f)'
  <2>1. FileInv(f) /\ result'[f] = "none"
    BY <1>0 DEF HandleError, EndJob, NoResults
  <2> QED BY <2>1 DEF HandleError, EndJob, files, FileInv
<1>2. NoStaleResults' /\ Mirrors'
  BY DEF HandleError, EndJob, NoStaleResults, NoResults, Mirrors
<1> QED BY <1>0, <1>1, <1>2 DEF IInv

\* Without an error among the results every task has ended, so that what is not
\* loaded after it was pending is loaded now.
LEMMA HandleUpdatesInv == ASSUME IInv, HandleUpdates PROVE IInv'
<1>0. /\ TypeOK /\ Mirrors /\ TypeOK'
      /\ \A h \in Files : FileInv(h)
  BY MainThreadType DEF IInv
<1>1. \A f \in Files : tasks[f] = NoTask
  BY <1>0 DEF HandleUpdates, AllEnded, AnyFailed, FileInv
<1>2. ASSUME NEW f \in Files
      PROVE  FileInv(f)'
  <2>1. tasks'[f] = NoTask /\ result'[f] = "none"
    BY <1>1 DEF HandleUpdates, EndJob, NoResults
  <2> QED BY <2>1 DEF FileInv, NoTask
<1>3. Mirrors'
  <2>1. CASE NeedsLoad
    BY <1>0, <2>1, LoadMirrors DEF HandleUpdates, TypeOK, files
  <2>2. CASE ~NeedsLoad
    <3>1. {Prelude, current} \subseteq Targets /\ Targets \subseteq Files
      BY <1>0, ContentFacts DEF Targets, TargetsOf, TypeOK
    <3>2. \A f \in {Prelude, current} : ~Pending(f)
      BY <1>1, <2>2, <3>1
      DEF HandleUpdates, AnyFailed, NeedsLoad, Updated, Pending, NoTask
    <3> QED BY <1>0, <2>2, <3>2 DEF HandleUpdates, Mirrors, OnDisk, files
  <2> QED BY <2>1, <2>2
<1>4. NoStaleResults'
  BY DEF HandleUpdates, EndJob, NoStaleResults, NoResults
<1> QED BY <1>0, <1>2, <1>3, <1>4 DEF IInv

\* Changing games keeps it: the metadata is loaded anew.
LEMMA ChangeGameInv ==
  ASSUME IInv, NEW g \in Games, ChangeGame(g)
  PROVE  IInv'
<1>0. NoStaleResults /\ TypeOK'
  BY MainThreadType DEF IInv
<1>1. UNCHANGED <<tasks, result, job>> /\ job = "none" /\ result = NoResults
  BY <1>0 DEF ChangeGame, Quiet, work, NoStaleResults
<1>2. ASSUME NEW f \in Files
      PROVE  FileInv(f)'
  <2>1. tasks'[f] = NoTask /\ result'[f] = "none"
    BY <1>1 DEF ChangeGame, Quiet, NoResults
  <2> QED BY <2>1 DEF FileInv, NoTask
<1>3. Mirrors'
  BY LoadMirrors DEF ChangeGame, files
<1> QED BY <1>0, <1>1, <1>2, <1>3 DEF IInv, NoStaleResults, NoResults

\* Starting LOOT again, after any interruption, keeps it.
LEMMA RestartInv == ASSUME IInv, Restart PROVE IInv'
<1>0. TypeOK'
  BY MainThreadType DEF IInv
<1>1. ASSUME NEW f \in Files
      PROVE  FileInv(f)'
  <2>1. tasks'[f] = NoTask /\ result'[f] = "none"
    BY DEF Restart, NoResults
  <2> QED BY <2>1 DEF FileInv, NoTask
<1>2. Mirrors'
  BY LoadMirrors DEF Restart
<1>3. NoStaleResults'
  BY DEF Restart, NoStaleResults, NoResults
<1> QED BY <1>0, <1>1, <1>2, <1>3 DEF IInv

\* Neither a revision published nor a step of something else disturbs anything.
LEMMA UnrelatedInv ==
  ASSUME IInv, (\E f \in Files : Publish(f)) \/ UNCHANGED vars
  PROVE  IInv'
<1>0. TypeOK'
  BY PublishType, StutterType DEF IInv
<1>1. UNCHANGED <<content, recorded, current, loaded, tasks, result, job, warned>>
  BY DEF Publish, files, work, vars
<1>2. Targets' = Targets
  BY <1>1 DEF Targets, TargetsOf
<1>3. (\A f \in Files : FileInv(f)) => \A f \in Files : FileInv(f)'
  BY <1>1, <1>2 DEF FileInv
<1>4. Mirrors => Mirrors'
  BY <1>1 DEF Mirrors, Pending, OnDisk
<1>5. NoStaleResults => NoStaleResults'
  BY <1>1 DEF NoStaleResults, NoResults
<1> QED BY <1>0, <1>3, <1>4, <1>5 DEF IInv

\* Every step keeps the invariant.
LEMMA NextInv == IInv /\ [Next]_vars => IInv'
<1> SUFFICES ASSUME IInv, [Next]_vars PROVE IInv'
  OBVIOUS
<1>1. CASE \E f \in Files : TaskStep(f)
  BY <1>1, TaskStepInv
<1>2. CASE UpdateMasterlist \/ UpdateMasterlists
  BY <1>2, StartInv DEF UpdateMasterlist, UpdateMasterlists
<1>3. CASE Handle
  BY <1>3, HandleErrorInv, HandleUpdatesInv DEF Handle
<1>4. CASE \E g \in Games : ChangeGame(g)
  BY <1>4, ChangeGameInv
<1>5. CASE Restart
  BY <1>5, RestartInv
<1>6. CASE (\E f \in Files : Publish(f)) \/ UNCHANGED vars
  BY <1>6, UnrelatedInv
<1> QED BY <1>1, <1>2, <1>3, <1>4, <1>5, <1>6 DEF Next

-----------------------------------------------------------------------------
(* The theorems.                                                           *)

\* The inductive invariant holds in every reachable state.
THEOREM Inductive == Spec => []IInv
<1> QED BY InitInv, NextInv, PTL DEF Spec

\* Every reachable state is of the declared types, and a request that is under
\* way is part of the update under way.
THEOREM TypeCorrect == Spec => []TypeOK
<1>1. IInv => TypeOK
  BY DEF IInv
<1> QED BY <1>1, Inductive, PTL

\* Whichever tasks end in whichever order and way, the metadata that is in use
\* between updates is what the files hold unless the user was shown an error.
THEOREM NoSilentStaleness == Spec => []StaleOnlyAfterError
<1>1. IInv => StaleOnlyAfterError
  BY DEF IInv, Mirrors, StaleOnlyAfterError, Quiet
<1> QED BY <1>1, Inductive, PTL

\* A file that is found up to date is whole, and neither it nor one that was written
\* is on record as another revision, after any failures and interruptions.
THEOREM UpdatesAreRepairs == Spec => []UpdatesRepair
<1>1. IInv => UpdatesRepair
  BY DEF IInv, FileInv, UpdatesRepair
<1> QED BY <1>1, Inductive, PTL

=============================================================================
