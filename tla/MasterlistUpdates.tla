-------------------------- MODULE MasterlistUpdates --------------------------
(***************************************************************************)
(* Updating the masterlist of the current game, or those of all games, and  *)
(* the prelude they share: one task per file on a worker thread, each with  *)
(* its request, its reply and the writing of its file, and the main thread  *)
(* that gathers their results and loads what was updated                    *)
(* (src/src/gui/qt/tasks, src/src/gui/qt/helpers.cpp, main_window.cpp).      *)
(***************************************************************************)
EXTENDS Integers

CONSTANTS
  Games,
  Prelude,     \* the prelude, a file like each game's masterlist
  Local,       \* the files whose source is a local path, not a URL
  Present,     \* bound: files that are there from the start, as others may be
  MaxRevision, \* bound: how many revisions of each file are published
  Faults       \* what may go wrong

FaultKinds ==
  {"request", \* a request fails or times out
   "body",    \* what came before a request failed has the status of success
   "open",    \* the file cannot be opened for writing
   "write",   \* the file, or the record of its revision, is not written to its end
   "record",  \* the record of the file's revision cannot be opened for writing
   "kill"}    \* LOOT is killed

Files == Games \cup {Prelude}

ASSUME PreludeAssumption == Prelude \notin Games
ASSUME LocalAssumption == Local \subseteq Files /\ Present \subseteq Files
ASSUME RevisionAssumption == MaxRevision \in [Files -> Nat \ {0}]
ASSUME FaultsAssumption == Faults \subseteq FaultKinds

VARIABLES
  source,   \* the revision of each file at its source
  content,  \* the files
  recorded, \* the revision that is on record for each file, if any can be read
  current,  \* the current game
  loaded,   \* the metadata of the current game that is loaded
  tasks,    \* the task that updates each file
  result,   \* the first signal that each task emitted
  job,      \* what is being updated
  warned    \* an error was shown and not followed by a load without one

files == <<content, recorded>>
work == <<tasks, result, job>>
vars == <<source, content, recorded, current, loaded, tasks, result, job, warned>>

Missing == 0
Torn == -1
Revisions == Nat \ {0}
Contents == Revisions \cup {Missing, Torn}

NoTask == [stage |-> "none", data |-> Missing, changed |-> FALSE]
NoResults == [f \in Files |-> "none"]
Stages == {"none", "request", "failed", "close", "record"}
Writing == {f \in Files : tasks[f].stage \in {"close", "record"}}
Quiet == job = "none" /\ \A f \in Files : tasks[f] = NoTask

TargetsOf(kind) == IF kind = "all" THEN Files ELSE {Prelude, current}
Targets == TargetsOf(job)

\* What the current game's files hold; a prelude is used with a masterlist only.
OnDisk(g) ==
  [masterlist |-> content[g],
   prelude |-> IF content[g] = Missing THEN Missing ELSE content[Prelude]]

Init ==
  /\ source = [f \in Files |-> 1]
  /\ content \in [Files -> {Missing, 1}]
  /\ \A f \in Present : content[f] = 1
  /\ recorded = content
  /\ current \in Games
  /\ loaded = OnDisk(current)
  /\ tasks = [f \in Files |-> NoTask]
  /\ result = NoResults
  /\ job = "none"
  /\ warned = FALSE

-----------------------------------------------------------------------------
(* The tasks.  They share one thread: what a task does with a reply is not  *)
(* interleaved with the other tasks, but with the main thread and with the  *)
(* end of the program.                                                      *)

Becomes(f, task) == tasks' = [tasks EXCEPT ![f] = task]
Moves(f, stage) == tasks' = [tasks EXCEPT ![f].stage = stage]

\* Only the first signal of a task completes its future; once all have been
\* completed and their results handled, nobody listens.
Emit(f, signal) ==
  result' = [result EXCEPT ![f] = IF job # "none" /\ @ = "none" THEN signal ELSE @]

TaskOnly == UNCHANGED <<source, current, loaded, job, warned>>

UpToDate_Recorded(f, data) == recorded[f] = data
UpToDate(f, data) == content[f] = data

\* Data for the file has come: the file is found up to date, cannot be opened
\* (which only a local source makes an error), or is opened and thereby emptied.
Receive(f, data) ==
  \/ /\ UpToDate(f, data)
     /\ Becomes(f, [stage |-> "record", data |-> data, changed |-> FALSE])
     /\ UNCHANGED <<files, result>>
  \/ /\ "open" \in Faults /\ ~UpToDate(f, data)
     /\ Emit(f, IF f \in Local THEN "error" ELSE "unopened")
     /\ Becomes(f, NoTask)
     /\ UNCHANGED files
  \/ /\ ~UpToDate(f, data)
     /\ content' = [content EXCEPT ![f] = Torn]
     /\ Becomes(f, [stage |-> "close", data |-> data, changed |-> TRUE])
     /\ UNCHANGED <<recorded, result>>

Reply(f) ==
  /\ tasks[f].stage = "request"
  /\ Writing = {}
  /\ Receive(f, source[f])
  /\ TaskOnly

\* The reply's errorOccurred comes first; its finished is still to come.  A
\* source path that cannot be read is an error at once.
RequestFails(f) ==
  /\ "request" \in Faults
  /\ tasks[f].stage = "request"
  /\ Emit(f, "error")
  /\ IF f \in Local THEN Becomes(f, NoTask) ELSE Moves(f, "failed")
  /\ UNCHANGED files /\ TaskOnly

\* finished after errorOccurred: readHttpResponse looks at the status only, so
\* that the part of a body that arrived is taken for all of it.
FailedReplyFinishes(f) ==
  /\ tasks[f].stage = "failed"
  /\ Writing = {}
  /\ \/ Becomes(f, NoTask) /\ UNCHANGED <<files, result>>
     \/ "body" \in Faults /\ Receive(f, Torn)
  /\ TaskOnly

Close(f) ==
  /\ tasks[f].stage = "close"
  /\ content' = [content EXCEPT ![f] = tasks[f].data]
  /\ Moves(f, "record")
  /\ UNCHANGED <<recorded, result>> /\ TaskOnly

WriteFails(f) ==
  /\ "write" \in Faults
  /\ tasks[f].stage = "close"
  /\ IF f \in Local THEN Emit(f, "error") /\ Becomes(f, NoTask)
                    ELSE UNCHANGED result /\ Moves(f, "record")
  /\ UNCHANGED files /\ TaskOnly

\* Opening the record empties it.  Whether it was written is not looked at, and no
\* revision can be read from one that was cut short.
Record(f) ==
  /\ tasks[f].stage = "record"
  /\ \E revision \in {tasks[f].data} \cup {x \in {Missing} : "write" \in Faults} :
       recorded' = [recorded EXCEPT ![f] = revision]
  /\ Emit(f, IF tasks[f].changed THEN "updated" ELSE "unchanged")
  /\ Becomes(f, NoTask)
  /\ UNCHANGED content /\ TaskOnly

RecordFails_Silent(f) ==
  /\ "record" \in Faults
  /\ tasks[f].stage = "record"
  /\ Becomes(f, NoTask)
  /\ UNCHANGED <<files, result>> /\ TaskOnly
RecordFails(f) ==
  /\ "record" \in Faults
  /\ tasks[f].stage = "record"
  /\ Emit(f, "error")
  /\ Becomes(f, NoTask)
  /\ UNCHANGED files /\ TaskOnly

TaskStep(f) ==
  \/ Reply(f) \/ RequestFails(f) \/ FailedReplyFinishes(f)
  \/ Close(f) \/ WriteFails(f) \/ Record(f) \/ RecordFails(f)

-----------------------------------------------------------------------------
(* The main thread.                                                        *)

\* Metadata that cannot be parsed leaves what was loaded, and a message.
Load(g, before) ==
  \/ loaded' = OnDisk(g) /\ warned' = FALSE
  \/ /\ Torn \in {OnDisk(g).masterlist, OnDisk(g).prelude}
     /\ loaded' = before
     /\ warned' = TRUE

NothingLoaded == [masterlist |-> Missing, prelude |-> Missing]

Start(kind) ==
  /\ Quiet
  /\ job' = kind
  /\ tasks' = [f \in Files |-> IF f \in TargetsOf(kind)
                               THEN [NoTask EXCEPT !.stage = "request"] ELSE NoTask]
  /\ UNCHANGED <<source, files, current, loaded, result, warned>>

\* From the toolbar, and before sorting when the settings say so.
UpdateMasterlist == Start("current")
UpdateMasterlists == Start("all")

Updated == {f \in Targets : result[f] = "updated"}
AllEnded_Any == job # "none" /\ \E f \in Targets : result[f] # "none"
AllEnded == job # "none" /\ \A f \in Targets : result[f] # "none"
EndJob == job' = "none" /\ result' = NoResults
AnyFailed == \E f \in Targets : result[f] = "error"

\* One failure is shown, and no result is looked at.
HandleError ==
  /\ AllEnded /\ AnyFailed
  /\ warned' = TRUE
  /\ EndJob
  /\ UNCHANGED <<source, files, current, loaded, tasks>>

NeedsLoad_Masterlist == current \in Updated
NeedsLoad == {Prelude, current} \cap Updated # {}

HandleUpdates ==
  /\ AllEnded /\ ~AnyFailed
  /\ IF NeedsLoad THEN Load(current, loaded) ELSE UNCHANGED <<loaded, warned>>
  /\ EndJob
  /\ UNCHANGED <<source, files, current, tasks>>

\* Changing games initialises the game and loads its metadata.
ChangeGame(g) ==
  /\ Quiet
  /\ g # current
  /\ current' = g
  /\ Load(g, NothingLoaded)
  /\ UNCHANGED <<source, files, work>>

-----------------------------------------------------------------------------
(* The world outside.                                                      *)

Publish(f) ==
  /\ source[f] < MaxRevision[f]
  /\ source' = [source EXCEPT ![f] = @ + 1]
  /\ UNCHANGED <<files, current, loaded, work, warned>>

\* LOOT is closed, or killed, and started again.  A record that was being written
\* may be left without one.
Restart ==
  /\ Quiet \/ "kill" \in Faults
  /\ \E cut \in SUBSET {f \in Files : tasks[f].stage = "record"} :
       recorded' = [f \in Files |-> IF f \in cut THEN Missing ELSE recorded[f]]
  /\ \E g \in Games : current' = g /\ Load(g, NothingLoaded)
  /\ tasks' = [f \in Files |-> NoTask]
  /\ result' = NoResults
  /\ job' = "none"
  /\ UNCHANGED <<source, content>>

Handle == HandleError \/ HandleUpdates

Next ==
  \/ \E f \in Files : TaskStep(f)
  \/ UpdateMasterlist
  \/ UpdateMasterlists
  \/ Handle
  \/ \E g \in Games : ChangeGame(g)
  \/ \E f \in Files : Publish(f)
  \/ Restart

\* A request is answered, fails or times out after TRANSFER_TIMEOUT_MS; the
\* worker's thread and the main thread's event loop keep running.
Fairness == (\A f \in Files : WF_vars(TaskStep(f))) /\ WF_vars(Handle)

Spec == Init /\ [][Next]_vars /\ Fairness

-----------------------------------------------------------------------------
(* Properties.                                                             *)

Task == [stage : Stages, data : Contents, changed : BOOLEAN]

\* A request under way is part of the update under way.
TypeOK ==
  /\ source \in [Files -> Revisions]
  /\ content \in [Files -> Contents]
  /\ recorded \in [Files -> Contents]
  /\ current \in Games
  /\ loaded \in [masterlist : Contents, prelude : Contents]
  /\ tasks \in [Files -> Task]
  /\ \A f \in Files :
       tasks[f].stage = "request" => /\ job # "none" /\ f \in Targets
                                     /\ result[f] = "none"
  /\ result \in [Files -> {"none", "updated", "unchanged", "unopened", "error"}]
  /\ job \in {"none", "current", "all"}
  /\ warned \in BOOLEAN

\* When nothing is being updated the metadata in use is what the files hold,
\* unless the user was shown an error since it was last loaded: no update of the
\* masterlist or of the prelude alone, in whatever order the tasks end, is
\* written and then silently not used (handleMasterlistUpdated,
\* handleMasterlistsUpdated).
StaleOnlyAfterError == Quiet /\ ~warned => loaded = OnDisk(current)

\* A file that an update found to be up to date is whole, whatever earlier writes
\* failed or were cut short, so that an update repairs the file; and its record,
\* which is written again for that purpose ("Update the metadata file even if the
\* file is up to date", helpers.cpp:290), or that of a file which was updated, is
\* not of another revision.  A record that was cut short itself goes unnoticed,
\* and gives no revision at all.
UpdatesRepair ==
  \A f \in Files :
    /\ result[f] = "unchanged" => content[f] # Torn
    /\ result[f] \in {"unchanged", "updated"} =>
         recorded[f] \in {content[f], Missing} \/ content[f] = Torn

\* Every update ends, and the window's progress dialog with it, whichever tasks
\* fail in whichever way.
UpdateEnds == job # "none" ~> job = "none"

=============================================================================
