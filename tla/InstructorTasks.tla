--------------------------- MODULE InstructorTasks ---------------------------
(***************************************************************************)
(* The life of an InstructorTask: requests that submit a task of one       *)
(* (course, task_type, task_key) (submit_task, _reserve_task), the worker  *)
(* that runs it (run_main_task, on_success, on_failure), Celery's result   *)
(* backend, and requests that ask for its status and may save the row      *)
(* (get_updated_instructor_task, _update_instructor_task).                 *)
(*                                                                         *)
(* Every view and every task works on a copy of the row and saves all its  *)
(* columns, so a read and the save that follows it are two actions.  A     *)
(* request has one task id of its own, and names its task here.            *)
(*                                                                         *)
(* The work of a task is left out but for what it leaves in the row: a     *)
(* delegating task (bulk email) defines subtasks, and CourseEmail details  *)
(* what follows; the others (rescore, reset, delete, grades) only report   *)
(* progress to the result backend.  Celery stores the result of a task     *)
(* before it calls on_success or on_failure.                               *)
(***************************************************************************)
EXTENDS Naturals, FiniteSets, TLC

CONSTANTS
    Tasks,           \* submissions, each with the task id it would draw
    Delegating,      \* those whose work is done by subtasks
    Workers,
    Polls,           \* status requests
    Faults,          \* what may go wrong (FaultKinds)
    MaxRedeliveries  \* bound of the environment, for TLC

FaultKinds == {"publish",    \* apply_async fails after the row was created
               "input",      \* the task_input does not fit its column
               "error",      \* the task raises an exception
               "crash",      \* a worker dies
               "revoke"}     \* an operator revokes the task id

ASSUME TasksAssumption == Delegating \subseteq Tasks
ASSUME FaultsAssumption == Faults \subseteq FaultKinds /\ MaxRedeliveries \in Nat

VARIABLES
    row,       \* the committed InstructorTask rows
    request,   \* how far each submission is
    queue,     \* messages of each task at the broker
    result,    \* state of each task in the result backend
    run,       \* the executions, by worker
    queued,    \* delegating tasks all of whose subtasks are queued
    revoked,   \* task ids the workers were told to drop
    poll,      \* the status requests
    told,      \* history: the first final state reported of each task
    raced,     \* history: two submissions were between check and create
    redelivered

vars == <<row, request, queue, result, run, queued, revoked, poll, told, raced, redelivered>>

READY_STATES == {"SUCCESS", "FAILURE", "REVOKED"}

States == {"QUEUING", "PROGRESS"} \cup READY_STATES
ResultStates == {"PENDING", "STARTED", "PROGRESS"} \cup READY_STATES

\* subtasks: len(entry.subtasks) > 0
Rows == [state : States, subtasks : BOOLEAN]
Missing == [state |-> "missing"]
Created_Pending == [state |-> "PENDING", subtasks |-> FALSE]
Created == [state |-> "QUEUING", subtasks |-> FALSE]

Exists(t)  == row[t] # Missing
Running(t) == Exists(t) /\ row[t].state \notin READY_STATES

Runs == [pc : {"read", "start", "queue", "work", "succeeded", "failed", "on_success", "on_failure"},
         task : Tasks, copy : Rows]
NoRun == [pc |-> "idle"]

\* A status request: the copy of the row it holds, the state of the result it
\* has read, and the answer (an exception is the answer "error").
Answers == States \cup ResultStates \cup {"none", "error"}
PollStates == [pc : {"state", "result", "save", "done"}, task : Tasks, copy : Rows,
               seen : ResultStates, answer : Answers, before : Answers]
NoPoll == [pc |-> "idle"]

Active(w) == run[w].pc # "idle"

Init ==
    /\ row = [t \in Tasks |-> Missing]
    /\ request = [t \in Tasks |-> "check"]
    /\ queue = [t \in Tasks |-> 0]
    /\ result = [t \in Tasks |-> "PENDING"]
    /\ run = [w \in Workers |-> NoRun]
    /\ queued = {}
    /\ revoked = {}
    /\ poll = [c \in Polls |-> NoPoll]
    /\ told = [t \in Tasks |-> "none"]
    /\ raced = FALSE
    /\ redelivered = 0

-----------------------------------------------------------------------------
(***************************************************************************)
(* Submission.                                                             *)
(***************************************************************************)
\* Only a task that has been recorded as started counts as running.
TaskIsRunning_Started == \E t \in Tasks : Exists(t) /\ row[t].state = "PROGRESS"

\* _task_is_running: some row of the key is not in a ready state.
TaskIsRunning == \E t \in Tasks : Running(t)

\* The check of _reserve_task ...
CheckRunning(t) ==
    /\ request[t] = "check"
    /\ request' = [request EXCEPT ![t] = IF TaskIsRunning THEN "rejected" ELSE "create"]
    /\ raced' = (raced \/ (request'[t] = "create" /\ \E u \in Tasks : request[u] = "create"))
    /\ UNCHANGED <<row, queue, result, run, queued, revoked, poll, told, redelivered>>

\* ... and InstructorTask.create, committed by save_now.
CreateRow(t) ==
    /\ request[t] = "create"
    /\ request' = [request EXCEPT ![t] = "publish"]
    /\ row' = [row EXCEPT ![t] = Created]
    /\ UNCHANGED <<queue, result, run, queued, revoked, poll, told, raced, redelivered>>

InputTooLong(t) ==
    /\ request[t] = "create" /\ "input" \in Faults
    /\ request' = [request EXCEPT ![t] = "error"]
    /\ UNCHANGED <<row, queue, result, run, queued, revoked, poll, told, raced, redelivered>>

\* task_class.apply_async; nothing undoes the row when it fails.
Publish(t) ==
    /\ request[t] = "publish"
    /\ request' = [request EXCEPT ![t] = "done"]
    /\ queue' = [queue EXCEPT ![t] = @ + 1]
    /\ UNCHANGED <<row, result, run, queued, revoked, poll, told, raced, redelivered>>

PublishFails(t) ==
    /\ request[t] = "publish" /\ "publish" \in Faults
    /\ request' = [request EXCEPT ![t] = "error"]
    /\ UNCHANGED <<row, queue, result, run, queued, revoked, poll, told, raced, redelivered>>

Submitting(t) == CheckRunning(t) \/ CreateRow(t) \/ Publish(t)

-----------------------------------------------------------------------------
(***************************************************************************)
(* Execution.                                                              *)
(***************************************************************************)
\* A worker takes a message; one of a revoked id is dropped and so recorded.
Start(w) ==
    /\ ~Active(w)
    /\ \E t \in Tasks :
          /\ queue[t] > 0
          /\ queue' = [queue EXCEPT ![t] = @ - 1]
          /\ IF t \in revoked
             THEN /\ result' = [result EXCEPT ![t] = "REVOKED"]
                  /\ UNCHANGED run
             ELSE /\ result' = [result EXCEPT ![t] = "STARTED"]
                  /\ run' = [run EXCEPT ![w] = [pc |-> "read", task |-> t, copy |-> Created]]
    /\ UNCHANGED <<row, request, queued, revoked, poll, told, raced, redelivered>>

\* run_main_task reads the row and finds its own task id in it.
ReadEntry(w) ==
    /\ run[w].pc = "read"
    /\ run' = [run EXCEPT ![w].pc = "start", ![w].copy = row[run[w].task]]
    /\ UNCHANGED <<row, request, queue, result, queued, revoked, poll, told, raced, redelivered>>

Goto(w, pc) == run' = [run EXCEPT ![w].pc = pc]

\* perform_module_state_update: update_state before and in the loop, then return.
ReportProgress(w) ==
    /\ run[w].pc = "start" /\ run[w].task \notin Delegating
    /\ result' = [result EXCEPT ![run[w].task] = "PROGRESS"]
    /\ Goto(w, "work")
    /\ UNCHANGED <<row, request, queue, queued, revoked, poll, told, raced, redelivered>>

\* initialize_subtask_info saves the copy, unless it already has subtasks.
DefineSubtasks(w) ==
    /\ run[w].pc = "start" /\ run[w].task \in Delegating
    /\ row' = IF run[w].copy.subtasks THEN row
              ELSE [row EXCEPT ![run[w].task] = [state |-> "PROGRESS", subtasks |-> TRUE]]
    /\ Goto(w, IF run[w].copy.subtasks THEN "work" ELSE "queue")
    /\ UNCHANGED <<request, queue, result, queued, revoked, poll, told, raced, redelivered>>

\* The loop over apply_async; after it the task raises nothing.
QueueSubtasks(w) ==
    /\ run[w].pc = "queue"
    /\ queued' = queued \cup {run[w].task}
    /\ Goto(w, "work")
    /\ UNCHANGED <<row, request, queue, result, revoked, poll, told, raced, redelivered>>

\* The last subtask sets the state of the row, under select_for_update.
SubtasksFinish(t) ==
    /\ t \in queued /\ row[t].subtasks /\ row[t].state = "PROGRESS"
    /\ row' = [row EXCEPT ![t].state = "SUCCESS"]
    /\ UNCHANGED <<request, queue, result, run, queued, revoked, poll, told, raced, redelivered>>

Return(w) ==
    /\ run[w].pc = "work"
    /\ result' = [result EXCEPT ![run[w].task] = "SUCCESS"]
    /\ Goto(w, "succeeded")
    /\ UNCHANGED <<row, request, queue, queued, revoked, poll, told, raced, redelivered>>

Raise(w) ==
    /\ "error" \in Faults
    /\ \/ run[w].pc \in {"read", "start", "queue"}
       \/ run[w].pc = "work" /\ run[w].task \notin Delegating
    /\ result' = [result EXCEPT ![run[w].task] = "FAILURE"]
    /\ Goto(w, "failed")
    /\ UNCHANGED <<row, request, queue, queued, revoked, poll, told, raced, redelivered>>

\* on_success and on_failure with the row run_main_task has read.
HandlerReads_Stale(w) ==
    /\ run[w].pc \in {"succeeded", "failed"}
    /\ Goto(w, IF run[w].pc = "succeeded" THEN "on_success" ELSE "on_failure")
    /\ UNCHANGED <<row, request, queue, result, queued, revoked, poll, told, raced, redelivered>>

\* on_success and on_failure read the row ...
HandlerReads(w) ==
    /\ run[w].pc \in {"succeeded", "failed"}
    /\ run' = [run EXCEPT ![w].copy = row[run[w].task],
                          ![w].pc = IF @ = "succeeded" THEN "on_success" ELSE "on_failure"]
    /\ UNCHANGED <<row, request, queue, result, queued, revoked, poll, told, raced, redelivered>>

\* on_success, whether or not subtasks are at work.
OnSuccess_Always(w) ==
    /\ run[w].pc = "on_success"
    /\ row' = [row EXCEPT ![run[w].task] = [run[w].copy EXCEPT !.state = "SUCCESS"]]
    /\ run' = [run EXCEPT ![w] = NoRun]
    /\ UNCHANGED <<request, queue, result, queued, revoked, poll, told, raced, redelivered>>

\* on_success with the condition on the subtasks the wrong way round.
OnSuccess_Inverted(w) ==
    /\ run[w].pc = "on_success"
    /\ row' = IF ~run[w].copy.subtasks THEN row
              ELSE [row EXCEPT ![run[w].task] = [run[w].copy EXCEPT !.state = "SUCCESS"]]
    /\ run' = [run EXCEPT ![w] = NoRun]
    /\ UNCHANGED <<request, queue, result, queued, revoked, poll, told, raced, redelivered>>

\* ... and save it; on_success leaves a row with subtasks to these.
OnSuccess(w) ==
    /\ run[w].pc = "on_success"
    /\ row' = IF run[w].copy.subtasks THEN row
              ELSE [row EXCEPT ![run[w].task] = [run[w].copy EXCEPT !.state = "SUCCESS"]]
    /\ run' = [run EXCEPT ![w] = NoRun]
    /\ UNCHANGED <<request, queue, result, queued, revoked, poll, told, raced, redelivered>>

OnFailure(w) ==
    /\ run[w].pc = "on_failure"
    /\ row' = [row EXCEPT ![run[w].task] = [run[w].copy EXCEPT !.state = "FAILURE"]]
    /\ run' = [run EXCEPT ![w] = NoRun]
    /\ UNCHANGED <<request, queue, result, queued, revoked, poll, told, raced, redelivered>>

Executing(w) ==
    \/ ReadEntry(w) \/ ReportProgress(w) \/ DefineSubtasks(w)
    \/ QueueSubtasks(w) \/ Return(w)
    \/ HandlerReads(w) \/ OnSuccess(w) \/ OnFailure(w)

-----------------------------------------------------------------------------
(***************************************************************************)
(* Status requests.                                                        *)
(***************************************************************************)
Answer(c, answer, x) ==
    /\ poll' = [poll EXCEPT ![c] = [x EXCEPT !.pc = "done", !.answer = answer]]
    /\ told' = IF answer \in READY_STATES /\ told[x.task] = "none"
               THEN [told EXCEPT ![x.task] = answer] ELSE told

\* get_updated_instructor_task: a row in a ready state is the answer.
PollRow(c) ==
    /\ poll[c].pc = "idle"
    /\ \E t \in Tasks :
          LET x == [pc |-> "state", task |-> t, copy |-> row[t], seen |-> "PENDING",
                    answer |-> "none", before |-> told[t]]
          IN  /\ Exists(t)
              /\ IF Running(t) THEN poll' = [poll EXCEPT ![c] = x] /\ UNCHANGED told
                 ELSE Answer(c, row[t].state, x)
    /\ UNCHANGED <<row, request, queue, result, run, queued, revoked, raced, redelivered>>

\* _update_instructor_task asks the backend for the state ...
PollState(c) ==
    /\ poll[c].pc = "state"
    /\ poll' = [poll EXCEPT ![c].pc = "result", ![c].seen = result[poll[c].task]]
    /\ UNCHANGED <<row, request, queue, result, run, queued, revoked, told, raced, redelivered>>

\* A copy with subtasks at work is the answer whatever the result is.
Trusted(x) == x.copy.state = "PROGRESS" /\ x.copy.subtasks

\* The result of a task that failed is an exception, which json.dumps rejects;
\* that of one that did not has no message to take from it.
Unreadable(x) ==
    IF x.seen = "FAILURE" THEN result[x.task] \notin {"FAILURE", "REVOKED"}
    ELSE x.seen \in {"PROGRESS", "SUCCESS"} /\ result[x.task] \in {"FAILURE", "REVOKED"}

FromResult(c, x, revokedStates) ==
    CASE Trusted(x) -> Answer(c, "PROGRESS", x)
      [] ~Trusted(x) /\ x.seen \in revokedStates ->
            poll' = [poll EXCEPT ![c].pc = "save"] /\ UNCHANGED told
      [] ~Trusted(x) /\ x.seen \notin revokedStates ->
            Answer(c, IF Unreadable(x) THEN "error" ELSE x.seen, x)

\* Any task without a known result is saved as revoked.
PollResult_SavesPending(c) ==
    /\ poll[c].pc = "result"
    /\ FromResult(c, poll[c], {"REVOKED", "PENDING"})
    /\ UNCHANGED <<row, request, queue, result, run, queued, revoked, raced, redelivered>>

\* ... and for the result, and answers; only a revoked task is saved first.
PollResult(c) ==
    /\ poll[c].pc = "result"
    /\ FromResult(c, poll[c], {"REVOKED"})
    /\ UNCHANGED <<row, request, queue, result, run, queued, revoked, raced, redelivered>>

SaveRevoked(c) ==
    /\ poll[c].pc = "save"
    /\ row' = [row EXCEPT ![poll[c].task] = [poll[c].copy EXCEPT !.state = "REVOKED"]]
    /\ Answer(c, "REVOKED", poll[c])
    /\ UNCHANGED <<request, queue, result, run, queued, revoked, raced, redelivered>>

Polling(c) == PollRow(c) \/ PollState(c) \/ PollResult(c) \/ SaveRevoked(c)

-----------------------------------------------------------------------------
(***************************************************************************)
(* The environment.                                                        *)
(***************************************************************************)
Redeliver(t) ==
    /\ queue[t] > 0 /\ redelivered < MaxRedeliveries
    /\ queue' = [queue EXCEPT ![t] = @ + 1]
    /\ redelivered' = redelivered + 1
    /\ UNCHANGED <<row, request, result, run, queued, revoked, poll, told, raced>>

\* The message was acknowledged when the worker took it.
WorkerCrashes(w) ==
    /\ Active(w) /\ "crash" \in Faults
    /\ run' = [run EXCEPT ![w] = NoRun]
    /\ UNCHANGED <<row, request, queue, result, queued, revoked, poll, told, raced, redelivered>>

Revoke(t) ==
    /\ "revoke" \in Faults /\ Exists(t) /\ t \notin revoked
    /\ revoked' = revoked \cup {t}
    /\ UNCHANGED <<row, request, queue, result, run, queued, poll, told, raced, redelivered>>

Next ==
    \/ \E t \in Tasks : \/ Submitting(t) \/ InputTooLong(t) \/ PublishFails(t)
                        \/ SubtasksFinish(t) \/ Redeliver(t) \/ Revoke(t)
    \/ \E w \in Workers : Start(w) \/ Executing(w) \/ Raise(w) \/ WorkerCrashes(w)
    \/ \E c \in Polls : Polling(c)

Spec == Init /\ [][Next]_vars

\* Web servers and workers go on; subtasks end (CourseEmail: TaskFinishes).
Fairness ==
    /\ \A t \in Tasks : WF_vars(Submitting(t)) /\ WF_vars(SubtasksFinish(t))
    /\ \A w \in Workers : WF_vars(Start(w)) /\ WF_vars(Executing(w))
    /\ \A c \in Polls : WF_vars(Polling(c))

FairSpec == Spec /\ Fairness

=============================================================================
