------------------------- MODULE InstructorTasksProps -------------------------
(***************************************************************************)
(* What the InstructorTask rows promise, stated over InstructorTasks.      *)
(***************************************************************************)
EXTENDS InstructorTasks

\* Types of all variables.
TypeOK ==
    /\ row \in [Tasks -> Rows \cup {Missing}]
    /\ request \in [Tasks -> {"check", "create", "publish", "done", "rejected", "error"}]
    /\ queue \in [Tasks -> Nat]
    /\ result \in [Tasks -> ResultStates]
    /\ run \in [Workers -> Runs \cup {NoRun}]
    /\ queued \in SUBSET Delegating
    /\ revoked \in SUBSET Tasks
    /\ poll \in [Polls -> PollStates \cup {NoPoll}]
    /\ told \in [Tasks -> READY_STATES \cup {"none"}]
    /\ raced \in BOOLEAN
    /\ redelivered \in Nat

NoRedelivery == redelivered = 0

Executed(t) ==
    \E w \in Workers : run[w].pc \in {"read", "start", "queue", "work"} /\ run[w].task = t

\* A delegating task has nothing left to do once its row says SUCCESS.
InProgress(t) == Running(t) \/ (t \notin Delegating /\ Executed(t))

\* _reserve_task: unless two submissions are between its check and its create
\* (a race its docstring accepts), or a message is delivered twice, the tasks of
\* one key are recorded and executed one after the other, whatever fails.
OneTaskPerKey ==
    ~raced /\ NoRedelivery =>
        \A t, u \in Tasks :
            InProgress(t) /\ InProgress(u) => t = u

\* A task that ended keeps how it ended, although on_success, on_failure and
\* _update_instructor_task each save a copy of the whole row.
EndIsFinal ==
    [][\A t \in Tasks :
          redelivered' = 0 /\ Exists(t) /\ ~Running(t) => row'[t] = row[t]]_vars

\* The subtasks in the row, once defined, survive those saves too.
SubtasksStay ==
    [][\A t \in Tasks :
          redelivered' = 0 /\ Exists(t) /\ row[t].subtasks => row'[t].subtasks]_vars

\* on_success: "If so, let the subtasks handle updating task_state themselves."
OnlySubtasksSucceed ==
    [][\A t \in Delegating :
          redelivered' = 0 /\ row'[t].state = "SUCCESS" /\ row[t].state # "SUCCESS"
              => SubtasksFinish(t)]_vars

\* Whoever asks again after a final answer gets the same one, also while the
\* result backend and the row disagree.
AnswersAreFinal ==
    NoRedelivery =>
        \A c \in Polls :
            poll[c].pc = "done" /\ poll[c].before # "none" /\ poll[c].task \notin Delegating
                => poll[c].answer = poll[c].before

\* A task that was recorded is recorded as ended at last, so that the next one
\* with its key can be submitted.
EveryTaskEnds == \A t \in Tasks : Exists(t) ~> Exists(t) /\ ~Running(t)

-----------------------------------------------------------------------------
(***************************************************************************)
(* What the repository says and the code does not do: each of these is     *)
(* checked in a run that is expected to violate it.                        *)
(***************************************************************************)
\* _update_instructor_task pulls the state out first and is to "code assuming
\* that the result may not exactly match the state".
EveryPollAnswers == \A c \in Polls : poll[c].pc = "done" => poll[c].answer # "error"

\* _update_instructor_task: "We want to ignore the parent SUCCESS if subtasks are
\* still running, and just trust the contents of the InstructorTask."
ParentSuccessIgnored ==
    \A c \in Polls :
        poll[c].pc = "done" /\ poll[c].answer = "SUCCESS" => ~Running(poll[c].task)
=============================================================================
