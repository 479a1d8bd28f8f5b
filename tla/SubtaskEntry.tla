---------------------------- MODULE SubtaskEntry ----------------------------
(***************************************************************************)
(* The InstructorTask row of a task that works through subtasks, and the   *)
(* pure functions of lms/djangoapps/instructor_task/subtasks.py on it.     *)
(*                                                                         *)
(* task_output is abstracted to its kind (nothing yet, a progress dict, a  *)
(* failure dict) and the counters of the progress dict; start_time and     *)
(* duration_ms are left out, but a failure dict has no start_time, and     *)
(* that the code trips over (UpdateFails).  The JSON of the subtasks       *)
(* column becomes the fields defined, ntotal, nsucceeded, nfailed, status. *)
(* SubtaskStatus.attempted is always succeeded + failed and is left out.   *)
(*                                                                         *)
(* A definition Op_Variant is Op with a plausible bug; the runs show which *)
(* property each of them breaks.                                           *)
(***************************************************************************)
EXTENDS Naturals, FiniteSets

CONSTANT SubtaskIds      \* the uuid4 values a parent task may draw

QUEUING  == "QUEUING"
PROGRESS == "PROGRESS"
SUCCESS  == "SUCCESS"
FAILURE  == "FAILURE"
RETRY    == "RETRY"
UNKNOWN  == "UNKNOWN"    \* not a celery state: the id is not a key of subtasks['status']

READY_STATES == {SUCCESS, FAILURE}
LiveStates   == {QUEUING, RETRY}

(***************************************************************************)
(* SubtaskStatus: what travels in the message of a subtask and what the    *)
(* row keeps for it.                                                       *)
(***************************************************************************)
Status == [succeeded : Nat, failed : Nat, skipped : Nat,
           retried_nomax : Nat, retried_withmax : Nat,
           state : READY_STATES \cup LiveStates \cup {UNKNOWN}]

StatusIn(state) == [succeeded |-> 0, failed |-> 0, skipped |-> 0,
                    retried_nomax |-> 0, retried_withmax |-> 0, state |-> state]

NewStatus_InProgress == StatusIn(PROGRESS)
NewStatus == StatusIn(QUEUING)
NoStatus  == StatusIn(UNKNOWN)

RetryCount(st) == st.retried_nomax + st.retried_withmax

\* Every recipient the status speaks for, once each if the counts are consistent.
Counted(st) == st.succeeded + st.failed + st.skipped

Fail(st, n) == [st EXCEPT !.failed = @ + n, !.state = FAILURE]

-----------------------------------------------------------------------------
(***************************************************************************)
(* The row.                                                                *)
(***************************************************************************)
Progress == [total : Nat, succeeded : Nat, failed : Nat, skipped : Nat]

NoProgress(n) == [total |-> n, succeeded |-> 0, failed |-> 0, skipped |-> 0]

Entry == [state : {QUEUING, PROGRESS, SUCCESS, FAILURE},
          output : {"none", "progress", "failure"},
          progress : Progress,
          defined : BOOLEAN,            \* len(entry.subtasks) > 0
          ntotal : Nat, nsucceeded : Nat, nfailed : Nat,
          status : [SubtaskIds -> Status]]

\* As InstructorTask.create leaves it.
NewEntry == [state |-> QUEUING, output |-> "none", progress |-> NoProgress(0),
             defined |-> FALSE, ntotal |-> 0, nsucceeded |-> 0, nfailed |-> 0,
             status |-> [s \in SubtaskIds |-> NoStatus]]

Known(e, s) == e.status[s].state # UNKNOWN
Settled(e)  == {s \in SubtaskIds : e.status[s].state \in READY_STATES}

(***************************************************************************)
(* initialize_subtask_info: the whole row as it is saved, the ids being    *)
(* those of the subtasks about to be created.                              *)
(***************************************************************************)
InitializeSubtaskInfo(total, ids) ==
    [state |-> PROGRESS, output |-> "progress", progress |-> NoProgress(total),
     defined |-> TRUE, ntotal |-> Cardinality(ids), nsucceeded |-> 0, nfailed |-> 0,
     status |-> [s \in SubtaskIds |-> IF s \in ids THEN NewStatus ELSE NoStatus]]

(***************************************************************************)
(* The checks of check_subtask_is_valid on the row it has read, in their   *)
(* order; the lock comes after them, in a step of its own.                 *)
(***************************************************************************)
RejectsSubtask_NoDoneCheck(e, s, st) ==
    \/ ~e.defined \/ ~Known(e, s)
    \/ e.status[s].state = RETRY /\ RetryCount(st) < RetryCount(e.status[s])

RejectsSubtask_NoRetryCheck(e, s, st) ==
    ~e.defined \/ ~Known(e, s) \/ e.status[s].state \in READY_STATES

RejectsSubtask_Leq(e, s, st) ==
    \/ ~e.defined \/ ~Known(e, s) \/ e.status[s].state \in READY_STATES
    \/ e.status[s].state = RETRY /\ RetryCount(st) <= RetryCount(e.status[s])

RejectsSubtask(e, s, st) ==
    \/ ~e.defined
    \/ ~Known(e, s)
    \/ e.status[s].state \in READY_STATES
    \/ /\ e.status[s].state = RETRY
       /\ RetryCount(st) < RetryCount(e.status[s])

(***************************************************************************)
(* _update_subtask_status: an unknown id is a ValueError, and the output   *)
(* of a failed parent has no 'start_time', a KeyError; either rolls back.  *)
(***************************************************************************)
UpdateFails(e, s) == ~Known(e, s) \/ e.output # "progress"

AddCounts(p, st) == [p EXCEPT !.succeeded = @ + st.succeeded,
                              !.failed = @ + st.failed,
                              !.skipped = @ + st.skipped]

\* The row with a status recorded, counted (done) or not, and the task finished
\* or not; nsucc and nfail are the new counters of finished subtasks.
Recorded(e, s, st, done, nsucc, nfail, finished) ==
    [e EXCEPT !.status[s] = st,
              !.progress = IF done THEN AddCounts(@, st) ELSE @,
              !.nsucceeded = nsucc,
              !.nfailed = nfail,
              !.state = IF finished THEN SUCCESS ELSE @]

One(condition) == IF condition THEN 1 ELSE 0

UpdateSubtaskStatus_CountsRetries(e, s, st) ==
    LET nsucc == e.nsucceeded + One(st.state = SUCCESS)
        nfail == e.nfailed + One(st.state = FAILURE)
    IN  Recorded(e, s, st, TRUE, nsucc, nfail, nsucc + nfail >= e.ntotal)

UpdateSubtaskStatus_RetryIsFailure(e, s, st) ==
    LET nsucc == e.nsucceeded + One(st.state = SUCCESS)
        nfail == e.nfailed + One(st.state # SUCCESS)
    IN  Recorded(e, s, st, st.state \in READY_STATES, nsucc, nfail, nsucc + nfail >= e.ntotal)

UpdateSubtaskStatus_Early(e, s, st) ==
    LET nsucc == e.nsucceeded + One(st.state = SUCCESS)
        nfail == e.nfailed + One(st.state = FAILURE)
    IN  Recorded(e, s, st, st.state \in READY_STATES, nsucc, nfail, nsucc + nfail + 1 >= e.ntotal)

UpdateSubtaskStatus_Late(e, s, st) ==
    LET nsucc == e.nsucceeded + One(st.state = SUCCESS)
        nfail == e.nfailed + One(st.state = FAILURE)
    IN  Recorded(e, s, st, st.state \in READY_STATES, nsucc, nfail, nsucc + nfail > e.ntotal)

UpdateSubtaskStatus(e, s, st) ==
    LET nsucc == e.nsucceeded + One(st.state = SUCCESS)
        nfail == e.nfailed + One(st.state = FAILURE)
    IN  Recorded(e, s, st, st.state \in READY_STATES, nsucc, nfail, nsucc + nfail >= e.ntotal)

\* BaseInstructorTask.on_failure on the row it has read.
MarkFailed(e) == [e EXCEPT !.state = FAILURE, !.output = "failure", !.progress = NoProgress(0)]
=============================================================================
