----------------------------- MODULE CourseEmail -----------------------------
(***************************************************************************)
(* Sending a bulk email: the parent task (perform_delegate_email_batches   *)
(* through queue_subtasks_for_query), the subtasks (send_course_email,     *)
(* _send_course_email, _submit_for_retry), the row they share, the cache   *)
(* lock of a subtask and the Celery broker between them.                   *)
(*                                                                         *)
(* One action is one access to shared state (row, cache, broker, mail      *)
(* server), so every interleaving the code allows between two of them is a *)
(* behaviour.  Lists of recipients are sets: the query orders them as it   *)
(* likes.  Celery acknowledges a message when a worker starts on it, so    *)
(* only a message still queued is redelivered and a crash loses its work.  *)
(***************************************************************************)
EXTENDS SubtaskEntry, TLC

CONSTANTS
    Recipients,        \* users the recipient query may return
    Optouts,           \* those with an Optout row for the course
    BatchSize,         \* BULK_EMAIL_EMAILS_PER_TASK
    Parents,           \* deliveries of the parent task's message
    Workers,           \* Celery workers for the subtasks
    MaxRetries,        \* BULK_EMAIL_MAX_RETRIES
    RetryCap,          \* BULK_EMAIL_INFINITE_RETRY_CAP
    MaxDbRetries,      \* MAX_DATABASE_LOCK_RETRIES
    Faults,            \* what may go wrong (FaultKinds)
    SerialDuplicates,  \* TRUE: duplicates of a subtask do not overlap
    LockOutlivesWork,  \* TRUE: SUBTASK_LOCK_EXPIRE exceeds any subtask
    \* bounds of the environment, for TLC:
    MaxRedeliveries, MaxDbErrors, MaxCrashes, MaxChurn

FaultKinds == {"ratelimit",   \* INFINITE_RETRY_ERRORS
               "transient",   \* LIMITED_RETRY_ERRORS and any other exception
               "address",     \* SINGLE_EMAIL_FAILURE_ERRORS, SMTP 5xx
               "fatal",       \* BULK_EMAIL_FAILURE_ERRORS
               "missing",     \* the CourseEmail is gone when the subtask starts
               "refused",     \* the parent task finds it cannot send the email
               "publish",     \* apply_async of a new subtask fails
               "republish",   \* retry() fails to publish
               "close"}       \* connection.close() raises

ASSUME RecipientsAssumption == IsFiniteSet(Recipients) /\ Optouts \subseteq Recipients
ASSUME IdsAssumption == IsFiniteSet(SubtaskIds)
ASSUME BoundsAssumption ==
    /\ BatchSize \in Nat \ {0} /\ MaxDbRetries \in Nat \ {0}
    /\ MaxRetries \in Nat /\ RetryCap \in Nat
    /\ MaxRedeliveries \in Nat /\ MaxDbErrors \in Nat
    /\ MaxCrashes \in Nat /\ MaxChurn \in Nat
ASSUME SwitchesAssumption ==
    /\ Faults \subseteq FaultKinds
    /\ SerialDuplicates \in BOOLEAN /\ LockOutlivesWork \in BOOLEAN

VARIABLES
    entry,      \* the committed InstructorTask row
    qset,       \* what the recipient query returns now
    parent,     \* the executions of the parent task
    queue,      \* subtask messages at the broker
    worker,     \* the executions of subtasks
    lock,       \* ids whose key "subtask-<id>" is in the cache
    budget,     \* how often the environment has interfered
    used,       \* ids drawn so far (uuid4 never repeats)
    assigned,   \* history: the recipients a subtask was created for
    sent        \* history: accepted emails per recipient

vars == <<entry, qset, parent, queue, worker, lock, budget, used, assigned, sent>>

-----------------------------------------------------------------------------
Message == [sid : SubtaskIds, to_list : SUBSET Recipients, status : Status,
            retries : Nat,     \* request.retries of Celery
            copy : Nat]        \* tells a redelivered message from the first

\* num is num_to_send; frames counts the active calls of update_subtask_status.
Execution == [pc : {"check", "lock", "start", "send", "update", "release", "resubmit"},
              sid : SubtaskIds, to_list : SUBSET Recipients, status : Status,
              retries : Nat, copy : Nat, num : Nat, frames : Nat,
              phase : {"final", "ratelimit", "transient", "fail"}, raised : BOOLEAN]

Idle == [pc |-> "idle"]

ParentRun == [pc : {"ready", "define", "fetch", "queue", "failed", "failing", "done"},
              row : Entry, total : Nat, ids : SUBSET SubtaskIds,
              todo : SUBSET Recipients, wrote : BOOLEAN]

\* _get_number_of_subtasks
NumSubtasks(total) ==
    (total \div BatchSize) + (IF total % BatchSize # 0 THEN 1 ELSE 0)

Busy(w) == worker[w].pc # "idle"

\* The execution is between taking the lock of s and its last release.
Holds(w, s) == /\ Busy(w) /\ worker[w].sid = s
               /\ worker[w].pc \in {"start", "send", "update", "release"}

Spend(field, max) == budget[field] < max /\ budget' = [budget EXCEPT ![field] = @ + 1]

Init ==
    /\ entry = NewEntry
    /\ qset = Recipients
    /\ parent = [p \in Parents |-> [pc |-> "ready", row |-> NewEntry, total |-> 0,
                                    ids |-> {}, todo |-> {}, wrote |-> FALSE]]
    /\ queue = {}
    /\ worker = [w \in Workers |-> Idle]
    /\ lock = {}
    /\ budget = [redeliveries |-> 0, dberrors |-> 0, crashes |-> 0, churn |-> 0]
    /\ used = {}
    /\ assigned = [s \in SubtaskIds |-> {}]
    /\ sent = [r \in Recipients |-> 0]

-----------------------------------------------------------------------------
(***************************************************************************)
(* The parent task.                                                        *)
(***************************************************************************)
\* The row is read once; if batches are defined the task returns (on_success
\* then leaves a row with subtasks alone).  Otherwise item_queryset.count().
ParentRead(p) ==
    /\ parent[p].pc = "ready"
    /\ parent' = [parent EXCEPT
           ![p] = IF entry.defined /\ entry.output # "none"
                  THEN [@ EXCEPT !.pc = "done"]
                  ELSE [@ EXCEPT !.pc = "define", !.row = entry, !.total = Cardinality(qset)]]
    /\ UNCHANGED <<entry, qset, queue, worker, lock, budget, used, assigned, sent>>

\* initialize_subtask_info saves the row as read, whatever it is by now.
ParentDefine(p) ==
    /\ parent[p].pc = "define"
    /\ \E ids \in SUBSET (SubtaskIds \ used) :
          /\ Cardinality(ids) = NumSubtasks(parent[p].total)
          /\ entry' = InitializeSubtaskInfo(parent[p].total, ids)
          /\ used' = used \cup ids
          /\ parent' = [parent EXCEPT ![p].pc = "fetch", ![p].ids = ids, ![p].wrote = TRUE]
    /\ UNCHANGED <<qset, queue, worker, lock, budget, assigned, sent>>

\* The first step of the generator runs the query a second time.
ParentFetch(p) ==
    /\ parent[p].pc = "fetch"
    /\ parent' = [parent EXCEPT ![p].pc = "queue", ![p].todo = qset]
    /\ UNCHANGED <<entry, qset, queue, worker, lock, budget, used, assigned, sent>>

\* _generate_items_for_subtask: a full batch while more items and more than
\* one id are left, else all the rest.
IsNextChunk(chunk, todo, idsLeft) ==
    /\ chunk # {} /\ chunk \subseteq todo
    /\ IF Cardinality(idsLeft) > 1 /\ Cardinality(todo) > BatchSize
       THEN Cardinality(chunk) = BatchSize
       ELSE chunk = todo

\* The list of items is not emptied for the next subtask.
ParentQueueSubtask_KeepsChunk(p) ==
    /\ parent[p].pc = "queue" /\ parent[p].ids # {}
    /\ \E s \in parent[p].ids, chunk \in SUBSET parent[p].todo :
          /\ IsNextChunk(chunk, parent[p].todo, parent[p].ids)
          /\ queue' = queue \cup {[sid |-> s, to_list |-> chunk, status |-> NewStatus,
                                   retries |-> 0, copy |-> 0]}
          /\ parent' = [parent EXCEPT ![p].ids = @ \ {s}]
          /\ assigned' = [assigned EXCEPT ![s] = chunk]
    /\ UNCHANGED <<entry, qset, worker, lock, budget, used, sent>>

ParentQueueSubtask(p) ==
    /\ parent[p].pc = "queue" /\ parent[p].ids # {}
    /\ \E s \in parent[p].ids, chunk \in SUBSET parent[p].todo :
          /\ IsNextChunk(chunk, parent[p].todo, parent[p].ids)
          /\ queue' = queue \cup {[sid |-> s, to_list |-> chunk, status |-> NewStatus,
                                   retries |-> 0, copy |-> 0]}
          /\ parent' = [parent EXCEPT ![p].ids = @ \ {s}, ![p].todo = @ \ chunk]
          /\ assigned' = [assigned EXCEPT ![s] = chunk]
    /\ UNCHANGED <<entry, qset, worker, lock, budget, used, sent>>

\* The checks of perform_delegate_email_batches (course id, CourseEmail, course,
\* to_option) come before any subtask, that of the CourseEmail even before the
\* row is found to be defined.  Later a chunk too many is an IndexError on
\* subtask_id_list, and apply_async may fail.
ParentRaises(p) ==
    /\ \/ parent[p].pc = "ready" /\ "refused" \in Faults
       \/ /\ parent[p].pc = "queue" /\ parent[p].todo # {}
          /\ parent[p].ids = {} \/ "publish" \in Faults
    /\ parent' = [parent EXCEPT ![p].pc = "failed"]
    /\ UNCHANGED <<entry, qset, queue, worker, lock, budget, used, assigned, sent>>

ParentDone(p) ==
    /\ parent[p].pc = "queue" /\ parent[p].todo = {}
    /\ parent' = [parent EXCEPT ![p].pc = "done"]
    /\ UNCHANGED <<entry, qset, queue, worker, lock, budget, used, assigned, sent>>

\* on_failure reads the row ...
ParentFailRead(p) ==
    /\ parent[p].pc = "failed"
    /\ parent' = [parent EXCEPT ![p].pc = "failing", ![p].row = entry]
    /\ UNCHANGED <<entry, qset, queue, worker, lock, budget, used, assigned, sent>>

\* ... and saves all its columns.
ParentFailSave(p) ==
    /\ parent[p].pc = "failing"
    /\ entry' = MarkFailed(parent[p].row)
    /\ parent' = [parent EXCEPT ![p].pc = "done"]
    /\ UNCHANGED <<qset, queue, worker, lock, budget, used, assigned, sent>>

ParentStep(p) ==
    \/ ParentRead(p) \/ ParentDefine(p) \/ ParentFetch(p)
    \/ ParentQueueSubtask(p) \/ ParentRaises(p) \/ ParentDone(p)
    \/ ParentFailRead(p) \/ ParentFailSave(p)

-----------------------------------------------------------------------------
(***************************************************************************)
(* A subtask: from the broker to the lock.                                 *)
(***************************************************************************)
Receive(w) ==
    /\ ~Busy(w)
    /\ \E m \in queue :
          /\ SerialDuplicates => \A v \in Workers : Busy(v) => worker[v].sid # m.sid
          /\ queue' = queue \ {m}
          /\ worker' = [worker EXCEPT ![w] =
                 [pc |-> "check", sid |-> m.sid, to_list |-> m.to_list, status |-> m.status,
                  retries |-> m.retries, copy |-> m.copy, num |-> Cardinality(m.to_list),
                  frames |-> 0, phase |-> "final", raised |-> FALSE]]
    /\ UNCHANGED <<entry, qset, parent, lock, budget, used, assigned, sent>>

CheckSubtaskIsValid(w) ==
    /\ worker[w].pc = "check"
    /\ worker' = [worker EXCEPT
           ![w] = IF RejectsSubtask(entry, @.sid, @.status) THEN Idle ELSE [@ EXCEPT !.pc = "lock"]]
    /\ UNCHANGED <<entry, qset, parent, queue, lock, budget, used, assigned, sent>>

\* cache.add; a DuplicateTaskException when the key is there.
AcquireSubtaskLock_Ignored(w) ==
    /\ worker[w].pc = "lock"
    /\ lock' = lock \cup {worker[w].sid}
    /\ worker' = [worker EXCEPT ![w].pc = "start"]
    /\ UNCHANGED <<entry, qset, parent, queue, budget, used, assigned, sent>>

AcquireSubtaskLock(w) ==
    /\ worker[w].pc = "lock"
    /\ lock' = lock \cup {worker[w].sid}
    /\ worker' = [worker EXCEPT
           ![w] = IF @.sid \in lock THEN Idle ELSE [@ EXCEPT !.pc = "start"]]
    /\ UNCHANGED <<entry, qset, parent, queue, budget, used, assigned, sent>>

-----------------------------------------------------------------------------
(***************************************************************************)
(* Sending.  Each operator returns the execution after the event.          *)
(***************************************************************************)
Updating(x, phase) == [x EXCEPT !.pc = "update", !.phase = phase, !.frames = 1, !.raised = FALSE]

\* _filter_optouts_from_recipients, on the first attempt only.
FilterOptouts_Uncounted(x) ==
    IF RetryCount(x.status) = 0 THEN [x EXCEPT !.to_list = @ \ Optouts] ELSE x

FilterOptouts_OnRetry(x) ==
    IF RetryCount(x.status) # 0
    THEN [x EXCEPT !.to_list = @ \ Optouts,
                   !.status.skipped = @ + Cardinality(x.to_list \cap Optouts)]
    ELSE x

FilterOptouts(x) ==
    IF RetryCount(x.status) = 0
    THEN [x EXCEPT !.to_list = @ \ Optouts,
                   !.status.skipped = @ + Cardinality(x.to_list \cap Optouts)]
    ELSE x

\* The except clauses around the sending loop: a retry of one kind or the other ...
Retrying(x, kind) ==
    IF kind = "ratelimit"
    THEN Updating([x EXCEPT !.status.retried_nomax = @ + 1, !.status.state = RETRY], kind)
    ELSE Updating([x EXCEPT !.status.retried_withmax = @ + 1, !.status.state = RETRY], kind)

OnError_FatalCountsOne(x, kind) ==
    IF kind = "fatal" THEN Updating([x EXCEPT !.status = Fail(@, 1)], "final")
    ELSE Retrying(x, kind)

OnError_FatalRetries(x, kind) ==
    IF kind = "fatal"
    THEN Updating([x EXCEPT !.status = Fail(@, Cardinality(x.to_list))], "transient")
    ELSE Retrying(x, kind)

\* ... or the rest of the recipients failed.
OnError(x, kind) ==
    IF kind = "fatal"
    THEN Updating([x EXCEPT !.status = Fail(@, Cardinality(x.to_list))], "final")
    ELSE Retrying(x, kind)

\* send_course_email's own except clause: all num_to_send recipients fail.
FailedUnexpectedly(x) == Updating([x EXCEPT !.status = Fail(@, x.num)], "fail")

StepTo(w, x) == worker' = [worker EXCEPT ![w] = x]

\* The email is read, optouts filtered, the connection opened.
StartSending(w) ==
    /\ worker[w].pc = "start"
    /\ StepTo(w, [FilterOptouts(worker[w]) EXCEPT !.pc = "send"])
    /\ UNCHANGED <<entry, qset, parent, queue, lock, budget, used, assigned, sent>>

ConnectFails(w) ==
    /\ worker[w].pc = "start"
    /\ \E kind \in Faults \cap {"transient", "fatal"} :
          StepTo(w, OnError(FilterOptouts(worker[w]), kind))
    /\ UNCHANGED <<entry, qset, parent, queue, lock, budget, used, assigned, sent>>

EmailMissing(w) ==
    /\ worker[w].pc = "start" /\ "missing" \in Faults
    /\ StepTo(w, FailedUnexpectedly(worker[w]))
    /\ UNCHANGED <<entry, qset, parent, queue, lock, budget, used, assigned, sent>>

SendEmail_NoPop(w) ==
    /\ worker[w].pc = "send"
    /\ \E r \in worker[w].to_list :
          /\ StepTo(w, [worker[w] EXCEPT !.status.succeeded = @ + 1])
          /\ sent' = [sent EXCEPT ![r] = @ + 1]
    /\ UNCHANGED <<entry, qset, parent, queue, lock, budget, used, assigned>>

SendEmail(w) ==
    /\ worker[w].pc = "send"
    /\ \E r \in worker[w].to_list :
          /\ StepTo(w, [worker[w] EXCEPT !.status.succeeded = @ + 1, !.to_list = @ \ {r}])
          /\ sent' = [sent EXCEPT ![r] = @ + 1]
    /\ UNCHANGED <<entry, qset, parent, queue, lock, budget, used, assigned>>

AddressFails(w) ==
    /\ worker[w].pc = "send" /\ "address" \in Faults
    /\ \E r \in worker[w].to_list :
          StepTo(w, [worker[w] EXCEPT !.status.failed = @ + 1, !.to_list = @ \ {r}])
    /\ UNCHANGED <<entry, qset, parent, queue, lock, budget, used, assigned, sent>>

SendFails(w) ==
    /\ worker[w].pc = "send" /\ worker[w].to_list # {}
    /\ \E kind \in Faults \cap {"ratelimit", "transient", "fatal"} :
          StepTo(w, OnError(worker[w], kind))
    /\ UNCHANGED <<entry, qset, parent, queue, lock, budget, used, assigned, sent>>

AllSent(w) ==
    /\ worker[w].pc = "send" /\ worker[w].to_list = {}
    /\ StepTo(w, Updating([worker[w] EXCEPT !.status.state = SUCCESS], "final"))
    /\ UNCHANGED <<entry, qset, parent, queue, lock, budget, used, assigned, sent>>

-----------------------------------------------------------------------------
(***************************************************************************)
(* update_subtask_status: the transaction, its recursive retries, and one  *)
(* release of the lock per call frame.                                     *)
(***************************************************************************)
UpdateStatus(w) ==
    LET x == worker[w]  fails == UpdateFails(entry, x.sid) IN
    /\ x.pc = "update"
    /\ entry' = IF fails THEN entry ELSE UpdateSubtaskStatus(entry, x.sid, x.status)
    /\ StepTo(w, [x EXCEPT !.pc = "release", !.raised = fails])
    /\ UNCHANGED <<qset, parent, queue, lock, budget, used, assigned, sent>>

\* A DatabaseError: the next frame, or after the last one the error escapes.
UpdateTimesOut(w) ==
    LET x == worker[w] IN
    /\ x.pc = "update"
    /\ Spend("dberrors", MaxDbErrors)
    /\ StepTo(w, IF x.frames < MaxDbRetries THEN [x EXCEPT !.frames = @ + 1]
                 ELSE [x EXCEPT !.pc = "release", !.raised = TRUE])
    /\ UNCHANGED <<entry, qset, parent, queue, lock, used, assigned, sent>>

\* Where the execution goes when update_subtask_status has returned or raised.
AfterUpdate(x) ==
    IF x.phase \in {"final", "fail"} THEN Idle
    ELSE IF x.raised THEN FailedUnexpectedly(x)
    ELSE [x EXCEPT !.pc = "resubmit"]

ReleaseSubtaskLock_WhenDone(w) ==
    LET x == worker[w] IN
    /\ x.pc = "release"
    /\ lock' = IF x.status.state \in READY_STATES THEN lock \ {x.sid} ELSE lock
    /\ StepTo(w, IF x.frames > 1 THEN [x EXCEPT !.frames = @ - 1] ELSE AfterUpdate(x))
    /\ UNCHANGED <<entry, qset, parent, queue, budget, used, assigned, sent>>

ReleaseSubtaskLock(w) ==
    LET x == worker[w] IN
    /\ x.pc = "release"
    /\ lock' = lock \ {x.sid}
    /\ StepTo(w, IF x.frames > 1 THEN [x EXCEPT !.frames = @ - 1] ELSE AfterUpdate(x))
    /\ UNCHANGED <<entry, qset, parent, queue, budget, used, assigned, sent>>

(***************************************************************************)
(* _submit_for_retry and Celery's retry(): request.retries counts the      *)
(* retries of both kinds, so each kind raises the limit of the other.      *)
(* When retry() raises anything else than RetryTaskError, the increment    *)
(* meant to fail the rest of to_list is passed a SubtaskStatus to add and  *)
(* raises a TypeError, which send_course_email's own clause catches.       *)
(***************************************************************************)
MayRetry_NoCap(x) == x.retries + 1 <= MaxRetries + x.status.retried_nomax

MayRetry(x) ==
    /\ x.retries + 1 <= MaxRetries + x.status.retried_nomax
    /\ x.phase = "ratelimit" => x.retries + 1 <= RetryCap + x.status.retried_withmax

Retried(x) == [sid |-> x.sid, to_list |-> x.to_list, status |-> x.status,
               retries |-> x.retries + 1, copy |-> x.copy]

Resubmit(w) ==
    LET x == worker[w] IN
    /\ x.pc = "resubmit" /\ MayRetry(x)
    /\ queue' = queue \cup {Retried(x)}
    /\ StepTo(w, Idle)
    /\ UNCHANGED <<entry, qset, parent, lock, budget, used, assigned, sent>>

ResubmitFails(w) ==
    /\ worker[w].pc = "resubmit"
    /\ ~MayRetry(worker[w]) \/ "republish" \in Faults
    /\ StepTo(w, FailedUnexpectedly(worker[w]))
    /\ UNCHANGED <<entry, qset, parent, queue, lock, budget, used, assigned, sent>>

\* The finally clause of _send_course_email: what it raises replaces the result,
\* also when that result is a retry which has been published.
CloseFails(w) ==
    LET x == worker[w] IN
    /\ "close" \in Faults
    /\ \/ x.pc = "update" /\ x.phase = "final" /\ x.frames = 1 /\ UNCHANGED queue
       \/ /\ x.pc = "resubmit" /\ MayRetry(x)
          /\ queue' = queue \cup {Retried(x)}
    /\ StepTo(w, FailedUnexpectedly(x))
    /\ UNCHANGED <<entry, qset, parent, lock, budget, used, assigned, sent>>

Working(w) ==
    \/ CheckSubtaskIsValid(w) \/ AcquireSubtaskLock(w)
    \/ StartSending(w) \/ ConnectFails(w) \/ EmailMissing(w)
    \/ SendEmail(w) \/ AddressFails(w) \/ SendFails(w) \/ AllSent(w)
    \/ UpdateStatus(w) \/ ReleaseSubtaskLock(w)
    \/ Resubmit(w) \/ ResubmitFails(w)

-----------------------------------------------------------------------------
(***************************************************************************)
(* The environment.                                                        *)
(***************************************************************************)
\* The broker lost the connection before the acknowledgement and requeues.
Redeliver(m) ==
    /\ Spend("redeliveries", MaxRedeliveries)
    /\ queue' = queue \cup {[m EXCEPT !.copy = budget.redeliveries + 1]}
    /\ UNCHANGED <<entry, qset, parent, worker, lock, used, assigned, sent>>

LockExpires(s) ==
    /\ s \in lock
    /\ LockOutlivesWork => \A w \in Workers : ~Holds(w, s)
    /\ lock' = lock \ {s}
    /\ UNCHANGED <<entry, qset, parent, queue, worker, budget, used, assigned, sent>>

WorkerCrashes(w) ==
    /\ Busy(w) /\ Spend("crashes", MaxCrashes)
    /\ StepTo(w, Idle)
    /\ UNCHANGED <<entry, qset, parent, queue, lock, used, assigned, sent>>

ParentCrashes(p) ==
    /\ parent[p].pc \notin {"ready", "done"} /\ Spend("crashes", MaxCrashes)
    /\ parent' = [parent EXCEPT ![p].pc = "done"]
    /\ UNCHANGED <<entry, qset, queue, worker, lock, used, assigned, sent>>

\* Enrolments change under the parent task.
EnrollmentChanges ==
    /\ Spend("churn", MaxChurn)
    /\ \E q \in SUBSET Recipients : q # qset /\ qset' = q
    /\ UNCHANGED <<entry, parent, queue, worker, lock, used, assigned, sent>>

Next ==
    \/ \E p \in Parents : ParentStep(p) \/ ParentCrashes(p)
    \/ \E w \in Workers : Receive(w) \/ Working(w) \/ UpdateTimesOut(w) \/ CloseFails(w)
                          \/ WorkerCrashes(w)
    \/ \E m \in queue : Redeliver(m)
    \/ \E s \in SubtaskIds : LockExpires(s)
    \/ EnrollmentChanges

Spec == Init /\ [][Next]_vars

\* Celery keeps running what is queued and what was started.
Fairness == /\ \A p \in Parents : WF_vars(ParentStep(p))
            /\ \A w \in Workers : WF_vars(Receive(w)) /\ WF_vars(Working(w))

FairSpec == Spec /\ Fairness

=============================================================================
