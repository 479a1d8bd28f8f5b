--------------------------- MODULE CourseEmailProps ---------------------------
(***************************************************************************)
(* What sending a bulk email promises, stated over CourseEmail.            *)
(*                                                                         *)
(* Several promises hold as long as a subtask is never in two hands        *)
(* (NoDoubling), or in addition the parent task wrote the row once         *)
(* (NoDuplicates), and carry that as a guard; the Always forms without it  *)
(* are checked where duplicates of a subtask run one after the other.      *)
(***************************************************************************)
EXTENDS CourseEmail, Functions

\* Types of all variables.
TypeOK ==
    /\ entry \in Entry
    /\ qset \in SUBSET Recipients
    /\ parent \in [Parents -> ParentRun]
    /\ queue \in SUBSET Message
    /\ worker \in [Workers -> Execution \cup {Idle}]
    /\ lock \in SUBSET SubtaskIds
    /\ budget \in [redeliveries : Nat, dberrors : Nat, crashes : Nat, churn : Nat]
    /\ used \in SUBSET SubtaskIds
    /\ assigned \in [SubtaskIds -> SUBSET Recipients]
    /\ sent \in [Recipients -> Nat]

-----------------------------------------------------------------------------
\* What the broker and the workers hold of subtasks: messages and executions.
Executions == {worker[w] : w \in {v \in Workers : Busy(v)}}

\* An execution about to write down that every recipient failed.
GivenUp(x) == x.pc \in {"update", "release"} /\ x.phase = "fail"

OneRowWriter == \A p, q \in Parents : parent[p].wrote /\ parent[q].wrote => p = q

\* No subtask is in two hands: no message of one was delivered twice, and none
\* was published by an execution that then failed to close its connection.
NoDoubling == budget.redeliveries = 0 /\ "close" \notin Faults

NoDuplicates == NoDoubling /\ OneRowWriter

-----------------------------------------------------------------------------
(***************************************************************************)
(* Bookkeeping of one subtask, whatever else happens.                      *)
(***************************************************************************)
\* _send_course_email pops a recipient only once it is counted and hands the
\* rest to the retry, so at every moment of every attempt the counters and the
\* recipients left make up the recipients the subtask was created for.
Accounted(st, left, s) == Counted(st) + Cardinality(left) = Cardinality(assigned[s])

NobodyForgotten ==
    /\ \A m \in queue : Accounted(m.status, m.to_list, m.sid)
    /\ \A x \in Executions :
          ~GivenUp(x) /\ x.status.state # FAILURE => Accounted(x.status, x.to_list, x.sid)

\* A subtask recorded as done speaks for all its recipients: exactly when it
\* succeeded, at least when it failed (send_course_email counts everyone it
\* was given as failed when it does not know how far it got).
SettledCountsEverybody ==
    \A s \in Settled(entry) :
        LET all == Cardinality(assigned[s]) IN
        IF entry.status[s].state = SUCCESS THEN Counted(entry.status[s]) = all
        ELSE Counted(entry.status[s]) >= all

\* Celery counts retries in one number, the code in two that raise each other's
\* limit in _submit_for_retry; still, neither kind exceeds its own maximum.
RetriesBounded ==
    \A m \in queue : /\ m.retries = RetryCount(m.status)
                     /\ m.status.retried_withmax <= MaxRetries
                     /\ m.status.retried_nomax <= RetryCap

\* Whoever opted out gets no email, though retries do not look at Optout again.
OptoutsRespected == \A r \in Optouts : sent[r] = 0

-----------------------------------------------------------------------------
(***************************************************************************)
(* The row and the subtasks together.                                      *)
(***************************************************************************)
AlwaysOneEmail == \A r \in Recipients : sent[r] <= 1

\* Unless a message was duplicated nobody is sent the email twice, whatever
\* retries, errors, crashes, expired locks and lost row updates do.
AtMostOneEmail == NoDuplicates => AlwaysOneEmail

\* Where the parent task ran twice before the row said so, each of its sets of
\* subtasks sends to a recipient once at most.
OneEmailPerParent ==
    NoDoubling =>
        \A r \in Recipients : sent[r] <= Cardinality({p \in Parents : parent[p].wrote})

AlwaysCountersMatch ==
    /\ entry.nsucceeded + entry.nfailed = Cardinality(Settled(entry))
    /\ entry.state = SUCCESS => \A s \in SubtaskIds : Known(entry, s) => s \in Settled(entry)

\* The counters of finished subtasks, which decide when the task is done, are
\* those of the statuses next to them; SUCCESS is set with the last subtask.
CountersMatch == NoDoubling => AlwaysCountersMatch

CountFields == {"succeeded", "failed", "skipped"}

StatusSum(field) ==
    SumFunctionOnSet([s \in SubtaskIds |-> entry.status[s][field]], Settled(entry))

\* What the instructor is shown (task_output) is the sum over the subtasks that
\* are done: retries count nothing, and no subtask counts twice.
ProgressAddsUp ==
    NoDoubling /\ entry.output = "progress" =>
        \A field \in CountFields : entry.progress[field] = StatusSum(field)

\* A subtask recorded as done has no message queued and no execution that would
\* still send or update, so its record cannot be overwritten later.
DoneIsQuiet ==
    NoDoubling =>
        \A s \in Settled(entry) :
            /\ \A m \in queue : m.sid # s
            /\ \A x \in Executions : x.sid = s => x.pc = "release" /\ ~x.raised

\* check_subtask_is_valid: "we want to prevent it from running again".  A done
\* subtask keeps its record for as long as the row keeps its set of subtasks;
\* only on_failure of the parent, which saves a row read before, may lose it.
DoneStaysDone ==
    [][\A s \in SubtaskIds :
          s \in Settled(entry) /\ Known(entry', s) /\ entry'.output # "failure"
              => entry'.status[s] = entry.status[s]]_vars

\* A subtask in the row that is not done is about to be queued, queued or
\* executing: without crashes nothing is ever lost between two steps.
NothingLost ==
    \A s \in SubtaskIds :
        Known(entry, s) /\ s \notin Settled(entry) =>
            \/ \E p \in Parents : parent[p].pc \in {"fetch", "queue"} /\ s \in parent[p].ids
            \/ \E m \in queue : m.sid = s
            \/ \E x \in Executions : x.sid = s

\* Every way out of an execution that took the lock releases it: without crashes
\* a key in the cache belongs to somebody at work.
LockHasOwner == \A s \in lock : \E w \in Workers : Holds(w, s)

-----------------------------------------------------------------------------
(***************************************************************************)
(* The abstract promise and progress.                                      *)
(***************************************************************************)
Open == {s \in SubtaskIds : Known(entry, s) /\ s \notin Settled(entry)}

Ledger == INSTANCE SubtaskLedger
              WITH Subtasks <- SubtaskIds, state <- entry.state,
                   open <- Open, closed <- Settled(entry)

\* The row evolves like a ledger in which every subtask is closed once.
ImplementsLedger == Ledger!Spec

\* The task is reported as finished in the end.
TaskFinishes == <>(entry.state \in READY_STATES)

-----------------------------------------------------------------------------
(***************************************************************************)
(* What the repository says and the code does not do: each of these is     *)
(* checked in a run that is expected to violate it.                        *)
(***************************************************************************)
\* bulk_email/tasks.py:676-679 on a retry() that gives up: "the recipients still
\* in the to_list are counted as failures", which leaves everybody counted once.
CountedOnce ==
    \A s \in Settled(entry) : Counted(entry.status[s]) = Cardinality(assigned[s])

\* check_subtask_is_valid: "However, we want to prevent it from running again, so
\* we check here ... If it is complete, we raise an exception.  We also take a
\* lock on the task": nobody starts to work on a subtask that is done.
DoneIsNotRestarted ==
    \A x \in Executions : x.pc = "start" => x.sid \notin Settled(entry)

\* _acquire_subtask_lock: "make sure that the same task is not worked on by more
\* than one worker at the same time", also where one releases the lock twice.
OneWorkerAtATime ==
    \A v, w \in Workers :
        /\ Busy(v) /\ worker[v].pc \in {"start", "send"}
        /\ Busy(w) /\ worker[w].pc \in {"start", "send"}
        /\ worker[v].sid = worker[w].sid
        => v = w

\* initialize_subtask_info: "Once the counters for 'succeeded' and 'failed' match
\* the 'total', the subtasks are done and the InstructorTask's "status" will be
\* changed to SUCCESS."
DoneWhenCountersMatch ==
    entry.defined /\ entry.nsucceeded + entry.nfailed = entry.ntotal => entry.state = SUCCESS

=============================================================================
