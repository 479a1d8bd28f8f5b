-------------------------- MODULE CourseEmail_proofs --------------------------
(***************************************************************************)
(* Theorems about CourseEmail, for any number of recipients, subtasks,     *)
(* workers, deliveries of the parent task, faults and retries: first what  *)
(* holds of the subtasks and the row, then how many emails a recipient     *)
(* gets, who holds the lock of a subtask, what the row records where a     *)
(* subtask is worked on by one execution at a time, and that no subtask is *)
(* lost.                                                                   *)
(***************************************************************************)
EXTENDS CourseEmailProps, Sums_proofs, TLAPS, FiniteSetTheorems

-----------------------------------------------------------------------------
(***************************************************************************)
(* Types.                                                                  *)
(***************************************************************************)

\* Any set of recipients has a size, as has any set of subtask ids.
LEMMA SizesAreNat ==
    /\ \A S \in SUBSET Recipients : IsFiniteSet(S) /\ Cardinality(S) \in Nat
    /\ \A S \in SUBSET SubtaskIds : IsFiniteSet(S) /\ Cardinality(S) \in Nat
  BY RecipientsAssumption, IdsAssumption, FS_Subset, FS_CardinalityType

\* initialize_subtask_info writes a row.
LEMMA InitializeType ==
    ASSUME NEW total \in Nat, NEW ids \in SUBSET SubtaskIds
    PROVE  InitializeSubtaskInfo(total, ids) \in Entry
  <1>1. Cardinality(ids) \in Nat
    BY SizesAreNat
  <1>2. NewStatus \in Status /\ NoStatus \in Status
    BY DEF NewStatus, NoStatus, StatusIn, Status, READY_STATES, LiveStates, QUEUING, UNKNOWN
  <1>3. NoProgress(total) \in Progress
    BY DEF NoProgress, Progress
  <1> QED
    BY <1>1, <1>2, <1>3 DEF InitializeSubtaskInfo, Entry, PROGRESS

\* update_subtask_status and on_failure write rows.
LEMMA UpdateType ==
    ASSUME NEW e \in Entry, NEW s \in SubtaskIds, NEW st \in Status
    PROVE  UpdateSubtaskStatus(e, s, st) \in Entry
  <1>1. AddCounts(e.progress, st) \in Progress
    <2>1. /\ e.progress \in Progress
          /\ st.succeeded \in Nat /\ st.failed \in Nat /\ st.skipped \in Nat
      BY DEF Entry, Status
    <2>2. /\ e.progress.succeeded + st.succeeded \in Nat
          /\ e.progress.failed + st.failed \in Nat
          /\ e.progress.skipped + st.skipped \in Nat
      BY <2>1 DEF Progress
    <2> QED
      BY <2>1, <2>2 DEF AddCounts, Progress
  <1>2. /\ e.nsucceeded + One(st.state = SUCCESS) \in Nat
        /\ e.nfailed + One(st.state = FAILURE) \in Nat
    BY DEF One, Entry
  <1>3. ASSUME NEW done, NEW nsucc \in Nat, NEW nfail \in Nat, NEW finished
        PROVE  Recorded(e, s, st, done, nsucc, nfail, finished) \in Entry
    BY <1>1 DEF Recorded, Entry, SUCCESS
  <1> QED
    BY <1>2, <1>3 DEF UpdateSubtaskStatus

\* on_failure saves a row.
LEMMA MarkFailedType ==
    ASSUME NEW e \in Entry
    PROVE  MarkFailed(e) \in Entry
  BY DEF MarkFailed, Entry, NoProgress, Progress, FAILURE

\* Every outcome of an attempt to send is an execution again.
LEMMA FilterType ==
    ASSUME NEW x \in Execution
    PROVE  FilterOptouts(x) \in Execution
  <1>1. Cardinality(x.to_list \cap Optouts) \in Nat
    BY SizesAreNat, RecipientsAssumption DEF Execution
  <1>2. x.status \in Status /\ x.status.skipped + Cardinality(x.to_list \cap Optouts) \in Nat
    BY <1>1 DEF Execution, Status
  <1>3. [x.status EXCEPT !.skipped = @ + Cardinality(x.to_list \cap Optouts)] \in Status
    BY <1>2 DEF Status
  <1> QED
    BY <1>3 DEF FilterOptouts, Execution

\* A failed status is a status.
LEMMA FailType ==
    ASSUME NEW st \in Status, NEW n \in Nat
    PROVE  Fail(st, n) \in Status
  <1>1. st.failed + n \in Nat
    BY DEF Status
  <1> QED
    BY <1>1 DEF Fail, Status, READY_STATES

\* So is what the except clauses around the sending loop make of it ...
LEMMA OnErrorType ==
    ASSUME NEW x \in Execution, NEW kind \in {"ratelimit", "transient", "fatal"}
    PROVE  OnError(x, kind) \in Execution
  <1>1. Cardinality(x.to_list) \in Nat /\ x.status \in Status
    BY SizesAreNat DEF Execution
  <1>2. Fail(x.status, Cardinality(x.to_list)) \in Status
    BY <1>1, FailType
  <1>3. /\ [x.status EXCEPT !.retried_nomax = @ + 1, !.state = RETRY] \in Status
        /\ [x.status EXCEPT !.retried_withmax = @ + 1, !.state = RETRY] \in Status
    <2>1. x.status.retried_nomax + 1 \in Nat /\ x.status.retried_withmax + 1 \in Nat
      BY <1>1 DEF Status
    <2> QED
      BY <1>1, <2>1 DEF Status, LiveStates
  <1>4. CASE kind = "fatal"
    BY <1>2, <1>4 DEF OnError, Updating, Execution
  <1>5. CASE kind # "fatal"
    BY <1>3, <1>5 DEF OnError, Retrying, Updating, Execution
  <1> QED
    BY <1>4, <1>5

\* ... and what send_course_email's own except clause does.
LEMMA FailedUnexpectedlyType ==
    ASSUME NEW x \in Execution
    PROVE  FailedUnexpectedly(x) \in Execution
  <1>1. Fail(x.status, x.num) \in Status
    BY FailType DEF Execution
  <1> QED
    BY <1>1 DEF FailedUnexpectedly, Updating, Execution

\* An execution that is not idle is an Execution; replacing one keeps the type.
LEMMA WorkerType ==
    ASSUME TypeOK, NEW w \in Workers
    PROVE  /\ worker[w].pc # "idle" => worker[w] \in Execution
           /\ \A x \in Execution \cup {Idle} :
                 StepTo(w, x) => worker' \in [Workers -> Execution \cup {Idle}]
  BY DEF TypeOK, Idle, StepTo

\* Counting an interference keeps the type of the budget.
LEMMA BudgetType ==
    ASSUME TypeOK, NEW field \in {"redeliveries", "dberrors", "crashes", "churn"}, NEW max,
           Spend(field, max)
    PROVE  budget' \in [redeliveries : Nat, dberrors : Nat, crashes : Nat, churn : Nat]
  BY DEF TypeOK, Spend

\* The types hold at the start, and every kind of step keeps them.
LEMMA TypeInit == Init => TypeOK
  <1> SUFFICES ASSUME Init PROVE TypeOK
    OBVIOUS
  <1>1. NewEntry \in Entry
    BY DEF NewEntry, Entry, NoProgress, Progress, NoStatus, StatusIn, Status, UNKNOWN, QUEUING
  <1> QED
    BY <1>1, RecipientsAssumption DEF Init, TypeOK, ParentRun, Idle

LEMMA TypeParent ==
    ASSUME TypeOK, NEW p \in Parents, ParentStep(p)
    PROVE  TypeOK'
  <1>1. parent[p] \in ParentRun /\ parent[p].total \in Nat
    BY DEF TypeOK, ParentRun
  <1>2. CASE ParentRead(p)
    <2>1. Cardinality(qset) \in Nat
      BY SizesAreNat DEF TypeOK
    <2> QED
      BY <1>1, <1>2, <2>1 DEF TypeOK, ParentRead, ParentRun
  <1>3. CASE ParentDefine(p)
    <2>1. PICK ids \in SUBSET (SubtaskIds \ used) :
             /\ entry' = InitializeSubtaskInfo(parent[p].total, ids)
             /\ used' = used \cup ids
             /\ parent' = [parent EXCEPT ![p].pc = "fetch", ![p].ids = ids, ![p].wrote = TRUE]
      BY <1>3 DEF ParentDefine
    <2>2. entry' \in Entry
      BY <1>1, <2>1, InitializeType
    <2>3. parent' \in [Parents -> ParentRun]
      BY <1>1, <2>1 DEF TypeOK, ParentRun
    <2> QED
      BY <1>3, <2>1, <2>2, <2>3 DEF TypeOK, ParentDefine
  <1>4. CASE ParentFetch(p)
    BY <1>1, <1>4 DEF TypeOK, ParentFetch, ParentRun
  <1>5. CASE ParentQueueSubtask(p)
    <2>1. PICK s \in parent[p].ids, chunk \in SUBSET parent[p].todo :
             /\ queue' = queue \cup {[sid |-> s, to_list |-> chunk, status |-> NewStatus,
                                      retries |-> 0, copy |-> 0]}
             /\ parent' = [parent EXCEPT ![p].ids = @ \ {s}, ![p].todo = @ \ chunk]
             /\ assigned' = [assigned EXCEPT ![s] = chunk]
      BY <1>5 DEF ParentQueueSubtask
    <2>2. s \in SubtaskIds /\ chunk \in SUBSET Recipients
      BY <1>1, <2>1 DEF ParentRun
    <2>3. NewStatus \in Status
      BY DEF NewStatus, StatusIn, Status, LiveStates
    <2>4. queue' \in SUBSET Message
      BY <2>1, <2>2, <2>3 DEF TypeOK, Message
    <2>5. parent' \in [Parents -> ParentRun]
      BY <1>1, <2>1 DEF TypeOK, ParentRun
    <2> QED
      BY <1>5, <2>1, <2>2, <2>4, <2>5 DEF TypeOK, ParentQueueSubtask
  <1>6. CASE ParentRaises(p)
    BY <1>1, <1>6 DEF TypeOK, ParentRaises, ParentRun
  <1>7. CASE ParentDone(p)
    BY <1>1, <1>7 DEF TypeOK, ParentDone, ParentRun
  <1>8. CASE ParentFailRead(p)
    BY <1>1, <1>8 DEF TypeOK, ParentFailRead, ParentRun
  <1>9. CASE ParentFailSave(p)
    <2>1. MarkFailed(parent[p].row) \in Entry
      BY <1>1, MarkFailedType DEF ParentRun
    <2> QED
      BY <1>1, <1>9, <2>1 DEF TypeOK, ParentFailSave, ParentRun
  <1> QED
    BY <1>2, <1>3, <1>4, <1>5, <1>6, <1>7, <1>8, <1>9 DEF ParentStep

LEMMA TypeReceive ==
    ASSUME TypeOK, NEW w \in Workers, Receive(w)
    PROVE  TypeOK'
  <1>1. PICK m \in queue :
           /\ queue' = queue \ {m}
           /\ worker' = [worker EXCEPT ![w] =
                 [pc |-> "check", sid |-> m.sid, to_list |-> m.to_list, status |-> m.status,
                  retries |-> m.retries, copy |-> m.copy, num |-> Cardinality(m.to_list),
                  frames |-> 0, phase |-> "final", raised |-> FALSE]]
    BY DEF Receive
  <1>2. m \in Message
    BY DEF TypeOK
  <1>3. Cardinality(m.to_list) \in Nat
    BY <1>2, SizesAreNat DEF Message
  <1>4. worker' \in [Workers -> Execution \cup {Idle}]
    BY <1>1, <1>2, <1>3 DEF TypeOK, Message, Execution
  <1> QED
    BY <1>1, <1>4 DEF TypeOK, Receive

\* Each step of an execution leaves it an execution or idle.
LEMMA TypeWorking ==
    ASSUME TypeOK, NEW w \in Workers, Working(w) \/ UpdateTimesOut(w) \/ CloseFails(w)
    PROVE  TypeOK'
  <1> DEFINE x == worker[w]
  <1>1. x \in Execution
    BY WorkerType DEF Working, CheckSubtaskIsValid, AcquireSubtaskLock, StartSending,
       ConnectFails, EmailMissing, SendEmail, AddressFails, SendFails, AllSent, UpdateStatus,
       ReleaseSubtaskLock, Resubmit, ResubmitFails, UpdateTimesOut, CloseFails
  <1>2. /\ x.status \in Status /\ x.sid \in SubtaskIds /\ x.to_list \in SUBSET Recipients
        /\ x.num \in Nat /\ x.frames \in Nat /\ x.retries \in Nat /\ x.copy \in Nat
    BY <1>1 DEF Execution
  <1>3. CASE CheckSubtaskIsValid(w)
    BY <1>1, <1>3 DEF TypeOK, CheckSubtaskIsValid, Execution
  <1>4. CASE AcquireSubtaskLock(w)
    BY <1>1, <1>4 DEF TypeOK, AcquireSubtaskLock, Execution
  <1>5. CASE StartSending(w)
    <2>1. [FilterOptouts(x) EXCEPT !.pc = "send"] \in Execution
      <3>1. FilterOptouts(x) \in Execution
        BY <1>1, FilterType
      <3> QED
        BY <3>1 DEF Execution
    <2> QED
      BY <1>5, <2>1, WorkerType DEF TypeOK, StartSending
  <1>6. CASE ConnectFails(w)
    <2>1. PICK kind \in {"ratelimit", "transient", "fatal"} :
             StepTo(w, OnError(FilterOptouts(x), kind))
      BY <1>6 DEF ConnectFails
    <2>2. OnError(FilterOptouts(x), kind) \in Execution
      <3>1. FilterOptouts(x) \in Execution
        BY <1>1, FilterType
      <3> QED
        BY <3>1, OnErrorType
    <2> QED
      BY <1>6, <2>1, <2>2, WorkerType DEF TypeOK, ConnectFails
  <1>7. CASE EmailMissing(w)
    <2>1. FailedUnexpectedly(x) \in Execution
      BY <1>1, FailedUnexpectedlyType
    <2> QED
      BY <1>7, <2>1, WorkerType DEF TypeOK, EmailMissing
  <1>8. CASE SendEmail(w)
    <2>1. PICK r \in x.to_list :
             /\ StepTo(w, [x EXCEPT !.status.succeeded = @ + 1, !.to_list = @ \ {r}])
             /\ sent' = [sent EXCEPT ![r] = @ + 1]
      BY <1>8 DEF SendEmail
    <2>2. [x.status EXCEPT !.succeeded = @ + 1] \in Status
      <3>1. x.status.succeeded + 1 \in Nat
        BY <1>2 DEF Status
      <3> QED
        BY <1>2, <3>1 DEF Status
    <2>3. [x EXCEPT !.status.succeeded = @ + 1, !.to_list = @ \ {r}] \in Execution
      BY <1>1, <1>2, <2>2 DEF Execution
    <2>4. worker' \in [Workers -> Execution \cup {Idle}]
      BY <2>1, <2>3, WorkerType
    <2>5. sent' \in [Recipients -> Nat]
      BY <1>2, <2>1 DEF TypeOK
    <2> QED
      BY <1>8, <2>4, <2>5 DEF TypeOK, SendEmail
  <1>9. CASE AddressFails(w)
    <2>1. PICK r \in x.to_list :
             StepTo(w, [x EXCEPT !.status.failed = @ + 1, !.to_list = @ \ {r}])
      BY <1>9 DEF AddressFails
    <2>2. [x.status EXCEPT !.failed = @ + 1] \in Status
      <3>1. x.status.failed + 1 \in Nat
        BY <1>2 DEF Status
      <3> QED
        BY <1>2, <3>1 DEF Status
    <2>3. [x EXCEPT !.status.failed = @ + 1, !.to_list = @ \ {r}] \in Execution
      BY <1>1, <1>2, <2>2 DEF Execution
    <2> QED
      BY <1>9, <2>1, <2>3, WorkerType DEF TypeOK, AddressFails
  <1>10. CASE SendFails(w)
    <2>1. PICK kind \in {"ratelimit", "transient", "fatal"} : StepTo(w, OnError(x, kind))
      BY <1>10 DEF SendFails
    <2>2. OnError(x, kind) \in Execution
      BY <1>1, OnErrorType
    <2> QED
      BY <1>10, <2>1, <2>2, WorkerType DEF TypeOK, SendFails
  <1>11. CASE AllSent(w)
    <2>1. [x.status EXCEPT !.state = SUCCESS] \in Status
      BY <1>2 DEF Status, READY_STATES
    <2>2. Updating([x EXCEPT !.status.state = SUCCESS], "final") \in Execution
      BY <1>1, <2>1 DEF Updating, Execution
    <2> QED
      BY <1>11, <2>2, WorkerType DEF TypeOK, AllSent
  <1>12. CASE UpdateStatus(w)
    <2>1. UpdateSubtaskStatus(entry, x.sid, x.status) \in Entry
      BY <1>2, UpdateType DEF TypeOK
    <2>2. entry' \in Entry
      BY <1>12, <2>1 DEF TypeOK, UpdateStatus
    <2>3. UpdateFails(entry, x.sid) \in BOOLEAN
      BY DEF UpdateFails, Known
    <2>4. [x EXCEPT !.pc = "release", !.raised = UpdateFails(entry, x.sid)] \in Execution
      BY <1>1, <2>3 DEF Execution
    <2> QED
      BY <1>12, <2>2, <2>4, WorkerType DEF TypeOK, UpdateStatus
  <1>13. CASE UpdateTimesOut(w)
    <2>1. /\ [x EXCEPT !.frames = @ + 1] \in Execution
          /\ [x EXCEPT !.pc = "release", !.raised = TRUE] \in Execution
      <3>1. x.frames + 1 \in Nat
        BY <1>2
      <3>2. [x EXCEPT !.frames = @ + 1] \in Execution
        BY <1>1, <3>1 DEF Execution
      <3>3. [x EXCEPT !.pc = "release", !.raised = TRUE] \in Execution
        BY <1>1 DEF Execution
      <3> QED
        BY <3>2, <3>3
    <2>2. worker' \in [Workers -> Execution \cup {Idle}]
      BY <1>13, <2>1, WorkerType DEF UpdateTimesOut
    <2>3. budget' \in [redeliveries : Nat, dberrors : Nat, crashes : Nat, churn : Nat]
      BY <1>13, BudgetType DEF UpdateTimesOut
    <2> QED
      BY <1>13, <2>2, <2>3 DEF TypeOK, UpdateTimesOut
  <1>14. CASE ReleaseSubtaskLock(w)
    <2>1. AfterUpdate(x) \in Execution \cup {Idle}
      BY <1>1, FailedUnexpectedlyType DEF AfterUpdate, Execution
    <2>2. x.frames > 1 => [x EXCEPT !.frames = @ - 1] \in Execution
      BY <1>1, <1>2 DEF Execution
    <2>3. worker' \in [Workers -> Execution \cup {Idle}]
      BY <1>14, <2>1, <2>2, WorkerType DEF ReleaseSubtaskLock
    <2> QED
      BY <1>14, <2>3 DEF TypeOK, ReleaseSubtaskLock
  <1>15. CASE Resubmit(w)
    <2>1. queue' \in SUBSET Message
      BY <1>2, <1>15 DEF TypeOK, Resubmit, Retried, Message
    <2> QED
      BY <1>15, <2>1, WorkerType DEF TypeOK, Resubmit
  <1>16. CASE ResubmitFails(w)
    <2>1. FailedUnexpectedly(x) \in Execution
      BY <1>1, FailedUnexpectedlyType
    <2> QED
      BY <1>16, <2>1, WorkerType DEF TypeOK, ResubmitFails
  <1>17. CASE CloseFails(w)
    <2>1. FailedUnexpectedly(x) \in Execution
      BY <1>1, FailedUnexpectedlyType
    <2>2. Retried(x) \in Message
      BY <1>2 DEF Retried, Message
    <2>3. queue' \in SUBSET Message
      BY <1>17, <2>2 DEF TypeOK, CloseFails
    <2> QED
      BY <1>17, <2>1, <2>3, WorkerType DEF TypeOK, CloseFails
  <1> QED
    BY <1>3, <1>4, <1>5, <1>6, <1>7, <1>8, <1>9, <1>10, <1>11, <1>12, <1>13, <1>14, <1>15, <1>16,
       <1>17
    DEF Working

LEMMA TypeEnvironment ==
    ASSUME TypeOK,
           \/ \E w \in Workers : WorkerCrashes(w)
           \/ \E p \in Parents : ParentCrashes(p)
           \/ \E m \in queue : Redeliver(m)
           \/ \E s \in SubtaskIds : LockExpires(s)
           \/ EnrollmentChanges
    PROVE  TypeOK'
  <1>1. ASSUME NEW w \in Workers, WorkerCrashes(w) PROVE TypeOK'
    <2>1. budget' \in [redeliveries : Nat, dberrors : Nat, crashes : Nat, churn : Nat]
      BY <1>1, BudgetType DEF WorkerCrashes
    <2> QED
      BY <1>1, <2>1, WorkerType DEF TypeOK, WorkerCrashes
  <1>2. ASSUME NEW p \in Parents, ParentCrashes(p) PROVE TypeOK'
    <2>1. budget' \in [redeliveries : Nat, dberrors : Nat, crashes : Nat, churn : Nat]
      BY <1>2, BudgetType DEF ParentCrashes
    <2>2. parent[p] \in ParentRun
      BY DEF TypeOK
    <2> QED
      BY <1>2, <2>1, <2>2 DEF TypeOK, ParentCrashes, ParentRun
  <1>3. ASSUME NEW m \in queue, Redeliver(m) PROVE TypeOK'
    <2>1. budget' \in [redeliveries : Nat, dberrors : Nat, crashes : Nat, churn : Nat]
      BY <1>3, BudgetType DEF Redeliver
    <2>2. m \in Message /\ budget.redeliveries + 1 \in Nat
      BY DEF TypeOK
    <2>3. queue' \in SUBSET Message
      BY <1>3, <2>2 DEF TypeOK, Redeliver, Message
    <2> QED
      BY <1>3, <2>1, <2>3 DEF TypeOK, Redeliver
  <1>4. ASSUME NEW s \in SubtaskIds, LockExpires(s) PROVE TypeOK'
    BY <1>4 DEF TypeOK, LockExpires
  <1>5. ASSUME EnrollmentChanges PROVE TypeOK'
    <2>1. budget' \in [redeliveries : Nat, dberrors : Nat, crashes : Nat, churn : Nat]
      BY <1>5, BudgetType DEF EnrollmentChanges
    <2> QED
      BY <1>5, <2>1 DEF TypeOK, EnrollmentChanges
  <1> QED
    BY <1>1, <1>2, <1>3, <1>4, <1>5

LEMMA TypeStep == TypeOK /\ [Next]_vars => TypeOK'
  <1> SUFFICES ASSUME TypeOK, [Next]_vars PROVE TypeOK'
    OBVIOUS
  <1>1. CASE UNCHANGED vars
    BY <1>1 DEF TypeOK, vars
  <1>2. CASE Next
    BY <1>2, TypeParent, TypeReceive, TypeWorking, TypeEnvironment DEF Next
  <1> QED
    BY <1>1, <1>2

\* Type correctness of the whole model.
THEOREM TypeCorrect == Spec => []TypeOK
  BY TypeInit, TypeStep, PTL DEF Spec

-----------------------------------------------------------------------------
(***************************************************************************)
(* The books.  Every message and every execution of a subtask speaks for   *)
(* all the recipients the subtask was created for, whatever the others do: *)
(* its counters and the recipients left add up, its phase and its count of *)
(* retries agree with its status, and after the first attempt it has no    *)
(* opted-out recipient left.                                               *)
(***************************************************************************)
\* An id that was handed out is drawn and in no parent's hands any more.
HandedOut(s) == s \in used /\ \A p \in Parents : s \notin parent[p].ids

\* The ids the parents still hold are theirs alone.
IdsApart ==
    /\ \A p \in Parents : parent[p].ids \subseteq used
    /\ \A p, q \in Parents : p # q => parent[p].ids \cap parent[q].ids = {}

\* An attempt that has not ended, and one that ended in a retry.
Attempting(x) == x.pc \in {"check", "lock", "start", "send"}
Retries(x) ==
    \/ x.pc = "resubmit"
    \/ x.pc \in {"update", "release"} /\ x.phase \in {"ratelimit", "transient"}
Ends(x) == x.pc \in {"update", "release"} /\ x.phase \in {"final", "fail"}

\* The counters of an execution of a subtask created for n recipients.
CountsOf(x, n) ==
    /\ x.status.state # FAILURE => Counted(x.status) + Cardinality(x.to_list) = n
    /\ x.status.state = SUCCESS => x.to_list = {}
    /\ x.status.state = FAILURE => Counted(x.status) >= n
    /\ Counted(x.status) + x.num >= n

\* Its phase, its count of retries, and the opt-outs it has filtered.
TriesOf(x) ==
    /\ Attempting(x) => /\ x.status.state \in LiveStates
                        /\ x.retries = RetryCount(x.status)
                        /\ x.status.retried_nomax <= RetryCap
    /\ Retries(x) => /\ x.status.state = RETRY /\ x.phase \in {"ratelimit", "transient"}
                     /\ x.retries + 1 = RetryCount(x.status)
                     /\ x.phase = "transient" => x.status.retried_nomax <= RetryCap
    /\ Ends(x) => x.status.state \in READY_STATES

Filtered(x) == x.to_list \cap Optouts = {}

OptoutsOf(x) ==
    /\ x.pc = "send" \/ Retries(x) => Filtered(x)
    /\ Attempting(x) /\ x.retries > 0 => Filtered(x)

\* The book of an execution of a subtask created for n recipients is right.
Book(x, n) == CountsOf(x, n) /\ TriesOf(x) /\ OptoutsOf(x)

\* The same of a message of a subtask created for n recipients.
Letter(m, n) ==
    /\ m.status.state \in LiveStates
    /\ Counted(m.status) + Cardinality(m.to_list) = n
    /\ m.retries = RetryCount(m.status)
    /\ m.status.retried_withmax <= MaxRetries /\ m.status.retried_nomax <= RetryCap
    /\ m.retries > 0 => m.to_list \cap Optouts = {}

\* How many recipients the subtask was created for.
Size(s) == Cardinality(assigned[s])

\* A row (the row itself, or the copy a parent has read) records as done only
\* subtasks that were handed out, and speaks for all their recipients.
Speaks(e) ==
    \A s \in Settled(e) :
        /\ HandedOut(s)
        /\ IF e.status[s].state = SUCCESS THEN Counted(e.status[s]) = Size(s)
           ELSE Counted(e.status[s]) >= Size(s)

InBooks(w) == HandedOut(worker[w].sid) /\ Book(worker[w], Size(worker[w].sid))

\* All books are right.
Books ==
    /\ IdsApart
    /\ \A m \in queue : HandedOut(m.sid) /\ Letter(m, Size(m.sid))
    /\ \A w \in Workers : Busy(w) => InBooks(w)
    /\ Speaks(entry)
    /\ \A p \in Parents : Speaks(parent[p].row)
    /\ OptoutsRespected

BooksInv == TypeOK /\ Books

-----------------------------------------------------------------------------
(***************************************************************************)
(* What an event does to the book of an execution.                         *)
(***************************************************************************)
\* The opt-outs leave the list and are counted as skipped.
LEMMA FilterBook ==
    ASSUME NEW x \in Execution, NEW n \in Nat, x.pc = "start", Book(x, n)
    PROVE  /\ FilterOptouts(x).pc = "start" /\ Book(FilterOptouts(x), n)
           /\ Filtered(FilterOptouts(x))
  <1> DEFINE k == Cardinality(x.to_list \cap Optouts)
             y == FilterOptouts(x)
  <1>1. /\ x.status \in Status /\ x.to_list \in SUBSET Recipients /\ x.num \in Nat
        /\ x.retries \in Nat
    BY DEF Execution
  <1>2. /\ Cardinality(x.to_list) \in Nat /\ k \in Nat
        /\ Cardinality(x.to_list \ Optouts) = Cardinality(x.to_list) - k
    <2>1. IsFiniteSet(x.to_list) /\ (x.to_list \cap Optouts) \in SUBSET Recipients
      BY <1>1, SizesAreNat
    <2> QED
      BY <1>1, <2>1, SizesAreNat, FS_Difference
  <1>3. /\ Attempting(x) /\ ~Retries(x) /\ ~Ends(x) /\ x.status.state \in LiveStates
        /\ x.retries = RetryCount(x.status)
    BY DEF Attempting, Retries, Ends, Book, TriesOf
  <1>4. CASE RetryCount(x.status) # 0
    <2>1. y = x
      BY <1>4 DEF FilterOptouts
    <2>2. x.retries > 0
      BY <1>1, <1>3, <1>4
    <2> QED
      BY <1>3, <2>1, <2>2 DEF Book, OptoutsOf
  <1>5. CASE RetryCount(x.status) = 0
    <2>1. y = [x EXCEPT !.to_list = x.to_list \ Optouts,
                        !.status = [x.status EXCEPT !.skipped = x.status.skipped + k]]
      BY <1>1, <1>5 DEF FilterOptouts, Execution
    <2>2. /\ y.pc = "start" /\ y.to_list = x.to_list \ Optouts /\ y.num = x.num
          /\ y.retries = x.retries /\ y.phase = x.phase
          /\ y.status.state = x.status.state
          /\ y.status.succeeded = x.status.succeeded /\ y.status.failed = x.status.failed
          /\ y.status.skipped = x.status.skipped + k
          /\ y.status.retried_nomax = x.status.retried_nomax
          /\ y.status.retried_withmax = x.status.retried_withmax
      BY <1>1, <2>1 DEF Execution, Status
    <2>3. Counted(y.status) = Counted(x.status) + k /\ Counted(x.status) \in Nat
      BY <1>1, <1>2, <2>2 DEF Counted, Status
    <2>4. x.status.state \notin READY_STATES
      BY <1>3 DEF READY_STATES, LiveStates, SUCCESS, FAILURE, QUEUING, RETRY
    <2>5. CountsOf(y, n)
      <3>1. Counted(x.status) + Cardinality(x.to_list) = n
        BY <2>4 DEF Book, CountsOf, READY_STATES
      <3>2. Counted(x.status) + x.num >= n
        BY DEF Book, CountsOf
      <3> QED
        BY <1>1, <1>2, <2>2, <2>3, <2>4, <3>1, <3>2 DEF CountsOf, READY_STATES
    <2>6. Filtered(y)
      BY <2>2 DEF Filtered
    <2>7. TriesOf(y)
      BY <1>3, <2>2 DEF Book, TriesOf, RetryCount, Attempting, Retries, Ends
    <2> QED
      BY <2>2, <2>5, <2>6, <2>7 DEF Book, OptoutsOf
  <1> QED
    BY <1>4, <1>5

\* An error of the loop ends the attempt in a retry, or counts the rest failed.
LEMMA ErrorBook ==
    ASSUME NEW x \in Execution, NEW n \in Nat, x.pc \in {"start", "send"}, Book(x, n),
           Filtered(x), NEW kind \in {"ratelimit", "transient", "fatal"}
    PROVE  Book(OnError(x, kind), n)
  <1> DEFINE y == OnError(x, kind)
             k == Cardinality(x.to_list)
  <1>1. /\ x.status \in Status /\ x.to_list \in SUBSET Recipients /\ x.num \in Nat
        /\ x.retries \in Nat /\ k \in Nat
    BY SizesAreNat DEF Execution
  <1>2. /\ x.status.state \in LiveStates /\ x.retries = RetryCount(x.status)
        /\ x.status.retried_nomax <= RetryCap
    BY DEF Attempting, Book, TriesOf
  <1>3. /\ Counted(x.status) + k = n /\ Counted(x.status) + x.num >= n
    BY <1>2 DEF Book, CountsOf, LiveStates, FAILURE, QUEUING, RETRY
  <1>4. CASE kind = "fatal"
    <2>1. PICK st : st = [x.status EXCEPT !.failed = x.status.failed + k, !.state = FAILURE]
      OBVIOUS
    <2>2. /\ y.pc = "update" /\ y.phase = "final" /\ y.num = x.num
          /\ y.status.state = FAILURE
          /\ y.status.succeeded = x.status.succeeded /\ y.status.failed = x.status.failed + k
          /\ y.status.skipped = x.status.skipped
      <3>1. Fail(x.status, k) = st
        BY <1>1, <2>1 DEF Fail, Status
      <3>2. y.pc = "update" /\ y.phase = "final" /\ y.num = x.num /\ y.status = st
        BY <1>4, <3>1 DEF OnError, Updating, Execution
      <3> QED
        BY <1>1, <2>1, <3>2 DEF Status
    <2>3. Counted(y.status) = n
      BY <1>1, <1>3, <2>2 DEF Counted, Status
    <2> QED
      BY <1>1, <2>2, <2>3 DEF Book, CountsOf, TriesOf, OptoutsOf, Attempting, Retries, Ends,
         READY_STATES, SUCCESS, FAILURE
  <1>5. ASSUME NEW z \in Execution, z.pc = "update", z.phase \in {"ratelimit", "transient"},
               z.num = x.num, z.to_list = x.to_list, z.retries = x.retries,
               z.status.state = RETRY, Counted(z.status) = Counted(x.status),
               RetryCount(z.status) = RetryCount(x.status) + 1,
               z.phase = "transient" => z.status.retried_nomax = x.status.retried_nomax
        PROVE  Book(z, n)
    <2>1. CountsOf(z, n)
      BY <1>3, <1>5 DEF CountsOf, FAILURE, SUCCESS, RETRY
    <2>2. TriesOf(z)
      BY <1>2, <1>5 DEF TriesOf, Attempting, Retries, Ends
    <2> QED
      BY <1>5, <2>1, <2>2 DEF Book, OptoutsOf, Attempting, Filtered
  <1>6. CASE kind = "ratelimit"
    <2>1. PICK st : st = [x.status EXCEPT !.retried_nomax = x.status.retried_nomax + 1,
                                          !.state = RETRY]
      OBVIOUS
    <2>2. /\ y.pc = "update" /\ y.phase = kind /\ y.num = x.num /\ y.to_list = x.to_list
          /\ y.retries = x.retries /\ y.status = st
      BY <1>1, <1>6, <2>1 DEF OnError, Retrying, Updating, Execution, Status
    <2>4. /\ st.state = RETRY /\ Counted(st) = Counted(x.status)
          /\ RetryCount(st) = RetryCount(x.status) + 1
          /\ kind = "transient" => st.retried_nomax = x.status.retried_nomax
      BY <1>1, <1>6, <2>1 DEF Counted, RetryCount, Status
    <2>3. y \in Execution
      BY OnErrorType
    <2> QED
      BY <1>5, <1>6, <2>2, <2>3, <2>4
  <1>7. CASE kind = "transient"
    <2>1. PICK st : st = [x.status EXCEPT !.retried_withmax = x.status.retried_withmax + 1,
                                          !.state = RETRY]
      OBVIOUS
    <2>2. /\ y.pc = "update" /\ y.phase = kind /\ y.num = x.num /\ y.to_list = x.to_list
          /\ y.retries = x.retries /\ y.status = st
      BY <1>1, <1>7, <2>1 DEF OnError, Retrying, Updating, Execution, Status
    <2>4. /\ st.state = RETRY /\ Counted(st) = Counted(x.status)
          /\ RetryCount(st) = RetryCount(x.status) + 1
          /\ kind = "transient" => st.retried_nomax = x.status.retried_nomax
      BY <1>1, <1>7, <2>1 DEF Counted, RetryCount, Status
    <2>3. y \in Execution
      BY OnErrorType
    <2> QED
      BY <1>5, <1>7, <2>2, <2>3, <2>4
  <1> QED
    BY <1>4, <1>6, <1>7

\* Failing everybody it was given leaves nobody out, however far it had got.
LEMMA UnexpectedBook ==
    ASSUME NEW x \in Execution, NEW n \in Nat, Book(x, n)
    PROVE  Book(FailedUnexpectedly(x), n)
  <1> DEFINE y == FailedUnexpectedly(x)
  <1>1. x.status \in Status /\ x.num \in Nat
    BY DEF Execution
  <1>2. PICK st : st = [x.status EXCEPT !.failed = x.status.failed + x.num, !.state = FAILURE]
    OBVIOUS
  <1>3. /\ y.pc = "update" /\ y.phase = "fail" /\ y.num = x.num
        /\ y.status.state = FAILURE
        /\ y.status.succeeded = x.status.succeeded /\ y.status.failed = x.status.failed + x.num
        /\ y.status.skipped = x.status.skipped
    <2>1. Fail(x.status, x.num) = st
      BY <1>1, <1>2 DEF Fail, Status
    <2>2. y.pc = "update" /\ y.phase = "fail" /\ y.num = x.num /\ y.status = st
      BY <2>1 DEF FailedUnexpectedly, Updating, Execution
    <2> QED
      BY <1>1, <1>2, <2>2 DEF Status
  <1>4. Counted(y.status) = Counted(x.status) + x.num /\ Counted(x.status) \in Nat
    BY <1>1, <1>3 DEF Counted, Status
  <1>5. Counted(x.status) + x.num >= n
    BY DEF Book, CountsOf
  <1> QED
    BY <1>1, <1>3, <1>4, <1>5 DEF Book, CountsOf, TriesOf, OptoutsOf, Attempting, Retries, Ends,
       READY_STATES, SUCCESS, FAILURE

\* Taking one recipient off the list and counting him keeps the book.
LEMMA PopBook ==
    ASSUME NEW x \in Execution, NEW n \in Nat, x.pc = "send", Book(x, n), NEW r \in x.to_list,
           NEW y \in Execution, y.pc = "send", y.to_list = x.to_list \ {r}, y.num = x.num,
           y.retries = x.retries, Counted(y.status) = Counted(x.status) + 1,
           y.status.state = x.status.state, RetryCount(y.status) = RetryCount(x.status),
           y.status.retried_nomax = x.status.retried_nomax
    PROVE  Book(y, n)
  <1>1. /\ x.to_list \in SUBSET Recipients /\ x.status \in Status /\ x.num \in Nat
    BY DEF Execution
  <1>2. Counted(x.status) \in Nat
    BY <1>1 DEF Counted, Status
  <1>3. Cardinality(x.to_list) \in Nat /\ Cardinality(y.to_list) = Cardinality(x.to_list) - 1
    BY <1>1, SizesAreNat, FS_RemoveElement
  <1>4. x.status.state \in LiveStates
    BY DEF Book, TriesOf, Attempting
  <1>5. Counted(x.status) + Cardinality(x.to_list) = n /\ Counted(x.status) + x.num >= n
    BY <1>4 DEF Book, CountsOf, LiveStates, FAILURE, QUEUING, RETRY
  <1>6. CountsOf(y, n)
    BY <1>1, <1>2, <1>3, <1>4, <1>5 DEF CountsOf, LiveStates, FAILURE, SUCCESS, QUEUING, RETRY
  <1>7. TriesOf(y)
    BY DEF Book, TriesOf, Attempting, Retries, Ends
  <1>8. OptoutsOf(y)
    BY DEF Book, OptoutsOf, Filtered
  <1> QED
    BY <1>6, <1>7, <1>8 DEF Book

\* Moving between steps that change neither list nor counters.
LEMMA MoveBook ==
    ASSUME NEW x \in Execution, NEW n, Book(x, n), NEW y \in Execution,
           y.status = x.status, y.to_list = x.to_list, y.num = x.num, y.retries = x.retries,
           y.phase = x.phase,
           \/ x.pc \in {"check", "lock"} /\ y.pc \in {"lock", "start"}
           \/ x.pc = "start" /\ y.pc = "send" /\ Filtered(x)
           \/ x.pc \in {"update", "release"} /\ y.pc \in {"update", "release"}
           \/ x.pc = "release" /\ y.pc = "resubmit" /\ x.phase \notin {"final", "fail"}
    PROVE  Book(y, n)
  <1>1. x.phase \in {"final", "ratelimit", "transient", "fail"}
    BY DEF Execution
  <1>2. CountsOf(y, n)
    BY DEF Book, CountsOf
  <1>3. TriesOf(y) /\ OptoutsOf(y)
    <2>1. CASE x.pc \in {"check", "lock"} /\ y.pc \in {"lock", "start"}
      BY <2>1 DEF Book, TriesOf, OptoutsOf, Filtered, Attempting, Retries, Ends
    <2>2. CASE x.pc = "start" /\ y.pc = "send" /\ Filtered(x)
      BY <2>2 DEF Book, TriesOf, OptoutsOf, Filtered, Attempting, Retries, Ends
    <2>3. CASE x.pc \in {"update", "release"} /\ y.pc \in {"update", "release"}
      BY <2>3 DEF Book, TriesOf, OptoutsOf, Filtered, Attempting, Retries, Ends
    <2>4. CASE x.pc = "release" /\ y.pc = "resubmit" /\ x.phase \notin {"final", "fail"}
      BY <1>1, <2>4 DEF Book, TriesOf, OptoutsOf, Filtered, Attempting, Retries, Ends
    <2> QED
      BY <2>1, <2>2, <2>3, <2>4
  <1> QED
    BY <1>2, <1>3 DEF Book

\* What is handed back to the broker for a retry may be retried.
LEMMA RetriedLetter ==
    ASSUME NEW x \in Execution, NEW n \in Nat, x.pc = "resubmit", Book(x, n), MayRetry(x)
    PROVE  Retried(x).sid = x.sid /\ Letter(Retried(x), n)
  <1>1. /\ x.status \in Status /\ x.retries \in Nat
        /\ MaxRetries \in Nat /\ RetryCap \in Nat
    BY BoundsAssumption DEF Execution
  <1>2. /\ x.status.state = RETRY /\ x.phase \in {"ratelimit", "transient"}
        /\ x.retries + 1 = RetryCount(x.status)
        /\ x.phase = "transient" => x.status.retried_nomax <= RetryCap
        /\ Filtered(x)
    BY DEF Book, TriesOf, OptoutsOf, Retries
  <1>3. Counted(x.status) + Cardinality(x.to_list) = n
    BY <1>2 DEF Book, CountsOf, RETRY, FAILURE
  <1>4. x.status.retried_withmax <= MaxRetries /\ x.status.retried_nomax <= RetryCap
    BY <1>1, <1>2 DEF MayRetry, RetryCount, Status
  <1> QED
    BY <1>2, <1>3, <1>4 DEF Retried, Letter, LiveStates, Filtered

\* A step of the execution at w, whether it works or fails.
AnyExecutionStep(w) == Working(w) \/ UpdateTimesOut(w) \/ CloseFails(w) \/ WorkerCrashes(w)

\* An execution goes on, with a book that is right again, or it ends; what it
\* puts into the queue is right as well.
LEMMA BookStep ==
    ASSUME TypeOK, NEW w \in Workers, NEW n \in Nat, AnyExecutionStep(w),
           Book(worker[w], n)
    PROVE  /\ Busy(w)' => worker'[w].sid = worker[w].sid /\ Book(worker'[w], n)
           /\ \A m \in queue' : m \in queue \/ (m.sid = worker[w].sid /\ Letter(m, n))
  <1> DEFINE x == worker[w]
             Good(y) == y.sid = x.sid /\ Book(y, n)
  <1>1. x \in Execution
    BY WorkerType DEF AnyExecutionStep, Working, CheckSubtaskIsValid, AcquireSubtaskLock, StartSending,
       ConnectFails, EmailMissing, SendEmail, AddressFails, SendFails, AllSent, UpdateStatus,
       ReleaseSubtaskLock, Resubmit, ResubmitFails, UpdateTimesOut, CloseFails, WorkerCrashes, Busy
  <1>2. /\ x.status \in Status /\ x.sid \in SubtaskIds /\ x.to_list \in SUBSET Recipients
        /\ x.num \in Nat /\ x.frames \in Nat
    BY <1>1 DEF Execution
  <1>3. ASSUME NEW y, StepTo(w, y), y = Idle \/ Good(y), queue' = queue
        PROVE  /\ Busy(w)' => worker'[w].sid = worker[w].sid /\ Book(worker'[w], n)
               /\ \A m \in queue' : m \in queue \/ (m.sid = worker[w].sid /\ Letter(m, n))
    <2>1. worker'[w] = y
      BY <1>3 DEF StepTo, TypeOK
    <2> QED
      BY <1>3, <2>1 DEF Busy, Idle
  <1>4. FilterOptouts(x) \in Execution /\ FilterOptouts(x).sid = x.sid
    BY <1>1, FilterType DEF FilterOptouts, Execution
  <1>5. ASSUME NEW z \in Execution, NEW kind \in {"ratelimit", "transient", "fatal"}
        PROVE  OnError(z, kind).sid = z.sid
    <2>1. CASE kind = "fatal"
      BY <2>1 DEF OnError, Updating, Execution
    <2>2. CASE kind = "ratelimit"
      BY <2>2 DEF OnError, Retrying, Updating, Execution
    <2>3. CASE kind = "transient"
      BY <2>3 DEF OnError, Retrying, Updating, Execution
    <2> QED
      BY <2>1, <2>2, <2>3
  <1>6. Good(FailedUnexpectedly(x))
    <2>1. FailedUnexpectedly(x).sid = x.sid
      BY <1>1 DEF FailedUnexpectedly, Updating, Execution
    <2> QED
      BY <1>1, <2>1, UnexpectedBook
  <1>7. CASE CheckSubtaskIsValid(w)
    <2>1. x.pc = "check" /\ [x EXCEPT !.pc = "lock"] \in Execution
      BY <1>1, <1>7 DEF CheckSubtaskIsValid, Execution
    <2>2. Good([x EXCEPT !.pc = "lock"])
      BY <1>1, <2>1, MoveBook DEF Execution
    <2> QED
      BY <1>3, <1>7, <2>2 DEF CheckSubtaskIsValid, StepTo
  <1>8. CASE AcquireSubtaskLock(w)
    <2>1. x.pc = "lock" /\ [x EXCEPT !.pc = "start"] \in Execution
      BY <1>1, <1>8 DEF AcquireSubtaskLock, Execution
    <2>2. Good([x EXCEPT !.pc = "start"])
      BY <1>1, <2>1, MoveBook DEF Execution
    <2> QED
      BY <1>3, <1>8, <2>2 DEF AcquireSubtaskLock, StepTo
  <1>9. ASSUME x.pc = "start"
        PROVE  /\ FilterOptouts(x).pc = "start" /\ Book(FilterOptouts(x), n)
               /\ Filtered(FilterOptouts(x))
    BY <1>1, <1>9, FilterBook
  <1>10. CASE StartSending(w)
    <2>1. PICK z : z = FilterOptouts(x)
      OBVIOUS
    <2>2. /\ z \in Execution /\ z.sid = x.sid /\ z.pc = "start" /\ Book(z, n) /\ Filtered(z)
          /\ StepTo(w, [z EXCEPT !.pc = "send"])
      BY <1>4, <1>9, <1>10, <2>1 DEF StartSending
    <2>3. [z EXCEPT !.pc = "send"] \in Execution
      BY <2>2 DEF Execution
    <2>4. Good([z EXCEPT !.pc = "send"])
      BY <2>2, <2>3, MoveBook DEF Execution
    <2> QED
      BY <1>3, <1>10, <2>2, <2>4 DEF StartSending
  <1>11. CASE ConnectFails(w)
    <2>1. PICK kind \in {"ratelimit", "transient", "fatal"} :
             x.pc = "start" /\ StepTo(w, OnError(FilterOptouts(x), kind))
      BY <1>11 DEF ConnectFails
    <2>2. Good(OnError(FilterOptouts(x), kind))
      BY <1>4, <1>5, <1>9, <2>1, ErrorBook
    <2> QED
      BY <1>3, <1>11, <2>1, <2>2 DEF ConnectFails
  <1>12. CASE EmailMissing(w)
    BY <1>3, <1>6, <1>12 DEF EmailMissing
  <1>13. CASE SendEmail(w)
    <2>1. PICK r \in x.to_list :
             StepTo(w, [x EXCEPT !.status.succeeded = @ + 1, !.to_list = @ \ {r}])
      BY <1>13 DEF SendEmail
    <2>2. PICK st : st = [x.status EXCEPT !.succeeded = @ + 1]
      OBVIOUS
    <2>3. PICK y : y = [x EXCEPT !.status.succeeded = @ + 1, !.to_list = @ \ {r}]
      OBVIOUS
    <2>4. /\ st \in Status /\ Counted(st) = Counted(x.status) + 1
          /\ RetryCount(st) = RetryCount(x.status) /\ st.state = x.status.state
          /\ st.retried_nomax = x.status.retried_nomax
      <3>1. x.status.succeeded + 1 \in Nat
        BY <1>2 DEF Status
      <3> QED
        BY <1>2, <2>2, <3>1 DEF Status, Counted, RetryCount
    <2>5. /\ y.status = st /\ y.to_list = x.to_list \ {r} /\ y.num = x.num /\ y.sid = x.sid
          /\ y.retries = x.retries /\ y.pc = "send" /\ y \in Execution /\ x.pc = "send"
      BY <1>1, <1>2, <1>13, <2>2, <2>3, <2>4 DEF SendEmail, Execution
    <2>6. Book(y, n)
      BY <1>1, <2>4, <2>5, PopBook
    <2> QED
      BY <1>3, <1>13, <2>1, <2>3, <2>5, <2>6 DEF SendEmail
  <1>14. CASE AddressFails(w)
    <2>1. PICK r \in x.to_list :
             StepTo(w, [x EXCEPT !.status.failed = @ + 1, !.to_list = @ \ {r}])
      BY <1>14 DEF AddressFails
    <2>2. PICK st : st = [x.status EXCEPT !.failed = @ + 1]
      OBVIOUS
    <2>3. PICK y : y = [x EXCEPT !.status.failed = @ + 1, !.to_list = @ \ {r}]
      OBVIOUS
    <2>4. /\ st \in Status /\ Counted(st) = Counted(x.status) + 1
          /\ RetryCount(st) = RetryCount(x.status) /\ st.state = x.status.state
          /\ st.retried_nomax = x.status.retried_nomax
      <3>1. x.status.failed + 1 \in Nat
        BY <1>2 DEF Status
      <3> QED
        BY <1>2, <2>2, <3>1 DEF Status, Counted, RetryCount
    <2>5. /\ y.status = st /\ y.to_list = x.to_list \ {r} /\ y.num = x.num /\ y.sid = x.sid
          /\ y.retries = x.retries /\ y.pc = "send" /\ y \in Execution /\ x.pc = "send"
      BY <1>1, <1>2, <1>14, <2>2, <2>3, <2>4 DEF AddressFails, Execution
    <2>6. Book(y, n)
      BY <1>1, <2>4, <2>5, PopBook
    <2> QED
      BY <1>3, <1>14, <2>1, <2>3, <2>5, <2>6 DEF AddressFails
  <1>15. CASE SendFails(w)
    <2>1. PICK kind \in {"ratelimit", "transient", "fatal"} :
             x.pc = "send" /\ StepTo(w, OnError(x, kind))
      BY <1>15 DEF SendFails
    <2>2. Good(OnError(x, kind))
      BY <1>1, <1>5, <2>1, ErrorBook DEF Book, OptoutsOf
    <2> QED
      BY <1>3, <1>15, <2>1, <2>2 DEF SendFails
  <1>16. CASE AllSent(w)
    <2>1. PICK y : y = Updating([x EXCEPT !.status.state = SUCCESS], "final")
      OBVIOUS
    <2>2. /\ y.pc = "update" /\ y.phase = "final" /\ y.num = x.num /\ y.sid = x.sid
          /\ y.to_list = {} /\ x.to_list = {} /\ x.pc = "send"
          /\ y.status = [x.status EXCEPT !.state = SUCCESS]
      BY <1>1, <1>16, <2>1 DEF AllSent, Updating, Execution
    <2>3. y.status.state = SUCCESS /\ Counted(y.status) = Counted(x.status)
      BY <1>2, <2>2 DEF Counted, Status
    <2>4. /\ x.status.state \in LiveStates /\ Counted(x.status) + Cardinality(x.to_list) = n
          /\ Counted(x.status) + x.num >= n
      BY <2>2 DEF Book, TriesOf, CountsOf, Attempting, LiveStates, FAILURE, QUEUING, RETRY
    <2>5. Good(y)
      BY <2>2, <2>3, <2>4
      DEF Book, CountsOf, TriesOf, OptoutsOf, Attempting, Retries, Ends, READY_STATES, SUCCESS,
          FAILURE
    <2> QED
      BY <1>3, <1>16, <2>1, <2>5 DEF AllSent
  <1>17. CASE UpdateStatus(w)
    <2>1. PICK fails \in BOOLEAN : StepTo(w, [x EXCEPT !.pc = "release", !.raised = fails])
      BY <1>17 DEF UpdateStatus, UpdateFails, Known
    <2>2. x.pc = "update" /\ [x EXCEPT !.pc = "release", !.raised = fails] \in Execution
      BY <1>1, <1>17, <2>1 DEF UpdateStatus, Execution
    <2>3. Good([x EXCEPT !.pc = "release", !.raised = fails])
      BY <1>1, <2>2, MoveBook DEF Execution
    <2> QED
      BY <1>3, <1>17, <2>1, <2>3 DEF UpdateStatus
  <1>18. CASE UpdateTimesOut(w)
    <2>1. /\ x.pc = "update"
          /\ [x EXCEPT !.frames = @ + 1] \in Execution
          /\ [x EXCEPT !.pc = "release", !.raised = TRUE] \in Execution
      <3>1. x.frames + 1 \in Nat
        BY <1>2
      <3>2. [x EXCEPT !.frames = @ + 1] \in Execution
        BY <1>1, <3>1 DEF Execution
      <3> QED
        BY <1>1, <1>18, <3>2 DEF UpdateTimesOut, Execution
    <2>2. Good([x EXCEPT !.frames = @ + 1])
      BY <1>1, <2>1, MoveBook DEF Execution
    <2>3. Good([x EXCEPT !.pc = "release", !.raised = TRUE])
      BY <1>1, <2>1, MoveBook DEF Execution
    <2> QED
      BY <1>3, <1>18, <2>2, <2>3 DEF UpdateTimesOut
  <1>19. CASE ReleaseSubtaskLock(w)
    <2>1. x.pc = "release" /\ queue' = queue
          /\ StepTo(w, IF x.frames > 1 THEN [x EXCEPT !.frames = @ - 1] ELSE AfterUpdate(x))
      BY <1>19 DEF ReleaseSubtaskLock
    <2>2. CASE x.frames > 1
      <3>1. [x EXCEPT !.frames = @ - 1] \in Execution
        BY <1>1, <1>2, <2>2 DEF Execution
      <3>2. Good([x EXCEPT !.frames = @ - 1])
        BY <1>1, <2>1, <3>1, MoveBook DEF Execution
      <3> QED
        BY <1>3, <2>1, <2>2, <3>2
    <2>3. CASE ~(x.frames > 1)
      <3>1. [x EXCEPT !.pc = "resubmit"] \in Execution
        BY <1>1 DEF Execution
      <3>2. x.phase \notin {"final", "fail"} => Good([x EXCEPT !.pc = "resubmit"])
        BY <1>1, <2>1, <3>1, MoveBook DEF Execution
      <3>3. AfterUpdate(x) = Idle \/ Good(AfterUpdate(x))
        BY <1>6, <3>2 DEF AfterUpdate
      <3> QED
        BY <1>3, <2>1, <2>3, <3>3
    <2> QED
      BY <2>2, <2>3
  <1>20. ASSUME x.pc = "resubmit", MayRetry(x)
         PROVE  Retried(x).sid = x.sid /\ Letter(Retried(x), n)
    BY <1>1, <1>20, RetriedLetter
  <1>21. CASE Resubmit(w)
    <2>1. worker'[w] = Idle
      BY <1>21 DEF Resubmit, StepTo, TypeOK
    <2>2. \A m \in queue' : m \in queue \/ m = Retried(x)
      BY <1>21 DEF Resubmit
    <2> QED
      BY <1>20, <1>21, <2>1, <2>2 DEF Resubmit, Busy, Idle
  <1>22. CASE ResubmitFails(w)
    BY <1>3, <1>6, <1>22 DEF ResubmitFails
  <1>23. CASE CloseFails(w)
    <2>1. worker'[w] = FailedUnexpectedly(x)
      BY <1>23 DEF CloseFails, StepTo, TypeOK
    <2>2. \A m \in queue' : m \in queue \/ (m = Retried(x) /\ x.pc = "resubmit" /\ MayRetry(x))
      BY <1>23 DEF CloseFails
    <2> QED
      BY <1>6, <1>20, <2>1, <2>2
  <1>24. CASE WorkerCrashes(w)
    BY <1>3, <1>24 DEF WorkerCrashes
  <1> QED
    BY <1>7, <1>8, <1>10, <1>11, <1>12, <1>13, <1>14, <1>15, <1>16, <1>17, <1>18, <1>19, <1>21,
       <1>22, <1>23, <1>24
    DEF AnyExecutionStep, Working

-----------------------------------------------------------------------------
(***************************************************************************)
(* What was handed out stays so, with the recipients it was created for.   *)
(***************************************************************************)
\* What the steps of the parent do to the ids.
LEMMA ParentIds ==
    ASSUME TypeOK, NEW p \in Parents, ParentStep(p) \/ ParentCrashes(p)
    PROVE  \/ /\ ParentDefine(p) /\ UNCHANGED <<queue, worker, assigned, sent>>
              /\ \E ids \in SUBSET (SubtaskIds \ used) :
                    /\ entry' = InitializeSubtaskInfo(parent[p].total, ids)
                    /\ used' = used \cup ids /\ parent'[p].ids = ids
                    /\ parent'[p].row = parent[p].row
                    /\ \A q \in Parents : q # p => parent'[q] = parent[q]
           \/ /\ ParentQueueSubtask(p) /\ UNCHANGED <<entry, worker, used, sent>>
              /\ \E s \in parent[p].ids, chunk \in SUBSET Recipients, m \in Message :
                    /\ m.sid = s /\ m.to_list = chunk /\ m.status = NewStatus /\ m.retries = 0
                    /\ queue' = queue \cup {m}
                    /\ assigned' = [assigned EXCEPT ![s] = chunk]
                    /\ parent'[p].ids = parent[p].ids \ {s} /\ parent'[p].row = parent[p].row
                    /\ \A q \in Parents : q # p => parent'[q] = parent[q]
           \/ /\ UNCHANGED <<queue, worker, used, assigned, sent>>
              /\ parent'[p].ids = parent[p].ids
              /\ entry' \in {entry, MarkFailed(parent[p].row)}
              /\ parent'[p].row \in {entry, parent[p].row}
              /\ \A q \in Parents : q # p => parent'[q] = parent[q]
  <1>1. /\ parent \in [Parents -> ParentRun] /\ parent[p] \in ParentRun
        /\ parent[p].ids \in SUBSET SubtaskIds /\ parent[p].todo \in SUBSET Recipients
    BY DEF TypeOK, ParentRun
  <1>2. CASE ParentRead(p)
    BY <1>1, <1>2 DEF ParentRead, ParentRun
  <1>3. CASE ParentDefine(p)
    <2>1. PICK ids \in SUBSET (SubtaskIds \ used) :
             /\ entry' = InitializeSubtaskInfo(parent[p].total, ids)
             /\ used' = used \cup ids
             /\ parent' = [parent EXCEPT ![p].pc = "fetch", ![p].ids = ids, ![p].wrote = TRUE]
      BY <1>3 DEF ParentDefine
    <2>2. /\ parent'[p].ids = ids /\ parent'[p].row = parent[p].row
          /\ \A q \in Parents : q # p => parent'[q] = parent[q]
      BY <1>1, <2>1 DEF ParentRun
    <2> QED
      BY <1>3, <2>1, <2>2 DEF ParentDefine
  <1>4. CASE ParentFetch(p)
    BY <1>1, <1>4 DEF ParentFetch, ParentRun
  <1>5. CASE ParentQueueSubtask(p)
    <2>1. PICK s \in parent[p].ids, chunk \in SUBSET parent[p].todo :
             /\ queue' = queue \cup {[sid |-> s, to_list |-> chunk, status |-> NewStatus,
                                      retries |-> 0, copy |-> 0]}
             /\ parent' = [parent EXCEPT ![p].ids = @ \ {s}, ![p].todo = @ \ chunk]
             /\ assigned' = [assigned EXCEPT ![s] = chunk]
      BY <1>5 DEF ParentQueueSubtask
    <2>2. PICK m : m = [sid |-> s, to_list |-> chunk, status |-> NewStatus,
                        retries |-> 0, copy |-> 0]
      OBVIOUS
    <2>3. NewStatus \in Status
      BY DEF NewStatus, StatusIn, Status, LiveStates
    <2>4. /\ m \in Message /\ m.sid = s /\ m.to_list = chunk /\ m.status = NewStatus
          /\ m.retries = 0 /\ queue' = queue \cup {m} /\ chunk \in SUBSET Recipients
      BY <1>1, <2>1, <2>2, <2>3 DEF Message
    <2>5. /\ parent'[p].ids = parent[p].ids \ {s} /\ parent'[p].row = parent[p].row
          /\ \A q \in Parents : q # p => parent'[q] = parent[q]
      BY <1>1, <2>1 DEF ParentRun
    <2>6. \E t \in parent[p].ids, c \in SUBSET Recipients, n \in Message :
             /\ n.sid = t /\ n.to_list = c /\ n.status = NewStatus /\ n.retries = 0
             /\ queue' = queue \cup {n}
             /\ assigned' = [assigned EXCEPT ![t] = c]
             /\ parent'[p].ids = parent[p].ids \ {t} /\ parent'[p].row = parent[p].row
             /\ \A q \in Parents : q # p => parent'[q] = parent[q]
      <3> HIDE DEF NewStatus
      <3>1. assigned' = [assigned EXCEPT ![s] = chunk] /\ s \in parent[p].ids
        BY <2>1
      <3> QED
        BY <2>4, <2>5, <3>1
    <2>7. UNCHANGED <<entry, worker, used, sent>>
      BY <1>5 DEF ParentQueueSubtask
    <2> QED
      BY <1>5, <2>6, <2>7
  <1>6. CASE ParentRaises(p)
    BY <1>1, <1>6 DEF ParentRaises, ParentRun
  <1>7. CASE ParentDone(p)
    BY <1>1, <1>7 DEF ParentDone, ParentRun
  <1>8. CASE ParentFailRead(p)
    BY <1>1, <1>8 DEF ParentFailRead, ParentRun
  <1>9. CASE ParentFailSave(p)
    BY <1>1, <1>9 DEF ParentFailSave, ParentRun
  <1>10. CASE ParentCrashes(p)
    BY <1>1, <1>10 DEF ParentCrashes, ParentRun
  <1> QED
    BY <1>2, <1>3, <1>4, <1>5, <1>6, <1>7, <1>8, <1>9, <1>10 DEF ParentStep

\* What all the other steps leave alone.
LEMMA OthersKeep ==
    ASSUME TypeOK, [Next]_vars, ~\E p \in Parents : ParentStep(p) \/ ParentCrashes(p)
    PROVE  UNCHANGED <<parent, used, assigned>>
  BY DEF Next, vars, Receive, Working, CheckSubtaskIsValid, AcquireSubtaskLock,
     StartSending, ConnectFails, EmailMissing, SendEmail, AddressFails, SendFails, AllSent,
     UpdateStatus, ReleaseSubtaskLock, Resubmit, ResubmitFails, UpdateTimesOut, CloseFails,
     WorkerCrashes, Redeliver, LockExpires, EnrollmentChanges

\* An id that was handed out stays so, with its recipients.
LEMMA HandedOutStays ==
    ASSUME TypeOK, IdsApart, [Next]_vars
    PROVE  IdsApart' /\ \A s : HandedOut(s) => HandedOut(s)' /\ Size(s)' = Size(s)
  <1>1. CASE ~\E p \in Parents : ParentStep(p) \/ ParentCrashes(p)
    BY <1>1, OthersKeep DEF IdsApart, HandedOut, Size
  <1>2. ASSUME NEW p \in Parents, ParentStep(p) \/ ParentCrashes(p)
        PROVE  IdsApart' /\ \A s : HandedOut(s) => HandedOut(s)' /\ Size(s)' = Size(s)
    <2>1. CASE \E ids \in SUBSET (SubtaskIds \ used) :
                    /\ used' = used \cup ids /\ parent'[p].ids = ids
                    /\ assigned' = assigned
                    /\ \A q \in Parents : q # p => parent'[q] = parent[q]
      BY <2>1 DEF IdsApart, HandedOut, Size
    <2>2. CASE \E t \in parent[p].ids, chunk \in SUBSET Recipients :
                    /\ assigned' = [assigned EXCEPT ![t] = chunk] /\ used' = used
                    /\ parent'[p].ids = parent[p].ids \ {t}
                    /\ \A q \in Parents : q # p => parent'[q] = parent[q]
      <3>1. PICK t \in parent[p].ids, chunk \in SUBSET Recipients :
                    /\ assigned' = [assigned EXCEPT ![t] = chunk] /\ used' = used
                    /\ parent'[p].ids = parent[p].ids \ {t}
                    /\ \A q \in Parents : q # p => parent'[q] = parent[q]
        BY <2>2
      <3>2. \A q \in Parents : parent'[q].ids \subseteq parent[q].ids
        BY <3>1
      <3>3. \A s : HandedOut(s) => s # t
        BY DEF HandedOut
      <3>4. \A s : s # t => assigned'[s] = assigned[s]
        BY <3>1 DEF TypeOK
      <3> QED
        BY <3>1, <3>2, <3>3, <3>4 DEF IdsApart, HandedOut, Size
    <2>3. CASE /\ used' = used /\ assigned' = assigned
               /\ parent'[p].ids = parent[p].ids
               /\ \A q \in Parents : q # p => parent'[q] = parent[q]
      BY <2>3 DEF IdsApart, HandedOut, Size
    <2> QED
      BY <1>2, <2>1, <2>2, <2>3, ParentIds
  <1> QED
    BY <1>1, <1>2

-----------------------------------------------------------------------------
(***************************************************************************)
(* The books stay right.                                                   *)
(***************************************************************************)
SpeaksNext(e) ==
    \A s \in Settled(e) :
        /\ HandedOut(s)'
        /\ IF e.status[s].state = SUCCESS THEN Counted(e.status[s]) = Size(s)'
           ELSE Counted(e.status[s]) >= Size(s)'

\* A row that spoke for its subtasks still does, whoever saves it now.
LEMMA SpeaksStays ==
    ASSUME TypeOK, IdsApart, [Next]_vars, NEW e, Speaks(e)
    PROVE  SpeaksNext(e)
  BY HandedOutStays DEF Speaks, SpeaksNext

\* on_failure touches no status.
LEMMA MarkFailedKeeps ==
    ASSUME NEW e \in Entry
    PROVE  MarkFailed(e).status = e.status /\ Settled(MarkFailed(e)) = Settled(e)
  BY DEF MarkFailed, Entry, Settled

\* A parent writes right books into the queue, and the row as it is right.
LEMMA BooksParent ==
    ASSUME TypeOK, Books, [Next]_vars, NEW p \in Parents, ParentStep(p) \/ ParentCrashes(p)
    PROVE  Books'
  <1>1. IdsApart' /\ \A s : HandedOut(s) => HandedOut(s)' /\ Size(s)' = Size(s)
    BY HandedOutStays DEF Books
  <1>2. \A e : Speaks(e) => SpeaksNext(e)
    BY SpeaksStays DEF Books
  <1>3. ASSUME UNCHANGED <<worker, sent>>,
               \A m \in queue' : m \in queue \/ (HandedOut(m.sid)' /\ Letter(m, Size(m.sid)')),
               SpeaksNext(entry'), \A q \in Parents : SpeaksNext(parent'[q].row)
        PROVE  Books'
    <2>1. \A m \in queue' : HandedOut(m.sid)' /\ Letter(m, Size(m.sid)')
      BY <1>1, <1>3 DEF Books
    <2>2. \A w \in Workers : Busy(w)' => InBooks(w)'
      BY <1>1, <1>3 DEF Books, Busy, InBooks, HandedOut, Size
    <2>3. OptoutsRespected'
      BY <1>3 DEF Books, OptoutsRespected
    <2> QED
      BY <1>1, <1>3, <2>1, <2>2, <2>3 DEF Books, Speaks, SpeaksNext
  <1>4. \A q \in Parents : SpeaksNext(parent[q].row) /\ SpeaksNext(entry)
    BY <1>2 DEF Books
  <1>5. CASE /\ ParentDefine(p) /\ UNCHANGED <<queue, worker, assigned, sent>>
             /\ \E ids \in SUBSET (SubtaskIds \ used) :
                   /\ entry' = InitializeSubtaskInfo(parent[p].total, ids)
                   /\ parent'[p].row = parent[p].row
                   /\ \A q \in Parents : q # p => parent'[q] = parent[q]
    <2>1. Settled(entry') = {}
      BY <1>5 DEF InitializeSubtaskInfo, Settled, NewStatus, NoStatus, StatusIn,
         READY_STATES, SUCCESS, FAILURE, UNKNOWN, QUEUING
    <2>2. SpeaksNext(entry')
      BY <2>1 DEF SpeaksNext
    <2> QED
      BY <1>3, <1>4, <1>5, <2>2
  <1>6. CASE /\ ParentQueueSubtask(p) /\ UNCHANGED <<entry, worker, used, sent>>
             /\ \E s \in parent[p].ids, chunk \in SUBSET Recipients, m \in Message :
                   /\ m.sid = s /\ m.to_list = chunk /\ m.status = NewStatus /\ m.retries = 0
                   /\ queue' = queue \cup {m}
                   /\ assigned' = [assigned EXCEPT ![s] = chunk]
                   /\ parent'[p].ids = parent[p].ids \ {s} /\ parent'[p].row = parent[p].row
                   /\ \A q \in Parents : q # p => parent'[q] = parent[q]
    <2>1. PICK s \in parent[p].ids, chunk \in SUBSET Recipients, m \in Message :
                   /\ m.sid = s /\ m.to_list = chunk /\ m.status = NewStatus /\ m.retries = 0
                   /\ queue' = queue \cup {m}
                   /\ assigned' = [assigned EXCEPT ![s] = chunk]
                   /\ parent'[p].ids = parent[p].ids \ {s} /\ parent'[p].row = parent[p].row
                   /\ \A q \in Parents : q # p => parent'[q] = parent[q]
      BY <1>6
    <2>2. HandedOut(s)'
      <3>1. s \in used /\ \A q \in Parents : q # p => s \notin parent[q].ids
        BY DEF Books, IdsApart
      <3> QED
        BY <1>6, <2>1, <3>1 DEF HandedOut
    <2>3. Size(s)' = Cardinality(chunk) /\ Cardinality(chunk) \in Nat
      <3>1. s \in SubtaskIds
        BY DEF TypeOK, ParentRun
      <3> QED
        BY <2>1, <3>1, SizesAreNat DEF Size, TypeOK
    <2>4. Letter(m, Size(s)')
      BY <2>1, <2>3, BoundsAssumption
      DEF Letter, NewStatus, StatusIn, Counted, RetryCount, LiveStates
    <2> QED
      BY <1>3, <1>4, <1>6, <2>1, <2>2, <2>4
  <1>7. CASE /\ UNCHANGED <<queue, worker, used, assigned, sent>>
             /\ entry' \in {entry, MarkFailed(parent[p].row)}
             /\ parent'[p].row \in {entry, parent[p].row}
             /\ \A q \in Parents : q # p => parent'[q] = parent[q]
    <2>1. parent[p].row \in Entry
      BY DEF TypeOK, ParentRun
    <2>2. SpeaksNext(MarkFailed(parent[p].row))
      BY <1>4, <2>1, MarkFailedKeeps DEF SpeaksNext
    <2> QED
      BY <1>3, <1>4, <1>7, <2>2
  <1> QED
    BY <1>5, <1>6, <1>7, ParentIds

\* The book of a message is the book of the execution it starts.
LEMMA BooksReceive ==
    ASSUME TypeOK, Books, [Next]_vars, NEW w \in Workers, Receive(w)
    PROVE  Books'
  <1>1. IdsApart' /\ \A s : HandedOut(s) => HandedOut(s)' /\ Size(s)' = Size(s)
    BY HandedOutStays DEF Books
  <1>2. PICK m \in queue :
           /\ queue' = queue \ {m}
           /\ worker' = [worker EXCEPT ![w] =
                 [pc |-> "check", sid |-> m.sid, to_list |-> m.to_list, status |-> m.status,
                  retries |-> m.retries, copy |-> m.copy, num |-> Cardinality(m.to_list),
                  frames |-> 0, phase |-> "final", raised |-> FALSE]]
    BY DEF Receive
  <1>3. /\ worker'[w].pc = "check" /\ worker'[w].sid = m.sid /\ worker'[w].status = m.status
        /\ worker'[w].to_list = m.to_list /\ worker'[w].retries = m.retries
        /\ worker'[w].num = Cardinality(m.to_list)
        /\ \A v \in Workers : v # w => worker'[v] = worker[v]
    BY <1>2 DEF TypeOK
  <1>4. HandedOut(m.sid) /\ Letter(m, Size(m.sid))
    BY DEF Books
  <1>5. Book(worker'[w], Size(m.sid))
    <2>1. CountsOf(worker'[w], Size(m.sid))
      <3>1. m.status.state \notin READY_STATES /\ Counted(m.status) + Cardinality(m.to_list) = Size(m.sid)
        BY <1>4 DEF Letter, LiveStates, READY_STATES, SUCCESS, FAILURE, QUEUING, RETRY
      <3>2. Counted(m.status) \in Nat /\ Cardinality(m.to_list) \in Nat
        BY SizesAreNat DEF TypeOK, Message, Status, Counted
      <3> QED
        BY <1>3, <3>1, <3>2 DEF CountsOf, READY_STATES
    <2>2. TriesOf(worker'[w]) /\ OptoutsOf(worker'[w])
      BY <1>3, <1>4 DEF TriesOf, OptoutsOf, Letter, Attempting, Retries, Ends, Filtered
    <2> QED
      BY <2>1, <2>2 DEF Book
  <1>6. \A v \in Workers : Busy(v)' => InBooks(v)'
    BY <1>1, <1>3, <1>4, <1>5 DEF Books, Busy, InBooks, HandedOut, Size
  <1>7. \A n \in queue' : HandedOut(n.sid)' /\ Letter(n, Size(n.sid)')
    BY <1>1, <1>2 DEF Books
  <1>8. UNCHANGED <<entry, parent, sent>>
    BY DEF Receive
  <1>9. SpeaksNext(entry) /\ \A p \in Parents : SpeaksNext(parent[p].row)
    BY SpeaksStays DEF Books
  <1> QED
    BY <1>1, <1>6, <1>7, <1>8, <1>9 DEF Books, Speaks, SpeaksNext, OptoutsRespected

\* Only UpdateStatus writes the row, only SendEmail sends.
LEMMA ExecutionFrame ==
    ASSUME TypeOK, NEW w \in Workers, AnyExecutionStep(w)
    PROVE  /\ Busy(w) /\ \A v \in Workers : v # w => worker'[v] = worker[v]
           /\ UNCHANGED <<parent, used, assigned>>
           /\ \/ entry' = entry
              \/ /\ UpdateStatus(w) /\ worker[w].pc = "update"
                 /\ ~UpdateFails(entry, worker[w].sid)
                 /\ entry' = UpdateSubtaskStatus(entry, worker[w].sid, worker[w].status)
           /\ \/ sent' = sent
              \/ /\ worker[w].pc = "send"
                 /\ \E r \in worker[w].to_list : sent' = [sent EXCEPT ![r] = @ + 1]
  <1>1. Busy(w) /\ \A v \in Workers : v # w => worker'[v] = worker[v]
    BY DEF AnyExecutionStep, Working, CheckSubtaskIsValid, AcquireSubtaskLock, StartSending,
       ConnectFails, EmailMissing, SendEmail, AddressFails, SendFails, AllSent, UpdateStatus,
       ReleaseSubtaskLock, Resubmit, ResubmitFails, UpdateTimesOut, CloseFails, WorkerCrashes, Busy,
       StepTo, TypeOK
  <1>2. UNCHANGED <<parent, used, assigned>>
    BY DEF AnyExecutionStep, Working, CheckSubtaskIsValid, AcquireSubtaskLock, StartSending,
       ConnectFails, EmailMissing, SendEmail, AddressFails, SendFails, AllSent, UpdateStatus,
       ReleaseSubtaskLock, Resubmit, ResubmitFails, UpdateTimesOut, CloseFails, WorkerCrashes
  <1>3. \/ entry' = entry
        \/ /\ UpdateStatus(w) /\ worker[w].pc = "update"
           /\ ~UpdateFails(entry, worker[w].sid)
           /\ entry' = UpdateSubtaskStatus(entry, worker[w].sid, worker[w].status)
    BY DEF AnyExecutionStep, Working, CheckSubtaskIsValid, AcquireSubtaskLock, StartSending,
       ConnectFails, EmailMissing, SendEmail, AddressFails, SendFails, AllSent, UpdateStatus,
       ReleaseSubtaskLock, Resubmit, ResubmitFails, UpdateTimesOut, CloseFails, WorkerCrashes
  <1>4. \/ sent' = sent
        \/ /\ worker[w].pc = "send"
           /\ \E r \in worker[w].to_list : sent' = [sent EXCEPT ![r] = @ + 1]
    BY DEF AnyExecutionStep, Working, CheckSubtaskIsValid, AcquireSubtaskLock, StartSending,
       ConnectFails, EmailMissing, SendEmail, AddressFails, SendFails, AllSent, UpdateStatus,
       ReleaseSubtaskLock, Resubmit, ResubmitFails, UpdateTimesOut, CloseFails, WorkerCrashes
  <1> QED
    BY <1>1, <1>2, <1>3, <1>4

\* An execution keeps its own book, and records it in the row.
LEMMA BooksExecution ==
    ASSUME TypeOK, Books, [Next]_vars, NEW w \in Workers, AnyExecutionStep(w)
    PROVE  Books'
  <1> DEFINE x == worker[w]
  <1>1. IdsApart' /\ \A s : HandedOut(s) => HandedOut(s)' /\ Size(s)' = Size(s)
    BY HandedOutStays DEF Books
  <1>2. /\ Busy(w) /\ \A v \in Workers : v # w => worker'[v] = worker[v]
        /\ UNCHANGED <<parent, used, assigned>>
    BY ExecutionFrame
  <1>3. x \in Execution /\ x.sid \in SubtaskIds /\ x.status \in Status /\ Size(x.sid) \in Nat
    <2>1. x \in Execution
      BY <1>2, WorkerType DEF Busy
    <2> QED
      BY <2>1, SizesAreNat DEF Execution, Size, TypeOK
  <1>4. HandedOut(x.sid) /\ Book(x, Size(x.sid))
    BY <1>2 DEF Books, InBooks
  <1>5. /\ Busy(w)' => worker'[w].sid = x.sid /\ Book(worker'[w], Size(x.sid))
        /\ \A m \in queue' : m \in queue \/ (m.sid = x.sid /\ Letter(m, Size(x.sid)))
    BY <1>3, <1>4, BookStep
  <1>6. \A m \in queue' : HandedOut(m.sid)' /\ Letter(m, Size(m.sid)')
    BY <1>1, <1>4, <1>5 DEF Books
  <1>7. \A v \in Workers : Busy(v)' => InBooks(v)'
    BY <1>1, <1>2, <1>4, <1>5 DEF Books, Busy, InBooks, HandedOut, Size
  <1>8. SpeaksNext(entry) /\ \A p \in Parents : SpeaksNext(parent[p].row)
    BY SpeaksStays DEF Books
  <1>9. SpeaksNext(entry')
    <2>1. CASE entry' = entry
      BY <1>8, <2>1
    <2>2. CASE /\ x.pc = "update"
               /\ entry' = UpdateSubtaskStatus(entry, x.sid, x.status)
      <3>1. entry'.status = [entry.status EXCEPT ![x.sid] = x.status]
        BY <1>3, <2>2 DEF UpdateSubtaskStatus, Recorded, TypeOK, Entry
      <3>2. /\ entry'.status[x.sid] = x.status
            /\ \A s \in SubtaskIds : s # x.sid => entry'.status[s] = entry.status[s]
        BY <1>3, <3>1 DEF TypeOK, Entry
      <3>3. ASSUME NEW s \in Settled(entry'), s # x.sid
            PROVE  /\ HandedOut(s)'
                   /\ IF entry'.status[s].state = SUCCESS THEN Counted(entry'.status[s]) = Size(s)'
                      ELSE Counted(entry'.status[s]) >= Size(s)'
        <4>1. s \in Settled(entry) /\ entry'.status[s] = entry.status[s]
          BY <3>2, <3>3 DEF Settled
        <4> QED
          BY <1>8, <4>1 DEF SpeaksNext
      <3>4. ASSUME x.status.state \in READY_STATES
            PROVE  IF x.status.state = SUCCESS THEN Counted(x.status) = Size(x.sid)
                   ELSE Counted(x.status) >= Size(x.sid)
        <4>1. Counted(x.status) \in Nat /\ Cardinality({}) = 0
          BY <1>3, FS_EmptySet DEF Counted, Status
        <4> QED
          BY <1>3, <1>4, <3>4, <4>1 DEF Book, CountsOf, READY_STATES, SUCCESS, FAILURE
      <3> QED
        BY <1>1, <1>4, <3>2, <3>3, <3>4 DEF SpeaksNext, Settled
    <2> QED
      BY <2>1, <2>2, ExecutionFrame
  <1>10. OptoutsRespected'
    <2>1. CASE sent' = sent
      BY <2>1 DEF Books, OptoutsRespected
    <2>2. CASE x.pc = "send" /\ \E r \in x.to_list : sent' = [sent EXCEPT ![r] = @ + 1]
      <3>1. Filtered(x)
        BY <1>4, <2>2 DEF Book, OptoutsOf
      <3> QED
        BY <2>2, <3>1, RecipientsAssumption DEF Books, OptoutsRespected, Filtered, TypeOK
    <2> QED
      BY <2>1, <2>2, ExecutionFrame
  <1> QED
    BY <1>1, <1>2, <1>6, <1>7, <1>8, <1>9, <1>10 DEF Books, Speaks, SpeaksNext

\* Every step keeps the books.
LEMMA BooksStep ==
    ASSUME TypeOK, Books, [Next]_vars
    PROVE  Books'
  <1>1. IdsApart' /\ \A s : HandedOut(s) => HandedOut(s)' /\ Size(s)' = Size(s)
    BY HandedOutStays DEF Books
  <1>2. ASSUME UNCHANGED <<entry, parent, worker, sent>>,
               \A m \in queue' : \E n \in queue : /\ m.sid = n.sid /\ m.status = n.status
                                                  /\ m.to_list = n.to_list /\ m.retries = n.retries
        PROVE  Books'
    <2>1. SpeaksNext(entry) /\ \A p \in Parents : SpeaksNext(parent[p].row)
      BY SpeaksStays DEF Books
    <2>2. \A m \in queue' : HandedOut(m.sid)' /\ Letter(m, Size(m.sid)')
      BY <1>1, <1>2 DEF Books, Letter
    <2>3. \A w \in Workers : Busy(w)' => InBooks(w)'
      BY <1>1, <1>2 DEF Books, Busy, InBooks, HandedOut, Size
    <2> QED
      BY <1>1, <1>2, <2>1, <2>2, <2>3 DEF Books, Speaks, SpeaksNext, OptoutsRespected
  <1>3. ASSUME NEW m \in queue, Redeliver(m) PROVE Books'
    <2>1. PICK c : c = [m EXCEPT !.copy = budget.redeliveries + 1]
      OBVIOUS
    <2>2. /\ c.sid = m.sid /\ c.status = m.status /\ c.to_list = m.to_list
          /\ c.retries = m.retries
      BY <2>1 DEF TypeOK, Message
    <2>3. queue' = queue \cup {c} /\ UNCHANGED <<entry, parent, worker, sent>>
      BY <1>3, <2>1 DEF Redeliver
    <2> QED
      BY <1>2, <2>2, <2>3
  <1>4. ASSUME UNCHANGED vars \/ EnrollmentChanges \/ \E s \in SubtaskIds : LockExpires(s)
        PROVE  Books'
    BY <1>2, <1>4 DEF vars, EnrollmentChanges, LockExpires
  <1> QED
    BY <1>3, <1>4, BooksParent, BooksReceive, BooksExecution DEF Next, AnyExecutionStep

\* The books are right where they are empty.
LEMMA BooksInit == Init => Books
  <1> SUFFICES ASSUME Init PROVE Books
    OBVIOUS
  <1>1. Settled(NewEntry) = {}
    BY DEF NewEntry, Settled, NoStatus, StatusIn, READY_STATES, SUCCESS, FAILURE, UNKNOWN
  <1>2. Speaks(entry) /\ \A p \in Parents : Speaks(parent[p].row)
    BY <1>1 DEF Init, Speaks
  <1>3. IdsApart /\ OptoutsRespected
    BY RecipientsAssumption DEF Init, IdsApart, OptoutsRespected
  <1> QED
    BY <1>2, <1>3 DEF Init, Books, Busy, Idle

\* The books of messages, executions and rows are right in every state.
THEOREM BooksAlwaysRight == Spec => []BooksInv
  <1>1. Init => BooksInv
    BY TypeInit, BooksInit DEF BooksInv
  <1>2. BooksInv /\ [Next]_vars => BooksInv'
    BY TypeStep, BooksStep DEF BooksInv
  <1> QED
    BY <1>1, <1>2, PTL DEF Spec

\* At every moment of every attempt the counters and the recipients left make up
\* the recipients the subtask was created for, unless the attempt gave up.
THEOREM NobodyForgottenAlways == Spec => []NobodyForgotten
  <1>1. BooksInv => NobodyForgotten
    BY DEF BooksInv, Books, InBooks, Letter, Book, CountsOf, Size, NobodyForgotten, Executions, Accounted
  <1> QED
    BY <1>1, BooksAlwaysRight, PTL

\* A subtask that the row records as done speaks for all its recipients, whatever
\* duplicates, lost updates, crashes and rows saved by two parents do.
THEOREM SettledAlwaysCountsEverybody == Spec => []SettledCountsEverybody
  <1>1. BooksInv => SettledCountsEverybody
    BY DEF BooksInv, Books, Speaks, Size, SettledCountsEverybody
  <1> QED
    BY <1>1, BooksAlwaysRight, PTL

\* Neither kind of retry exceeds its own maximum, though Celery's one count is
\* compared with limits that the other kind raises.
THEOREM RetriesAlwaysBounded == Spec => []RetriesBounded
  <1>1. BooksInv => RetriesBounded
    BY DEF BooksInv, Books, Letter, RetriesBounded
  <1> QED
    BY <1>1, BooksAlwaysRight, PTL

\* No email is sent to a user who opted out, on a retry or by a duplicate.
THEOREM OptoutsAlwaysRespected == Spec => []OptoutsRespected
  <1>1. BooksInv => OptoutsRespected
    BY DEF BooksInv, Books
  <1> QED
    BY <1>1, BooksAlwaysRight, PTL

-----------------------------------------------------------------------------
(***************************************************************************)
(* Where nothing doubles it (NoDoubling) every subtask is done once: its   *)
(* message is handed from the broker to a worker and back, and the one     *)
(* that writes down the end of the subtask is the last to hold it.  From   *)
(* this follows that the counters of the row are right.                    *)
(***************************************************************************)
\* A subtask that was handed out is held by one message or one execution.
OneHolder ==
    /\ \A p \in Parents : parent[p].ids \subseteq used
    /\ \A p, q \in Parents : p # q => parent[p].ids \cap parent[q].ids = {}
    /\ \A m \in queue : m.sid \in used /\ \A p \in Parents : m.sid \notin parent[p].ids
    /\ \A w \in Workers :
          Busy(w) => worker[w].sid \in used /\ \A p \in Parents : worker[w].sid \notin parent[p].ids
    /\ \A m, n \in queue : m.sid = n.sid => m = n
    /\ \A m \in queue, w \in Workers : Busy(w) => worker[w].sid # m.sid
    /\ \A v, w \in Workers : Busy(v) /\ Busy(w) /\ worker[v].sid = worker[w].sid => v = w

\* The status of an execution is as far as its phase says.
PhaseOf(x) ==
    /\ x.pc \in {"update", "release"} /\ x.phase \in {"final", "fail"}
          => x.status.state \in READY_STATES
    /\ x.pc \in {"update", "release"} /\ x.phase \notin {"final", "fail"} => x.status.state = RETRY
    /\ x.pc = "resubmit" => x.phase \notin {"final", "fail"}

\* All executions are as far as they say.
Phases == \A w \in Workers : Busy(w) => PhaseOf(worker[w])

\* An execution that only has to release the lock.
Leaving(x) == x.pc = "release" /\ ~x.raised /\ x.phase \in {"final", "fail"}

\* s is never worked on again.
Over(s) ==
    /\ s \in used /\ \A p \in Parents : s \notin parent[p].ids
    /\ \A m \in queue : m.sid # s
    /\ \A w \in Workers : Busy(w) /\ worker[w].sid = s => Leaving(worker[w])

\* The ids in the row's record of subtasks.
KnownIds(e) == {s \in SubtaskIds : Known(e, s)}

\* The counters of a row stand for its statuses.
Consistent(e) ==
    /\ e.nsucceeded + e.nfailed = Cardinality(Settled(e))
    /\ e.ntotal = Cardinality(KnownIds(e))
    /\ e.state = SUCCESS => KnownIds(e) \subseteq Settled(e)

\* The row itself, and the copy of it that on_failure is about to save.
Sound(e) == Consistent(e) /\ \A s \in Settled(e) : Over(s)

\* The row and the copies about to be saved over it are sound.
RowsSound ==
    /\ Sound(entry)
    /\ \A p \in Parents : parent[p].pc = "failing" => Sound(parent[p].row)

\* The inductive invariant.
OnceInv == TypeOK /\ (NoDoubling => OneHolder /\ Phases /\ RowsSound)

-----------------------------------------------------------------------------
(***************************************************************************)
(* Steps of an execution, by what they do to the subtasks and the lists.   *)
(***************************************************************************)
ExecutionStep(w) == Working(w) \/ UpdateTimesOut(w) \/ WorkerCrashes(w)

\* The execution goes on with the same subtask and no more recipients, or it
\* ends, and then may put the subtask back into the queue.
GoesOn(w) ==
    /\ Busy(w) /\ \A v \in Workers : v # w => worker'[v] = worker[v]
    /\ Busy(w)' => /\ worker'[w].sid = worker[w].sid
                   /\ worker'[w].to_list \subseteq worker[w].to_list
                   /\ queue' = queue
    /\ queue' # queue => \E m \in Message : /\ queue' = queue \cup {m}
                                            /\ m.sid = worker[w].sid
                                            /\ m.to_list = worker[w].to_list
                                            /\ worker[w].pc = "resubmit"
    /\ parent' = parent /\ used' = used /\ budget'.redeliveries = budget.redeliveries

\* An email goes to a recipient on the list, who leaves the list.
Sends(w) ==
    sent' # sent => \E r \in worker[w].to_list :
                       /\ sent' = [sent EXCEPT ![r] = @ + 1]
                       /\ worker'[w].to_list = worker[w].to_list \ {r} /\ Busy(w)'

\* Every step of an execution is of this kind.
LEMMA ExecutionStepIs ==
    ASSUME TypeOK, NEW w \in Workers, ExecutionStep(w)
    PROVE  GoesOn(w) /\ Sends(w)
  <1> DEFINE x == worker[w]
  <1>1. x \in Execution /\ Busy(w)
    BY WorkerType DEF ExecutionStep, Working, CheckSubtaskIsValid, AcquireSubtaskLock,
       StartSending, ConnectFails, EmailMissing, SendEmail, AddressFails, SendFails, AllSent,
       UpdateStatus, ReleaseSubtaskLock, Resubmit, ResubmitFails, UpdateTimesOut,
       WorkerCrashes, Busy
  <1>2. /\ x.sid \in SubtaskIds /\ x.to_list \in SUBSET Recipients /\ x.status \in Status
        /\ x.retries \in Nat /\ x.copy \in Nat
    BY <1>1 DEF Execution
  <1>3. ASSUME NEW y \in Execution \cup {Idle}, StepTo(w, y),
               y # Idle => y.sid = x.sid /\ y.to_list \subseteq x.to_list,
               queue' = queue, parent' = parent, used' = used,
               budget'.redeliveries = budget.redeliveries
        PROVE  GoesOn(w)
    BY <1>1, <1>3 DEF GoesOn, StepTo, TypeOK, Busy, Idle
  <1>4. /\ FilterOptouts(x) \in Execution
        /\ FilterOptouts(x).sid = x.sid /\ FilterOptouts(x).to_list \subseteq x.to_list
    BY <1>1, FilterType DEF FilterOptouts, Execution
  <1>5. ASSUME NEW z \in Execution, NEW kind \in {"ratelimit", "transient", "fatal"}
        PROVE  /\ OnError(z, kind) \in Execution
               /\ OnError(z, kind).sid = z.sid /\ OnError(z, kind).to_list = z.to_list
    <2>1. OnError(z, kind) \in Execution
      BY OnErrorType
    <2>2. CASE kind = "fatal"
      BY <2>1, <2>2 DEF OnError, Updating, Execution
    <2>3. CASE kind = "ratelimit"
      BY <2>1, <2>3 DEF OnError, Retrying, Updating, Execution
    <2>4. CASE kind = "transient"
      BY <2>1, <2>4 DEF OnError, Retrying, Updating, Execution
    <2> QED
      BY <2>2, <2>3, <2>4
  <1>6. /\ FailedUnexpectedly(x) \in Execution
        /\ FailedUnexpectedly(x).sid = x.sid /\ FailedUnexpectedly(x).to_list = x.to_list
    BY <1>1, FailedUnexpectedlyType DEF FailedUnexpectedly, Updating, Execution
  <1>7. ASSUME sent' = sent PROVE Sends(w)
    BY <1>7 DEF Sends
  <1>8. CASE CheckSubtaskIsValid(w)
    <2>1. [x EXCEPT !.pc = "lock"] \in Execution
      BY <1>1 DEF Execution
    <2> QED
      BY <1>1, <1>3, <1>7, <1>8, <2>1 DEF CheckSubtaskIsValid, StepTo, Execution
  <1>9. CASE AcquireSubtaskLock(w)
    <2>1. [x EXCEPT !.pc = "start"] \in Execution
      BY <1>1 DEF Execution
    <2> QED
      BY <1>1, <1>3, <1>7, <1>9, <2>1 DEF AcquireSubtaskLock, StepTo, Execution
  <1>10. CASE StartSending(w)
    <2>1. [FilterOptouts(x) EXCEPT !.pc = "send"] \in Execution
      BY <1>4 DEF Execution
    <2> QED
      BY <1>3, <1>4, <1>7, <1>10, <2>1 DEF StartSending, Execution
  <1>11. CASE ConnectFails(w)
    <2>1. PICK kind \in {"ratelimit", "transient", "fatal"} :
             StepTo(w, OnError(FilterOptouts(x), kind))
      BY <1>11 DEF ConnectFails
    <2> QED
      BY <1>3, <1>4, <1>5, <1>7, <1>11, <2>1 DEF ConnectFails
  <1>12. CASE EmailMissing(w)
    BY <1>3, <1>6, <1>7, <1>12 DEF EmailMissing
  <1>13. CASE SendEmail(w)
    <2>1. PICK r \in x.to_list :
             /\ StepTo(w, [x EXCEPT !.status.succeeded = @ + 1, !.to_list = @ \ {r}])
             /\ sent' = [sent EXCEPT ![r] = @ + 1]
      BY <1>13 DEF SendEmail
    <2>2. [x.status EXCEPT !.succeeded = @ + 1] \in Status
      <3>1. x.status.succeeded + 1 \in Nat
        BY <1>2 DEF Status
      <3> QED
        BY <1>2, <3>1 DEF Status
    <2>3. [x EXCEPT !.status.succeeded = @ + 1, !.to_list = @ \ {r}] \in Execution
      BY <1>1, <1>2, <2>2 DEF Execution
    <2>4. GoesOn(w)
      BY <1>1, <1>3, <1>13, <2>1, <2>3 DEF SendEmail, Execution
    <2>5. worker'[w] = [x EXCEPT !.status.succeeded = @ + 1, !.to_list = @ \ {r}]
      BY <2>1 DEF StepTo, TypeOK
    <2>6. worker'[w].to_list = x.to_list \ {r} /\ Busy(w)'
      BY <1>1, <2>5 DEF Busy, Execution
    <2> QED
      BY <2>1, <2>4, <2>6 DEF Sends
  <1>14. CASE AddressFails(w)
    <2>1. PICK r \in x.to_list :
             StepTo(w, [x EXCEPT !.status.failed = @ + 1, !.to_list = @ \ {r}])
      BY <1>14 DEF AddressFails
    <2>2. [x.status EXCEPT !.failed = @ + 1] \in Status
      <3>1. x.status.failed + 1 \in Nat
        BY <1>2 DEF Status
      <3> QED
        BY <1>2, <3>1 DEF Status
    <2>3. [x EXCEPT !.status.failed = @ + 1, !.to_list = @ \ {r}] \in Execution
      BY <1>1, <1>2, <2>2 DEF Execution
    <2> QED
      BY <1>1, <1>3, <1>7, <1>14, <2>1, <2>3 DEF AddressFails, Execution
  <1>15. CASE SendFails(w)
    <2>1. PICK kind \in {"ratelimit", "transient", "fatal"} : StepTo(w, OnError(x, kind))
      BY <1>15 DEF SendFails
    <2> QED
      BY <1>1, <1>3, <1>5, <1>7, <1>15, <2>1 DEF SendFails
  <1>16. CASE AllSent(w)
    <2>1. [x.status EXCEPT !.state = SUCCESS] \in Status
      BY <1>2 DEF Status, READY_STATES
    <2>2. Updating([x EXCEPT !.status.state = SUCCESS], "final") \in Execution
      BY <1>1, <2>1 DEF Updating, Execution
    <2> QED
      BY <1>1, <1>3, <1>7, <1>16, <2>2 DEF AllSent, Updating, Execution
  <1>17. CASE UpdateStatus(w)
    <2>1. UpdateFails(entry, x.sid) \in BOOLEAN
      BY DEF UpdateFails, Known
    <2>2. [x EXCEPT !.pc = "release", !.raised = UpdateFails(entry, x.sid)] \in Execution
      BY <1>1, <2>1 DEF Execution
    <2> QED
      BY <1>1, <1>3, <1>7, <1>17, <2>2 DEF UpdateStatus, Execution
  <1>18. CASE UpdateTimesOut(w)
    <2>1. x.frames + 1 \in Nat
      BY <1>1 DEF Execution
    <2>2. [x EXCEPT !.frames = @ + 1] \in Execution
      BY <1>1, <2>1 DEF Execution
    <2>3. [x EXCEPT !.pc = "release", !.raised = TRUE] \in Execution
      BY <1>1 DEF Execution
    <2>4. budget'.redeliveries = budget.redeliveries
      BY <1>18 DEF UpdateTimesOut, Spend, TypeOK
    <2>5. CASE x.frames < MaxDbRetries
      BY <1>1, <1>3, <1>7, <1>18, <2>2, <2>4, <2>5 DEF UpdateTimesOut, Execution
    <2>6. CASE ~(x.frames < MaxDbRetries)
      BY <1>1, <1>3, <1>7, <1>18, <2>3, <2>4, <2>6 DEF UpdateTimesOut, Execution
    <2> QED
      BY <2>5, <2>6
  <1>19. CASE ReleaseSubtaskLock(w)
    <2>1. CASE x.frames > 1
      <3>1. x.frames - 1 \in Nat
        BY <1>1, <2>1 DEF Execution
      <3>2. [x EXCEPT !.frames = @ - 1] \in Execution
        BY <1>1, <3>1 DEF Execution
      <3> QED
        BY <1>1, <1>3, <1>7, <1>19, <2>1, <3>2 DEF ReleaseSubtaskLock, Execution
    <2>2. CASE ~(x.frames > 1)
      <3>1. AfterUpdate(x) \in {Idle, FailedUnexpectedly(x), [x EXCEPT !.pc = "resubmit"]}
        BY DEF AfterUpdate
      <3>2. [x EXCEPT !.pc = "resubmit"] \in Execution
        BY <1>1 DEF Execution
      <3>3. /\ AfterUpdate(x) \in Execution \cup {Idle}
            /\ AfterUpdate(x) # Idle =>
                  AfterUpdate(x).sid = x.sid /\ AfterUpdate(x).to_list \subseteq x.to_list
        BY <1>1, <1>6, <3>1, <3>2 DEF Execution
      <3> QED
        BY <1>1, <1>3, <1>7, <1>19, <2>2, <3>3 DEF ReleaseSubtaskLock
    <2> QED
      BY <2>1, <2>2
  <1>20. CASE Resubmit(w)
    <2>1. PICK m : /\ m = [sid |-> x.sid, to_list |-> x.to_list, status |-> x.status,
                            retries |-> x.retries + 1, copy |-> x.copy]
                   /\ queue' = queue \cup {m}
      BY <1>20 DEF Resubmit, Retried
    <2>2. m \in Message /\ m.sid = x.sid /\ m.to_list = x.to_list
      BY <1>2, <2>1 DEF Message
    <2>3. ~Busy(w)' /\ \A v \in Workers : v # w => worker'[v] = worker[v]
      BY <1>20 DEF Resubmit, StepTo, Busy, Idle, TypeOK
    <2> QED
      BY <1>1, <1>7, <1>20, <2>1, <2>2, <2>3 DEF Resubmit, GoesOn
  <1>21. CASE ResubmitFails(w)
    BY <1>3, <1>6, <1>7, <1>21 DEF ResubmitFails
  <1>22. CASE WorkerCrashes(w)
    <2>1. budget'.redeliveries = budget.redeliveries
      BY <1>22 DEF WorkerCrashes, Spend, TypeOK
    <2> QED
      BY <1>3, <1>7, <1>22, <2>1 DEF WorkerCrashes
  <1> QED
    BY <1>8, <1>9, <1>10, <1>11, <1>12, <1>13, <1>14, <1>15, <1>16, <1>17, <1>18, <1>19,
       <1>20, <1>21, <1>22
    DEF ExecutionStep, Working

-----------------------------------------------------------------------------
(***************************************************************************)
(* One holder per subtask.                                                 *)
(***************************************************************************)
\* What a step is, once a redelivery is ruled out.
LEMMA NextCases ==
    ASSUME TypeOK, [Next]_vars, NoDoubling'
    PROVE  \/ \E p \in Parents : ParentStep(p) \/ ParentCrashes(p)
           \/ \E w \in Workers : Receive(w) \/ ExecutionStep(w)
           \/ UNCHANGED <<entry, parent, queue, worker, used, assigned, sent>> /\ NoDoubling
  <1>1. ASSUME NEW m \in queue, Redeliver(m) PROVE FALSE
    BY <1>1 DEF TypeOK, Redeliver, Spend, NoDoubling
  <1>2. ASSUME NEW s \in SubtaskIds, LockExpires(s)
        PROVE  UNCHANGED <<entry, parent, queue, worker, used, assigned, sent>> /\ NoDoubling
    BY <1>2 DEF LockExpires, NoDoubling
  <1>3. ASSUME EnrollmentChanges
        PROVE  UNCHANGED <<entry, parent, queue, worker, used, assigned, sent>> /\ NoDoubling
    BY <1>3 DEF EnrollmentChanges, Spend, NoDoubling, TypeOK
  <1>4. CASE UNCHANGED vars
    BY <1>4 DEF vars, NoDoubling
  <1>5. ASSUME NEW w \in Workers, CloseFails(w) PROVE FALSE
    BY <1>5 DEF CloseFails, NoDoubling
  <1>6. CASE Next
    BY <1>1, <1>2, <1>3, <1>5, <1>6 DEF Next, ExecutionStep
  <1> QED
    BY <1>4, <1>6

\* A redelivery is never undone.
LEMMA RedeliveryStays ==
    ASSUME TypeOK, [Next]_vars, NoDoubling'
    PROVE  NoDoubling
  <1>1. ASSUME NEW p \in Parents, ParentStep(p) \/ ParentCrashes(p) PROVE NoDoubling
    BY <1>1 DEF ParentStep, ParentRead, ParentDefine, ParentFetch, ParentQueueSubtask,
       ParentRaises, ParentDone, ParentFailRead, ParentFailSave, ParentCrashes, Spend,
       NoDoubling, TypeOK
  <1>2. ASSUME NEW w \in Workers, Receive(w) PROVE NoDoubling
    BY <1>2 DEF Receive, NoDoubling
  <1>3. ASSUME NEW w \in Workers, ExecutionStep(w) PROVE NoDoubling
    BY <1>3, ExecutionStepIs DEF GoesOn, NoDoubling
  <1> QED
    BY <1>1, <1>2, <1>3, NextCases

\* A parent step hands out a subtask, draws new ids, or touches neither.
LEMMA HolderParent ==
    ASSUME TypeOK, OneHolder, NEW p \in Parents, ParentStep(p) \/ ParentCrashes(p)
    PROVE  OneHolder'
  <1>1. ASSUME queue' = queue, worker' = worker, used' = used,
               \A q \in Parents : parent'[q].ids = parent[q].ids
        PROVE  OneHolder'
    BY <1>1 DEF OneHolder, Busy
  <1>2. CASE ParentDefine(p)
    <2>1. PICK ids \in SUBSET (SubtaskIds \ used) :
             /\ used' = used \cup ids
             /\ parent' = [parent EXCEPT ![p].pc = "fetch", ![p].ids = ids, ![p].wrote = TRUE]
      BY <1>2 DEF ParentDefine
    <2>2. /\ parent'[p].ids = ids
          /\ \A q \in Parents : q # p => parent'[q].ids = parent[q].ids
      BY <2>1 DEF TypeOK, ParentRun
    <2>3. queue' = queue /\ worker' = worker
      BY <1>2 DEF ParentDefine
    <2> QED
      BY <2>1, <2>2, <2>3 DEF OneHolder, Busy
  <1>3. CASE ParentQueueSubtask(p)
    <2>1. PICK s \in parent[p].ids, chunk \in SUBSET parent[p].todo :
             /\ queue' = queue \cup {[sid |-> s, to_list |-> chunk, status |-> NewStatus,
                                      retries |-> 0, copy |-> 0]}
             /\ parent' = [parent EXCEPT ![p].ids = @ \ {s}, ![p].todo = @ \ chunk]
      BY <1>3 DEF ParentQueueSubtask
    <2>2. PICK m : m.sid = s /\ queue' = queue \cup {m}
      BY <2>1
    <2>3. /\ parent'[p].ids = parent[p].ids \ {s}
          /\ \A q \in Parents : q # p => parent'[q].ids = parent[q].ids
      BY <2>1 DEF TypeOK, ParentRun
    <2>4. used' = used /\ worker' = worker
      BY <1>3 DEF ParentQueueSubtask
    <2>5. /\ s \in used /\ \A q \in Parents : s \notin parent'[q].ids
          /\ \A n \in queue : n.sid # s
          /\ \A w \in Workers : Busy(w) => worker[w].sid # s
      BY <2>1, <2>3 DEF OneHolder
    <2>6. \A q \in Parents : parent'[q].ids \subseteq parent[q].ids
      BY <2>3
    <2> QED
      BY <2>2, <2>4, <2>5, <2>6 DEF OneHolder, Busy
  <1>4. CASE ParentRead(p)
    BY <1>1, <1>4 DEF ParentRead, TypeOK, ParentRun
  <1>5. CASE ParentFetch(p) \/ ParentRaises(p) \/ ParentDone(p) \/ ParentFailRead(p)
             \/ ParentFailSave(p) \/ ParentCrashes(p)
    BY <1>1, <1>5 DEF ParentFetch, ParentRaises, ParentDone, ParentFailRead,
       ParentFailSave, ParentCrashes, TypeOK, ParentRun
  <1> QED
    BY <1>2, <1>3, <1>4, <1>5 DEF ParentStep

\* A message goes to one execution.
LEMMA ReceiveIs ==
    ASSUME TypeOK, NEW w \in Workers, Receive(w)
    PROVE  \E m \in queue :
              /\ queue' = queue \ {m} /\ ~Busy(w) /\ Busy(w)'
              /\ worker'[w].sid = m.sid /\ worker'[w].to_list = m.to_list
              /\ worker'[w].pc = "check"
              /\ \A v \in Workers : v # w => worker'[v] = worker[v]
              /\ UNCHANGED <<entry, parent, used, assigned, sent>> /\ budget' = budget
  BY DEF Receive, TypeOK, Busy

\* The message and the execution it starts are one holder ...
LEMMA HolderReceive ==
    ASSUME TypeOK, OneHolder, NEW w \in Workers, Receive(w)
    PROVE  OneHolder'
  <1>1. PICK m \in queue :
              /\ queue' = queue \ {m} /\ Busy(w)'
              /\ worker'[w].sid = m.sid
              /\ \A v \in Workers : v # w => worker'[v] = worker[v]
              /\ parent' = parent /\ used' = used
    BY ReceiveIs
  <1>2. \A v \in Workers : v # w /\ Busy(v)' => Busy(v) /\ worker'[v].sid = worker[v].sid
    BY <1>1 DEF Busy
  <1> QED
    BY <1>1, <1>2 DEF OneHolder

\* ... as are the execution and the message it resubmits.
LEMMA HolderExecution ==
    ASSUME TypeOK, OneHolder, NEW w \in Workers, ExecutionStep(w)
    PROVE  OneHolder'
  <1>1. GoesOn(w)
    BY ExecutionStepIs
  <1>2. \A v \in Workers : Busy(v)' => Busy(v) /\ worker'[v].sid = worker[v].sid
    BY <1>1 DEF GoesOn, Busy
  <1>3. parent' = parent /\ used' = used
    BY <1>1 DEF GoesOn
  <1>4. CASE queue' = queue
    BY <1>2, <1>3, <1>4 DEF OneHolder
  <1>5. CASE queue' # queue
    <2>1. PICK m : queue' = queue \cup {m} /\ m.sid = worker[w].sid
      BY <1>1, <1>5 DEF GoesOn
    <2>2. Busy(w) /\ ~Busy(w)'
      BY <1>1, <1>5 DEF GoesOn
    <2> QED
      BY <1>2, <1>3, <2>1, <2>2 DEF OneHolder
  <1> QED
    BY <1>4, <1>5

\* Every step keeps the subtasks in one hand.
LEMMA HolderStep ==
    ASSUME TypeOK, OneHolder, [Next]_vars, NoDoubling'
    PROVE  OneHolder'
  <1>1. ASSUME UNCHANGED <<entry, parent, queue, worker, used, assigned, sent>>
        PROVE  OneHolder'
    BY <1>1 DEF OneHolder, Busy
  <1> QED
    BY <1>1, NextCases, HolderParent, HolderReceive, HolderExecution

-----------------------------------------------------------------------------
(***************************************************************************)
(* Phases of an execution.                                                 *)
(***************************************************************************)
\* A status about to be written is final in the final phases and RETRY in the
\* others, and an execution that is leaving can only leave.
LEMMA PhaseExecution ==
    ASSUME TypeOK, NEW w \in Workers, PhaseOf(worker[w]), ExecutionStep(w), Busy(w)'
    PROVE  PhaseOf(worker'[w]) /\ (Leaving(worker[w]) => Leaving(worker'[w]))
  <1> DEFINE x == worker[w]
  <1>1. x \in Execution
    BY ExecutionStepIs, WorkerType DEF GoesOn, Busy
  <1>2. \A y : StepTo(w, y) => worker'[w] = y
    BY DEF StepTo, TypeOK
  <1>3. ASSUME NEW z \in Execution
        PROVE  PhaseOf(FailedUnexpectedly(z))
    BY DEF FailedUnexpectedly, Updating, Fail, PhaseOf, Execution, Status, READY_STATES
  <1>4. ASSUME NEW z \in Execution, NEW kind \in {"ratelimit", "transient", "fatal"}
        PROVE  PhaseOf(OnError(z, kind))
    <2>1. CASE kind = "fatal"
      BY <2>1 DEF OnError, Updating, Fail, PhaseOf, Execution, Status, READY_STATES
    <2>2. CASE kind = "ratelimit"
      BY <2>2 DEF OnError, Retrying, Updating, PhaseOf, Execution, Status
    <2>3. CASE kind = "transient"
      BY <2>3 DEF OnError, Retrying, Updating, PhaseOf, Execution, Status
    <2> QED
      BY <2>1, <2>2, <2>3
  <1>5. FilterOptouts(x) \in Execution
    BY <1>1, FilterType
  <1>6. CASE CheckSubtaskIsValid(w)
    <2>1. x.pc = "check" /\ StepTo(w, IF RejectsSubtask(entry, x.sid, x.status) THEN Idle
                                       ELSE [x EXCEPT !.pc = "lock"])
      BY <1>6 DEF CheckSubtaskIsValid, StepTo
    <2> QED
      BY <1>1, <1>2, <2>1 DEF Busy, Idle, PhaseOf, Leaving, Execution
  <1>7. CASE AcquireSubtaskLock(w)
    <2>1. x.pc = "lock" /\ StepTo(w, IF x.sid \in lock THEN Idle
                                      ELSE [x EXCEPT !.pc = "start"])
      BY <1>7 DEF AcquireSubtaskLock, StepTo
    <2> QED
      BY <1>1, <1>2, <2>1 DEF Busy, Idle, PhaseOf, Leaving, Execution
  <1>8. CASE StartSending(w)
    <2>1. x.pc = "start" /\ worker'[w] = [FilterOptouts(x) EXCEPT !.pc = "send"]
      BY <1>2, <1>8 DEF StartSending
    <2> QED
      BY <1>5, <2>1 DEF PhaseOf, Leaving, Execution
  <1>9. CASE ConnectFails(w)
    <2>1. x.pc = "start" /\ \E kind \in {"ratelimit", "transient", "fatal"} :
                               worker'[w] = OnError(FilterOptouts(x), kind)
      BY <1>2, <1>9 DEF ConnectFails
    <2> QED
      BY <1>4, <1>5, <2>1 DEF Leaving
  <1>10. CASE EmailMissing(w)
    BY <1>1, <1>2, <1>3, <1>10 DEF EmailMissing, Leaving
  <1>11. CASE SendEmail(w)
    <2>1. x.pc = "send" /\ \E r \in x.to_list :
             worker'[w] = [x EXCEPT !.status.succeeded = @ + 1, !.to_list = @ \ {r}]
      BY <1>2, <1>11 DEF SendEmail
    <2> QED
      BY <1>1, <2>1 DEF PhaseOf, Leaving, Execution
  <1>12. CASE AddressFails(w)
    <2>1. x.pc = "send" /\ \E r \in x.to_list :
             worker'[w] = [x EXCEPT !.status.failed = @ + 1, !.to_list = @ \ {r}]
      BY <1>2, <1>12 DEF AddressFails
    <2> QED
      BY <1>1, <2>1 DEF PhaseOf, Leaving, Execution
  <1>13. CASE SendFails(w)
    <2>1. x.pc = "send" /\ \E kind \in {"ratelimit", "transient", "fatal"} :
                              worker'[w] = OnError(x, kind)
      BY <1>2, <1>13 DEF SendFails
    <2> QED
      BY <1>1, <1>4, <2>1 DEF Leaving
  <1>14. CASE AllSent(w)
    <2>1. x.pc = "send" /\ worker'[w] = Updating([x EXCEPT !.status.state = SUCCESS], "final")
      BY <1>2, <1>14 DEF AllSent
    <2> QED
      BY <1>1, <2>1 DEF Updating, PhaseOf, Leaving, Execution, Status, READY_STATES
  <1>15. CASE UpdateStatus(w)
    <2>1. x.pc = "update"
          /\ worker'[w] = [x EXCEPT !.pc = "release", !.raised = UpdateFails(entry, x.sid)]
      BY <1>2, <1>15 DEF UpdateStatus
    <2> QED
      BY <1>1, <2>1 DEF PhaseOf, Leaving, Execution
  <1>16. CASE UpdateTimesOut(w)
    <2>1. x.pc = "update" /\ worker'[w] \in {[x EXCEPT !.frames = @ + 1],
                                             [x EXCEPT !.pc = "release", !.raised = TRUE]}
      BY <1>2, <1>16 DEF UpdateTimesOut
    <2> QED
      BY <1>1, <2>1 DEF PhaseOf, Leaving, Execution
  <1>17. CASE ReleaseSubtaskLock(w)
    <2>1. x.pc = "release" /\ StepTo(w, IF x.frames > 1 THEN [x EXCEPT !.frames = @ - 1]
                                         ELSE AfterUpdate(x))
      BY <1>17 DEF ReleaseSubtaskLock
    <2>2. CASE x.frames > 1
      BY <1>1, <1>2, <2>1, <2>2 DEF PhaseOf, Leaving, Execution
    <2>3. CASE ~(x.frames > 1)
      <3>1. worker'[w] = AfterUpdate(x) /\ worker'[w].pc # "idle"
        BY <1>2, <2>1, <2>3 DEF Busy
      <3>2. x.phase \notin {"final", "fail"}
        BY <3>1 DEF AfterUpdate, Idle
      <3>3. worker'[w] \in {FailedUnexpectedly(x), [x EXCEPT !.pc = "resubmit"]}
        BY <3>1, <3>2 DEF AfterUpdate
      <3>4. PhaseOf([x EXCEPT !.pc = "resubmit"])
        BY <1>1, <3>2 DEF PhaseOf, Execution
      <3> QED
        BY <1>1, <1>3, <3>2, <3>3, <3>4 DEF Leaving
    <2> QED
      BY <2>2, <2>3
  <1>18. CASE Resubmit(w) \/ WorkerCrashes(w)
    BY <1>2, <1>18 DEF Resubmit, WorkerCrashes, Busy, Idle
  <1>19. CASE ResubmitFails(w)
    BY <1>1, <1>2, <1>3, <1>19 DEF ResubmitFails, Leaving
  <1> QED
    BY <1>6, <1>7, <1>8, <1>9, <1>10, <1>11, <1>12, <1>13, <1>14, <1>15, <1>16, <1>17, <1>18,
       <1>19
    DEF ExecutionStep, Working

\* Every step keeps the executions as far as they say.
LEMMA PhaseStep ==
    ASSUME TypeOK, Phases, [Next]_vars, NoDoubling'
    PROVE  Phases'
  <1>1. ASSUME NEW p \in Parents, ParentStep(p) \/ ParentCrashes(p) PROVE worker' = worker
    BY <1>1 DEF ParentStep, ParentRead, ParentDefine, ParentFetch, ParentQueueSubtask,
       ParentRaises, ParentDone, ParentFailRead, ParentFailSave, ParentCrashes
  <1>2. ASSUME NEW w \in Workers, Receive(w) PROVE Phases'
    BY <1>2, ReceiveIs DEF Phases, PhaseOf, Busy
  <1>3. ASSUME NEW w \in Workers, ExecutionStep(w) PROVE Phases'
    BY <1>3, ExecutionStepIs, PhaseExecution DEF GoesOn, Phases, Busy
  <1>4. worker' = worker => Phases'
    BY DEF Phases, Busy
  <1> QED
    BY <1>1, <1>2, <1>3, <1>4, NextCases

-----------------------------------------------------------------------------
(***************************************************************************)
(* The counters of the row.                                                *)
(***************************************************************************)
LEMMA ConsistentNew ==
    ASSUME NEW e, e.nsucceeded = 0, e.nfailed = 0, e.ntotal = Cardinality(KnownIds(e)),
           e.state # SUCCESS, Settled(e) = {}
    PROVE  Consistent(e)
  BY FS_EmptySet DEF Consistent

\* Recording a subtask that is known and not done keeps the counters right and
\* finishes the task just when no other is left.
LEMMA ConsistentUpdate ==
    ASSUME NEW e \in Entry, NEW s \in SubtaskIds, NEW st \in Status, Consistent(e),
           Known(e, s), s \notin Settled(e), st.state \in READY_STATES \cup {RETRY}
    PROVE  /\ Consistent(UpdateSubtaskStatus(e, s, st))
           /\ Settled(UpdateSubtaskStatus(e, s, st))
                 = IF st.state = RETRY THEN Settled(e) ELSE Settled(e) \cup {s}
  <1> DEFINE u == UpdateSubtaskStatus(e, s, st)
             nsucc == e.nsucceeded + One(st.state = SUCCESS)
             nfail == e.nfailed + One(st.state = FAILURE)
  <1>1. /\ u.status = [e.status EXCEPT ![s] = st]
        /\ u.nsucceeded = nsucc /\ u.nfailed = nfail /\ u.ntotal = e.ntotal
        /\ u.state = IF nsucc + nfail >= e.ntotal THEN SUCCESS ELSE e.state
    BY DEF UpdateSubtaskStatus, Recorded, Entry
  <1>2. /\ u.status[s] = st
        /\ \A t \in SubtaskIds : t # s => u.status[t] = e.status[t]
    BY <1>1 DEF Entry
  <1>3. Settled(u) = IF st.state = RETRY THEN Settled(e) ELSE Settled(e) \cup {s}
    BY <1>2 DEF Settled, READY_STATES, SUCCESS, FAILURE, RETRY
  <1>4. KnownIds(u) = KnownIds(e)
    BY <1>2 DEF KnownIds, Known, READY_STATES, SUCCESS, FAILURE, RETRY, UNKNOWN
  <1>5. /\ Settled(u) \in SUBSET KnownIds(u) /\ KnownIds(u) \in SUBSET SubtaskIds
        /\ Settled(e) \in SUBSET SubtaskIds
    BY DEF Settled, KnownIds, Known, READY_STATES, SUCCESS, FAILURE, UNKNOWN
  <1>6. /\ IsFiniteSet(Settled(e)) /\ Cardinality(Settled(e)) \in Nat
        /\ IsFiniteSet(KnownIds(u)) /\ Cardinality(KnownIds(u)) \in Nat
        /\ IsFiniteSet(Settled(u)) /\ Cardinality(Settled(u)) \in Nat
    BY <1>5, SizesAreNat
  <1>7. nsucc + nfail = Cardinality(Settled(u))
    <2>1. e.nsucceeded + e.nfailed = Cardinality(Settled(e))
      BY DEF Consistent
    <2>2. e.nsucceeded \in Nat /\ e.nfailed \in Nat
      BY DEF Entry
    <2>3. CASE st.state = RETRY
      BY <1>3, <1>6, <2>1, <2>2, <2>3 DEF One, SUCCESS, FAILURE, RETRY
    <2>4. CASE st.state # RETRY
      <3>1. Cardinality(Settled(u)) = Cardinality(Settled(e)) + 1
        BY <1>3, <1>6, <2>4, FS_AddElement
      <3>2. One(st.state = SUCCESS) + One(st.state = FAILURE) = 1
        BY <2>4 DEF One, READY_STATES, SUCCESS, FAILURE, RETRY
      <3>3. One(st.state = SUCCESS) \in Nat /\ One(st.state = FAILURE) \in Nat
        BY DEF One
      <3> QED
        BY <2>1, <2>2, <3>1, <3>2, <3>3, <1>6
    <2> QED
      BY <2>3, <2>4
  <1>8. u.ntotal = Cardinality(KnownIds(u))
    BY <1>1, <1>4 DEF Consistent
  <1>9. ASSUME u.state = SUCCESS PROVE KnownIds(u) \subseteq Settled(u)
    <2>1. CASE nsucc + nfail >= e.ntotal
      <3>1. Cardinality(Settled(u)) >= Cardinality(KnownIds(u))
        BY <1>1, <1>7, <1>8, <2>1
      <3>2. Settled(u) = KnownIds(u)
        BY <1>5, <1>6, <3>1, FS_Subset
      <3> QED
        BY <3>2
    <2>2. CASE ~(nsucc + nfail >= e.ntotal)
      <3>1. e.state = SUCCESS
        BY <1>1, <1>9, <2>2
      <3>2. KnownIds(e) \subseteq Settled(e)
        BY <3>1 DEF Consistent
      <3> QED
        BY <1>3, <1>4, <3>2
    <2> QED
      BY <2>1, <2>2
  <1> QED
    BY <1>1, <1>3, <1>7, <1>8, <1>9 DEF Consistent

\* What on_failure writes has the counters of what it read.
LEMMA ConsistentFailed ==
    ASSUME NEW e \in Entry, Consistent(e)
    PROVE  Consistent(MarkFailed(e)) /\ Settled(MarkFailed(e)) = Settled(e)
  <1> DEFINE f == MarkFailed(e)
  <1>1. /\ f.status = e.status /\ f.state = FAILURE /\ f.ntotal = e.ntotal
        /\ f.nsucceeded = e.nsucceeded /\ f.nfailed = e.nfailed
    BY DEF MarkFailed, Entry
  <1>2. Settled(f) = Settled(e) /\ KnownIds(f) = KnownIds(e)
    BY <1>1 DEF Settled, KnownIds, Known
  <1> QED
    BY <1>1, <1>2 DEF Consistent, FAILURE, SUCCESS

-----------------------------------------------------------------------------
(***************************************************************************)
(* What is over stays over.                                                *)
(***************************************************************************)
LEMMA OverStep ==
    ASSUME TypeOK, OneHolder, Phases, [Next]_vars, NoDoubling', NEW s, Over(s)
    PROVE  Over(s)'
  <1>1. CASE UNCHANGED <<entry, parent, queue, worker, used, assigned, sent>>
    BY <1>1 DEF Over, Busy
  <1>2. ASSUME NEW p \in Parents, ParentStep(p) \/ ParentCrashes(p) PROVE Over(s)'
    <2>1. ASSUME queue' = queue, worker' = worker, used' = used,
                 \A q \in Parents : parent'[q].ids = parent[q].ids
          PROVE  Over(s)'
      BY <2>1 DEF Over, Busy
    <2>2. CASE ParentDefine(p)
      <3>1. PICK ids \in SUBSET (SubtaskIds \ used) :
               /\ used' = used \cup ids
               /\ parent' = [parent EXCEPT ![p].pc = "fetch", ![p].ids = ids, ![p].wrote = TRUE]
        BY <2>2 DEF ParentDefine
      <3>2. /\ parent'[p].ids = ids
            /\ \A q \in Parents : q # p => parent'[q].ids = parent[q].ids
        BY <3>1 DEF TypeOK, ParentRun
      <3>3. queue' = queue /\ worker' = worker
        BY <2>2 DEF ParentDefine
      <3> QED
        BY <3>1, <3>2, <3>3 DEF Over, Busy
    <2>3. CASE ParentQueueSubtask(p)
      <3>1. PICK t \in parent[p].ids, chunk \in SUBSET parent[p].todo :
               /\ queue' = queue \cup {[sid |-> t, to_list |-> chunk, status |-> NewStatus,
                                        retries |-> 0, copy |-> 0]}
               /\ parent' = [parent EXCEPT ![p].ids = @ \ {t}, ![p].todo = @ \ chunk]
        BY <2>3 DEF ParentQueueSubtask
      <3>2. PICK m : m.sid = t /\ queue' = queue \cup {m}
        BY <3>1
      <3>3. \A q \in Parents : parent'[q].ids \subseteq parent[q].ids
        BY <3>1 DEF TypeOK, ParentRun
      <3>4. used' = used /\ worker' = worker
        BY <2>3 DEF ParentQueueSubtask
      <3> QED
        BY <3>1, <3>2, <3>3, <3>4 DEF Over, Busy
    <2>4. CASE ParentRead(p)
      BY <2>1, <2>4 DEF ParentRead, TypeOK, ParentRun
    <2>5. CASE ParentFetch(p) \/ ParentRaises(p) \/ ParentDone(p) \/ ParentFailRead(p)
               \/ ParentFailSave(p) \/ ParentCrashes(p)
      BY <2>1, <2>5 DEF ParentFetch, ParentRaises, ParentDone, ParentFailRead,
         ParentFailSave, ParentCrashes, TypeOK, ParentRun
    <2> QED
      BY <1>2, <2>2, <2>3, <2>4, <2>5 DEF ParentStep
  <1>3. ASSUME NEW w \in Workers, Receive(w) PROVE Over(s)'
    <2>1. PICK m \in queue :
              /\ queue' = queue \ {m} /\ worker'[w].sid = m.sid
              /\ \A v \in Workers : v # w => worker'[v] = worker[v]
              /\ parent' = parent /\ used' = used
      BY <1>3, ReceiveIs
    <2> QED
      BY <2>1 DEF Over, Busy
  <1>4. ASSUME NEW w \in Workers, ExecutionStep(w) PROVE Over(s)'
    <2>1. GoesOn(w)
      BY <1>4, ExecutionStepIs
    <2>2. Busy(w) /\ PhaseOf(worker[w])
      BY <2>1 DEF GoesOn, Phases
    <2>3. /\ parent' = parent /\ used' = used
          /\ \A v \in Workers : v # w => worker'[v] = worker[v]
          /\ Busy(w)' => worker'[w].sid = worker[w].sid
      BY <2>1 DEF GoesOn
    <2>4. CASE worker[w].sid = s
      <3>1. Leaving(worker[w])
        BY <2>2, <2>4 DEF Over
      <3>2. queue' = queue
        BY <2>1, <3>1 DEF GoesOn, Leaving
      <3>3. Busy(w)' => Leaving(worker'[w])
        BY <1>4, <2>2, <3>1, PhaseExecution
      <3> QED
        BY <2>3, <3>2, <3>3 DEF Over, Busy
    <2>5. CASE worker[w].sid # s
      <3>1. \A m \in queue' : m \in queue \/ m.sid # s
        BY <2>1, <2>5 DEF GoesOn
      <3> QED
        BY <2>3, <2>5, <3>1 DEF Over, Busy
    <2> QED
      BY <2>4, <2>5
  <1> QED
    BY <1>1, <1>2, <1>3, <1>4, NextCases

\* A row that does not change stays sound.
LEMMA SoundStays ==
    ASSUME TypeOK, OneHolder, Phases, [Next]_vars, NoDoubling', NEW e, NEW f, Sound(e),
           Consistent(f), Settled(f) = Settled(e)
    PROVE  Consistent(f) /\ \A s \in Settled(f) : Over(s)'
  BY OverStep DEF Sound

\* The subtask whose status is being written is not over, and is once its
\* final status has been written.
LEMMA SoundUpdate ==
    ASSUME TypeOK, OneHolder, Phases, [Next]_vars, NoDoubling', Sound(entry),
           NEW w \in Workers, UpdateStatus(w)
    PROVE  Consistent(entry') /\ \A s \in Settled(entry') : Over(s)'
  <1> DEFINE x == worker[w]
  <1>1. x \in Execution /\ Busy(w) /\ x.pc = "update"
    BY WorkerType DEF UpdateStatus, Busy
  <1>2. x.sid \in SubtaskIds /\ x.status \in Status
    BY <1>1 DEF Execution
  <1>3. CASE UpdateFails(entry, x.sid)
    <2>1. entry' = entry
      BY <1>3 DEF UpdateStatus
    <2> QED
      BY <2>1, SoundStays DEF Sound
  <1>4. CASE ~UpdateFails(entry, x.sid)
    <2>1. /\ entry' = UpdateSubtaskStatus(entry, x.sid, x.status)
          /\ worker'[w] = [x EXCEPT !.pc = "release", !.raised = FALSE]
          /\ \A v \in Workers : v # w => worker'[v] = worker[v]
          /\ queue' = queue /\ parent' = parent /\ used' = used
      <3>1. UpdateFails(entry, x.sid) = FALSE
        BY <1>4 DEF UpdateFails, Known
      <3> QED
        BY <1>4, <3>1 DEF UpdateStatus, StepTo, TypeOK
    <2>2. x.sid \notin Settled(entry)
      BY <1>1 DEF Sound, Over, Leaving
    <2>3. PhaseOf(x)
      BY <1>1 DEF Phases
    <2>4. x.status.state \in READY_STATES \cup {RETRY}
      BY <1>1, <2>3 DEF PhaseOf
    <2>5. /\ Consistent(entry')
          /\ Settled(entry') = IF x.status.state = RETRY THEN Settled(entry)
                               ELSE Settled(entry) \cup {x.sid}
      <3>1. Known(entry, x.sid) /\ entry \in Entry /\ Consistent(entry)
        BY <1>4 DEF UpdateFails, TypeOK, Sound
      <3> QED
        BY <1>2, <2>1, <2>2, <2>4, <3>1, ConsistentUpdate
    <2>6. \A s \in Settled(entry) : Over(s)'
      BY OverStep DEF Sound
    <2>7. ASSUME x.status.state # RETRY, NEW s, s = x.sid PROVE Over(s)'
      <3>1. x.phase \in {"final", "fail"}
        BY <1>1, <2>3, <2>7 DEF PhaseOf
      <3>2. Leaving(worker'[w])
        BY <1>1, <2>1, <3>1 DEF Leaving, Execution
      <3>3. /\ s \in used /\ \A p \in Parents : s \notin parent[p].ids
            /\ \A m \in queue : m.sid # s
            /\ \A v \in Workers : Busy(v) /\ worker[v].sid = s => v = w
        BY <1>1, <2>7 DEF OneHolder
      <3> QED
        BY <2>1, <3>2, <3>3 DEF Over, Busy
    <2> QED
      BY <2>5, <2>6, <2>7
  <1> QED
    BY <1>3, <1>4

\* Every step keeps the row and its copies sound.
LEMMA RowsStep ==
    ASSUME TypeOK, OneHolder, Phases, RowsSound, [Next]_vars, NoDoubling'
    PROVE  RowsSound'
  <1> DEFINE SoundNext(e) == Consistent(e) /\ \A s \in Settled(e) : Over(s)'
  <1>1. Sound(entry) /\ \A p \in Parents : parent[p].pc = "failing" => Sound(parent[p].row)
    BY DEF RowsSound
  <1>2. ASSUME NEW e, Sound(e) PROVE SoundNext(e)
    BY <1>2, SoundStays DEF Sound
  <1>3. SUFFICES /\ SoundNext(entry')
                 /\ \A p \in Parents : parent'[p].pc = "failing" => SoundNext(parent'[p].row)
    BY DEF RowsSound, Sound
  <1> HIDE DEF SoundNext
  <1>4. ASSUME entry' = entry,
               \A p \in Parents :
                  parent'[p].pc = "failing" => parent'[p].row = parent[p].row
                                              /\ parent[p].pc = "failing"
        PROVE  /\ SoundNext(entry')
               /\ \A p \in Parents : parent'[p].pc = "failing" => SoundNext(parent'[p].row)
    BY <1>1, <1>2, <1>4
  <1>5. CASE UNCHANGED <<entry, parent, queue, worker, used, assigned, sent>>
    BY <1>4, <1>5
  <1>6. ASSUME NEW p \in Parents, ParentDefine(p)
        PROVE  /\ SoundNext(entry')
               /\ \A q \in Parents : parent'[q].pc = "failing" => SoundNext(parent'[q].row)
    <2>1. PICK ids \in SUBSET (SubtaskIds \ used) :
             /\ entry' = InitializeSubtaskInfo(parent[p].total, ids)
             /\ parent' = [parent EXCEPT ![p].pc = "fetch", ![p].ids = ids, ![p].wrote = TRUE]
      BY <1>6 DEF ParentDefine
    <2>2. /\ Settled(entry') = {} /\ KnownIds(entry') = ids
          /\ entry'.nsucceeded = 0 /\ entry'.nfailed = 0 /\ entry'.ntotal = Cardinality(ids)
          /\ entry'.state # SUCCESS
      BY <2>1 DEF InitializeSubtaskInfo, Settled, KnownIds, Known, NewStatus, NoStatus, StatusIn,
         READY_STATES, SUCCESS, FAILURE, UNKNOWN, QUEUING, PROGRESS
    <2>3. SoundNext(entry')
      BY <2>2, ConsistentNew DEF SoundNext
    <2>4. ASSUME NEW q \in Parents, parent'[q].pc = "failing" PROVE SoundNext(parent'[q].row)
      <3>1. parent'[q] = parent[q]
        BY <2>1, <2>4 DEF TypeOK, ParentRun
      <3> QED
        BY <1>1, <1>2, <2>4, <3>1
    <2> QED
      BY <2>3, <2>4
  <1>7. ASSUME NEW p \in Parents, ParentFailRead(p)
        PROVE  /\ SoundNext(entry')
               /\ \A q \in Parents : parent'[q].pc = "failing" => SoundNext(parent'[q].row)
    <2>1. entry' = entry /\ parent' = [parent EXCEPT ![p].pc = "failing", ![p].row = entry]
      BY <1>7 DEF ParentFailRead
    <2>2. /\ parent'[p].row = entry
          /\ \A q \in Parents : q # p => parent'[q] = parent[q]
      BY <2>1 DEF TypeOK, ParentRun
    <2> QED
      BY <1>1, <1>2, <2>1, <2>2
  <1>8. ASSUME NEW p \in Parents, ParentFailSave(p)
        PROVE  /\ SoundNext(entry')
               /\ \A q \in Parents : parent'[q].pc = "failing" => SoundNext(parent'[q].row)
    <2>1. /\ entry' = MarkFailed(parent[p].row) /\ parent[p].pc = "failing"
          /\ parent' = [parent EXCEPT ![p].pc = "done"]
      BY <1>8 DEF ParentFailSave
    <2>2. parent[p].row \in Entry /\ Sound(parent[p].row)
      BY <1>1, <2>1 DEF TypeOK, ParentRun
    <2>3. Consistent(entry') /\ Settled(entry') = Settled(parent[p].row)
      BY <2>1, <2>2, ConsistentFailed DEF Sound
    <2>4. SoundNext(entry')
      BY <1>2, <2>2, <2>3 DEF SoundNext
    <2>5. \A q \in Parents : parent'[q].pc = "failing" => parent'[q] = parent[q]
      BY <2>1 DEF TypeOK, ParentRun
    <2> QED
      BY <1>1, <1>2, <2>4, <2>5
  <1>9. ASSUME NEW p \in Parents,
               \/ ParentRead(p) \/ ParentFetch(p) \/ ParentQueueSubtask(p)
               \/ ParentRaises(p) \/ ParentDone(p) \/ ParentCrashes(p)
        PROVE  /\ SoundNext(entry')
               /\ \A q \in Parents : parent'[q].pc = "failing" => SoundNext(parent'[q].row)
    <2>1. entry' = entry
      BY <1>9 DEF ParentRead, ParentFetch, ParentQueueSubtask, ParentRaises, ParentDone,
         ParentCrashes
    <2>2. /\ \A q \in Parents : q # p => parent'[q] = parent[q]
          /\ parent'[p].pc # "failing"
      <3>1. parent[p] \in ParentRun /\ parent \in [Parents -> ParentRun]
        BY DEF TypeOK
      <3>2. CASE ParentRead(p)
        BY <3>1, <3>2 DEF ParentRead, ParentRun
      <3>3. CASE ParentQueueSubtask(p)
        BY <3>1, <3>3 DEF ParentQueueSubtask, ParentRun
      <3>4. CASE ParentFetch(p)
        BY <3>1, <3>4 DEF ParentFetch, ParentRun
      <3>5. CASE ParentRaises(p)
        BY <3>1, <3>5 DEF ParentRaises, ParentRun
      <3>6. CASE ParentDone(p) \/ ParentCrashes(p)
        BY <3>1, <3>6 DEF ParentDone, ParentCrashes, ParentRun
      <3> QED
        BY <1>9, <3>2, <3>3, <3>4, <3>5, <3>6
    <2> QED
      BY <1>4, <2>1, <2>2
  <1>10. ASSUME NEW w \in Workers, Receive(w) \/ (ExecutionStep(w) /\ ~UpdateStatus(w))
         PROVE  /\ SoundNext(entry')
                /\ \A q \in Parents : parent'[q].pc = "failing" => SoundNext(parent'[q].row)
    <2>1. entry' = entry /\ parent' = parent
      BY <1>10 DEF Receive, ExecutionStep, Working, CheckSubtaskIsValid, AcquireSubtaskLock,
         StartSending, ConnectFails, EmailMissing, SendEmail, AddressFails, SendFails, AllSent,
         ReleaseSubtaskLock, Resubmit, ResubmitFails, UpdateTimesOut, WorkerCrashes
    <2> QED
      BY <1>4, <2>1
  <1>11. ASSUME NEW w \in Workers, UpdateStatus(w)
         PROVE  /\ SoundNext(entry')
                /\ \A q \in Parents : parent'[q].pc = "failing" => SoundNext(parent'[q].row)
    <2>1. SoundNext(entry')
      BY <1>1, <1>11, SoundUpdate DEF SoundNext
    <2>2. parent' = parent
      BY <1>11 DEF UpdateStatus
    <2> QED
      BY <1>1, <1>2, <2>1, <2>2
  <1> QED
    BY <1>5, <1>6, <1>7, <1>8, <1>9, <1>10, <1>11, NextCases DEF ParentStep

\* The invariant holds at the start and is kept by every step.
LEMMA OnceInit == Init => OnceInv
  <1> SUFFICES ASSUME Init PROVE OnceInv
    OBVIOUS
  <1>1. TypeOK
    BY TypeInit
  <1>2. OneHolder /\ Phases
    BY DEF Init, OneHolder, Phases, Busy, Idle
  <1>3. Settled(entry) = {} /\ KnownIds(entry) = {}
    BY DEF Init, NewEntry, Settled, KnownIds, Known, NoStatus, StatusIn, READY_STATES, SUCCESS,
       FAILURE, UNKNOWN
  <1>4. Consistent(entry)
    <2>1. entry.nsucceeded = 0 /\ entry.nfailed = 0 /\ entry.ntotal = 0 /\ entry.state # SUCCESS
      BY DEF Init, NewEntry, QUEUING, SUCCESS
    <2> QED
      BY <1>3, <2>1, ConsistentNew, FS_EmptySet
  <1>5. \A p \in Parents : parent[p].pc # "failing"
    BY DEF Init
  <1> QED
    BY <1>1, <1>2, <1>3, <1>4, <1>5 DEF OnceInv, RowsSound, Sound

LEMMA OnceStep == OnceInv /\ [Next]_vars => OnceInv'
  <1> SUFFICES ASSUME OnceInv, [Next]_vars PROVE OnceInv'
    OBVIOUS
  <1>1. TypeOK /\ TypeOK'
    BY TypeStep DEF OnceInv
  <1>2. ASSUME NoDoubling' PROVE OneHolder' /\ Phases' /\ RowsSound'
    <2>1. OneHolder /\ Phases /\ RowsSound
      BY <1>1, <1>2, RedeliveryStays DEF OnceInv
    <2> QED
      BY <1>1, <1>2, <2>1, HolderStep, PhaseStep, RowsStep
  <1> QED
    BY <1>1, <1>2 DEF OnceInv

\* The invariant behind the theorems below.
THEOREM OnceInvariant == Spec => []OnceInv
  BY OnceInit, OnceStep, PTL DEF Spec

\* A subtask recorded as done is never worked on again (DoneIsQuiet).
THEOREM DoneIsQuietAlways == Spec => []DoneIsQuiet
  <1>1. OnceInv => DoneIsQuiet
    BY DEF OnceInv, RowsSound, Sound, Over, Leaving, DoneIsQuiet, Executions
  <1> QED
    BY <1>1, OnceInvariant, PTL

\* The counters of finished subtasks are right and the task is a SUCCESS only
\* when all its subtasks are done (CountersMatch).
THEOREM CountersAlwaysMatch == Spec => []CountersMatch
  <1>1. OnceInv => CountersMatch
    BY DEF OnceInv, RowsSound, Sound, Consistent, KnownIds, CountersMatch, AlwaysCountersMatch
  <1> QED
    BY <1>1, OnceInvariant, PTL

-----------------------------------------------------------------------------
(***************************************************************************)
(* How many emails a recipient may still get.  Each parent that wrote the  *)
(* row has one email for him to hand out.  It has it until it puts him on  *)
(* the list of a subtask, the subtask has it until it sends the email.     *)
(***************************************************************************)
\* A parent that has not come to writing the row has not written it.
Writers ==
    \A p \in Parents : /\ parent[p].pc \in {"ready", "define"} => ~parent[p].wrote
                       /\ parent[p].pc \in {"fetch", "queue"} => parent[p].wrote

\* The parents that wrote the row.
Wrote == {p \in Parents : parent[p].wrote}

\* The parents that may still put r on the list of a subtask.
Pending(r) ==
    {p \in Parents : \/ parent[p].pc = "fetch"
                     \/ parent[p].pc = "queue" /\ r \in parent[p].todo}

\* The subtasks with r on their lists, in a message or at work.
Carrying(r) ==
    {s \in SubtaskIds :
        \/ \E m \in queue : m.sid = s /\ r \in m.to_list
        \/ \E w \in Workers : Busy(w) /\ worker[w].sid = s /\ r \in worker[w].to_list}

\* The emails sent and still to be sent are at most one for each such parent.
Shares ==
    /\ IsFiniteSet(Wrote)
    /\ \A r \in Recipients :
          sent[r] + Cardinality(Carrying(r)) + Cardinality(Pending(r)) <= Cardinality(Wrote)

\* The inductive invariant.
SharesInv == OnceInv /\ (NoDoubling => Writers /\ Shares)

\* The order in which a parent works.
LEMMA ParentPc ==
    ASSUME TypeOK, NEW p \in Parents, ParentStep(p) \/ ParentCrashes(p)
    PROVE  /\ \A q \in Parents : q # p => parent'[q] = parent[q]
           /\ parent[p].wrote => parent'[p].wrote
           /\ ~ParentDefine(p) => parent'[p].wrote = parent[p].wrote
           /\ parent'[p].pc \in {"ready", "define"} => parent[p].pc = "ready"
           /\ parent'[p].pc = "fetch" => ParentDefine(p)
           /\ parent'[p].pc = "queue" => parent[p].pc \in {"fetch", "queue"}
  <1>1. parent[p] \in ParentRun /\ parent \in [Parents -> ParentRun]
    BY DEF TypeOK
  <1>2. CASE ParentRead(p)
    BY <1>1, <1>2 DEF ParentRead, ParentRun
  <1>3. CASE ParentDefine(p)
    <2>1. \E ids : parent' = [parent EXCEPT ![p].pc = "fetch", ![p].ids = ids, ![p].wrote = TRUE]
      BY <1>3 DEF ParentDefine
    <2> QED
      BY <1>1, <1>3, <2>1 DEF ParentRun
  <1>4. CASE ParentFetch(p)
    BY <1>1, <1>4 DEF ParentFetch, ParentRun
  <1>5. CASE ParentQueueSubtask(p)
    <2>1. \E ids, todo : parent' = [parent EXCEPT ![p].ids = ids, ![p].todo = todo]
      BY <1>5 DEF ParentQueueSubtask
    <2>2. parent[p].pc = "queue"
      BY <1>5 DEF ParentQueueSubtask
    <2> QED
      BY <1>1, <2>1, <2>2 DEF ParentRun
  <1>6. CASE ParentRaises(p)
    BY <1>1, <1>6 DEF ParentRaises, ParentRun
  <1>7. CASE ParentDone(p)
    BY <1>1, <1>7 DEF ParentDone, ParentRun
  <1>8. CASE ParentFailRead(p)
    BY <1>1, <1>8 DEF ParentFailRead, ParentRun
  <1>9. CASE ParentFailSave(p)
    BY <1>1, <1>9 DEF ParentFailSave, ParentRun
  <1>10. CASE ParentCrashes(p)
    BY <1>1, <1>10 DEF ParentCrashes, ParentRun
  <1> QED
    BY <1>2, <1>3, <1>4, <1>5, <1>6, <1>7, <1>8, <1>9, <1>10 DEF ParentStep

\* A parent has written the row once it queues subtasks.
LEMMA WritersStep ==
    ASSUME TypeOK, Writers, [Next]_vars, NoDoubling'
    PROVE  Writers'
  <1>1. parent' = parent => Writers'
    BY DEF Writers
  <1>2. ASSUME NEW w \in Workers, Receive(w) \/ ExecutionStep(w) PROVE parent' = parent
    BY <1>2, ReceiveIs, ExecutionStepIs DEF GoesOn
  <1>3. ASSUME NEW p \in Parents, ParentStep(p) \/ ParentCrashes(p) PROVE Writers'
    <2>1. ParentDefine(p) => parent'[p].wrote /\ parent'[p].pc = "fetch"
      BY DEF ParentDefine, TypeOK, ParentRun
    <2> QED
      BY <1>3, <2>1, ParentPc DEF Writers
  <1> QED
    BY <1>1, <1>2, <1>3, NextCases

\* The sets that are counted are finite, and their sizes numbers.
LEMMA SharesFinite ==
    ASSUME TypeOK, Writers, IsFiniteSet(Wrote), NEW r \in Recipients
    PROVE  /\ IsFiniteSet(Carrying(r)) /\ Cardinality(Carrying(r)) \in Nat
           /\ IsFiniteSet(Pending(r)) /\ Cardinality(Pending(r)) \in Nat
           /\ Cardinality(Wrote) \in Nat /\ sent[r] \in Nat
  <1>1. Carrying(r) \in SUBSET SubtaskIds
    BY DEF Carrying
  <1>2. Pending(r) \in SUBSET Wrote
    BY DEF Pending, Wrote, Writers
  <1> QED
    BY <1>1, <1>2, SizesAreNat, FS_Subset, FS_CardinalityType DEF TypeOK

\* A step moves at most one email of a recipient, from a parent to a subtask or
\* from a subtask into the mail, and only writing the row adds one.
LEMMA SharesMove ==
    ASSUME TypeOK, TypeOK', Writers, Writers', Shares, NEW r \in Recipients, IsFiniteSet(Wrote'),
           \/ /\ sent'[r] = sent[r] /\ Carrying(r)' \subseteq Carrying(r)
              /\ Pending(r)' \subseteq Pending(r) /\ Wrote' = Wrote
           \/ /\ sent'[r] = sent[r] /\ Carrying(r)' \subseteq Carrying(r)
              /\ \E p : p \notin Wrote /\ Wrote' = Wrote \cup {p}
                        /\ Pending(r)' \subseteq Pending(r) \cup {p}
           \/ /\ sent'[r] = sent[r] /\ Wrote' = Wrote
              /\ \E s, p : /\ Carrying(r)' \subseteq Carrying(r) \cup {s}
                           /\ p \in Pending(r) /\ Pending(r)' \subseteq Pending(r) \ {p}
           \/ /\ sent'[r] = sent[r] + 1 /\ Wrote' = Wrote
              /\ Pending(r)' \subseteq Pending(r)
              /\ \E s \in Carrying(r) : Carrying(r)' \subseteq Carrying(r) \ {s}
    PROVE  sent'[r] + Cardinality(Carrying(r)') + Cardinality(Pending(r)') <= Cardinality(Wrote')
  <1> DEFINE c == Cardinality(Carrying(r))  d == Cardinality(Carrying(r)')
             a == Cardinality(Pending(r))   b == Cardinality(Pending(r)')
             n == Cardinality(Wrote)        k == Cardinality(Wrote')
  <1>1. /\ IsFiniteSet(Carrying(r)) /\ c \in Nat /\ IsFiniteSet(Pending(r)) /\ a \in Nat
        /\ IsFiniteSet(Wrote) /\ n \in Nat /\ sent[r] \in Nat
    BY SharesFinite DEF Shares
  <1>2. d \in Nat /\ b \in Nat /\ k \in Nat
    <2>1. Carrying(r)' \in SUBSET SubtaskIds /\ Pending(r)' \subseteq Wrote'
      BY DEF Carrying, Pending, Wrote, Writers
    <2> QED
      BY <2>1, SizesAreNat, FS_Subset, FS_CardinalityType
  <1>3. sent[r] + c + a <= n
    BY DEF Shares
  <1>4. ASSUME Carrying(r)' \subseteq Carrying(r) PROVE d <= c
    BY <1>1, <1>4, FS_Subset
  <1>5. ASSUME Pending(r)' \subseteq Pending(r) PROVE b <= a
    BY <1>1, <1>5, FS_Subset
  <1>6. ASSUME NEW p, p \notin Wrote, Wrote' = Wrote \cup {p},
               Pending(r)' \subseteq Pending(r) \cup {p}
        PROVE  k = n + 1 /\ b <= a + 1
    <2>1. k = n + 1
      BY <1>1, <1>6, FS_AddElement
    <2>2. /\ IsFiniteSet(Pending(r) \cup {p})
          /\ Cardinality(Pending(r) \cup {p}) \in {a, a + 1}
      BY <1>1, FS_AddElement
    <2>3. b <= Cardinality(Pending(r) \cup {p})
      BY <1>6, <2>2, FS_Subset
    <2> QED
      BY <1>1, <1>2, <2>1, <2>2, <2>3
  <1>7. ASSUME NEW s, Carrying(r)' \subseteq Carrying(r) \cup {s} PROVE d <= c + 1
    <2>1. /\ IsFiniteSet(Carrying(r) \cup {s})
          /\ Cardinality(Carrying(r) \cup {s}) \in {c, c + 1}
      BY <1>1, FS_AddElement
    <2>2. d <= Cardinality(Carrying(r) \cup {s})
      BY <1>7, <2>1, FS_Subset
    <2> QED
      BY <1>1, <1>2, <2>1, <2>2
  <1>8. ASSUME NEW p \in Pending(r), Pending(r)' \subseteq Pending(r) \ {p} PROVE b <= a - 1
    <2>1. IsFiniteSet(Pending(r) \ {p}) /\ Cardinality(Pending(r) \ {p}) = a - 1
      BY <1>1, FS_RemoveElement
    <2> QED
      BY <1>8, <2>1, FS_Subset
  <1>9. ASSUME NEW s \in Carrying(r), Carrying(r)' \subseteq Carrying(r) \ {s} PROVE d <= c - 1
    <2>1. IsFiniteSet(Carrying(r) \ {s}) /\ Cardinality(Carrying(r) \ {s}) = c - 1
      BY <1>1, FS_RemoveElement
    <2> QED
      BY <1>9, <2>1, FS_Subset
  <1> SUFFICES sent'[r] + d + b <= k
    OBVIOUS
  <1>10. CASE /\ sent'[r] = sent[r] /\ Carrying(r)' \subseteq Carrying(r)
              /\ Pending(r)' \subseteq Pending(r) /\ Wrote' = Wrote
    <2>1. d <= c /\ b <= a /\ k = n
      BY <1>4, <1>5, <1>10
    <2> HIDE DEF a, b, c, d, k, n
    <2> QED
      BY <1>1, <1>2, <1>3, <1>10, <2>1
  <1>11. CASE /\ sent'[r] = sent[r] /\ Carrying(r)' \subseteq Carrying(r)
              /\ \E p : p \notin Wrote /\ Wrote' = Wrote \cup {p}
                        /\ Pending(r)' \subseteq Pending(r) \cup {p}
    <2>1. d <= c /\ k = n + 1 /\ b <= a + 1
      BY <1>4, <1>6, <1>11
    <2> HIDE DEF a, b, c, d, k, n
    <2> QED
      BY <1>1, <1>2, <1>3, <1>11, <2>1
  <1>12. CASE /\ sent'[r] = sent[r] /\ Wrote' = Wrote
              /\ \E s, p : /\ Carrying(r)' \subseteq Carrying(r) \cup {s}
                           /\ p \in Pending(r) /\ Pending(r)' \subseteq Pending(r) \ {p}
    <2>1. d <= c + 1 /\ b <= a - 1 /\ k = n
      BY <1>7, <1>8, <1>12
    <2> HIDE DEF a, b, c, d, k, n
    <2> QED
      BY <1>1, <1>2, <1>3, <1>12, <2>1
  <1>13. CASE /\ sent'[r] = sent[r] + 1 /\ Wrote' = Wrote
              /\ Pending(r)' \subseteq Pending(r)
              /\ \E s \in Carrying(r) : Carrying(r)' \subseteq Carrying(r) \ {s}
    <2>1. d <= c - 1 /\ b <= a /\ k = n
      BY <1>5, <1>9, <1>13
    <2> HIDE DEF a, b, c, d, k, n
    <2> QED
      BY <1>1, <1>2, <1>3, <1>13, <2>1
  <1> QED
    BY <1>10, <1>11, <1>12, <1>13

\* A parent hands an email out to a subtask, or gives it up.
LEMMA SharesParent ==
    ASSUME TypeOK, TypeOK', Writers, Writers', Shares, NEW p \in Parents,
           ParentStep(p) \/ ParentCrashes(p)
    PROVE  Shares'
  <1>1. parent[p] \in ParentRun /\ parent \in [Parents -> ParentRun]
        /\ parent[p].todo \in SUBSET Recipients /\ parent[p].ids \in SUBSET SubtaskIds
    BY DEF TypeOK, ParentRun
  <1>2. /\ \A q \in Parents : q # p => parent'[q] = parent[q]
        /\ parent[p].wrote => parent'[p].wrote
        /\ ~ParentDefine(p) => parent'[p].wrote = parent[p].wrote
        /\ parent'[p].pc = "fetch" => ParentDefine(p)
        /\ parent'[p].pc = "queue" => parent[p].pc \in {"fetch", "queue"}
    BY ParentPc
  <1>3. IsFiniteSet(Wrote) /\ worker' = worker /\ sent' = sent
    BY DEF Shares, ParentStep, ParentRead, ParentDefine, ParentFetch, ParentQueueSubtask,
       ParentRaises, ParentDone, ParentFailRead, ParentFailSave, ParentCrashes
  <1>4. CASE ParentDefine(p)
    <2>1. /\ queue' = queue /\ parent[p].pc = "define" /\ ~parent[p].wrote
          /\ parent'[p].pc = "fetch" /\ parent'[p].wrote
      BY <1>1, <1>4 DEF ParentDefine, Writers, ParentRun
    <2>2. p \notin Wrote /\ Wrote' = Wrote \cup {p}
      BY <1>2, <2>1 DEF Wrote
    <2>3. ASSUME NEW r \in Recipients
          PROVE  /\ sent'[r] = sent[r] /\ Carrying(r)' \subseteq Carrying(r)
                 /\ Pending(r)' \subseteq Pending(r) \cup {p}
      BY <1>2, <1>3, <2>1 DEF Carrying, Pending, Busy
    <2>4. IsFiniteSet(Wrote')
      BY <1>3, <2>2, FS_AddElement
    <2> QED
      BY <2>2, <2>3, <2>4, SharesMove DEF Shares
  <1>5. CASE ~ParentDefine(p)
    <2>1. Wrote' = Wrote /\ IsFiniteSet(Wrote')
      BY <1>2, <1>3, <1>5 DEF Wrote
    <2>2. CASE ~ParentQueueSubtask(p)
      <3>1. queue' = queue /\ (parent'[p].pc = "queue" => parent[p].pc = "fetch")
        BY <1>1, <1>2, <1>5, <2>2 DEF ParentStep, ParentRead, ParentFetch, ParentRaises,
           ParentDone, ParentFailRead, ParentFailSave, ParentCrashes, ParentRun
      <3>2. ASSUME NEW r \in Recipients
            PROVE  /\ sent'[r] = sent[r] /\ Carrying(r)' \subseteq Carrying(r)
                   /\ Pending(r)' \subseteq Pending(r)
        BY <1>2, <1>3, <1>5, <3>1 DEF Carrying, Pending, Busy
      <3> QED
        BY <2>1, <3>2, SharesMove DEF Shares
    <2>3. CASE ParentQueueSubtask(p)
      <3>1. PICK s \in parent[p].ids, chunk \in SUBSET parent[p].todo :
               /\ queue' = queue \cup {[sid |-> s, to_list |-> chunk, status |-> NewStatus,
                                        retries |-> 0, copy |-> 0]}
               /\ parent' = [parent EXCEPT ![p].ids = @ \ {s}, ![p].todo = @ \ chunk]
        BY <2>3 DEF ParentQueueSubtask
      <3>2. PICK m : m.sid = s /\ m.to_list = chunk /\ queue' = queue \cup {m}
        BY <3>1
      <3>3. /\ parent[p].pc = "queue" /\ parent'[p].pc = "queue"
            /\ parent'[p].todo = parent[p].todo \ chunk
        BY <1>1, <2>3, <3>1 DEF ParentQueueSubtask, ParentRun
      <3>4. ASSUME NEW r \in Recipients, r \notin chunk
            PROVE  /\ sent'[r] = sent[r] /\ Carrying(r)' \subseteq Carrying(r)
                   /\ Pending(r)' \subseteq Pending(r)
        BY <1>2, <1>3, <3>2, <3>3, <3>4 DEF Carrying, Pending, Busy
      <3>5. ASSUME NEW r \in Recipients, r \in chunk
            PROVE  /\ sent'[r] = sent[r] /\ Carrying(r)' \subseteq Carrying(r) \cup {s}
                   /\ p \in Pending(r) /\ Pending(r)' \subseteq Pending(r) \ {p}
        BY <1>2, <1>3, <3>2, <3>3, <3>5 DEF Carrying, Pending, Busy
      <3> QED
        BY <2>1, <3>4, <3>5, SharesMove DEF Shares
    <2> QED
      BY <2>2, <2>3
  <1> QED
    BY <1>4, <1>5

\* A subtask hands it on between message and execution until it is sent.
LEMMA SharesWorker ==
    ASSUME TypeOK, TypeOK', Writers, Writers', OneHolder, Shares, NEW w \in Workers,
           Receive(w) \/ ExecutionStep(w)
    PROVE  Shares'
  <1>1. parent' = parent
    BY ReceiveIs, ExecutionStepIs DEF GoesOn
  <1>2. Wrote' = Wrote /\ IsFiniteSet(Wrote') /\ \A r : Pending(r)' = Pending(r)
    BY <1>1 DEF Wrote, Pending, Shares
  <1>3. CASE Receive(w)
    <2>1. PICK m \in queue :
              /\ queue' = queue \ {m} /\ worker'[w].sid = m.sid /\ worker'[w].to_list = m.to_list
              /\ \A v \in Workers : v # w => worker'[v] = worker[v]
              /\ sent' = sent
      BY <1>3, ReceiveIs
    <2>2. \A r \in Recipients : Carrying(r)' \subseteq Carrying(r)
      BY <2>1 DEF Carrying, Busy
    <2> QED
      BY <1>2, <2>1, <2>2, SharesMove DEF Shares
  <1>4. CASE ExecutionStep(w)
    <2>1. GoesOn(w) /\ Sends(w)
      BY <1>4, ExecutionStepIs
    <2>2. Busy(w) /\ \A v \in Workers : v # w => worker'[v] = worker[v]
      BY <2>1 DEF GoesOn
    <2>3. ASSUME NEW r \in Recipients PROVE Carrying(r)' \subseteq Carrying(r)
      <3>1. CASE queue' = queue
        BY <2>1, <2>2, <3>1 DEF GoesOn, Carrying, Busy
      <3>2. CASE queue' # queue
        <4>1. PICK m : /\ queue' = queue \cup {m} /\ m.sid = worker[w].sid
                       /\ m.to_list = worker[w].to_list
          BY <2>1, <3>2 DEF GoesOn
        <4>2. ~Busy(w)'
          BY <2>1, <3>2 DEF GoesOn
        <4> QED
          BY <2>2, <4>1, <4>2 DEF Carrying, Busy
      <3> QED
        BY <3>1, <3>2
    <2>4. CASE sent' = sent
      BY <1>2, <2>3, <2>4, SharesMove DEF Shares
    <2>5. CASE sent' # sent
      <3>1. PICK r \in worker[w].to_list :
               /\ sent' = [sent EXCEPT ![r] = @ + 1] /\ Busy(w)'
               /\ worker'[w].to_list = worker[w].to_list \ {r}
        BY <2>1, <2>5 DEF Sends
      <3>2. r \in Recipients /\ worker[w].sid \in SubtaskIds
        BY <2>2, WorkerType DEF Busy, Execution
      <3>3. queue' = queue /\ worker'[w].sid = worker[w].sid
        BY <2>1, <3>1 DEF GoesOn
      <3>4. worker[w].sid \in Carrying(r)
        BY <2>2, <3>2 DEF Carrying
      <3>5. worker[w].sid \notin Carrying(r)'
        BY <2>2, <3>1, <3>3 DEF Carrying, OneHolder, Busy
      <3>6. Carrying(r)' \subseteq Carrying(r) \ {worker[w].sid}
        BY <2>3, <3>2, <3>5
      <3>7. /\ sent'[r] = sent[r] + 1
            /\ \A q \in Recipients : q # r => sent'[q] = sent[q]
        BY <3>1, <3>2 DEF TypeOK
      <3>8. sent'[r] + Cardinality(Carrying(r)') + Cardinality(Pending(r)') <= Cardinality(Wrote')
        BY <1>2, <3>2, <3>4, <3>6, <3>7, SharesMove
      <3>9. ASSUME NEW q \in Recipients, q # r
            PROVE  sent'[q] + Cardinality(Carrying(q)') + Cardinality(Pending(q)')
                      <= Cardinality(Wrote')
        BY <1>2, <2>3, <3>7, <3>9, SharesMove
      <3> QED
        BY <1>2, <3>8, <3>9 DEF Shares
    <2> QED
      BY <2>4, <2>5
  <1> QED
    BY <1>3, <1>4

\* Every step keeps the count.
LEMMA SharesStep ==
    ASSUME SharesInv, [Next]_vars
    PROVE  SharesInv'
  <1>1. OnceInv /\ TypeOK /\ OnceInv' /\ TypeOK'
    BY OnceStep DEF SharesInv, OnceInv
  <1>2. ASSUME NoDoubling' PROVE Writers' /\ Shares'
    <2>1. NoDoubling /\ Writers /\ Shares /\ OneHolder
      BY <1>1, <1>2, RedeliveryStays DEF SharesInv, OnceInv
    <2>2. Writers'
      BY <1>1, <1>2, <2>1, WritersStep
    <2>3. ASSUME UNCHANGED <<entry, parent, queue, worker, used, assigned, sent>>
          PROVE  Shares'
      <3>1. /\ Wrote' = Wrote /\ sent' = sent
            /\ \A r : Carrying(r)' = Carrying(r) /\ Pending(r)' = Pending(r)
        BY <2>3 DEF Wrote, Carrying, Pending, Busy
      <3> QED
        BY <2>1, <3>1 DEF Shares
    <2> QED
      BY <1>1, <1>2, <2>1, <2>2, <2>3, NextCases, SharesParent, SharesWorker
  <1> QED
    BY <1>1, <1>2 DEF SharesInv

\* The count is right at the start.
LEMMA SharesInit == Init => SharesInv
  <1> SUFFICES ASSUME Init PROVE SharesInv
    OBVIOUS
  <1>1. OnceInv /\ Writers
    BY OnceInit DEF Init, Writers
  <1>2. Wrote = {} /\ \A r \in Recipients : sent[r] = 0 /\ Carrying(r) = {} /\ Pending(r) = {}
    BY DEF Init, Wrote, Carrying, Pending, Busy, Idle
  <1> QED
    BY <1>1, <1>2, FS_EmptySet DEF SharesInv, Shares

\* The invariant behind the two theorems below.
THEOREM SharesInvariant == Spec => []SharesInv
  BY SharesInit, SharesStep, PTL DEF Spec

\* Each parent that wrote the row sends a recipient one email at most
\* (OneEmailPerParent).
THEOREM OneEmailPerParentAlways == Spec => []OneEmailPerParent
  <1>1. SharesInv => OneEmailPerParent
    <2> SUFFICES ASSUME SharesInv, NoDoubling, NEW r \in Recipients
                 PROVE  sent[r] <= Cardinality({p \in Parents : parent[p].wrote})
      BY DEF OneEmailPerParent
    <2>1. TypeOK /\ Writers /\ Shares
      BY DEF SharesInv, OnceInv
    <2>2. /\ sent[r] + Cardinality(Carrying(r)) + Cardinality(Pending(r)) <= Cardinality(Wrote)
          /\ Cardinality(Carrying(r)) \in Nat /\ Cardinality(Pending(r)) \in Nat
          /\ Cardinality(Wrote) \in Nat /\ sent[r] \in Nat
      BY <2>1, SharesFinite DEF Shares
    <2> QED
      BY <2>2 DEF Wrote
  <1> QED
    BY <1>1, SharesInvariant, PTL

\* Nobody is sent the email twice unless a message was duplicated
\* (AtMostOneEmail), whatever crashes, errors, retries and lock losses occur.
THEOREM AtMostOneEmailAlways == Spec => []AtMostOneEmail
  <1>1. SharesInv /\ OneEmailPerParent => AtMostOneEmail
    <2> SUFFICES ASSUME SharesInv, OneEmailPerParent, NoDoubling, OneRowWriter,
                        NEW r \in Recipients
                 PROVE  sent[r] <= 1
      BY DEF AtMostOneEmail, AlwaysOneEmail, NoDuplicates
    <2>1. sent[r] <= Cardinality(Wrote) /\ sent[r] \in Nat
      BY DEF OneEmailPerParent, Wrote, SharesInv, OnceInv, TypeOK
    <2>2. Cardinality(Wrote) \in {0, 1}
      <3>1. Wrote = {} \/ \E p : Wrote = {p}
        BY DEF OneRowWriter, Wrote
      <3> QED
        BY <3>1, FS_EmptySet, FS_Singleton
    <2> QED
      BY <2>1, <2>2
  <1> QED
    BY <1>1, SharesInvariant, OneEmailPerParentAlways, PTL

-----------------------------------------------------------------------------
(***************************************************************************)
(* The lock.                                                               *)
(***************************************************************************)
\* Crashes are counted, and the count never falls.
LEMMA CrashStays ==
    ASSUME TypeOK, [Next]_vars, budget'.crashes = 0
    PROVE  /\ budget.crashes = 0
           /\ \A w \in Workers : ~WorkerCrashes(w)
           /\ \A p \in Parents : ~ParentCrashes(p)
  <1>1. budget \in [redeliveries : Nat, dberrors : Nat, crashes : Nat, churn : Nat]
    BY DEF TypeOK
  <1>2. ASSUME NEW max, Spend("crashes", max) PROVE FALSE
    BY <1>1, <1>2 DEF Spend
  <1>3. ASSUME NEW max, \/ Spend("redeliveries", max) \/ Spend("dberrors", max)
                        \/ Spend("churn", max)
        PROVE  budget.crashes = 0
    BY <1>1, <1>3 DEF Spend
  <1>4. CASE budget' = budget
    BY <1>2, <1>4 DEF WorkerCrashes, ParentCrashes
  <1>5. CASE budget' # budget
    <2>1. \/ \E max : \/ Spend("redeliveries", max) \/ Spend("dberrors", max)
                      \/ Spend("churn", max) \/ Spend("crashes", max)
      BY <1>5 DEF Next, vars, ParentStep, ParentRead, ParentDefine, ParentFetch,
         ParentQueueSubtask, ParentRaises, ParentDone, ParentFailRead, ParentFailSave,
         ParentCrashes, Receive, Working, CheckSubtaskIsValid, AcquireSubtaskLock,
         StartSending, ConnectFails, EmailMissing, SendEmail, AddressFails, SendFails,
         AllSent, UpdateStatus, ReleaseSubtaskLock, Resubmit, ResubmitFails, UpdateTimesOut,
         CloseFails, WorkerCrashes, Redeliver, LockExpires, EnrollmentChanges
    <2> QED
      BY <1>2, <1>3, <2>1 DEF WorkerCrashes, ParentCrashes
  <1> QED
    BY <1>4, <1>5

\* An execution that took the lock keeps working under it until it releases it.
LEMMA LockExecution ==
    ASSUME TypeOK, NEW w \in Workers, AnyExecutionStep(w), ~WorkerCrashes(w), NEW s \in lock'
    PROVE  (s \in lock /\ ~Holds(w, s)) \/ Holds(w, s)'
  <1> DEFINE x == worker[w]
  <1>1. x \in Execution /\ Busy(w)
    BY WorkerType, ExecutionFrame DEF Busy
  <1>2. ASSUME NEW y \in Execution, StepTo(w, y), y.sid = x.sid,
               y.pc \in {"start", "send", "update", "release"},
               \/ lock' = lock
               \/ lock' = lock \cup {x.sid}
               \/ lock' = lock \ {x.sid}
        PROVE  (s \in lock /\ ~Holds(w, s)) \/ Holds(w, s)'
    BY <1>2 DEF StepTo, TypeOK, Holds, Busy, Execution
  <1>3. /\ FilterOptouts(x) \in Execution /\ FilterOptouts(x).sid = x.sid
    BY <1>1, FilterType DEF FilterOptouts, Execution
  <1>4. ASSUME NEW z \in Execution, NEW kind \in {"ratelimit", "transient", "fatal"}
        PROVE  /\ OnError(z, kind) \in Execution
               /\ OnError(z, kind).sid = z.sid /\ OnError(z, kind).pc = "update"
    <2>1. OnError(z, kind) \in Execution
      BY OnErrorType
    <2>2. CASE kind = "fatal"
      BY <2>1, <2>2 DEF OnError, Updating, Execution
    <2>3. CASE kind = "ratelimit"
      BY <2>1, <2>3 DEF OnError, Retrying, Updating, Execution
    <2>4. CASE kind = "transient"
      BY <2>1, <2>4 DEF OnError, Retrying, Updating, Execution
    <2> QED
      BY <2>2, <2>3, <2>4
  <1>5. /\ FailedUnexpectedly(x) \in Execution
        /\ FailedUnexpectedly(x).sid = x.sid /\ FailedUnexpectedly(x).pc = "update"
    BY <1>1, FailedUnexpectedlyType DEF FailedUnexpectedly, Updating, Execution
  <1>6. CASE CheckSubtaskIsValid(w) \/ Resubmit(w)
    BY <1>6 DEF CheckSubtaskIsValid, Resubmit, Holds
  <1>7. CASE AcquireSubtaskLock(w)
    <2>1. CASE x.sid \in lock
      BY <1>7, <2>1 DEF AcquireSubtaskLock, Holds
    <2>2. CASE x.sid \notin lock
      <3>1. [x EXCEPT !.pc = "start"] \in Execution
        BY <1>1 DEF Execution
      <3> QED
        BY <1>1, <1>2, <1>7, <2>2, <3>1 DEF AcquireSubtaskLock, StepTo, Execution
    <2> QED
      BY <2>1, <2>2
  <1>8. CASE StartSending(w)
    <2>1. PICK z : z = FilterOptouts(x)
      OBVIOUS
    <2>2. [z EXCEPT !.pc = "send"] \in Execution
      BY <1>3, <2>1 DEF Execution
    <2> QED
      BY <1>2, <1>3, <1>8, <2>1, <2>2 DEF StartSending, Execution
  <1>9. CASE ConnectFails(w)
    <2>1. PICK kind \in {"ratelimit", "transient", "fatal"} :
             StepTo(w, OnError(FilterOptouts(x), kind))
      BY <1>9 DEF ConnectFails
    <2> QED
      BY <1>2, <1>3, <1>4, <1>9, <2>1 DEF ConnectFails
  <1>10. CASE EmailMissing(w)
    BY <1>2, <1>5, <1>10 DEF EmailMissing
  <1>11. CASE SendEmail(w) \/ AddressFails(w)
    <2>1. CASE SendEmail(w)
      <3>1. /\ lock' = lock
            /\ \E r \in x.to_list :
                  worker'[w] = [x EXCEPT !.status.succeeded = @ + 1, !.to_list = @ \ {r}]
        BY <2>1 DEF SendEmail, StepTo, TypeOK
      <3> QED
        BY <1>1, <2>1, <3>1 DEF SendEmail, Holds, Busy, Execution
    <2>2. CASE AddressFails(w)
      <3>1. /\ lock' = lock
            /\ \E r \in x.to_list :
                  worker'[w] = [x EXCEPT !.status.failed = @ + 1, !.to_list = @ \ {r}]
        BY <2>2 DEF AddressFails, StepTo, TypeOK
      <3> QED
        BY <1>1, <2>2, <3>1 DEF AddressFails, Holds, Busy, Execution
    <2> QED
      BY <1>11, <2>1, <2>2
  <1>12. CASE SendFails(w)
    <2>1. PICK kind \in {"ratelimit", "transient", "fatal"} : StepTo(w, OnError(x, kind))
      BY <1>12 DEF SendFails
    <2> QED
      BY <1>1, <1>2, <1>4, <1>12, <2>1 DEF SendFails
  <1>13. CASE AllSent(w)
    <2>1. /\ lock' = lock
          /\ worker'[w] = Updating([x EXCEPT !.status.state = SUCCESS], "final")
      BY <1>13 DEF AllSent, StepTo, TypeOK
    <2> QED
      BY <1>1, <2>1 DEF Updating, Holds, Busy, Execution
  <1>14. CASE UpdateStatus(w) \/ UpdateTimesOut(w)
    <2>1. CASE UpdateStatus(w)
      <3>1. /\ lock' = lock
            /\ worker'[w] = [x EXCEPT !.pc = "release", !.raised = UpdateFails(entry, x.sid)]
        BY <2>1 DEF UpdateStatus, StepTo, TypeOK
      <3> QED
        BY <1>1, <3>1 DEF Holds, Busy, Execution
    <2>2. CASE UpdateTimesOut(w)
      <3>1. /\ lock' = lock /\ x.pc = "update"
            /\ worker'[w] \in {[x EXCEPT !.frames = @ + 1],
                               [x EXCEPT !.pc = "release", !.raised = TRUE]}
        BY <2>2 DEF UpdateTimesOut, StepTo, TypeOK
      <3> QED
        BY <1>1, <3>1 DEF Holds, Busy, Execution
    <2> QED
      BY <1>14, <2>1, <2>2
  <1>15. CASE ReleaseSubtaskLock(w)
    BY <1>15 DEF ReleaseSubtaskLock, Holds
  <1>16. CASE ResubmitFails(w)
    BY <1>2, <1>5, <1>16 DEF ResubmitFails
  <1>17. CASE CloseFails(w)
    BY <1>2, <1>5, <1>17 DEF CloseFails
  <1> QED
    BY <1>6, <1>7, <1>8, <1>9, <1>10, <1>11, <1>12, <1>13, <1>14, <1>15, <1>16, <1>17
    DEF AnyExecutionStep, Working

\* A key keeps its owner, or goes with him, until somebody crashes.
LEMMA LockStep ==
    ASSUME TypeOK, LockHasOwner, [Next]_vars, budget'.crashes = 0
    PROVE  LockHasOwner'
  <1>1. ASSUME NEW w \in Workers, AnyExecutionStep(w) PROVE LockHasOwner'
    <2>1. ASSUME NEW s \in lock' PROVE \E v \in Workers : Holds(v, s)'
      <3>1. CASE Holds(w, s)'
        BY <3>1
      <3>2. CASE s \in lock /\ ~Holds(w, s)
        <4>1. PICK v \in Workers : Holds(v, s) /\ v # w
          BY <3>2 DEF LockHasOwner
        <4>2. worker'[v] = worker[v]
          BY <1>1, <4>1, ExecutionFrame
        <4> QED
          BY <4>1, <4>2 DEF Holds, Busy
      <3> QED
        BY <1>1, <3>1, <3>2, LockExecution, CrashStays
    <2> QED
      BY <2>1 DEF LockHasOwner
  <1>2. ASSUME NEW w \in Workers, Receive(w) PROVE LockHasOwner'
    <2>1. lock' = lock /\ ~Busy(w) /\ \A v \in Workers : v # w => worker'[v] = worker[v]
      BY <1>2 DEF Receive, TypeOK
    <2> QED
      BY <2>1 DEF LockHasOwner, Holds, Busy
  <1>3. ASSUME worker' = worker, lock' \subseteq lock PROVE LockHasOwner'
    BY <1>3 DEF LockHasOwner, Holds, Busy
  <1>4. ASSUME \/ UNCHANGED vars \/ EnrollmentChanges
               \/ \E p \in Parents : ParentStep(p) \/ ParentCrashes(p)
               \/ \E m \in queue : Redeliver(m)
               \/ \E s \in SubtaskIds : LockExpires(s)
        PROVE  LockHasOwner'
    BY <1>3, <1>4
    DEF vars, EnrollmentChanges, ParentStep, ParentRead, ParentDefine, ParentFetch,
        ParentQueueSubtask, ParentRaises, ParentDone, ParentFailRead, ParentFailSave,
        ParentCrashes, Redeliver, LockExpires
  <1> QED
    BY <1>1, <1>2, <1>4 DEF Next, AnyExecutionStep

\* Until a worker crashes, a key in the cache belongs to somebody at work.
THEOREM LockHasOwnerUntilCrash == Spec => [](budget.crashes = 0 => LockHasOwner)
  <1> DEFINE I == TypeOK /\ (budget.crashes = 0 => LockHasOwner)
  <1>1. Init => I
    BY TypeInit DEF Init, LockHasOwner
  <1>2. I /\ [Next]_vars => I'
    BY TypeStep, CrashStays, LockStep
  <1>3. I => (budget.crashes = 0 => LockHasOwner)
    OBVIOUS
  <1> HIDE DEF I
  <1> QED
    BY <1>1, <1>2, <1>3, PTL DEF Spec

-----------------------------------------------------------------------------
(***************************************************************************)
(* One execution of a subtask at a time.                                   *)
(***************************************************************************)
\* Duplicates do not overlap, or there are none.
OneByOne == SerialDuplicates \/ (MaxRedeliveries = 0 /\ "close" \notin Faults)

\* No two executions of a subtask at a time.
OneAtWork ==
    \A v, w \in Workers : Busy(v) /\ Busy(w) /\ worker[v].sid = worker[w].sid => v = w

\* An execution that has passed the check and may still write the row.
InWork(x) ==
    \/ x.pc \in {"lock", "start", "send", "update", "resubmit"}
    \/ x.pc = "release" /\ x.phase \in {"ratelimit", "transient"}

\* The counters are right, also in the copies parents have read, and nobody
\* works on a subtask the row has as done.
SerialRows ==
    /\ Consistent(entry) /\ \A p \in Parents : Consistent(parent[p].row)
    /\ entry.output = "progress" =>
          \A w \in Workers : Busy(w) /\ InWork(worker[w]) => worker[w].sid \notin Settled(entry)

\* The broker redelivers no more often than it may.
FewRedeliveries == budget.redeliveries <= MaxRedeliveries

\* The inductive invariant.
SerialInv == OnceInv /\ BooksInv /\ FewRedeliveries /\ OneAtWork /\ SerialRows

\* Redeliveries are counted.
LEMMA FewStays ==
    ASSUME TypeOK, [Next]_vars, FewRedeliveries
    PROVE  FewRedeliveries'
  <1>1. /\ budget \in [redeliveries : Nat, dberrors : Nat, crashes : Nat, churn : Nat]
        /\ MaxRedeliveries \in Nat
    BY BoundsAssumption DEF TypeOK
  <1>2. CASE budget' = budget
    BY <1>2 DEF FewRedeliveries
  <1>3. ASSUME NEW max, Spend("dberrors", max) \/ Spend("churn", max) \/ Spend("crashes", max)
        PROVE  FewRedeliveries'
    BY <1>1, <1>3 DEF Spend, FewRedeliveries
  <1>4. ASSUME Spend("redeliveries", MaxRedeliveries) PROVE FewRedeliveries'
    BY <1>1, <1>4 DEF Spend, FewRedeliveries
  <1>5. CASE budget' # budget
    <2>1. \/ Spend("redeliveries", MaxRedeliveries)
          \/ \E max : Spend("dberrors", max) \/ Spend("churn", max) \/ Spend("crashes", max)
      BY <1>5 DEF Next, vars, ParentStep, ParentRead, ParentDefine, ParentFetch,
         ParentQueueSubtask, ParentRaises, ParentDone, ParentFailRead, ParentFailSave,
         ParentCrashes, Receive, Working, CheckSubtaskIsValid, AcquireSubtaskLock,
         StartSending, ConnectFails, EmailMissing, SendEmail, AddressFails, SendFails,
         AllSent, UpdateStatus, ReleaseSubtaskLock, Resubmit, ResubmitFails, UpdateTimesOut,
         CloseFails, WorkerCrashes, Redeliver, LockExpires, EnrollmentChanges
    <2> QED
      BY <1>3, <1>4, <2>1
  <1> QED
    BY <1>2, <1>5

\* An execution keeps its subtask.
LEMMA SameSubtask ==
    ASSUME TypeOK, Books, NEW w \in Workers, AnyExecutionStep(w), Busy(w)'
    PROVE  worker'[w].sid = worker[w].sid
  <1>1. worker[w] \in Execution /\ Busy(w)
    BY ExecutionFrame, WorkerType DEF Busy
  <1>2. Size(worker[w].sid) \in Nat
    BY <1>1, SizesAreNat DEF Execution, Size, TypeOK
  <1> QED
    BY <1>1, <1>2, BookStep DEF Books, InBooks

\* Where duplicates do not overlap a worker waits for the other to end; where
\* there are none, a subtask has one holder.
LEMMA OneAtWorkStep ==
    ASSUME OneByOne, SerialInv, [Next]_vars, OnceInv', FewRedeliveries'
    PROVE  OneAtWork'
  <1>1. TypeOK /\ Books
    BY DEF SerialInv, BooksInv
  <1>2. CASE ~SerialDuplicates
    <2>1. NoDoubling'
      <3>1. MaxRedeliveries = 0 /\ "close" \notin Faults
        BY <1>2 DEF OneByOne
      <3>2. budget'.redeliveries \in Nat
        BY DEF OnceInv, TypeOK
      <3> QED
        BY <3>1, <3>2 DEF FewRedeliveries, NoDoubling
    <2> QED
      BY <2>1 DEF OnceInv, OneHolder, OneAtWork, Busy
  <1>3. CASE SerialDuplicates
    <2>1. ASSUME NEW w \in Workers, Receive(w) PROVE OneAtWork'
      <3>1. PICK m \in queue :
               /\ \A v \in Workers : Busy(v) => worker[v].sid # m.sid
               /\ worker'[w].sid = m.sid
               /\ \A v \in Workers : v # w => worker'[v] = worker[v]
        BY <1>1, <1>3, <2>1 DEF Receive, TypeOK
      <3> QED
        BY <3>1 DEF SerialInv, OneAtWork, Busy
    <2>2. ASSUME NEW w \in Workers, AnyExecutionStep(w) PROVE OneAtWork'
      <3>1. /\ Busy(w) /\ \A v \in Workers : v # w => worker'[v] = worker[v]
            /\ Busy(w)' => worker'[w].sid = worker[w].sid
        BY <1>1, <2>2, ExecutionFrame, SameSubtask
      <3> QED
        BY <3>1 DEF SerialInv, OneAtWork, Busy
    <2>3. CASE worker' = worker
      BY <2>3 DEF SerialInv, OneAtWork, Busy
    <2>4. ASSUME NEW p \in Parents, ParentStep(p) \/ ParentCrashes(p) PROVE worker' = worker
      BY <2>4 DEF ParentStep, ParentRead, ParentDefine, ParentFetch, ParentQueueSubtask,
         ParentRaises, ParentDone, ParentFailRead, ParentFailSave, ParentCrashes
    <2>5. CASE \/ UNCHANGED vars \/ EnrollmentChanges \/ \E m \in queue : Redeliver(m)
               \/ \E s \in SubtaskIds : LockExpires(s)
      BY <2>3, <2>5 DEF vars, EnrollmentChanges, Redeliver, LockExpires
    <2> QED
      BY <2>1, <2>2, <2>3, <2>4, <2>5 DEF Next, AnyExecutionStep
  <1> QED
    BY <1>2, <1>3

\* To be at work is to have been, or to have just found the subtask not done.
LEMMA WorkGoesOn ==
    ASSUME TypeOK, NEW w \in Workers, AnyExecutionStep(w), Busy(w)', InWork(worker'[w])
    PROVE  \/ InWork(worker[w])
           \/ worker[w].sid \notin Settled(entry) /\ entry' = entry
  <1> DEFINE x == worker[w]
  <1>1. x \in Execution /\ Busy(w)
    BY WorkerType, ExecutionFrame DEF Busy
  <1>2. CASE CheckSubtaskIsValid(w)
    <2>1. entry' = entry /\ worker'[w] = IF RejectsSubtask(entry, x.sid, x.status) THEN Idle
                                         ELSE [x EXCEPT !.pc = "lock"]
      BY <1>2 DEF CheckSubtaskIsValid, TypeOK
    <2>2. ~RejectsSubtask(entry, x.sid, x.status)
      BY <2>1 DEF Busy, Idle
    <2> QED
      BY <1>1, <2>1, <2>2 DEF RejectsSubtask, Settled
  <1>3. CASE ReleaseSubtaskLock(w)
    <2>1. x.pc = "release" /\ worker'[w] = IF x.frames > 1 THEN [x EXCEPT !.frames = @ - 1]
                                           ELSE AfterUpdate(x)
      BY <1>3 DEF ReleaseSubtaskLock, StepTo, TypeOK
    <2>2. CASE x.frames > 1
      BY <1>1, <2>1, <2>2 DEF InWork, Execution
    <2>3. CASE ~(x.frames > 1)
      <3>1. x.phase \notin {"final", "fail"}
        BY <2>1, <2>3 DEF AfterUpdate, Busy, Idle
      <3> QED
        BY <1>1, <2>1, <3>1 DEF InWork, Execution
    <2> QED
      BY <2>2, <2>3
  <1>4. CASE Resubmit(w) \/ WorkerCrashes(w)
    BY <1>4 DEF Resubmit, WorkerCrashes, StepTo, TypeOK, Busy, Idle
  <1>5. CASE \/ AcquireSubtaskLock(w) \/ StartSending(w) \/ ConnectFails(w) \/ EmailMissing(w)
             \/ SendEmail(w) \/ AddressFails(w) \/ SendFails(w) \/ AllSent(w)
             \/ UpdateStatus(w) \/ ResubmitFails(w) \/ UpdateTimesOut(w) \/ CloseFails(w)
    <2>1. x.pc \in {"lock", "start", "send", "update", "resubmit"}
      BY <1>5 DEF AcquireSubtaskLock, StartSending, ConnectFails, EmailMissing, SendEmail,
         AddressFails, SendFails, AllSent, UpdateStatus, ResubmitFails, UpdateTimesOut, CloseFails
    <2> QED
      BY <2>1 DEF InWork
  <1> QED
    BY <1>2, <1>3, <1>4, <1>5 DEF AnyExecutionStep, Working

\* Recording a status of a subtask that is not done keeps the counters right.
LEMMA SerialUpdate ==
    ASSUME SerialInv, NEW w \in Workers, UpdateStatus(w), ~UpdateFails(entry, worker[w].sid),
           entry' = UpdateSubtaskStatus(entry, worker[w].sid, worker[w].status)
    PROVE  /\ worker[w].sid \notin Settled(entry) /\ Known(entry, worker[w].sid)
           /\ worker[w].sid \in SubtaskIds /\ entry.output = "progress"
           /\ worker[w].status \in Status
           /\ worker[w].status.state \in READY_STATES \cup {RETRY}
           /\ Consistent(entry') /\ entry'.output = "progress"
           /\ Settled(entry') = IF worker[w].status.state = RETRY THEN Settled(entry)
                                ELSE Settled(entry) \cup {worker[w].sid}
           /\ worker[w].status.state # RETRY => Busy(w)' /\ ~InWork(worker'[w])
  <1> DEFINE x == worker[w]
  <1>1. TypeOK /\ entry \in Entry /\ x \in Execution /\ Busy(w) /\ x.pc = "update"
    <2>1. TypeOK
      BY DEF SerialInv, BooksInv
    <2> QED
      BY <2>1, WorkerType DEF UpdateStatus, Busy, TypeOK
  <1>2. x.sid \in SubtaskIds /\ x.status \in Status
    BY <1>1 DEF Execution
  <1>3. Known(entry, x.sid) /\ entry.output = "progress"
    BY DEF UpdateFails
  <1>4. x.sid \notin Settled(entry) /\ Consistent(entry)
    BY <1>1, <1>3 DEF SerialInv, SerialRows, InWork
  <1>5. TriesOf(x)
    BY <1>1 DEF SerialInv, BooksInv, Books, InBooks, Book
  <1>6. /\ x.status.state \in READY_STATES \cup {RETRY}
        /\ x.status.state # RETRY => x.phase \in {"final", "fail"}
    BY <1>1, <1>5 DEF TriesOf, Retries, Ends, Execution
  <1>7. /\ Consistent(entry')
        /\ Settled(entry') = IF x.status.state = RETRY THEN Settled(entry)
                             ELSE Settled(entry) \cup {x.sid}
    BY <1>1, <1>2, <1>3, <1>4, <1>6, ConsistentUpdate
  <1>8. entry'.output = "progress"
    BY <1>1, <1>3 DEF UpdateSubtaskStatus, Recorded, Entry
  <1>9. worker'[w].pc = "release" /\ worker'[w].phase = x.phase
    BY <1>1 DEF UpdateStatus, StepTo, TypeOK, Execution
  <1> QED
    BY <1>1, <1>2, <1>3, <1>4, <1>6, <1>7, <1>8, <1>9 DEF InWork, Busy

\* Every step keeps the row and its copies right.
LEMMA SerialRowsStep ==
    ASSUME SerialInv, [Next]_vars, OneAtWork'
    PROVE  SerialRows'
  <1> DEFINE NotDone(e) ==
               e.output = "progress" =>
                 \A w \in Workers : Busy(w)' /\ InWork(worker'[w]) => worker'[w].sid \notin Settled(e)
  <1>1. TypeOK /\ Books
    BY DEF SerialInv, BooksInv
  <1>2. Consistent(entry) /\ \A p \in Parents : Consistent(parent[p].row)
    BY DEF SerialInv, SerialRows
  <1>3. SUFFICES /\ Consistent(entry') /\ \A p \in Parents : Consistent(parent'[p].row)
                 /\ NotDone(entry')
    BY DEF SerialRows
  <1>4. ASSUME worker' = worker PROVE NotDone(entry)
    BY <1>4 DEF SerialInv, SerialRows, Busy
  <1>5. ASSUME NEW p \in Parents, ParentStep(p) \/ ParentCrashes(p)
        PROVE  /\ Consistent(entry') /\ \A q \in Parents : Consistent(parent'[q].row)
               /\ NotDone(entry')
    <2>1. CASE /\ ParentDefine(p) /\ worker' = worker
               /\ \E ids \in SUBSET (SubtaskIds \ used) :
                     /\ entry' = InitializeSubtaskInfo(parent[p].total, ids)
                     /\ parent'[p].row = parent[p].row
                     /\ \A q \in Parents : q # p => parent'[q] = parent[q]
      <3>1. PICK ids \in SUBSET SubtaskIds :
               /\ entry' = InitializeSubtaskInfo(parent[p].total, ids)
               /\ parent'[p].row = parent[p].row
               /\ \A q \in Parents : q # p => parent'[q] = parent[q]
        BY <2>1
      <3>2. /\ Settled(entry') = {} /\ KnownIds(entry') = ids
            /\ entry'.nsucceeded = 0 /\ entry'.nfailed = 0 /\ entry'.ntotal = Cardinality(ids)
            /\ entry'.state # SUCCESS
        BY <3>1 DEF InitializeSubtaskInfo, Settled, KnownIds, Known, NewStatus, NoStatus, StatusIn,
           READY_STATES, SUCCESS, FAILURE, UNKNOWN, QUEUING, PROGRESS
      <3>3. Consistent(entry')
        BY <3>2, ConsistentNew
      <3> QED
        BY <1>2, <3>1, <3>2, <3>3
    <2>2. CASE /\ UNCHANGED <<entry, worker>> /\ parent'[p].row = parent[p].row
               /\ \A q \in Parents : q # p => parent'[q] = parent[q]
      BY <1>2, <1>4, <2>2
    <2>3. CASE /\ worker' = worker
               /\ entry' \in {entry, MarkFailed(parent[p].row)}
               /\ parent'[p].row \in {entry, parent[p].row}
               /\ \A q \in Parents : q # p => parent'[q] = parent[q]
      <3>1. /\ Consistent(MarkFailed(parent[p].row))
            /\ MarkFailed(parent[p].row).output = "failure"
        <4>1. parent[p].row \in Entry
          BY <1>1 DEF TypeOK, ParentRun
        <4> QED
          BY <1>2, <4>1, ConsistentFailed DEF MarkFailed, Entry
      <3>2. NotDone(entry) /\ NotDone(MarkFailed(parent[p].row))
        BY <1>4, <2>3, <3>1
      <3> HIDE DEF NotDone
      <3> QED
        BY <1>2, <2>3, <3>1, <3>2
    <2> HIDE DEF NotDone
    <2> QED
      BY <1>1, <1>5, <2>1, <2>2, <2>3, ParentIds
  <1>6. ASSUME NEW w \in Workers, Receive(w)
        PROVE  /\ Consistent(entry') /\ \A q \in Parents : Consistent(parent'[q].row)
               /\ NotDone(entry')
    <2>1. /\ entry' = entry /\ parent' = parent /\ worker'[w].pc = "check"
          /\ \A v \in Workers : v # w => worker'[v] = worker[v]
      BY <1>1, <1>6, ReceiveIs
    <2>2. NotDone(entry)
      BY <2>1 DEF SerialInv, SerialRows, Busy, InWork
    <2> QED
      BY <1>2, <2>1, <2>2
  <1>7. ASSUME NEW w \in Workers, AnyExecutionStep(w)
        PROVE  /\ Consistent(entry') /\ \A q \in Parents : Consistent(parent'[q].row)
               /\ NotDone(entry')
    <2>1. /\ Busy(w) /\ \A v \in Workers : v # w => worker'[v] = worker[v]
          /\ parent' = parent
      BY <1>1, <1>7, ExecutionFrame
    <2>2. \A v \in Workers : Busy(v)' /\ InWork(worker'[v]) =>
             /\ Busy(v) /\ worker'[v].sid = worker[v].sid
             /\ InWork(worker[v]) \/ (worker[v].sid \notin Settled(entry) /\ entry' = entry)
      BY <1>1, <1>7, <2>1, WorkGoesOn, SameSubtask DEF Busy
    <2>3. CASE entry' = entry
      BY <1>2, <2>1, <2>2, <2>3 DEF SerialInv, SerialRows
    <2>4. CASE /\ entry' # entry /\ UpdateStatus(w) /\ ~UpdateFails(entry, worker[w].sid)
               /\ entry' = UpdateSubtaskStatus(entry, worker[w].sid, worker[w].status)
      <3>1. /\ Consistent(entry') /\ entry.output = "progress"
            /\ Settled(entry') = IF worker[w].status.state = RETRY THEN Settled(entry)
                                 ELSE Settled(entry) \cup {worker[w].sid}
            /\ worker[w].status.state # RETRY => Busy(w)' /\ ~InWork(worker'[w])
        BY <2>4, SerialUpdate
      <3>2. ASSUME NEW v \in Workers, Busy(v)', InWork(worker'[v])
            PROVE  worker'[v].sid \notin Settled(entry')
        <4>1. worker[v].sid \notin Settled(entry) /\ worker'[v].sid = worker[v].sid /\ Busy(v)
          BY <2>2, <2>4, <3>1, <3>2 DEF SerialInv, SerialRows
        <4>2. worker[w].status.state # RETRY => worker[v].sid # worker[w].sid
          BY <2>1, <3>1, <3>2, <4>1 DEF SerialInv, OneAtWork
        <4> QED
          BY <3>1, <4>1, <4>2
      <3> QED
        BY <1>2, <2>1, <3>1, <3>2
    <2> QED
      BY <1>1, <1>7, <2>3, <2>4, ExecutionFrame
  <1>8. CASE \/ UNCHANGED vars \/ EnrollmentChanges \/ \E m \in queue : Redeliver(m)
             \/ \E s \in SubtaskIds : LockExpires(s)
    <2>1. UNCHANGED <<entry, parent, worker>>
      BY <1>8 DEF vars, EnrollmentChanges, Redeliver, LockExpires
    <2> QED
      BY <1>2, <1>4, <2>1
  <1> HIDE DEF NotDone
  <1> QED
    BY <1>5, <1>6, <1>7, <1>8 DEF Next, AnyExecutionStep

\* Every step keeps the invariant.
LEMMA SerialStep ==
    ASSUME OneByOne, SerialInv, [Next]_vars
    PROVE  SerialInv'
  <1>1. OnceInv' /\ BooksInv' /\ FewRedeliveries'
    <2>1. OnceInv /\ BooksInv /\ FewRedeliveries /\ TypeOK
      BY DEF SerialInv, OnceInv
    <2>2. OnceInv'
      BY <2>1, OnceStep
    <2> QED
      BY <2>1, <2>2, TypeStep, BooksStep, FewStays DEF BooksInv
  <1> QED
    BY <1>1, OneAtWorkStep, SerialRowsStep DEF SerialInv

\* It holds at the start.
LEMMA SerialInit == Init => SerialInv
  <1> SUFFICES ASSUME Init PROVE SerialInv
    OBVIOUS
  <1>1. OnceInv /\ BooksInv
    BY OnceInit, TypeInit, BooksInit DEF BooksInv
  <1>2. FewRedeliveries /\ OneAtWork
    BY BoundsAssumption DEF Init, FewRedeliveries, OneAtWork, Busy, Idle
  <1>3. Settled(NewEntry) = {} /\ KnownIds(NewEntry) = {}
    BY DEF NewEntry, Settled, KnownIds, Known, NoStatus, StatusIn, READY_STATES, SUCCESS,
       FAILURE, UNKNOWN
  <1>4. Consistent(NewEntry)
    <2>1. /\ NewEntry.nsucceeded = 0 /\ NewEntry.nfailed = 0 /\ NewEntry.ntotal = 0
          /\ NewEntry.state # SUCCESS
      BY DEF NewEntry, QUEUING, SUCCESS
    <2> QED
      BY <1>3, <2>1, ConsistentNew, FS_EmptySet
  <1>5. SerialRows
    BY <1>4 DEF Init, SerialRows, Busy, Idle
  <1> QED
    BY <1>1, <1>2, <1>5 DEF SerialInv

\* With one execution of a subtask at a time the invariant holds throughout.
THEOREM SerialInvariant ==
    ASSUME OneByOne PROVE Spec => []SerialInv
  <1>1. SerialInv /\ [Next]_vars => SerialInv'
    BY SerialStep
  <1> QED
    BY <1>1, SerialInit, PTL DEF Spec

\* The counters and the end of the task are right, duplicates or not, as long as
\* those of one subtask do not overlap (AlwaysCountersMatch).
THEOREM CountersMatchSerially ==
    ASSUME OneByOne PROVE Spec => []AlwaysCountersMatch
  <1>1. SerialInv => AlwaysCountersMatch
    BY DEF SerialInv, SerialRows, Consistent, KnownIds, AlwaysCountersMatch
  <1> QED
    BY <1>1, SerialInvariant, PTL

\* A done subtask keeps its record (DoneStaysDone).
THEOREM DoneStaysDoneSerially ==
    ASSUME OneByOne PROVE Spec => DoneStaysDone
  <1> DEFINE Kept == \A s \in SubtaskIds :
                s \in Settled(entry) /\ Known(entry', s) /\ entry'.output # "failure"
                    => entry'.status[s] = entry.status[s]
  <1>1. SerialInv /\ [Next]_vars => [Kept]_vars
    <2> SUFFICES ASSUME SerialInv, [Next]_vars PROVE Kept \/ UNCHANGED vars
      OBVIOUS
    <2>1. TypeOK /\ Books
      BY DEF SerialInv, BooksInv
    <2>2. CASE entry' = entry
      BY <2>2
    <2>3. ASSUME NEW p \in Parents, ParentStep(p) \/ ParentCrashes(p) PROVE Kept
      <3>1. CASE \E ids \in SUBSET (SubtaskIds \ used) :
                    entry' = InitializeSubtaskInfo(parent[p].total, ids)
        <4>1. Settled(entry) \subseteq used
          BY <2>1 DEF Books, Speaks, HandedOut
        <4> QED
          BY <3>1, <4>1 DEF InitializeSubtaskInfo, Known, NoStatus, StatusIn
      <3>2. CASE entry' \in {entry, MarkFailed(parent[p].row)}
        <4>1. parent[p].row \in Entry
          BY <2>1 DEF TypeOK, ParentRun
        <4>2. MarkFailed(parent[p].row).output = "failure"
          BY <4>1 DEF MarkFailed, Entry
        <4> QED
          BY <3>2, <4>2
      <3> QED
        BY <2>1, <2>3, <3>1, <3>2, ParentIds
    <2>4. ASSUME NEW w \in Workers, AnyExecutionStep(w) PROVE Kept
      <3>1. CASE entry' # entry
        <4>1. /\ UpdateStatus(w) /\ ~UpdateFails(entry, worker[w].sid)
              /\ entry' = UpdateSubtaskStatus(entry, worker[w].sid, worker[w].status)
          BY <2>1, <2>4, <3>1, ExecutionFrame
        <4>2. worker[w].sid \notin Settled(entry) /\ worker[w].sid \in SubtaskIds
          BY <4>1, SerialUpdate
        <4>3. entry'.status = [entry.status EXCEPT ![worker[w].sid] = worker[w].status]
          BY <2>1, <4>1, <4>2 DEF UpdateSubtaskStatus, Recorded, TypeOK, Entry
        <4> QED
          BY <2>1, <4>2, <4>3 DEF TypeOK, Entry
      <3> QED
        BY <2>2, <3>1
    <2>5. CASE \/ UNCHANGED vars \/ EnrollmentChanges \/ (\E m \in queue : Redeliver(m))
               \/ (\E s \in SubtaskIds : LockExpires(s)) \/ \E w \in Workers : Receive(w)
      BY <2>2, <2>5 DEF vars, EnrollmentChanges, Redeliver, LockExpires, Receive
    <2> HIDE DEF Kept
    <2> QED
      BY <2>3, <2>4, <2>5 DEF Next, AnyExecutionStep
  <1> QED
    BY <1>1, SerialInvariant, PTL DEF Spec, DoneStaysDone

-----------------------------------------------------------------------------
(***************************************************************************)
(* The counts shown to the instructor are those of the subtasks that are   *)
(* done.  They are added up one subtask at a time, when it is recorded as  *)
(* done, which is no more than once.                                       *)
(***************************************************************************)
\* The counts of the row add up, in every field.
AddsUp ==
    entry.output = "progress" => \A field \in CountFields : entry.progress[field] = StatusSum(field)

\* What the row has of s is a sum of numbers.
LEMMA CountsAreNat ==
    ASSUME NEW e \in Entry, NEW field \in CountFields
    PROVE  /\ \A s \in SubtaskIds : e.status[s][field] \in Nat
           /\ e.progress[field] \in Nat
  <1>1. CASE field = "succeeded"
    BY <1>1 DEF Entry, Status, Progress
  <1>2. CASE field = "failed"
    BY <1>2 DEF Entry, Status, Progress
  <1>3. CASE field = "skipped"
    BY <1>3 DEF Entry, Status, Progress
  <1> QED
    BY <1>1, <1>2, <1>3 DEF CountFields

\* The row that has one more status recorded.
LEMMA RecordedCounts ==
    ASSUME NEW e \in Entry, NEW s \in SubtaskIds, NEW st \in Status, e.output = "progress",
           NEW field \in CountFields
    PROVE  LET u == UpdateSubtaskStatus(e, s, st) IN
           /\ u.status[s][field] = st[field] /\ st[field] \in Nat
           /\ \A t \in SubtaskIds : t # s => u.status[t][field] = e.status[t][field]
           /\ u.progress[field] = IF st.state \in READY_STATES THEN e.progress[field] + st[field]
                                  ELSE e.progress[field]
  <1> DEFINE u == UpdateSubtaskStatus(e, s, st)
  <1>1. /\ u.status = [e.status EXCEPT ![s] = st]
        /\ u.progress = IF st.state \in READY_STATES THEN AddCounts(e.progress, st) ELSE e.progress
    BY DEF UpdateSubtaskStatus, Recorded, Entry
  <1>2. /\ u.status[s] = st /\ \A t \in SubtaskIds : t # s => u.status[t] = e.status[t]
    BY <1>1 DEF Entry
  <1>3. st[field] \in Nat
    <2>1. CASE field = "succeeded"
      BY <2>1 DEF Status
    <2>2. CASE field = "failed"
      BY <2>2 DEF Status
    <2>3. CASE field = "skipped"
      BY <2>3 DEF Status
    <2> QED
      BY <2>1, <2>2, <2>3 DEF CountFields
  <1>4. AddCounts(e.progress, st)[field] = e.progress[field] + st[field]
    <2>1. e.progress \in Progress
      BY DEF Entry
    <2>2. CASE field = "succeeded"
      BY <2>1, <2>2 DEF AddCounts, Progress
    <2>3. CASE field = "failed"
      BY <2>1, <2>3 DEF AddCounts, Progress
    <2>4. CASE field = "skipped"
      BY <2>1, <2>4 DEF AddCounts, Progress
    <2> QED
      BY <2>2, <2>3, <2>4 DEF CountFields
  <1> QED
    BY <1>1, <1>2, <1>3, <1>4

\* Recording a subtask that was not done keeps the sums right.
LEMMA AddsUpRecord ==
    ASSUME entry \in Entry, AddsUp, NEW s \in SubtaskIds, NEW st \in Status,
           entry.output = "progress", s \notin Settled(entry),
           st.state \in READY_STATES \cup {RETRY},
           entry' = UpdateSubtaskStatus(entry, s, st),
           Settled(entry') = IF st.state = RETRY THEN Settled(entry) ELSE Settled(entry) \cup {s}
    PROVE  AddsUp'
  <1> SUFFICES ASSUME NEW field \in CountFields
               PROVE  entry'.progress[field] = StatusSum(field)'
    BY DEF AddsUp
  <1> DEFINE old == [t \in SubtaskIds |-> entry.status[t][field]]
             new == [t \in SubtaskIds |-> entry'.status[t][field]]
             S == Settled(entry)
  <1>1. /\ new[s] = st[field] /\ st[field] \in Nat
        /\ \A t \in SubtaskIds : t # s => new[t] = old[t]
        /\ entry'.progress[field] = IF st.state \in READY_STATES
                                    THEN entry.progress[field] + st[field]
                                    ELSE entry.progress[field]
    BY RecordedCounts
  <1>2. S \in SUBSET SubtaskIds /\ IsFiniteSet(S) /\ s \notin S
    BY IdsAssumption, FS_Subset DEF Settled
  <1>3. \A t \in SubtaskIds : old[t] \in Nat
    BY CountsAreNat
  <1>4. \A t \in S \cup {s} : new[t] \in Nat
    BY <1>1, <1>2, <1>3
  <1>5. /\ entry.progress[field] = SumFunctionOnSet(old, S)
        /\ StatusSum(field)' = SumFunctionOnSet(new, Settled(entry'))
    BY DEF AddsUp, StatusSum
  <1>6. \A t \in S : old[t] = new[t]
    BY <1>1, <1>2
  <1> HIDE DEF old, new, S
  <1>7. SumFunctionOnSet(old, S) = SumFunctionOnSet(new, S)
    BY <1>2, <1>6, SumSame
  <1>8. CASE st.state = RETRY
    <2>1. st.state \notin READY_STATES /\ Settled(entry') = S
      BY <1>8 DEF RETRY, READY_STATES, SUCCESS, FAILURE, S
    <2> QED
      BY <1>1, <1>5, <1>7, <2>1
  <1>9. CASE st.state # RETRY
    <2>1. st.state \in READY_STATES /\ Settled(entry') = S \cup {s}
      BY <1>9 DEF S
    <2>2. SumFunctionOnSet(new, S \cup {s}) = new[s] + SumFunctionOnSet(new, S)
      BY <1>2, <1>4, SumAdd
    <2>3. SumFunctionOnSet(new, S) \in Nat
      BY <1>2, <1>4, SumType
    <2>4. entry'.progress[field] = SumFunctionOnSet(new, S) + new[s]
      BY <1>1, <1>5, <1>7, <2>1
    <2>5. StatusSum(field)' = new[s] + SumFunctionOnSet(new, S)
      BY <1>5, <2>1, <2>2
    <2> QED
      BY <1>1, <2>3, <2>4, <2>5
  <1> QED
    BY <1>8, <1>9

\* So does every step, where what is recorded is a subtask that was not done.
LEMMA AddsUpStep ==
    ASSUME TypeOK, Books, AddsUp, [Next]_vars,
           \A w \in Workers :
              /\ UpdateStatus(w) /\ ~UpdateFails(entry, worker[w].sid)
              /\ entry' = UpdateSubtaskStatus(entry, worker[w].sid, worker[w].status)
              => /\ worker[w].sid \in SubtaskIds /\ worker[w].status \in Status
                 /\ worker[w].sid \notin Settled(entry)
                 /\ worker[w].status.state \in READY_STATES \cup {RETRY}
                 /\ Settled(entry') = IF worker[w].status.state = RETRY THEN Settled(entry)
                                      ELSE Settled(entry) \cup {worker[w].sid}
    PROVE  AddsUp'
  <1>1. CASE entry' = entry
    BY <1>1 DEF AddsUp, StatusSum
  <1>2. ASSUME NEW p \in Parents, ParentStep(p) \/ ParentCrashes(p), entry' # entry
        PROVE  AddsUp'
    <2>1. CASE \E ids \in SUBSET (SubtaskIds \ used) :
                  entry' = InitializeSubtaskInfo(parent[p].total, ids)
      <3>1. PICK ids : entry' = InitializeSubtaskInfo(parent[p].total, ids)
        BY <2>1
      <3>2. Settled(entry') = {}
        BY <3>1 DEF InitializeSubtaskInfo, Settled, NewStatus, NoStatus, StatusIn,
           READY_STATES, SUCCESS, FAILURE, UNKNOWN, QUEUING
      <3>3. \A field \in CountFields : entry'.progress[field] = 0
        BY <3>1 DEF InitializeSubtaskInfo, NoProgress, CountFields
      <3>4. \A field : StatusSum(field)' = 0
        BY <3>2, SumEmpty DEF StatusSum
      <3> QED
        BY <3>3, <3>4 DEF AddsUp
    <2>2. CASE entry' = MarkFailed(parent[p].row)
      <3>1. parent[p].row \in Entry
        BY DEF TypeOK, ParentRun
      <3>2. entry'.output = "failure"
        BY <2>2, <3>1 DEF MarkFailed, Entry
      <3> QED
        BY <3>2 DEF AddsUp
    <2> QED
      BY <1>2, <2>1, <2>2, ParentIds
  <1>3. ASSUME NEW w \in Workers, AnyExecutionStep(w), entry' # entry
        PROVE  AddsUp'
    <2>1. /\ UpdateStatus(w) /\ ~UpdateFails(entry, worker[w].sid)
          /\ entry' = UpdateSubtaskStatus(entry, worker[w].sid, worker[w].status)
      BY <1>3, ExecutionFrame
    <2>2. entry.output = "progress" /\ entry \in Entry
      BY <2>1 DEF UpdateFails, TypeOK
    <2> QED
      BY <2>1, <2>2, AddsUpRecord
  <1>4. CASE \/ UNCHANGED vars \/ EnrollmentChanges \/ (\E m \in queue : Redeliver(m))
             \/ (\E s \in SubtaskIds : LockExpires(s)) \/ \E w \in Workers : Receive(w)
    BY <1>1, <1>4 DEF vars, EnrollmentChanges, Redeliver, LockExpires, Receive
  <1> QED
    BY <1>1, <1>2, <1>3, <1>4 DEF Next, AnyExecutionStep

\* Before the parent task has run nothing is shown.
LEMMA AddsUpInit == Init => AddsUp
  BY DEF Init, NewEntry, AddsUp

\* The counts shown are the sums over the subtasks that are done, whatever the
\* order in which they end, fail and are retried (ProgressAddsUp).
THEOREM ProgressAlwaysAddsUp == Spec => []ProgressAddsUp
  <1> DEFINE Inv == OnceInv /\ BooksInv /\ (NoDoubling => AddsUp)
  <1>1. Init => Inv
    BY OnceInit, BooksInit, TypeInit, AddsUpInit DEF BooksInv
  <1>2. Inv /\ [Next]_vars => Inv'
    <2> SUFFICES ASSUME Inv, [Next]_vars PROVE Inv'
      OBVIOUS
    <2>1. TypeOK /\ Books /\ OnceInv
      BY DEF BooksInv
    <2>2. OnceInv' /\ BooksInv'
      BY <2>1, OnceStep, TypeStep, BooksStep DEF BooksInv
    <2>3. ASSUME NoDoubling' PROVE AddsUp'
      <3>1. OneHolder /\ Phases /\ RowsSound /\ AddsUp
        BY <2>1, <2>3, RedeliveryStays DEF OnceInv
      <3>2. ASSUME NEW w \in Workers, UpdateStatus(w), ~UpdateFails(entry, worker[w].sid),
                   entry' = UpdateSubtaskStatus(entry, worker[w].sid, worker[w].status)
            PROVE  /\ worker[w].sid \in SubtaskIds /\ worker[w].status \in Status
                   /\ worker[w].sid \notin Settled(entry)
                   /\ worker[w].status.state \in READY_STATES \cup {RETRY}
                   /\ Settled(entry') = IF worker[w].status.state = RETRY THEN Settled(entry)
                                        ELSE Settled(entry) \cup {worker[w].sid}
        <4>1. worker[w] \in Execution /\ Busy(w) /\ worker[w].pc = "update"
          BY <2>1, <3>2, WorkerType DEF UpdateStatus, Busy
        <4>2. worker[w].sid \in SubtaskIds /\ worker[w].status \in Status
          BY <4>1 DEF Execution
        <4>3. worker[w].sid \notin Settled(entry)
          BY <3>1, <4>1 DEF RowsSound, Sound, Over, Leaving
        <4>4. worker[w].status.state \in READY_STATES \cup {RETRY}
          BY <3>1, <4>1 DEF Phases, PhaseOf
        <4>5. entry \in Entry /\ Consistent(entry) /\ Known(entry, worker[w].sid)
          BY <2>1, <3>1, <3>2 DEF TypeOK, RowsSound, Sound, UpdateFails
        <4> QED
          BY <3>2, <4>2, <4>3, <4>4, <4>5, ConsistentUpdate
      <3> QED
        BY <2>1, <3>1, <3>2, AddsUpStep
    <2> QED
      BY <2>2, <2>3
  <1>3. Inv => ProgressAddsUp
    BY DEF AddsUp, ProgressAddsUp
  <1> HIDE DEF Inv
  <1> QED
    BY <1>1, <1>2, <1>3, PTL DEF Spec

\* Also where subtasks are delivered twice, one after the other (AddsUp).
THEOREM ProgressAddsUpSerially ==
    ASSUME OneByOne PROVE Spec => []AddsUp
  <1>1. SerialInv /\ AddsUp /\ [Next]_vars => AddsUp'
    <2> SUFFICES ASSUME SerialInv, AddsUp, [Next]_vars PROVE AddsUp'
      OBVIOUS
    <2>1. TypeOK /\ Books
      BY DEF SerialInv, BooksInv
    <2> QED
      BY <2>1, SerialUpdate, AddsUpStep
  <1>2. Init => SerialInv /\ AddsUp
    BY SerialInit, AddsUpInit
  <1>3. SerialInv /\ [Next]_vars => SerialInv'
    BY SerialStep
  <1> QED
    BY <1>1, <1>2, <1>3, PTL DEF Spec

-----------------------------------------------------------------------------
(***************************************************************************)
(* The row is a ledger (ImplementsLedger).                                 *)
(***************************************************************************)
OneParent == \A p, q \in Parents : p = q

\* The parent's record of what it has begun: a parent that has not written the
\* row, or gives up before it does, finds it as it was created, and what it has
\* read to mark as failed is the row before some more of the same subtasks were
\* done.
LedgerRows ==
    /\ entry.output = "progress" => entry.state \in {PROGRESS, SUCCESS}
    /\ \A p \in Parents :
          /\ parent[p].pc \in {"ready", "define"} => entry = NewEntry
          /\ parent[p].pc \in {"fetch", "queue"} => entry.output = "progress"
          /\ parent[p].pc \in {"failed", "failing"} =>
                entry = NewEntry \/ entry.output = "progress"
          /\ parent[p].pc = "failing" =>
                /\ Settled(parent[p].row) \subseteq Settled(entry)
                /\ KnownIds(parent[p].row) = KnownIds(entry)

\* The inductive invariant.
LedgerInv == SerialInv /\ LedgerRows

\* What a parent does to the row it reads and the row it writes.
LEMMA LedgerParent ==
    ASSUME OneParent, TypeOK, LedgerRows, NEW p \in Parents, ParentStep(p) \/ ParentCrashes(p)
    PROVE  LedgerRows'
  <1>1. parent[p] \in ParentRun /\ parent \in [Parents -> ParentRun] /\ \A q \in Parents : q = p
    BY DEF TypeOK, OneParent
  <1>2. entry \in Entry /\ parent[p].row \in Entry
    BY <1>1 DEF TypeOK, ParentRun
  <1> DEFINE Row(e, pc, row) ==
               /\ e.output = "progress" => e.state \in {PROGRESS, SUCCESS}
               /\ pc \in {"ready", "define"} => e = NewEntry
               /\ pc \in {"fetch", "queue"} => e.output = "progress"
               /\ pc \in {"failed", "failing"} => e = NewEntry \/ e.output = "progress"
               /\ pc = "failing" => /\ Settled(row) \subseteq Settled(e)
                                    /\ KnownIds(row) = KnownIds(e)
  <1>3. Row(entry, parent[p].pc, parent[p].row)
    BY DEF LedgerRows
  <1>4. SUFFICES Row(entry', parent'[p].pc, parent'[p].row)
    BY <1>1 DEF LedgerRows
  <1>5. CASE ParentRead(p)
    BY <1>1, <1>3, <1>5 DEF ParentRead, ParentRun
  <1>6. CASE ParentDefine(p)
    <2>1. PICK ids \in SUBSET SubtaskIds :
             /\ entry' = InitializeSubtaskInfo(parent[p].total, ids)
             /\ parent' = [parent EXCEPT ![p].pc = "fetch", ![p].ids = ids, ![p].wrote = TRUE]
      BY <1>6 DEF ParentDefine
    <2>2. parent'[p].pc = "fetch"
      BY <1>1, <2>1 DEF ParentRun
    <2> QED
      BY <2>1, <2>2 DEF InitializeSubtaskInfo
  <1>7. CASE ParentFetch(p)
    BY <1>1, <1>3, <1>7 DEF ParentFetch, ParentRun
  <1>8. CASE ParentQueueSubtask(p)
    <2>1. \E ids, todo : parent' = [parent EXCEPT ![p].ids = ids, ![p].todo = todo]
      BY <1>8 DEF ParentQueueSubtask
    <2>2. entry' = entry /\ parent[p].pc = "queue"
      BY <1>8 DEF ParentQueueSubtask
    <2> QED
      BY <1>1, <1>3, <2>1, <2>2 DEF ParentRun
  <1>9. CASE ParentRaises(p)
    BY <1>1, <1>3, <1>9 DEF ParentRaises, ParentRun
  <1>10. CASE ParentDone(p) \/ ParentCrashes(p)
    BY <1>1, <1>3, <1>10 DEF ParentDone, ParentCrashes, ParentRun
  <1>11. CASE ParentFailRead(p)
    BY <1>1, <1>3, <1>11 DEF ParentFailRead, ParentRun
  <1>12. CASE ParentFailSave(p)
    <2>1. parent'[p].pc = "done" /\ entry'.output = "failure"
      BY <1>1, <1>2, <1>12 DEF ParentFailSave, ParentRun, MarkFailed, Entry
    <2> QED
      BY <2>1
  <1> QED
    BY <1>5, <1>6, <1>7, <1>8, <1>9, <1>10, <1>11, <1>12 DEF ParentStep

\* What recording a status does to the ledger: close the subtask, or nothing.
LEMMA LedgerUpdate ==
    ASSUME NEW e \in Entry, NEW s \in SubtaskIds, NEW st \in Status, Consistent(e),
           Known(e, s), s \notin Settled(e), st.state \in READY_STATES \cup {RETRY},
           NEW u, u = UpdateSubtaskStatus(e, s, st)
    PROVE  /\ KnownIds(u) = KnownIds(e) /\ u.output = e.output
           /\ Settled(u) = IF st.state = RETRY THEN Settled(e) ELSE Settled(e) \cup {s}
           /\ e.state # SUCCESS
           /\ u.state = IF KnownIds(u) \subseteq Settled(u) THEN SUCCESS ELSE e.state
  <1>1. /\ Consistent(u)
        /\ Settled(u) = IF st.state = RETRY THEN Settled(e) ELSE Settled(e) \cup {s}
    BY ConsistentUpdate
  <1>2. /\ u.status = [e.status EXCEPT ![s] = st] /\ u.output = e.output
        /\ u.ntotal = e.ntotal
        /\ u.state = IF u.nsucceeded + u.nfailed >= u.ntotal THEN SUCCESS ELSE e.state
    BY DEF UpdateSubtaskStatus, Recorded, Entry
  <1>3. KnownIds(u) = KnownIds(e)
    <2>1. /\ u.status[s] = st
          /\ \A t \in SubtaskIds : t # s => u.status[t] = e.status[t]
      BY <1>2 DEF Entry
    <2> QED
      BY <2>1 DEF KnownIds, Known, READY_STATES, SUCCESS, FAILURE, RETRY, UNKNOWN
  <1>4. e.state # SUCCESS
    BY DEF Consistent, KnownIds
  <1>5. ASSUME KnownIds(u) \subseteq Settled(u) PROVE u.state = SUCCESS
    <2>1. Settled(u) \subseteq KnownIds(u)
      BY DEF Settled, KnownIds, Known, READY_STATES, SUCCESS, FAILURE, UNKNOWN
    <2>2. Settled(u) = KnownIds(u) /\ KnownIds(u) \in SUBSET SubtaskIds
      BY <1>5, <2>1 DEF KnownIds
    <2>3. u.nsucceeded + u.nfailed = u.ntotal /\ u.ntotal \in Nat
      BY <1>1, <2>2, SizesAreNat DEF Consistent
    <2> QED
      BY <1>2, <2>3
  <1>6. ASSUME ~(KnownIds(u) \subseteq Settled(u)) PROVE u.state = e.state
    BY <1>1, <1>2, <1>6 DEF Consistent
  <1> QED
    BY <1>1, <1>2, <1>3, <1>4, <1>5, <1>6

\* Every step keeps the one parent and its row in order.
LEMMA LedgerRowsStep ==
    ASSUME OneParent, LedgerInv, [Next]_vars
    PROVE  LedgerRows'
  <1>1. TypeOK /\ LedgerRows
    BY DEF LedgerInv, SerialInv, BooksInv
  <1>2. CASE UNCHANGED <<entry, parent>>
    BY <1>1, <1>2 DEF LedgerRows
  <1>3. ASSUME NEW w \in Workers, AnyExecutionStep(w), entry' # entry PROVE LedgerRows'
    <2>1. /\ UpdateStatus(w) /\ ~UpdateFails(entry, worker[w].sid) /\ parent' = parent
          /\ entry' = UpdateSubtaskStatus(entry, worker[w].sid, worker[w].status)
      BY <1>1, <1>3, ExecutionFrame
    <2>2. /\ worker[w].sid \in SubtaskIds /\ worker[w].status \in Status
          /\ Known(entry, worker[w].sid) /\ worker[w].sid \notin Settled(entry)
          /\ worker[w].status.state \in READY_STATES \cup {RETRY}
          /\ Consistent(entry) /\ entry \in Entry /\ entry.output = "progress"
      BY <1>1, <2>1, SerialUpdate DEF LedgerInv, SerialInv, SerialRows, TypeOK
    <2>3. /\ KnownIds(entry') = KnownIds(entry) /\ entry'.output = "progress"
          /\ Settled(entry) \subseteq Settled(entry')
          /\ entry'.state \in {SUCCESS, entry.state}
      BY <2>1, <2>2, LedgerUpdate
    <2>4. entry # NewEntry
      BY <2>2 DEF NewEntry
    <2> QED
      BY <1>1, <2>1, <2>2, <2>3, <2>4 DEF LedgerRows
  <1>4. ASSUME NEW w \in Workers, AnyExecutionStep(w) PROVE LedgerRows'
    BY <1>1, <1>2, <1>3, <1>4, ExecutionFrame
  <1>5. CASE \/ UNCHANGED vars \/ EnrollmentChanges \/ (\E m \in queue : Redeliver(m))
             \/ (\E s \in SubtaskIds : LockExpires(s)) \/ \E w \in Workers : Receive(w)
    BY <1>2, <1>5 DEF vars, EnrollmentChanges, Redeliver, LockExpires, Receive
  <1> QED
    BY <1>1, <1>4, <1>5, LedgerParent DEF Next, AnyExecutionStep

\* A step of the row is a step of the ledger.
LEMMA LedgerStep ==
    ASSUME LedgerInv, [Next]_vars
    PROVE  [Ledger!Next]_(Ledger!ledger)
  <1>1. TypeOK /\ LedgerRows /\ entry \in Entry
    BY DEF LedgerInv, SerialInv, BooksInv, TypeOK
  <1>2. CASE entry' = entry
    BY <1>2 DEF Ledger!ledger, Open
  <1>3. ASSUME NEW p \in Parents, ParentStep(p) \/ ParentCrashes(p), entry' # entry
        PROVE  Ledger!Next
    <2>1. CASE ParentDefine(p)
      <3>1. PICK ids \in SUBSET SubtaskIds : entry' = InitializeSubtaskInfo(parent[p].total, ids)
        BY <2>1 DEF ParentDefine
      <3>2. entry = NewEntry
        BY <1>1, <2>1 DEF LedgerRows, ParentDefine
      <3>3. entry.state = "QUEUING" /\ Settled(entry) = {}
        BY <3>2 DEF NewEntry, QUEUING, Settled, NoStatus, StatusIn, READY_STATES, SUCCESS,
           FAILURE, UNKNOWN
      <3>4. entry'.state = "PROGRESS" /\ Settled(entry') = {}
        BY <3>1 DEF InitializeSubtaskInfo, PROGRESS, Settled, NewStatus, NoStatus, StatusIn,
           READY_STATES, SUCCESS, FAILURE, UNKNOWN, QUEUING
      <3> QED
        BY <3>3, <3>4 DEF Ledger!Next, Ledger!Define, Open
    <2>2. CASE ParentFailSave(p)
      <3>1. entry' = MarkFailed(parent[p].row) /\ parent[p].pc = "failing"
        BY <2>2 DEF ParentFailSave
      <3>2. parent[p].row \in Entry
        BY <1>1 DEF TypeOK, ParentRun
      <3>3. /\ entry'.state = "FAILURE" /\ entry'.status = parent[p].row.status
        BY <3>1, <3>2 DEF MarkFailed, Entry, FAILURE
      <3>4. /\ entry = NewEntry \/ entry.output = "progress"
            /\ Settled(parent[p].row) \subseteq Settled(entry)
            /\ KnownIds(parent[p].row) = KnownIds(entry)
        BY <1>1, <3>1 DEF LedgerRows
      <3>5. entry.state \in {"QUEUING", "PROGRESS", "SUCCESS"}
        BY <1>1, <3>4 DEF LedgerRows, PROGRESS, SUCCESS, NewEntry, QUEUING
      <3>6. Settled(entry') \subseteq Settled(entry) /\ KnownIds(entry') = KnownIds(entry)
        BY <3>3, <3>4 DEF Settled, KnownIds, Known
      <3>7. /\ Open = KnownIds(entry) \ Settled(entry)
            /\ Open' = KnownIds(entry') \ Settled(entry')
            /\ Settled(entry) \subseteq KnownIds(entry)
        BY DEF Open, KnownIds, Known, Settled, READY_STATES, SUCCESS, FAILURE, UNKNOWN
      <3>8. Open' = Open \cup (Settled(entry) \ Settled(entry'))
        BY <3>6, <3>7
      <3> QED
        BY <3>3, <3>5, <3>6, <3>8 DEF Ledger!Next, Ledger!Abort
    <2> QED
      BY <1>3, <2>1, <2>2 DEF ParentStep, ParentRead, ParentFetch, ParentQueueSubtask,
         ParentRaises, ParentDone, ParentFailRead, ParentCrashes
  <1>4. ASSUME NEW w \in Workers, AnyExecutionStep(w), entry' # entry
        PROVE  [Ledger!Next]_(Ledger!ledger)
    <2> DEFINE s == worker[w].sid
               st == worker[w].status
    <2>1. /\ UpdateStatus(w) /\ ~UpdateFails(entry, s)
          /\ entry' = UpdateSubtaskStatus(entry, s, st)
      BY <1>1, <1>4, ExecutionFrame
    <2>2. /\ s \in SubtaskIds /\ st \in Status /\ Known(entry, s) /\ s \notin Settled(entry)
          /\ st.state \in READY_STATES \cup {RETRY}
          /\ Consistent(entry) /\ entry.output = "progress"
      BY <1>1, <2>1, SerialUpdate DEF LedgerInv, SerialInv, SerialRows
    <2> HIDE DEF s, st
    <2>3. /\ KnownIds(entry') = KnownIds(entry)
          /\ Settled(entry') = IF st.state = RETRY THEN Settled(entry) ELSE Settled(entry) \cup {s}
          /\ entry.state # SUCCESS
          /\ entry'.state = IF KnownIds(entry') \subseteq Settled(entry') THEN SUCCESS
                            ELSE entry.state
      BY <1>1, <2>1, <2>2, LedgerUpdate
    <2>4. entry.state = PROGRESS
      BY <1>1, <2>2, <2>3 DEF LedgerRows
    <2>5. /\ Open = KnownIds(entry) \ Settled(entry) /\ s \in KnownIds(entry)
          /\ Open' = KnownIds(entry') \ Settled(entry')
      BY <2>2 DEF Open, KnownIds
    <2>6. CASE st.state = RETRY
      BY <2>2, <2>3, <2>5, <2>6 DEF Ledger!ledger
    <2>7. CASE st.state # RETRY
      <3>1. s \in Open /\ Open' = Open \ {s} /\ Settled(entry') = Settled(entry) \cup {s}
        BY <2>2, <2>3, <2>5, <2>7
      <3>2. entry'.state = IF Open' = {} THEN "SUCCESS" ELSE entry.state
        BY <2>3, <2>5 DEF SUCCESS
      <3>3. Ledger!Close(s)
        BY <2>4, <3>1, <3>2 DEF Ledger!Close, PROGRESS
      <3> QED
        BY <2>2, <3>3 DEF Ledger!Next
    <2> QED
      BY <2>6, <2>7
  <1>5. CASE \/ UNCHANGED vars \/ EnrollmentChanges \/ (\E m \in queue : Redeliver(m))
             \/ (\E s \in SubtaskIds : LockExpires(s)) \/ \E w \in Workers : Receive(w)
    BY <1>2, <1>5 DEF vars, EnrollmentChanges, Redeliver, LockExpires, Receive
  <1> QED
    BY <1>2, <1>3, <1>4, <1>5 DEF Next, AnyExecutionStep

\* A task with subtasks that one parent wrote down is a ledger: each subtask is
\* closed once and the task succeeds with the last (ImplementsLedger).
THEOREM RowImplementsLedger ==
    ASSUME OneByOne, OneParent PROVE Spec => ImplementsLedger
  <1>1. Init => LedgerInv
    <2> SUFFICES ASSUME Init PROVE LedgerInv
      OBVIOUS
    <2>1. NewEntry.output = "none"
      BY DEF NewEntry
    <2>2. LedgerRows
      BY <2>1 DEF Init, LedgerRows
    <2> QED
      BY <2>2, SerialInit DEF LedgerInv
  <1>2. LedgerInv /\ [Next]_vars => LedgerInv'
    BY SerialStep, LedgerRowsStep DEF LedgerInv
  <1>3. Init => Ledger!Init
    <2> SUFFICES ASSUME Init PROVE Ledger!Init
      OBVIOUS
    <2>1. Settled(NewEntry) = {} /\ {s \in SubtaskIds : Known(NewEntry, s)} = {}
          /\ NewEntry.state = "QUEUING"
      BY DEF NewEntry, Settled, Known, NoStatus, StatusIn, READY_STATES, SUCCESS,
         FAILURE, UNKNOWN, QUEUING
    <2> QED
      BY <2>1 DEF Init, Ledger!Init, Open
  <1>4. LedgerInv /\ [Next]_vars => [Ledger!Next]_(Ledger!ledger)
    BY LedgerStep
  <1> QED
    BY <1>1, <1>2, <1>3, <1>4, PTL DEF Spec, ImplementsLedger, Ledger!Spec

-----------------------------------------------------------------------------
(***************************************************************************)
(* No subtask is lost as long as nothing crashes, the recipients stay the  *)
(* same and the database recovers (NothingLost).  What is needed is that a *)
(* subtask that is not done is carried by somebody who is up to date: of   *)
(* several messages and executions some may be stale and will be refused.  *)
(***************************************************************************)
\* The parent task may send the email and the broker takes every subtask of it.
ParentsSucceed == {"refused", "publish"} \cap Faults = {}

Calm == budget.crashes = 0 /\ budget.churn = 0 /\ budget.dberrors < MaxDbRetries

\* check_subtask_is_valid will not find that a later retry was recorded.
UpToDate(s, st) ==
    entry.status[s].state = RETRY => RetryCount(st) >= RetryCount(entry.status[s])

\* An execution that will write down how the attempt ended, or pass it on.
Carries(x) ==
    \/ x.pc \in {"lock", "start", "send", "update"}
    \/ UpToDate(x.sid, x.status) /\ \/ x.pc \in {"check", "resubmit"}
                                    \/ x.pc = "release" /\ x.phase \in {"ratelimit", "transient"}

\* A subtask of the row that is not done.
Due(s) == s \in SubtaskIds /\ Known(entry, s) /\ s \notin Settled(entry)

\* Somebody up to date will go on with s.
Carried(s) ==
    \/ \E p \in Parents : parent[p].pc \in {"fetch", "queue"} /\ s \in parent[p].ids
    \/ \E m \in queue : m.sid = s /\ UpToDate(s, m.status)
    \/ \E w \in Workers : Busy(w) /\ worker[w].sid = s /\ Carries(worker[w])

\* The ids of a parent are as many as the batches it has left to queue.
Batches ==
    /\ qset = Recipients
    /\ \A p \in Parents :
          /\ parent[p].pc \notin {"failed", "failing"}
          /\ parent[p].pc = "define" => parent[p].total = Cardinality(Recipients)
          /\ parent[p].pc = "fetch" =>
                Cardinality(parent[p].ids) = NumSubtasks(Cardinality(Recipients))
          /\ parent[p].pc = "queue" =>
                Cardinality(parent[p].ids) = NumSubtasks(Cardinality(parent[p].todo))
          /\ \A s \in parent[p].ids : entry.status[s].state # RETRY

\* Every subtask that is due is carried; who holds its lock carries it.
Alive ==
    /\ \A s \in SubtaskIds : Known(entry, s) => entry.defined /\ entry.output = "progress"
    /\ \A w \in Workers :
          Busy(w) /\ worker[w].pc = "update" => worker[w].frames <= budget.dberrors + 1
    /\ \A s \in SubtaskIds : Due(s) => Carried(s)
    /\ \A s \in lock : Due(s) =>
          \E w \in Workers : Holds(w, s) /\ Carries(worker[w])

\* The inductive invariant.
AliveInv == BooksInv /\ (Calm => LockHasOwner /\ Batches /\ Alive)

\* A calm state is reached by calm steps only.
LEMMA CalmStays ==
    ASSUME TypeOK, [Next]_vars, Calm'
    PROVE  /\ Calm /\ budget'.crashes = 0 /\ ~EnrollmentChanges
           /\ \A w \in Workers : ~WorkerCrashes(w)
           /\ \A p \in Parents : ~ParentCrashes(p)
           /\ budget.dberrors \in Nat /\ budget'.dberrors \in Nat
           /\ budget.dberrors <= budget'.dberrors
  <1>1. /\ budget \in [redeliveries : Nat, dberrors : Nat, crashes : Nat, churn : Nat]
        /\ MaxDbRetries \in Nat
    BY BoundsAssumption DEF TypeOK
  <1>2. /\ budget.crashes = 0 /\ \A w \in Workers : ~WorkerCrashes(w)
        /\ \A p \in Parents : ~ParentCrashes(p)
    BY CrashStays DEF Calm
  <1>3. ASSUME NEW max, Spend("churn", max) PROVE FALSE
    BY <1>1, <1>3 DEF Spend, Calm
  <1>4. ASSUME NEW max, Spend("redeliveries", max) \/ Spend("dberrors", max)
        PROVE  Calm /\ budget'.dberrors \in Nat /\ budget.dberrors <= budget'.dberrors
    BY <1>1, <1>4 DEF Spend, Calm
  <1>5. CASE budget' = budget
    BY <1>1, <1>2, <1>3, <1>5 DEF Calm, EnrollmentChanges
  <1>6. CASE budget' # budget
    <2>1. PICK max : \/ Spend("redeliveries", max) \/ Spend("dberrors", max) \/ Spend("churn", max)
      BY <1>2, <1>6 DEF Next, vars, ParentStep, ParentRead, ParentDefine, ParentFetch,
         ParentQueueSubtask, ParentRaises, ParentDone, ParentFailRead, ParentFailSave,
         Receive, Working, CheckSubtaskIsValid, AcquireSubtaskLock,
         StartSending, ConnectFails, EmailMissing, SendEmail, AddressFails, SendFails,
         AllSent, UpdateStatus, ReleaseSubtaskLock, Resubmit, ResubmitFails, UpdateTimesOut,
         CloseFails, Redeliver, LockExpires, EnrollmentChanges
    <2>2. ~EnrollmentChanges
      BY <1>3 DEF EnrollmentChanges
    <2>3. Calm /\ budget'.dberrors \in Nat /\ budget.dberrors <= budget'.dberrors
      BY <1>3, <1>4, <2>1
    <2>4. budget'.crashes = 0 /\ budget.dberrors \in Nat
      BY <1>1 DEF Calm
    <2> QED
      BY <1>2, <2>2, <2>3, <2>4
  <1> QED
    BY <1>5, <1>6

\* Division with remainder of one batch less.
LEMMA OneBatchLess ==
    ASSUME NEW B \in Nat \ {0}, NEW n \in Nat, n > B
    PROVE  (n - B) \div B = (n \div B) - 1 /\ (n - B) % B = n % B
  <1>1. /\ n \div B \in Nat /\ n \div B > 0 /\ B \in Nat /\ B > 0 /\ n - B \in Nat
        /\ B * (n \div B) <= n /\ n < B * ((n \div B) + 1)
    OBVIOUS
  <1> DEFINE q == (n \div B) - 1
  <1>2. q \in Nat /\ B * q <= n - B /\ n - B < B * (q + 1)
    BY <1>1
  <1>3. q = (n - B) \div B
    BY <1>1, <1>2
  <1>4. n % B = n - B * (n \div B) /\ (n - B) % B = (n - B) - B * ((n - B) \div B)
    BY <1>1
  <1>5. B * (n \div B) = B * q + B /\ B * q \in Nat
    BY <1>1, <1>2
  <1> HIDE DEF q
  <1> QED
    BY <1>1, <1>3, <1>4, <1>5 DEF q

\* _get_number_of_subtasks is the number of batches the generator makes.
LEMMA BatchesNeeded ==
    /\ NumSubtasks(0) = 0
    /\ \A n \in Nat : n > 0 => NumSubtasks(n) > 0
    /\ \A n \in Nat : NumSubtasks(n) \in Nat
    /\ \A n \in Nat : n > 0 /\ n <= BatchSize => NumSubtasks(n) = 1
    /\ \A n \in Nat : n > BatchSize =>
          NumSubtasks(n) > 1 /\ NumSubtasks(n - BatchSize) = NumSubtasks(n) - 1
  <1>1. BatchSize \in Nat \ {0}
    BY BoundsAssumption
  <1>2. NumSubtasks(0) = 0
    BY <1>1 DEF NumSubtasks
  <1>3. ASSUME NEW n \in Nat, n > 0, n <= BatchSize PROVE NumSubtasks(n) = 1
    BY <1>1, <1>3 DEF NumSubtasks
  <1>4. ASSUME NEW n \in Nat, n > BatchSize PROVE NumSubtasks(n) > 1 /\ NumSubtasks(n) \in Nat
    BY <1>1, <1>4 DEF NumSubtasks
  <1>5. ASSUME NEW n \in Nat, n > BatchSize
        PROVE  NumSubtasks(n - BatchSize) = NumSubtasks(n) - 1
    <2>1. n \div BatchSize \in Nat
      BY <1>1
    <2>2. /\ (n - BatchSize) \div BatchSize = (n \div BatchSize) - 1
          /\ (n - BatchSize) % BatchSize = n % BatchSize
      BY <1>1, <1>5, OneBatchLess
    <2> QED
      BY <2>1, <2>2 DEF NumSubtasks
  <1>6. \A n \in Nat : n = 0 \/ n <= BatchSize \/ n > BatchSize
    BY <1>1
  <1> QED
    BY <1>2, <1>3, <1>4, <1>5, <1>6

\* A batch less for an id less.
LEMMA ChunkLess ==
    ASSUME NEW ids \in SUBSET SubtaskIds, NEW todo \in SUBSET Recipients, NEW s \in ids,
           NEW chunk \in SUBSET todo, IsNextChunk(chunk, todo, ids),
           Cardinality(ids) = NumSubtasks(Cardinality(todo))
    PROVE  Cardinality(ids \ {s}) = NumSubtasks(Cardinality(todo \ chunk))
  <1> DEFINE n == Cardinality(todo)
  <1>1. /\ IsFiniteSet(ids) /\ IsFiniteSet(todo) /\ n \in Nat
        /\ Cardinality(ids) \in Nat /\ BatchSize \in Nat
    BY SizesAreNat, BoundsAssumption
  <1>2. Cardinality(ids \ {s}) = Cardinality(ids) - 1
    BY <1>1, FS_RemoveElement
  <1>3. n > 0
    BY <1>1, FS_EmptySet DEF IsNextChunk
  <1>4. CASE Cardinality(ids) > 1 /\ n > BatchSize
    <2>1. Cardinality(chunk) = BatchSize
      BY <1>4 DEF IsNextChunk
    <2>2. Cardinality(todo \ chunk) = n - BatchSize
      <3>1. todo \cap chunk = chunk
        OBVIOUS
      <3> QED
        BY <1>1, <2>1, <3>1, FS_Difference
    <2> HIDE DEF n
    <2> QED
      BY <1>1, <1>2, <1>4, <2>2, BatchesNeeded DEF n
  <1>5. CASE ~(Cardinality(ids) > 1 /\ n > BatchSize)
    <2>1. chunk = todo
      BY <1>5 DEF IsNextChunk
    <2>2. Cardinality(todo \ chunk) = 0
      <3>1. todo \ chunk = {}
        BY <2>1
      <3> QED
        BY <3>1, FS_EmptySet
    <2> HIDE DEF n
    <2>3. n <= BatchSize
      BY <1>1, <1>5, BatchesNeeded DEF n
    <2>4. Cardinality(ids) = 1
      BY <1>1, <1>3, <2>3, BatchesNeeded DEF n
    <2> QED
      BY <1>2, <2>2, <2>4, BatchesNeeded
  <1> QED
    BY <1>4, <1>5

\* A parent has a batch for each id and an id for each batch.
LEMMA BatchesParent ==
    ASSUME ParentsSucceed, TypeOK, Batches, NEW p \in Parents, ParentStep(p)
    PROVE  Batches'
  <1>1. /\ parent[p] \in ParentRun /\ parent \in [Parents -> ParentRun]
        /\ parent[p].ids \in SUBSET SubtaskIds /\ parent[p].todo \in SUBSET Recipients
    BY DEF TypeOK, ParentRun
  <1>2. qset' = qset
    BY DEF ParentStep, ParentRead, ParentDefine, ParentFetch, ParentQueueSubtask,
       ParentRaises, ParentDone, ParentFailRead, ParentFailSave
  <1> DEFINE Good(q) ==
          /\ parent'[q].pc \notin {"failed", "failing"}
          /\ parent'[q].pc = "define" => parent'[q].total = Cardinality(Recipients)
          /\ parent'[q].pc = "fetch" =>
                Cardinality(parent'[q].ids) = NumSubtasks(Cardinality(Recipients))
          /\ parent'[q].pc = "queue" =>
                Cardinality(parent'[q].ids) = NumSubtasks(Cardinality(parent'[q].todo))
          /\ \A s \in parent'[q].ids : entry'.status[s].state # RETRY
  <1>3. ASSUME Good(p), \A q \in Parents : q # p => parent'[q] = parent[q],
               entry' = entry \/ \A s \in SubtaskIds : entry'.status[s].state # RETRY
        PROVE  Batches'
    <2>1. \A q \in Parents : parent[q].ids \subseteq SubtaskIds
      BY DEF TypeOK, ParentRun
    <2>2. ASSUME NEW q \in Parents, q # p PROVE Good(q)
      BY <1>3, <2>1, <2>2 DEF Batches
    <2> HIDE DEF Good
    <2>3. \A q \in Parents : Good(q)
      BY <1>3, <2>2
    <2> QED
      BY <1>2, <2>3 DEF Batches, Good
  <1>4. CASE ParentRead(p)
    <2>1. /\ entry' = entry /\ \A q \in Parents : q # p => parent'[q] = parent[q]
          /\ parent'[p].ids = parent[p].ids
          /\ parent'[p].pc \in {"done", "define"}
          /\ parent'[p].pc = "define" => parent'[p].total = Cardinality(qset)
      BY <1>1, <1>4 DEF ParentRead, ParentRun
    <2> QED
      BY <1>3, <2>1 DEF Batches
  <1>5. CASE ParentDefine(p)
    <2>1. PICK ids \in SUBSET SubtaskIds :
             /\ Cardinality(ids) = NumSubtasks(parent[p].total)
             /\ entry' = InitializeSubtaskInfo(parent[p].total, ids)
             /\ parent' = [parent EXCEPT ![p].pc = "fetch", ![p].ids = ids, ![p].wrote = TRUE]
      BY <1>5 DEF ParentDefine
    <2>2. /\ \A q \in Parents : q # p => parent'[q] = parent[q]
          /\ parent'[p].ids = ids /\ parent'[p].pc = "fetch"
      BY <1>1, <2>1 DEF ParentRun
    <2>3. \A s \in SubtaskIds : entry'.status[s].state # RETRY
      BY <2>1 DEF InitializeSubtaskInfo, NewStatus, NoStatus, StatusIn, QUEUING, UNKNOWN, RETRY
    <2>4. parent[p].total = Cardinality(Recipients)
      BY <1>5 DEF ParentDefine, Batches
    <2> QED
      BY <1>3, <2>1, <2>2, <2>3, <2>4
  <1>6. CASE ParentFetch(p)
    <2>1. /\ entry' = entry /\ \A q \in Parents : q # p => parent'[q] = parent[q]
          /\ parent'[p].ids = parent[p].ids /\ parent'[p].pc = "queue"
          /\ parent'[p].todo = qset /\ parent[p].pc = "fetch"
      BY <1>1, <1>6 DEF ParentFetch, ParentRun
    <2> QED
      BY <1>3, <2>1 DEF Batches
  <1>7. CASE ParentQueueSubtask(p)
    <2>1. PICK s \in parent[p].ids, chunk \in SUBSET parent[p].todo :
             /\ IsNextChunk(chunk, parent[p].todo, parent[p].ids)
             /\ parent' = [parent EXCEPT ![p].ids = @ \ {s}, ![p].todo = @ \ chunk]
      BY <1>7 DEF ParentQueueSubtask
    <2>2. /\ entry' = entry /\ \A q \in Parents : q # p => parent'[q] = parent[q]
          /\ parent[p].pc = "queue" /\ parent'[p].pc = "queue"
          /\ parent'[p].ids = parent[p].ids \ {s} /\ parent'[p].todo = parent[p].todo \ chunk
      BY <1>1, <1>7, <2>1 DEF ParentQueueSubtask, ParentRun
    <2>3. Cardinality(parent[p].ids) = NumSubtasks(Cardinality(parent[p].todo))
      BY <2>2 DEF Batches
    <2>4. Cardinality(parent[p].ids \ {s}) = NumSubtasks(Cardinality(parent[p].todo \ chunk))
      BY <1>1, <2>1, <2>3, ChunkLess
    <2> QED
      BY <1>3, <2>2, <2>4 DEF Batches
  <1>8. CASE ParentRaises(p)
    <2>1. /\ parent[p].pc = "queue" /\ parent[p].todo # {} /\ parent[p].ids = {}
      BY <1>8 DEF ParentRaises, ParentsSucceed
    <2>2. Cardinality(parent[p].todo) \in Nat /\ Cardinality(parent[p].todo) > 0
      BY <1>1, <2>1, SizesAreNat, FS_EmptySet
    <2>3. NumSubtasks(Cardinality(parent[p].todo)) = 0
      BY <2>1, FS_EmptySet DEF Batches
    <2> QED
      BY <2>2, <2>3, BatchesNeeded
  <1>9. CASE ParentDone(p)
    <2>1. /\ entry' = entry /\ \A q \in Parents : q # p => parent'[q] = parent[q]
          /\ parent'[p].ids = parent[p].ids /\ parent'[p].pc = "done"
      BY <1>1, <1>9 DEF ParentDone, ParentRun
    <2> QED
      BY <1>3, <2>1 DEF Batches
  <1>10. CASE ParentFailRead(p) \/ ParentFailSave(p)
    BY <1>10 DEF Batches, ParentFailRead, ParentFailSave
  <1> QED
    BY <1>4, <1>5, <1>6, <1>7, <1>8, <1>9, <1>10 DEF ParentStep

\* Only an update records a status, and only that of its own subtask.
LEMMA StatusKept ==
    ASSUME TypeOK, NEW w \in Workers, AnyExecutionStep(w), NEW s \in SubtaskIds,
           ~UpdateStatus(w) \/ worker[w].sid # s
    PROVE  entry'.status[s] = entry.status[s]
  <1>1. CASE entry' = entry
    BY <1>1
  <1>2. CASE /\ worker[w].sid # s
             /\ entry' = UpdateSubtaskStatus(entry, worker[w].sid, worker[w].status)
    BY <1>2 DEF UpdateSubtaskStatus, Recorded, TypeOK, Entry
  <1> QED
    BY <1>1, <1>2, ExecutionFrame

\* Every calm step keeps as many ids as batches.
LEMMA BatchesStep ==
    ASSUME ParentsSucceed, TypeOK, Books, Batches, [Next]_vars, Calm'
    PROVE  Batches'
  <1>1. ASSUME NEW w \in Workers, AnyExecutionStep(w) PROVE Batches'
    <2>1. /\ parent' = parent /\ qset' = qset
          /\ HandedOut(worker[w].sid)
      BY <1>1, ExecutionFrame
      DEF Books, InBooks, AnyExecutionStep, Working, CheckSubtaskIsValid,
          AcquireSubtaskLock, StartSending, ConnectFails, EmailMissing, SendEmail, AddressFails,
          SendFails, AllSent, UpdateStatus, ReleaseSubtaskLock, Resubmit, ResubmitFails,
          UpdateTimesOut, CloseFails, WorkerCrashes
    <2>2. \A p \in Parents : \A s \in parent[p].ids : entry'.status[s] = entry.status[s]
      BY <1>1, <2>1, StatusKept DEF HandedOut, TypeOK, ParentRun
    <2> QED
      BY <2>1, <2>2 DEF Batches
  <1>2. CASE \/ UNCHANGED vars \/ (\E m \in queue : Redeliver(m))
             \/ (\E s \in SubtaskIds : LockExpires(s)) \/ \E w \in Workers : Receive(w)
    <2>1. UNCHANGED <<entry, parent, qset>>
      BY <1>2 DEF vars, Redeliver, LockExpires, Receive
    <2> QED
      BY <2>1 DEF Batches
  <1> QED
    BY <1>1, <1>2, BatchesParent, CalmStays DEF Next, AnyExecutionStep

\* Where an execution goes from one step to the next, its update apart.
LEMMA WhereTo ==
    ASSUME TypeOK, NEW w \in Workers, AnyExecutionStep(w), ~WorkerCrashes(w), ~UpdateStatus(w)
    PROVE  LET x == worker[w]  y == worker'[w] IN
           \/ y.pc = "idle" /\ \/ x.pc = "check" /\ RejectsSubtask(entry, x.sid, x.status)
                               \/ x.pc = "lock" /\ x.sid \in lock
                               \/ x.pc = "release" /\ x.phase \in {"final", "fail"}
                               \/ x.pc = "resubmit" /\ Retried(x) \in queue'
           \/ y.sid = x.sid /\ y.pc \in {"lock", "start", "send"}
           \/ /\ y.sid = x.sid /\ y.pc = "update"
              /\ \/ y.frames = 1
                 \/ /\ x.pc = "update" /\ y.frames = x.frames + 1
                    /\ budget'.dberrors = budget.dberrors + 1
           \/ /\ x.pc = "update" /\ x.frames >= MaxDbRetries
              /\ budget'.dberrors = budget.dberrors + 1
           \/ /\ x.pc = "release" /\ y.sid = x.sid /\ y.status = x.status
              /\ \/ y.pc = "resubmit"
                 \/ y.pc = "release" /\ y.phase = x.phase
              /\ lock' = lock \ {x.sid}
  <1> DEFINE x == worker[w]
             y == worker'[w]
  <1>1. x \in Execution /\ MaxDbRetries \in Nat
        /\ budget \in [redeliveries : Nat, dberrors : Nat, crashes : Nat, churn : Nat]
    BY WorkerType, ExecutionFrame, BoundsAssumption DEF Busy, TypeOK
  <1>2. \A z : StepTo(w, z) => y = z
    BY DEF StepTo, TypeOK
  <1>3. /\ FilterOptouts(x) \in Execution /\ FilterOptouts(x).sid = x.sid
    BY <1>1, FilterType DEF FilterOptouts, Execution
  <1>4. ASSUME NEW z \in Execution, NEW kind \in {"ratelimit", "transient", "fatal"}
        PROVE  /\ OnError(z, kind).sid = z.sid /\ OnError(z, kind).pc = "update"
               /\ OnError(z, kind).frames = 1
    BY <1>4 DEF OnError, Retrying, Updating, Execution
  <1>5. /\ FailedUnexpectedly(x).sid = x.sid /\ FailedUnexpectedly(x).pc = "update"
        /\ FailedUnexpectedly(x).frames = 1
    BY <1>1 DEF FailedUnexpectedly, Updating, Execution
  <1>6. CASE CheckSubtaskIsValid(w)
    <2>1. x.pc = "check" /\ \/ RejectsSubtask(entry, x.sid, x.status) /\ y = Idle
                            \/ y = [x EXCEPT !.pc = "lock"]
      BY <1>6 DEF CheckSubtaskIsValid, TypeOK
    <2> QED
      BY <1>1, <2>1 DEF Idle, Execution
  <1>7. CASE AcquireSubtaskLock(w)
    <2>1. x.pc = "lock" /\ \/ x.sid \in lock /\ y = Idle
                           \/ y = [x EXCEPT !.pc = "start"]
      BY <1>7 DEF AcquireSubtaskLock, TypeOK
    <2> QED
      BY <1>1, <2>1 DEF Idle, Execution
  <1>8. CASE StartSending(w)
    <2>1. PICK z \in Execution : z = FilterOptouts(x) /\ z.sid = x.sid
      BY <1>3
    <2>2. y = [z EXCEPT !.pc = "send"]
      BY <1>2, <1>8, <2>1 DEF StartSending
    <2> QED
      BY <2>1, <2>2 DEF Execution
  <1>9. CASE ConnectFails(w) \/ SendFails(w)
    <2>1. \E z \in Execution, kind \in {"ratelimit", "transient", "fatal"} :
             y = OnError(z, kind) /\ z.sid = x.sid
      BY <1>1, <1>2, <1>3, <1>9 DEF ConnectFails, SendFails
    <2> QED
      BY <1>4, <2>1
  <1>10. CASE EmailMissing(w) \/ ResubmitFails(w) \/ CloseFails(w)
    BY <1>2, <1>5, <1>10 DEF EmailMissing, ResubmitFails, CloseFails
  <1>11. CASE SendEmail(w) \/ AddressFails(w)
    <2>1. x.pc = "send" /\ \E r \in x.to_list :
             \/ y = [x EXCEPT !.status.succeeded = @ + 1, !.to_list = @ \ {r}]
             \/ y = [x EXCEPT !.status.failed = @ + 1, !.to_list = @ \ {r}]
      BY <1>2, <1>11 DEF SendEmail, AddressFails
    <2> QED
      BY <1>1, <2>1 DEF Execution
  <1>12. CASE AllSent(w)
    <2>1. y = Updating([x EXCEPT !.status.state = SUCCESS], "final")
      BY <1>2, <1>12 DEF AllSent
    <2> QED
      BY <1>1, <2>1 DEF Updating, Execution
  <1>13. CASE UpdateTimesOut(w)
    <2>1. /\ x.pc = "update" /\ Spend("dberrors", MaxDbErrors)
          /\ \/ y = [x EXCEPT !.frames = @ + 1]
             \/ ~(x.frames < MaxDbRetries)
      BY <1>2, <1>13 DEF UpdateTimesOut
    <2>2. budget'.dberrors = budget.dberrors + 1
      BY <1>1, <2>1 DEF Spend
    <2>3. x.frames \in Nat
      BY <1>1 DEF Execution
    <2> QED
      BY <1>1, <2>1, <2>2, <2>3 DEF Execution
  <1>14. CASE ReleaseSubtaskLock(w)
    <2>1. /\ x.pc = "release" /\ lock' = lock \ {x.sid}
          /\ \/ y = [x EXCEPT !.frames = @ - 1]
             \/ y = AfterUpdate(x)
      BY <1>2, <1>14 DEF ReleaseSubtaskLock
    <2>2. CASE y = [x EXCEPT !.frames = @ - 1]
      BY <1>1, <2>1, <2>2 DEF Execution
    <2>3. CASE y = AfterUpdate(x)
      <3>1. \/ x.phase \in {"final", "fail"} /\ y = Idle
            \/ y = FailedUnexpectedly(x)
            \/ y = [x EXCEPT !.pc = "resubmit"]
        BY <2>3 DEF AfterUpdate
      <3> QED
        BY <1>1, <1>5, <2>1, <3>1 DEF Idle, Execution
    <2> QED
      BY <2>1, <2>2, <2>3
  <1>15. CASE Resubmit(w)
    <2>1. x.pc = "resubmit" /\ y = Idle /\ Retried(x) \in queue'
      BY <1>2, <1>15 DEF Resubmit
    <2> QED
      BY <2>1 DEF Idle
  <1> QED
    BY <1>6, <1>7, <1>8, <1>9, <1>10, <1>11, <1>12, <1>13, <1>14, <1>15
    DEF AnyExecutionStep, Working

\* Where the entry of a subtask is the same, so is who carries it.
LEMMA SameCarries ==
    ASSUME NEW w \in Workers, worker'[w] = worker[w], NEW s, worker[w].sid = s,
           entry'.status[s] = entry.status[s]
    PROVE  Carries(worker[w]) <=> Carries(worker[w])'
  BY DEF Carries, UpToDate

\* An execution that records a retry goes on to carry the subtask, one that
\* records an end settles it.
LEMMA RecordStep ==
    ASSUME TypeOK, Books, NEW w \in Workers, UpdateStatus(w), NEW s, worker[w].sid = s,
           Known(entry, s), entry.output = "progress"
    PROVE  s \in Settled(entry') \/ (Holds(w, s)' /\ Carries(worker[w])')
  <1> DEFINE x == worker[w]
  <1>1. x.pc = "update" /\ x \in Execution /\ s \in SubtaskIds /\ x.status \in Status
    BY WorkerType DEF UpdateStatus, Execution
  <1>2. /\ entry' = UpdateSubtaskStatus(entry, s, x.status)
        /\ worker'[w] = [x EXCEPT !.pc = "release", !.raised = FALSE]
    BY DEF UpdateStatus, UpdateFails, StepTo, TypeOK
  <1>3. entry'.status[s] = x.status
    BY <1>1, <1>2 DEF UpdateSubtaskStatus, Recorded, TypeOK, Entry
  <1>4. /\ Holds(w, s)' /\ worker'[w].sid = s /\ worker'[w].pc = "release"
        /\ worker'[w].phase = x.phase /\ worker'[w].status = x.status
    BY <1>1, <1>2 DEF Holds, Busy, Execution
  <1>5. TriesOf(x)
    BY <1>1 DEF Books, InBooks, Book, Busy
  <1>6. CASE x.phase \in {"final", "fail"}
    BY <1>1, <1>3, <1>5, <1>6 DEF TriesOf, Ends, Settled
  <1>7. CASE x.phase \in {"ratelimit", "transient"}
    <2>1. RetryCount(x.status) \in Nat
      BY <1>1 DEF RetryCount, Status
    <2>2. UpToDate(s, worker[w].status)'
      BY <1>3, <1>4, <2>1 DEF UpToDate
    <2> QED
      BY <1>4, <1>7, <2>2 DEF Carries
  <1> QED
    BY <1>1, <1>6, <1>7 DEF Execution

\* An execution that carries a subtask goes on to, hands it to the queue, or
\* finds that another one holds its lock.
LEMMA CarryOn ==
    ASSUME TypeOK, Books, NEW w \in Workers, AnyExecutionStep(w), ~WorkerCrashes(w),
           ~UpdateStatus(w), Alive, budget'.dberrors < MaxDbRetries, budget.dberrors \in Nat,
           NEW s, worker[w].sid = s, Due(s), Carries(worker[w])
    PROVE  \/ Busy(w)' /\ worker'[w].sid = s /\ Carries(worker[w])'
           \/ \E m \in queue' : m.sid = s /\ UpToDate(s, m.status)'
           \/ worker[w].pc = "lock" /\ s \in lock
  <1> DEFINE x == worker[w]
             y == worker'[w]
  <1>1. entry' = entry /\ Busy(w)
    BY ExecutionFrame
  <1>2. x \in Execution /\ s \in SubtaskIds /\ MaxDbRetries \in Nat
    BY <1>1, WorkerType, BoundsAssumption DEF Busy, Due
  <1>3. CASE x.pc = "check" /\ RejectsSubtask(entry, s, x.status)
    <2>1. entry.defined /\ Known(entry, s) /\ entry.status[s].state \notin READY_STATES
      BY <1>2 DEF Alive, Due, Settled
    <2>2. UpToDate(s, x.status)
      BY <1>3 DEF Carries
    <2>3. /\ RetryCount(x.status) \in Nat /\ RetryCount(entry.status[s]) \in Nat
      BY <1>2 DEF RetryCount, Status, Execution, TypeOK, Entry
    <2> QED
      BY <1>3, <2>1, <2>2, <2>3 DEF RejectsSubtask, UpToDate
  <1>4. CASE x.pc = "lock" /\ s \in lock
    BY <1>4
  <1>5. CASE x.pc = "release" /\ x.phase \in {"final", "fail"}
    BY <1>5 DEF Carries
  <1>6. CASE x.pc = "resubmit" /\ Retried(x) \in queue'
    <2>1. UpToDate(s, x.status)
      BY <1>6 DEF Carries
    <2>2. PICK m : m = Retried(x)
      OBVIOUS
    <2>3. m.sid = s /\ UpToDate(s, m.status)'
      BY <1>1, <2>1, <2>2 DEF Retried, UpToDate
    <2> QED
      BY <1>6, <2>2, <2>3
  <1>7. CASE y.sid = x.sid /\ y.pc \in {"lock", "start", "send", "update"}
    BY <1>7 DEF Carries, Busy
  <1>8. CASE x.pc = "update" /\ x.frames >= MaxDbRetries /\ budget'.dberrors = budget.dberrors + 1
    <2>1. x.frames <= budget.dberrors + 1 /\ x.frames \in Nat
      BY <1>1, <1>2, <1>8 DEF Alive, Execution
    <2> QED
      BY <1>2, <1>8, <2>1
  <1>9. CASE /\ x.pc = "release" /\ y.sid = x.sid /\ y.status = x.status
             /\ y.pc = "resubmit" \/ (y.pc = "release" /\ y.phase = x.phase)
    <2>1. UpToDate(s, x.status) /\ x.phase \in {"ratelimit", "transient"}
      BY <1>9 DEF Carries
    <2>2. UpToDate(s, worker[w].status)'
      BY <1>1, <1>9, <2>1 DEF UpToDate
    <2> QED
      BY <1>1, <1>9, <2>1, <2>2 DEF Carries, Busy
  <1> QED
    BY <1>3, <1>4, <1>5, <1>6, <1>7, <1>8, <1>9, WhereTo

\* A step of an execution keeps every subtask alive.
LEMMA AliveExecution ==
    ASSUME TypeOK, Books, Alive, NEW w \in Workers, AnyExecutionStep(w), ~WorkerCrashes(w),
           budget'.dberrors < MaxDbRetries, budget.dberrors \in Nat, budget'.dberrors \in Nat,
           budget.dberrors <= budget'.dberrors
    PROVE  Alive'
  <1> DEFINE x == worker[w]
  <1>1. /\ Busy(w) /\ \A v \in Workers : v # w => worker'[v] = worker[v]
        /\ parent' = parent
        /\ \/ entry' = entry
           \/ ~UpdateFails(entry, x.sid) /\ entry' = UpdateSubtaskStatus(entry, x.sid, x.status)
    BY ExecutionFrame
  <1>2. x \in Execution /\ entry \in Entry /\ MaxDbRetries \in Nat
    BY <1>1, WorkerType, BoundsAssumption DEF Busy, TypeOK
  <1>3. queue \subseteq queue'
    BY DEF AnyExecutionStep, Working, CheckSubtaskIsValid, AcquireSubtaskLock,
       StartSending, ConnectFails, EmailMissing, SendEmail, AddressFails, SendFails, AllSent,
       UpdateStatus, ReleaseSubtaskLock, Resubmit, ResubmitFails, UpdateTimesOut, CloseFails,
       WorkerCrashes
  <1>4. /\ entry'.defined = entry.defined /\ entry'.output = entry.output
        /\ \A s \in SubtaskIds : Known(entry', s) => Known(entry, s)
    <2>1. CASE entry' = entry
      BY <2>1
    <2>2. CASE /\ ~UpdateFails(entry, x.sid)
               /\ entry' = UpdateSubtaskStatus(entry, x.sid, x.status)
      BY <1>2, <2>2 DEF UpdateFails, UpdateSubtaskStatus, Recorded, Entry, Known
    <2> QED
      BY <1>1, <2>1, <2>2
  <1>5. \A s \in SubtaskIds : Known(entry', s) =>
           /\ Known(entry, s) /\ entry.output = "progress"
           /\ entry'.defined /\ entry'.output = "progress"
    BY <1>4 DEF Alive
  <1>6. ASSUME NEW v \in Workers, Busy(v)', worker'[v].pc = "update"
        PROVE  worker'[v].frames <= budget'.dberrors + 1
    <2>1. CASE v # w
      <3>1. Busy(v) /\ worker[v].pc = "update" /\ worker[v].frames \in Nat
        BY <1>1, <1>6, <2>1, WorkerType DEF Busy, Execution
      <3>2. worker[v].frames <= budget.dberrors + 1
        BY <3>1 DEF Alive
      <3> QED
        BY <1>1, <2>1, <3>1, <3>2
    <2>2. CASE v = w
      <3>1. ~UpdateStatus(w)
        <4>1. UpdateStatus(w) =>
                 worker'[w] = [x EXCEPT !.pc = "release", !.raised = UpdateFails(entry, x.sid)]
          BY DEF UpdateStatus, StepTo, TypeOK
        <4> QED
          BY <1>2, <1>6, <2>2, <4>1 DEF Execution
      <3>2. x.pc = "update" => x.frames <= budget.dberrors + 1 /\ x.frames \in Nat
        BY <1>1, <1>2 DEF Alive, Execution
      <3>3. \/ worker'[w].frames = 1
            \/ /\ x.pc = "update" /\ worker'[w].frames = x.frames + 1
               /\ budget'.dberrors = budget.dberrors + 1
            \/ /\ x.pc = "update" /\ x.frames >= MaxDbRetries
               /\ budget'.dberrors = budget.dberrors + 1
        BY <1>6, <2>2, <3>1, WhereTo
      <3> QED
        BY <1>2, <2>2, <3>2, <3>3
    <2> QED
      BY <2>1, <2>2
  <1>7. ASSUME NEW s \in SubtaskIds, Due(s)', ~UpdateStatus(w) \/ x.sid # s
        PROVE  Due(s) /\ entry'.status[s] = entry.status[s]
    BY <1>5, <1>7, StatusKept DEF Due, Known, Settled
  <1>8. ASSUME NEW s \in SubtaskIds, Due(s)', UpdateStatus(w), x.sid = s
        PROVE  Holds(w, s)' /\ Carries(worker[w])'
    BY <1>5, <1>8, RecordStep DEF Due
  <1>9. ASSUME NEW s \in SubtaskIds, Due(s)' PROVE Carried(s)'
    <2>1. CASE UpdateStatus(w) /\ x.sid = s
      BY <1>8, <1>9, <2>1 DEF Carried, Holds
    <2>2. CASE ~UpdateStatus(w) \/ x.sid # s
      <3>1. Due(s) /\ entry'.status[s] = entry.status[s] /\ Carried(s)
        BY <1>7, <1>9, <2>2 DEF Alive
      <3>2. ASSUME NEW v \in Workers, v # w, Busy(v), worker[v].sid = s, Carries(worker[v])
            PROVE  Carried(s)'
        <4>1. worker'[v] = worker[v]
          BY <1>1, <3>2
        <4>2. Carries(worker[v])' /\ Busy(v)' /\ worker'[v].sid = s
          BY <3>1, <3>2, <4>1, SameCarries DEF Busy
        <4> QED
          BY <4>2 DEF Carried
      <3>3. CASE \E p \in Parents : parent[p].pc \in {"fetch", "queue"} /\ s \in parent[p].ids
        BY <1>1, <3>3 DEF Carried
      <3>4. CASE \E m \in queue : m.sid = s /\ UpToDate(s, m.status)
        <4>1. PICK m \in queue' : m.sid = s /\ UpToDate(s, m.status)
          BY <1>3, <3>4
        <4>2. UpToDate(s, m.status)'
          BY <3>1, <4>1 DEF UpToDate
        <4> QED
          BY <4>1, <4>2 DEF Carried
      <3>5. CASE x.sid = s /\ Carries(x)
        <4>1. \/ Busy(w)' /\ worker'[w].sid = s /\ Carries(worker[w])'
              \/ \E m \in queue' : m.sid = s /\ UpToDate(s, m.status)'
              \/ x.pc = "lock" /\ s \in lock
          BY <2>2, <3>1, <3>5, CarryOn
        <4>2. CASE x.pc = "lock" /\ s \in lock
          <5>1. PICK v \in Workers : Holds(v, s) /\ Carries(worker[v])
            BY <3>1, <4>2 DEF Alive
          <5>2. v # w
            BY <4>2, <5>1 DEF Holds
          <5> QED
            BY <3>2, <5>1, <5>2 DEF Holds
        <4> QED
          BY <4>1, <4>2 DEF Carried
      <3> QED
        BY <3>1, <3>2, <3>3, <3>4, <3>5 DEF Carried
    <2> QED
      BY <2>1, <2>2
  <1>10. ASSUME NEW s \in lock', s \in SubtaskIds, Due(s)'
         PROVE  \E v \in Workers : Holds(v, s)' /\ Carries(worker[v])'
    <2>1. CASE UpdateStatus(w) /\ x.sid = s
      BY <1>8, <1>10, <2>1
    <2>2. CASE ~(UpdateStatus(w) /\ x.sid = s)
      <3>1. Due(s) /\ entry'.status[s] = entry.status[s]
        BY <1>7, <1>10, <2>2
      <3>2. CASE s \in lock /\ ~Holds(w, s)
        <4>1. PICK v \in Workers : Holds(v, s) /\ Carries(worker[v])
          BY <3>1, <3>2 DEF Alive
        <4>2. worker'[v] = worker[v] /\ worker[v].sid = s
          BY <1>1, <3>2, <4>1 DEF Holds
        <4>3. Carries(worker[v])' /\ Holds(v, s)'
          BY <3>1, <4>1, <4>2, SameCarries DEF Holds, Busy
        <4> QED
          BY <4>3
      <3>3. CASE Holds(w, s)'
        <4>1. worker'[w].sid = s /\ worker'[w].pc \in {"start", "send", "update", "release"}
          BY <3>3 DEF Holds
        <4>2. worker'[w].pc # "release"
          <5>1. SUFFICES ASSUME worker'[w].pc = "release" PROVE FALSE
            OBVIOUS
          <5>2. CASE UpdateStatus(w)
            BY <1>2, <2>2, <4>1, <5>2 DEF UpdateStatus, StepTo, TypeOK, Execution
          <5>3. CASE ~UpdateStatus(w)
            <6>1. x.pc = "update" => x.frames <= budget.dberrors + 1 /\ x.frames \in Nat
              BY <1>1, <1>2 DEF Alive, Execution
            <6>2. \/ /\ x.pc = "update" /\ x.frames >= MaxDbRetries
                     /\ budget'.dberrors = budget.dberrors + 1
                  \/ worker'[w].sid = x.sid /\ lock' = lock \ {x.sid}
              BY <5>1, <5>3, WhereTo
            <6> QED
              BY <1>2, <1>10, <4>1, <6>1, <6>2
          <5> QED
            BY <5>2, <5>3
        <4>3. Carries(worker[w])'
          BY <4>1, <4>2 DEF Carries
        <4> QED
          BY <3>3, <4>3
      <3> QED
        BY <3>2, <3>3, LockExecution
    <2> QED
      BY <2>1, <2>2
  <1> QED
    BY <1>5, <1>6, <1>9, <1>10 DEF Alive, Due

\* A parent that defines subtasks carries them, and then queues all of them.
LEMMA AliveParent ==
    ASSUME TypeOK, Books, Batches, Batches', LockHasOwner, Alive, NEW p \in Parents,
           ParentStep(p), budget.dberrors <= budget'.dberrors, budget.dberrors \in Nat,
           budget'.dberrors \in Nat
    PROVE  Alive'
  <1>1. /\ parent \in [Parents -> ParentRun] /\ parent[p] \in ParentRun
        /\ worker' = worker /\ lock' = lock /\ lock \subseteq SubtaskIds
    BY DEF TypeOK, ParentStep, ParentRead, ParentDefine, ParentFetch, ParentQueueSubtask,
       ParentRaises, ParentDone, ParentFailRead, ParentFailSave
  <1>2. ASSUME NEW v \in Workers, Busy(v)', worker'[v].pc = "update"
        PROVE  worker'[v].frames <= budget'.dberrors + 1
    <2>1. Busy(v) /\ worker[v].pc = "update" /\ worker[v].frames \in Nat
      BY <1>1, <1>2, WorkerType DEF Busy, Execution
    <2>2. worker[v].frames <= budget.dberrors + 1
      BY <2>1 DEF Alive
    <2> QED
      BY <1>1, <2>1, <2>2
  <1>3. CASE ParentDefine(p)
    <2>1. PICK ids \in SUBSET (SubtaskIds \ used) :
             /\ entry' = InitializeSubtaskInfo(parent[p].total, ids)
             /\ parent' = [parent EXCEPT ![p].pc = "fetch", ![p].ids = ids, ![p].wrote = TRUE]
      BY <1>3 DEF ParentDefine
    <2>2. parent'[p].pc = "fetch" /\ parent'[p].ids = ids
      BY <1>1, <2>1 DEF ParentRun
    <2>3. /\ entry'.defined /\ entry'.output = "progress"
          /\ \A s \in SubtaskIds : Known(entry', s) => s \in ids
      BY <2>1 DEF InitializeSubtaskInfo, Known, NoStatus, StatusIn
    <2>4. ASSUME NEW s \in SubtaskIds, Due(s)' PROVE Carried(s)'
      BY <2>2, <2>3, <2>4 DEF Carried, Due
    <2>5. ASSUME NEW s \in lock', Due(s)' PROVE FALSE
      <3>1. PICK v \in Workers : Holds(v, s)
        BY <1>1, <2>5 DEF LockHasOwner
      <3>2. HandedOut(s)
        BY <3>1 DEF Books, InBooks, Holds
      <3> QED
        BY <1>1, <2>1, <2>3, <2>5, <3>2 DEF HandedOut, Due
    <2> QED
      BY <1>2, <2>3, <2>4, <2>5 DEF Alive, Due
  <1>4. ASSUME entry' = entry,
               \A s \in SubtaskIds, q \in Parents :
                  parent[q].pc \in {"fetch", "queue"} /\ s \in parent[q].ids =>
                     \/ parent'[q].pc \in {"fetch", "queue"} /\ s \in parent'[q].ids
                     \/ \E m \in queue' : m.sid = s /\ UpToDate(s, m.status)',
               queue \subseteq queue'
        PROVE  Alive'
    <2>1. \A s : Due(s)' => Due(s)
      BY <1>4 DEF Due
    <2>2. ASSUME NEW s \in SubtaskIds, NEW v \in Workers, Busy(v), worker[v].sid = s,
                 Carries(worker[v])
          PROVE  Busy(v)' /\ worker'[v].sid = s /\ Carries(worker[v])'
      BY <1>1, <1>4, <2>2, SameCarries DEF Busy
    <2>3. ASSUME NEW s \in SubtaskIds, Due(s)' PROVE Carried(s)'
      <3>1. Carried(s)
        BY <2>1, <2>3 DEF Alive
      <3>2. ASSUME NEW m \in queue, m.sid = s, UpToDate(s, m.status)
            PROVE  m \in queue' /\ UpToDate(s, m.status)'
        BY <1>4, <3>2 DEF UpToDate
      <3> QED
        BY <1>4, <2>2, <3>1, <3>2 DEF Carried
    <2>4. ASSUME NEW s \in lock', Due(s)'
          PROVE  \E v \in Workers : Holds(v, s)' /\ Carries(worker[v])'
      <3>1. PICK v \in Workers : Holds(v, s) /\ Carries(worker[v])
        BY <1>1, <2>1, <2>4 DEF Alive
      <3>2. Carries(worker[v])' /\ Holds(v, s)'
        BY <1>1, <2>2, <2>4, <3>1 DEF Holds, Busy
      <3> QED
        BY <3>2
    <2>5. \A s \in SubtaskIds : Known(entry', s) => entry'.defined /\ entry'.output = "progress"
      BY <1>4 DEF Alive
    <2> QED
      BY <1>2, <2>3, <2>4, <2>5 DEF Alive, Due
  <1>5. CASE ParentQueueSubtask(p)
    <2>1. PICK s \in parent[p].ids, chunk \in SUBSET parent[p].todo :
             /\ queue' = queue \cup {[sid |-> s, to_list |-> chunk, status |-> NewStatus,
                                      retries |-> 0, copy |-> 0]}
             /\ parent' = [parent EXCEPT ![p].ids = @ \ {s}, ![p].todo = @ \ chunk]
      BY <1>5 DEF ParentQueueSubtask
    <2>2. /\ entry' = entry /\ parent[p].pc = "queue"
          /\ \A q \in Parents : q # p => parent'[q] = parent[q]
          /\ parent'[p].pc = parent[p].pc /\ parent'[p].ids = parent[p].ids \ {s}
      BY <1>1, <1>5, <2>1 DEF ParentQueueSubtask, ParentRun
    <2>3. entry.status[s].state # RETRY
      BY DEF Batches
    <2>4. PICK m : m = [sid |-> s, to_list |-> chunk, status |-> NewStatus, retries |-> 0,
                        copy |-> 0]
      OBVIOUS
    <2>5. m \in queue' /\ m.sid = s /\ UpToDate(s, m.status)'
      BY <2>1, <2>2, <2>3, <2>4 DEF UpToDate
    <2> QED
      BY <1>4, <2>1, <2>2, <2>5
  <1>6. CASE ~ParentDefine(p) /\ ~ParentQueueSubtask(p)
    <2>1. /\ parent[p].pc \notin {"failed", "failing"}
          /\ parent'[p].pc \notin {"failed", "failing"}
      BY DEF Batches
    <2>2. /\ entry' = entry /\ queue' = queue
          /\ \A q \in Parents : q # p => parent'[q] = parent[q]
          /\ \/ parent[p].pc = "ready"
             \/ parent[p].pc = "fetch" /\ parent'[p].pc = "queue" /\ parent'[p].ids = parent[p].ids
             \/ parent[p].pc = "queue" /\ parent[p].todo = {}
      BY <1>1, <1>6, <2>1 DEF ParentStep, ParentRead, ParentFetch, ParentRaises,
         ParentDone, ParentFailRead, ParentFailSave, ParentRun
    <2>3. parent[p].pc = "queue" /\ parent[p].todo = {} => parent[p].ids = {}
      <3>1. SUFFICES ASSUME parent[p].pc = "queue", parent[p].todo = {}
                     PROVE  parent[p].ids = {}
        OBVIOUS
      <3>2. Cardinality(parent[p].ids) = NumSubtasks(Cardinality({}))
        BY <3>1 DEF Batches
      <3>3. Cardinality(parent[p].ids) = 0 /\ IsFiniteSet(parent[p].ids)
        BY <1>1, <3>2, BatchesNeeded, FS_EmptySet, SizesAreNat DEF ParentRun
      <3> QED
        BY <3>3, FS_EmptySet
    <2> QED
      BY <1>4, <2>2, <2>3
  <1> QED
    BY <1>3, <1>5, <1>6

\* A message that is taken from the queue is carried by who took it.
LEMMA AliveReceive ==
    ASSUME TypeOK, Alive, NEW w \in Workers, Receive(w), budget' = budget
    PROVE  Alive'
  <1>1. PICK m \in queue :
           /\ queue' = queue \ {m} /\ ~Busy(w)
           /\ worker' = [worker EXCEPT ![w] =
                 [pc |-> "check", sid |-> m.sid, to_list |-> m.to_list, status |-> m.status,
                  retries |-> m.retries, copy |-> m.copy, num |-> Cardinality(m.to_list),
                  frames |-> 0, phase |-> "final", raised |-> FALSE]]
           /\ UNCHANGED <<entry, parent, lock>>
    BY DEF Receive
  <1>2. /\ \A v \in Workers : v # w => worker'[v] = worker[v]
        /\ Busy(w)' /\ worker'[w].pc = "check" /\ worker'[w].sid = m.sid
        /\ worker'[w].status = m.status
    BY <1>1 DEF TypeOK, Busy
  <1>3. ASSUME NEW s, NEW v \in Workers, Busy(v), worker[v].sid = s, Carries(worker[v])
        PROVE  v # w /\ worker'[v] = worker[v] /\ Busy(v)' /\ Carries(worker[v])'
    BY <1>1, <1>2, <1>3, SameCarries DEF Busy
  <1>4. \A s : Due(s)' => Due(s)
    BY <1>1 DEF Due
  <1>5. ASSUME NEW s \in SubtaskIds, Due(s)' PROVE Carried(s)'
    <2>1. Carried(s)
      BY <1>4, <1>5 DEF Alive
    <2>2. ASSUME NEW n \in queue, n.sid = s, UpToDate(s, n.status) PROVE Carried(s)'
      <3>1. CASE n # m
        <4>1. n \in queue' /\ UpToDate(s, n.status)'
          BY <1>1, <2>2, <3>1 DEF UpToDate
        <4> QED
          BY <2>2, <4>1 DEF Carried
      <3>2. CASE n = m
        <4>1. UpToDate(worker[w].sid, worker[w].status)'
          BY <1>1, <1>2, <2>2, <3>2 DEF UpToDate
        <4>2. Carries(worker[w])'
          BY <1>2, <4>1 DEF Carries
        <4> QED
          BY <1>2, <2>2, <3>2, <4>2 DEF Carried
      <3> QED
        BY <3>1, <3>2
    <2> QED
      BY <1>1, <1>3, <2>1, <2>2 DEF Carried
  <1>6. ASSUME NEW s \in lock', s \in SubtaskIds, Due(s)'
        PROVE  \E v \in Workers : Holds(v, s)' /\ Carries(worker[v])'
    <2>1. PICK v \in Workers : Holds(v, s) /\ Carries(worker[v])
      BY <1>1, <1>4, <1>6 DEF Alive
    <2> QED
      BY <1>3, <2>1 DEF Holds
  <1>7. ASSUME NEW v \in Workers, Busy(v)', worker'[v].pc = "update"
        PROVE  worker'[v].frames <= budget'.dberrors + 1
    <2>1. v # w /\ worker'[v] = worker[v] /\ Busy(v)
      BY <1>2, <1>7 DEF Busy
    <2> QED
      BY <1>7, <2>1 DEF Alive
  <1>8. \A s \in SubtaskIds : Known(entry', s) => entry'.defined /\ entry'.output = "progress"
    BY <1>1 DEF Alive
  <1> QED
    BY <1>5, <1>6, <1>7, <1>8 DEF Alive, Due

\* Nobody is worse off when a message is repeated or a key expires.
LEMMA AliveOthers ==
    ASSUME TypeOK, Alive, UNCHANGED <<entry, parent, worker>>, queue \subseteq queue',
           lock' \subseteq lock, budget.dberrors \in Nat, budget'.dberrors \in Nat,
           budget.dberrors <= budget'.dberrors
    PROVE  Alive'
  <1>1. \A s : Due(s)' <=> Due(s)
    BY DEF Due
  <1>2. ASSUME NEW v \in Workers
        PROVE  (Busy(v) <=> Busy(v)') /\ (Carries(worker[v]) <=> Carries(worker[v])')
    BY SameCarries DEF Busy
  <1>3. ASSUME NEW s \in SubtaskIds, Due(s)' PROVE Carried(s)'
    <2>1. Carried(s)
      BY <1>1, <1>3 DEF Alive
    <2>2. ASSUME NEW m \in queue, UpToDate(s, m.status)
          PROVE  m \in queue' /\ UpToDate(s, m.status)'
      BY <2>2 DEF UpToDate
    <2> QED
      BY <1>2, <2>1, <2>2 DEF Carried
  <1>4. ASSUME NEW s \in lock', s \in SubtaskIds, Due(s)'
        PROVE  \E v \in Workers : Holds(v, s)' /\ Carries(worker[v])'
    <2>1. PICK v \in Workers : Holds(v, s) /\ Carries(worker[v])
      BY <1>1, <1>4 DEF Alive
    <2> QED
      BY <1>2, <2>1 DEF Holds, Busy
  <1>5. ASSUME NEW v \in Workers, Busy(v)', worker'[v].pc = "update"
        PROVE  worker'[v].frames <= budget'.dberrors + 1
    <2>1. worker[v].frames \in Nat /\ worker[v].frames <= budget.dberrors + 1
      BY <1>2, <1>5, WorkerType DEF Alive, Busy, Execution
    <2> QED
      BY <2>1
  <1>6. \A s \in SubtaskIds : Known(entry', s) => entry'.defined /\ entry'.output = "progress"
    BY DEF Alive
  <1> QED
    BY <1>3, <1>4, <1>5, <1>6 DEF Alive, Due

\* Every step keeps the invariant.
LEMMA AliveStep ==
    ASSUME ParentsSucceed, AliveInv, [Next]_vars
    PROVE  AliveInv'
  <1>1. TypeOK /\ Books /\ TypeOK' /\ Books'
    BY TypeStep, BooksStep DEF AliveInv, BooksInv
  <1> SUFFICES ASSUME Calm' PROVE (LockHasOwner /\ Batches /\ Alive)'
    BY <1>1 DEF AliveInv, BooksInv
  <1>2. /\ Calm /\ \A w \in Workers : ~WorkerCrashes(w)
        /\ \A p \in Parents : ~ParentCrashes(p)
        /\ budget'.crashes = 0 /\ ~EnrollmentChanges
        /\ budget.dberrors \in Nat /\ budget'.dberrors \in Nat
        /\ budget.dberrors <= budget'.dberrors
    BY <1>1, CalmStays
  <1>3. LockHasOwner /\ Batches /\ Alive
    BY <1>2 DEF AliveInv
  <1>4. LockHasOwner' /\ Batches'
    BY <1>1, <1>2, <1>3, LockStep, BatchesStep
  <1>5. ASSUME NEW w \in Workers, AnyExecutionStep(w) PROVE Alive'
    <2>1. budget'.dberrors < MaxDbRetries
      BY DEF Calm
    <2> QED
      BY <1>1, <1>2, <1>3, <1>5, <2>1, AliveExecution
  <1>6. ASSUME NEW p \in Parents, ParentStep(p) PROVE Alive'
    BY <1>1, <1>2, <1>3, <1>4, <1>6, AliveParent
  <1>7. ASSUME NEW w \in Workers, Receive(w) PROVE Alive'
    BY <1>1, <1>3, <1>7, AliveReceive DEF Receive
  <1>8. CASE \/ UNCHANGED vars \/ (\E m \in queue : Redeliver(m))
             \/ (\E s \in SubtaskIds : LockExpires(s))
    <2>1. /\ UNCHANGED <<entry, parent, worker>> /\ queue \subseteq queue' /\ lock' \subseteq lock
      BY <1>8 DEF vars, Redeliver, LockExpires
    <2>2. Alive'
      BY <1>1, <1>2, <1>3, <2>1, AliveOthers
    <2> QED
      BY <1>4, <2>2
  <1> QED
    BY <1>2, <1>4, <1>5, <1>6, <1>7, <1>8 DEF Next, AnyExecutionStep

\* It holds at the start.
LEMMA AliveInit == Init => AliveInv
  <1> SUFFICES ASSUME Init PROVE AliveInv
    OBVIOUS
  <1>1. \A s \in SubtaskIds : ~Known(entry, s) /\ entry.status[s].state # RETRY
    BY DEF Init, NewEntry, Known, NoStatus, StatusIn, UNKNOWN, RETRY
  <1>2. \A w \in Workers : ~Busy(w)
    BY DEF Init, Busy, Idle
  <1>3. lock = {} /\ qset = Recipients /\ \A p \in Parents : parent[p].pc = "ready" /\ parent[p].ids = {}
    BY DEF Init
  <1>4. LockHasOwner /\ Batches /\ Alive
    BY <1>1, <1>2, <1>3 DEF LockHasOwner, Batches, Alive, Due
  <1> QED
    BY <1>4, TypeInit, BooksInit DEF AliveInv, BooksInv

\* Whatever retries, duplicates, expired locks and database errors short of the
\* last do: without a crash or a change of enrolments every subtask of the row
\* that is not done is about to be queued, queued or executing (NothingLost).
THEOREM NothingLostWhileCalm ==
    ASSUME ParentsSucceed
    PROVE  Spec => [](Calm => NothingLost)
  <1>1. AliveInv => (Calm => NothingLost)
    <2> SUFFICES ASSUME Batches, Alive PROVE NothingLost
      BY DEF AliveInv
    <2>1. ASSUME NEW s \in SubtaskIds, Known(entry, s), s \notin Settled(entry)
          PROVE  Carried(s)
      BY <2>1 DEF Alive, Due
    <2> QED
      BY <2>1 DEF NothingLost, Carried, Executions
  <1>2. Init => AliveInv
    BY AliveInit
  <1>3. AliveInv /\ [Next]_vars => AliveInv'
    BY AliveStep
  <1> QED
    BY <1>1, <1>2, <1>3, PTL DEF Spec

-----------------------------------------------------------------------------
(***************************************************************************)
(* Nobody gets the email twice, although subtasks are delivered twice, as  *)
(* long as the duplicates of a subtask run one after the other, nothing    *)
(* crashes and the database recovers (AlwaysOneEmail).  A duplicate that   *)
(* is not refused is as far as the row, and then nobody on its list has    *)
(* been sent the email: an execution that sends makes all duplicates of    *)
(* its subtask stale when it records the attempt.                          *)
(***************************************************************************)
\* How often the row has a subtask as retried.
Tries(s) == RetryCount(entry.status[s])

\* Those on a list were sent nothing.
Unsent(list) == \A r \in list : sent[r] = 0

\* An execution of s may have sent emails it has not recorded.
Sending(s) ==
    \E w \in Workers : Busy(w) /\ worker[w].sid = s /\ worker[w].pc \in {"send", "update"}

\* Who is on a list is there as one of the recipients the subtask was created
\* for; no recipient has two subtasks, or a subtask and the parent's attention.
Lists ==
    /\ \A m \in queue : m.to_list \subseteq assigned[m.sid]
    /\ \A w \in Workers : Busy(w) => worker[w].to_list \subseteq assigned[worker[w].sid]
    /\ \A s, t \in SubtaskIds : s # t => assigned[s] \cap assigned[t] = {}
    /\ \A p \in Parents :
          /\ parent[p].pc \in {"ready", "define"} => used = {}
          /\ parent[p].pc \in {"ready", "define", "fetch"} =>
                Unsent(Recipients) /\ \A s \in SubtaskIds : assigned[s] = {}
          /\ parent[p].pc = "queue" =>
                /\ Unsent(parent[p].todo)
                /\ \A s \in SubtaskIds : assigned[s] \cap parent[p].todo = {}

\* A message is behind the row, or as far and nobody on its list has the email,
\* unless an execution is about to make it stale.
FreshMessage(m) ==
    Due(m.sid) =>
        /\ RetryCount(m.status) <= Tries(m.sid)
        /\ RetryCount(m.status) = Tries(m.sid) => Sending(m.sid) \/ Unsent(m.to_list)

\* The same of an execution before it starts to send; then it is as far as the
\* row, and it is ahead of all messages when it has recorded a retry.
FreshExecution(x) ==
    /\ x.pc = "check" /\ Due(x.sid) =>
          /\ RetryCount(x.status) <= Tries(x.sid)
          /\ RetryCount(x.status) = Tries(x.sid) => Unsent(x.to_list)
    /\ InWork(x) => Due(x.sid)
    /\ x.pc \in {"lock", "start", "send"} =>
          RetryCount(x.status) = Tries(x.sid) /\ Unsent(x.to_list)
    /\ Retries(x) => Unsent(x.to_list)
    /\ Retries(x) /\ x.pc = "update" => RetryCount(x.status) > Tries(x.sid)
    /\ Retries(x) /\ x.pc # "update" =>
          /\ RetryCount(x.status) = Tries(x.sid)
          /\ \A m \in queue : m.sid = x.sid => RetryCount(m.status) < Tries(x.sid)

\* All messages and executions are fresh in this sense.
Fresh ==
    /\ \A m \in queue : FreshMessage(m)
    /\ \A w \in Workers : Busy(w) => FreshExecution(worker[w])
    /\ \A s \in SubtaskIds : entry.status[s].state = QUEUING => Tries(s) = 0
    /\ AlwaysOneEmail

\* The inductive invariant.
FreshInv == SerialInv /\ AliveInv /\ (Calm => Lists /\ Fresh)

\* How an execution moves, recording apart: it ends,
Ended(x, y) ==
    /\ y.pc = "idle" /\ x.pc \in {"check", "lock", "release", "resubmit"} /\ sent' = sent
    /\ \/ queue' = queue
       \/ x.pc = "resubmit" /\ queue' = queue \cup {Retried(x)}

\* or goes on with the attempt,
Attempts(x, y) ==
    /\ x.pc \in {"check", "lock", "start", "send"} /\ y.pc \in {"lock", "start", "send"}
    /\ y.sid = x.sid /\ RetryCount(y.status) = RetryCount(x.status) /\ y.to_list \subseteq x.to_list
    /\ x.pc = "check" => ~RejectsSubtask(entry, x.sid, x.status)
    /\ x.pc = "send" => y.pc = "send"
    /\ queue' = queue
    /\ \/ sent' = sent
       \/ /\ x.pc = "send"
          /\ \E r \in x.to_list : sent' = [sent EXCEPT ![r] = @ + 1] /\ y.to_list = x.to_list \ {r}

\* or comes to a retry,
TriesAgain(x, y) ==
    /\ x.pc \in {"start", "send"} /\ y.pc = "update" /\ y.phase \in {"ratelimit", "transient"}
    /\ y.sid = x.sid /\ RetryCount(y.status) = RetryCount(x.status) + 1
    /\ y.to_list \subseteq x.to_list
    /\ UNCHANGED <<queue, sent>>

\* or comes to an end,
GivesUp(x, y) ==
    /\ InWork(x) /\ y.pc = "update" /\ y.phase \in {"final", "fail"} /\ y.sid = x.sid
    /\ y.to_list \subseteq x.to_list /\ sent' = sent
    /\ \/ queue' = queue
       \/ x.pc = "resubmit" /\ queue' = queue \cup {Retried(x)}

\* or waits for the database,
Waits(x, y) ==
    /\ x.pc = "update" /\ UNCHANGED <<queue, sent>>
    /\ \/ /\ y.pc = "update" /\ y.sid = x.sid /\ y.status = x.status
          /\ y.to_list = x.to_list /\ y.phase = x.phase
       \/ x.frames >= MaxDbRetries /\ budget'.dberrors = budget.dberrors + 1

\* or is on its way to resubmit.
Leaves(x, y) ==
    /\ x.pc = "release" /\ y.pc \in {"release", "resubmit"}
    /\ y.pc = "resubmit" => x.phase \in {"ratelimit", "transient"}
    /\ y.sid = x.sid /\ y.status = x.status /\ y.to_list = x.to_list /\ y.phase = x.phase
    /\ UNCHANGED <<queue, sent>>

\* Every step of an execution is one of these.
LEMMA HowItMoves ==
    ASSUME TypeOK, NEW w \in Workers, AnyExecutionStep(w), ~WorkerCrashes(w), ~UpdateStatus(w)
    PROVE  LET x == worker[w]  y == worker'[w] IN
           \/ Ended(x, y) \/ Attempts(x, y) \/ TriesAgain(x, y)
           \/ GivesUp(x, y) \/ Waits(x, y) \/ Leaves(x, y)
  <1> DEFINE x == worker[w]
             y == worker'[w]
  <1>1. x \in Execution /\ MaxDbRetries \in Nat
        /\ budget \in [redeliveries : Nat, dberrors : Nat, crashes : Nat, churn : Nat]
    BY WorkerType, ExecutionFrame, BoundsAssumption DEF Busy, TypeOK
  <1>2. \A z : StepTo(w, z) => y = z
    BY DEF StepTo, TypeOK
  <1>3. PICK f : f = FilterOptouts(x)
    OBVIOUS
  <1>4. /\ f \in Execution /\ f.sid = x.sid /\ f.to_list \subseteq x.to_list /\ f.pc = x.pc
        /\ RetryCount(f.status) = RetryCount(x.status)
    <2>1. f \in Execution
      BY <1>1, <1>3, FilterType
    <2> QED
      BY <1>1, <1>3, <2>1 DEF FilterOptouts, Execution, RetryCount, Status
  <1>5. ASSUME NEW z \in Execution, NEW kind \in {"ratelimit", "transient"}
        PROVE  LET u == OnError(z, kind) IN
               /\ u.sid = z.sid /\ u.pc = "update" /\ u.to_list = z.to_list /\ u.phase = kind
               /\ RetryCount(u.status) = RetryCount(z.status) + 1
    <2> DEFINE u == OnError(z, kind)
    <2>1. z.status \in Status /\ z.status.retried_nomax \in Nat /\ z.status.retried_withmax \in Nat
      BY DEF Execution, Status
    <2>2. CASE kind = "ratelimit"
      <3>1. u = Updating([z EXCEPT !.status.retried_nomax = @ + 1, !.status.state = RETRY], kind)
        BY <2>2 DEF OnError, Retrying
      <3>2. /\ u.sid = z.sid /\ u.pc = "update" /\ u.to_list = z.to_list /\ u.phase = kind
            /\ u.status = [z.status EXCEPT !.retried_nomax = @ + 1, !.state = RETRY]
        BY <3>1 DEF Updating, Execution
      <3>3. /\ u.status.retried_nomax = z.status.retried_nomax + 1
            /\ u.status.retried_withmax = z.status.retried_withmax
        BY <2>1, <3>2 DEF Status
      <3> QED
        BY <2>1, <3>2, <3>3 DEF RetryCount
    <2>3. CASE kind = "transient"
      <3>1. u = Updating([z EXCEPT !.status.retried_withmax = @ + 1, !.status.state = RETRY], kind)
        BY <2>3 DEF OnError, Retrying
      <3>2. /\ u.sid = z.sid /\ u.pc = "update" /\ u.to_list = z.to_list /\ u.phase = kind
            /\ u.status = [z.status EXCEPT !.retried_withmax = @ + 1, !.state = RETRY]
        BY <3>1 DEF Updating, Execution
      <3>3. /\ u.status.retried_withmax = z.status.retried_withmax + 1
            /\ u.status.retried_nomax = z.status.retried_nomax
        BY <2>1, <3>2 DEF Status
      <3> QED
        BY <2>1, <3>2, <3>3 DEF RetryCount
    <2> QED
      BY <2>2, <2>3
  <1>6. ASSUME NEW z \in Execution
        PROVE  LET u == OnError(z, "fatal") IN
               /\ u.sid = z.sid /\ u.pc = "update" /\ u.to_list = z.to_list /\ u.phase = "final"
    BY DEF OnError, Updating, Execution
  <1>7. ASSUME NEW z \in Execution, z.sid = x.sid, z.to_list \subseteq x.to_list,
               RetryCount(z.status) = RetryCount(x.status), x.pc \in {"start", "send"},
               NEW kind \in {"ratelimit", "transient", "fatal"}, y = OnError(z, kind),
               UNCHANGED <<queue, sent>>
        PROVE  TriesAgain(x, y) \/ GivesUp(x, y)
    <2>1. CASE kind = "fatal"
      BY <1>6, <1>7, <2>1 DEF GivesUp, InWork
    <2>2. CASE kind \in {"ratelimit", "transient"}
      BY <1>5, <1>7, <2>2 DEF TriesAgain
    <2> QED
      BY <2>1, <2>2
  <1>8. LET u == FailedUnexpectedly(x) IN
        u.sid = x.sid /\ u.pc = "update" /\ u.to_list = x.to_list /\ u.phase = "fail"
    BY <1>1 DEF FailedUnexpectedly, Updating, Execution
  <1>9. CASE CheckSubtaskIsValid(w)
    <2>1. x.pc = "check" /\ UNCHANGED <<queue, sent>>
          /\ \/ y = Idle
             \/ ~RejectsSubtask(entry, x.sid, x.status) /\ y = [x EXCEPT !.pc = "lock"]
      BY <1>9 DEF CheckSubtaskIsValid, TypeOK
    <2> QED
      BY <1>1, <2>1 DEF Ended, Attempts, Idle, Execution
  <1>10. CASE AcquireSubtaskLock(w)
    <2>1. x.pc = "lock" /\ UNCHANGED <<queue, sent>> /\ (y = Idle \/ y = [x EXCEPT !.pc = "start"])
      BY <1>10 DEF AcquireSubtaskLock, TypeOK
    <2> QED
      BY <1>1, <2>1 DEF Ended, Attempts, Idle, Execution
  <1>11. CASE StartSending(w)
    <2>1. y = [f EXCEPT !.pc = "send"] /\ x.pc = "start" /\ UNCHANGED <<queue, sent>>
      BY <1>2, <1>3, <1>11 DEF StartSending
    <2>2. y.pc = "send" /\ y.sid = x.sid /\ y.status = f.status /\ y.to_list = f.to_list
      BY <1>4, <2>1 DEF Execution
    <2> QED
      BY <1>4, <2>1, <2>2 DEF Attempts
  <1>12. CASE ConnectFails(w)
    <2>1. PICK kind \in {"ratelimit", "transient", "fatal"} : y = OnError(f, kind)
      BY <1>2, <1>3, <1>12 DEF ConnectFails
    <2> QED
      BY <1>4, <1>7, <1>12, <2>1 DEF ConnectFails
  <1>13. CASE SendFails(w)
    <2>1. PICK kind \in {"ratelimit", "transient", "fatal"} : y = OnError(x, kind)
      BY <1>2, <1>13 DEF SendFails
    <2> QED
      BY <1>1, <1>7, <1>13, <2>1 DEF SendFails
  <1>14. CASE EmailMissing(w) \/ ResubmitFails(w) \/ CloseFails(w)
    <2>1. y = FailedUnexpectedly(x)
      BY <1>2, <1>14 DEF EmailMissing, ResubmitFails, CloseFails
    <2>2. /\ x.pc \in {"start", "resubmit", "update"} /\ sent' = sent
          /\ \/ queue' = queue
             \/ x.pc = "resubmit" /\ queue' = queue \cup {Retried(x)}
      BY <1>14 DEF EmailMissing, ResubmitFails, CloseFails
    <2> QED
      BY <1>8, <2>1, <2>2 DEF GivesUp, InWork
  <1>15. CASE SendEmail(w)
    <2>1. PICK r \in x.to_list : /\ y = [x EXCEPT !.status.succeeded = @ + 1, !.to_list = @ \ {r}]
                                 /\ sent' = [sent EXCEPT ![r] = @ + 1]
      BY <1>2, <1>15 DEF SendEmail
    <2>2. x.pc = "send" /\ queue' = queue
      BY <1>15 DEF SendEmail
    <2>3. /\ y.pc = "send" /\ y.sid = x.sid /\ y.to_list = x.to_list \ {r}
          /\ RetryCount(y.status) = RetryCount(x.status)
      BY <1>1, <2>1, <2>2 DEF Execution, RetryCount, Status
    <2> QED
      BY <2>1, <2>2, <2>3 DEF Attempts
  <1>16. CASE AddressFails(w)
    <2>1. PICK r \in x.to_list : y = [x EXCEPT !.status.failed = @ + 1, !.to_list = @ \ {r}]
      BY <1>2, <1>16 DEF AddressFails
    <2>2. x.pc = "send" /\ queue' = queue /\ sent' = sent
      BY <1>16 DEF AddressFails
    <2>3. /\ y.pc = "send" /\ y.sid = x.sid /\ y.to_list = x.to_list \ {r}
          /\ RetryCount(y.status) = RetryCount(x.status)
      BY <1>1, <2>1, <2>2 DEF Execution, RetryCount, Status
    <2> QED
      BY <2>2, <2>3 DEF Attempts
  <1>17. CASE AllSent(w)
    <2>1. y = Updating([x EXCEPT !.status.state = SUCCESS], "final")
      BY <1>2, <1>17 DEF AllSent
    <2>2. y.pc = "update" /\ y.phase = "final" /\ y.sid = x.sid /\ y.to_list = x.to_list
      BY <1>1, <2>1 DEF Updating, Execution
    <2> QED
      BY <1>17, <2>2 DEF AllSent, GivesUp, InWork
  <1>18. CASE UpdateTimesOut(w)
    <2>1. /\ x.pc = "update" /\ Spend("dberrors", MaxDbErrors) /\ UNCHANGED <<queue, sent>>
          /\ \/ y = [x EXCEPT !.frames = @ + 1]
             \/ ~(x.frames < MaxDbRetries)
      BY <1>2, <1>18 DEF UpdateTimesOut
    <2>2. budget'.dberrors = budget.dberrors + 1 /\ x.frames \in Nat
      BY <1>1, <2>1 DEF Spend, Execution
    <2> QED
      BY <1>1, <2>1, <2>2 DEF Waits, Execution
  <1>19. CASE ReleaseSubtaskLock(w)
    <2>1. /\ x.pc = "release" /\ UNCHANGED <<queue, sent>>
          /\ \/ y = [x EXCEPT !.frames = @ - 1]
             \/ y = AfterUpdate(x)
      BY <1>2, <1>19 DEF ReleaseSubtaskLock
    <2>2. CASE y = [x EXCEPT !.frames = @ - 1]
      BY <1>1, <2>1, <2>2 DEF Leaves, Execution
    <2>3. CASE x.phase \in {"final", "fail"} /\ y = AfterUpdate(x)
      BY <2>1, <2>3 DEF AfterUpdate, Ended, Idle
    <2>4. CASE x.phase \notin {"final", "fail"} /\ x.raised /\ y = AfterUpdate(x)
      <3>1. y = FailedUnexpectedly(x) /\ x.phase \in {"ratelimit", "transient"}
        BY <1>1, <2>4 DEF AfterUpdate, Execution
      <3> QED
        BY <1>8, <2>1, <3>1 DEF GivesUp, InWork
    <2>5. CASE x.phase \notin {"final", "fail"} /\ ~x.raised /\ y = AfterUpdate(x)
      <3>1. y = [x EXCEPT !.pc = "resubmit"] /\ x.phase \in {"ratelimit", "transient"}
        BY <1>1, <2>5 DEF AfterUpdate, Execution
      <3> QED
        BY <1>1, <2>1, <3>1 DEF Leaves, Execution
    <2> QED
      BY <2>1, <2>2, <2>3, <2>4, <2>5
  <1>20. CASE Resubmit(w)
    <2>1. y = Idle
      BY <1>2, <1>20 DEF Resubmit
    <2> QED
      BY <1>20, <2>1 DEF Resubmit, Ended, Idle
  <1> QED
    BY <1>9, <1>10, <1>11, <1>12, <1>13, <1>14, <1>15, <1>16, <1>17, <1>18, <1>19, <1>20
    DEF AnyExecutionStep, Working

\* The row has tried a subtask some number of times.
LEMMA TriesAreNat ==
    ASSUME TypeOK
    PROVE  /\ \A s \in SubtaskIds : Tries(s) \in Nat
           /\ \A m \in queue : RetryCount(m.status) \in Nat /\ m.sid \in SubtaskIds
           /\ \A w \in Workers : Busy(w) =>
                 RetryCount(worker[w].status) \in Nat /\ worker[w].sid \in SubtaskIds
           /\ sent \in [Recipients -> Nat]
  <1>1. \A st \in Status : RetryCount(st) \in Nat
    BY DEF RetryCount, Status
  <1>2. \A w \in Workers : Busy(w) => worker[w] \in Execution
    BY WorkerType DEF Busy
  <1> QED
    BY <1>1, <1>2 DEF TypeOK, Tries, Entry, Message, Execution

\* A message whose subtask has the same entry in the row as before, and is sent
\* by the same executions, is as fresh as it was.
LEMMA MessageStays ==
    ASSUME NEW m, FreshMessage(m), m.sid \in SubtaskIds,
           entry'.status[m.sid] = entry.status[m.sid],
           Sending(m.sid) => Sending(m.sid)', Unsent(m.to_list) => Sending(m.sid)' \/ Unsent(m.to_list)'
    PROVE  FreshMessage(m)'
  BY DEF FreshMessage, Due, Known, Settled, Tries

\* The same of an execution that stays where it is, where no message of its
\* subtask is added.
LEMMA ExecutionStays ==
    ASSUME NEW w \in Workers, FreshExecution(worker[w]), worker'[w] = worker[w],
           worker[w].sid \in SubtaskIds,
           entry'.status[worker[w].sid] = entry.status[worker[w].sid],
           Unsent(worker[w].to_list) => Unsent(worker[w].to_list)',
           \A m \in queue' : m.sid = worker[w].sid =>
               \E n \in queue : n.sid = m.sid /\ n.status = m.status
    PROVE  FreshExecution(worker[w])'
  BY DEF FreshExecution, Due, Known, Settled, Tries, InWork, Retries

\* What an execution that moves has at the end of the step.
LEMMA MovedExecution ==
    ASSUME TypeOK, Books, NEW w \in Workers, AnyExecutionStep(w), ~WorkerCrashes(w), ~UpdateStatus(w),
           Alive, budget'.dberrors < MaxDbRetries, budget.dberrors \in Nat, Fresh, Busy(w)'
    PROVE  /\ FreshExecution(worker[w])' /\ worker'[w].sid = worker[w].sid
           /\ worker'[w].to_list \subseteq worker[w].to_list
  <1> PICK x, y, s : x = worker[w] /\ y = worker'[w] /\ s = x.sid
    OBVIOUS
  <1>1. Busy(w) /\ x \in Execution /\ FreshExecution(x) /\ entry' = entry /\ MaxDbRetries \in Nat
    BY ExecutionFrame, WorkerType, BoundsAssumption DEF Busy, Fresh
  <1>2. /\ s \in SubtaskIds /\ Tries(s) \in Nat /\ RetryCount(x.status) \in Nat
        /\ sent \in [Recipients -> Nat] /\ x.to_list \subseteq Recipients
    BY <1>1, TriesAreNat DEF Execution
  <1>3. Tries(s)' = Tries(s) /\ (Due(s)' <=> Due(s))
    BY <1>1 DEF Tries, Due, Known, Settled
  <1>4. CASE Ended(x, y)
    BY <1>4 DEF Ended, Busy
  <1>5. CASE Attempts(x, y)
    <2>1. /\ y.sid = s /\ RetryCount(y.status) = RetryCount(x.status)
          /\ y.to_list \subseteq x.to_list /\ y.pc \in {"lock", "start", "send"}
      BY <1>5 DEF Attempts
    <2>2. Due(s) /\ RetryCount(x.status) = Tries(s) /\ Unsent(x.to_list)
      <3>1. CASE x.pc = "check"
        <4>1. ~RejectsSubtask(entry, s, x.status)
          BY <1>5, <3>1 DEF Attempts
        <4>2. Due(s)
          BY <1>2, <4>1 DEF RejectsSubtask, Due, Settled
        <4>3. entry.status[s].state = RETRY => RetryCount(x.status) >= Tries(s)
          BY <1>2, <4>1 DEF RejectsSubtask, Tries
        <4>4. entry.status[s].state # RETRY => Tries(s) = 0
          <5>1. entry.status[s] \in Status
            BY <1>2 DEF TypeOK, Entry
          <5>2. entry.status[s].state \in {QUEUING, RETRY}
            BY <1>2, <4>2, <5>1 DEF Due, Known, Settled, Status, LiveStates
          <5> QED
            BY <1>2, <5>2 DEF Fresh
        <4> QED
          BY <1>1, <1>2, <3>1, <4>2, <4>3, <4>4 DEF FreshExecution
      <3>2. CASE x.pc \in {"lock", "start", "send"}
        BY <1>1, <3>2 DEF FreshExecution, InWork
      <3> QED
        BY <1>5, <3>1, <3>2 DEF Attempts
    <2>3. Unsent(y.to_list)'
      <3>1. CASE sent' = sent
        BY <2>1, <2>2, <3>1 DEF Unsent
      <3>2. CASE \E r \in x.to_list : sent' = [sent EXCEPT ![r] = @ + 1] /\ y.to_list = x.to_list \ {r}
        BY <1>2, <2>2, <3>2 DEF Unsent
      <3> QED
        BY <1>5, <3>1, <3>2 DEF Attempts
    <2>4. InWork(y) /\ ~Retries(y) /\ y.pc # "check"
      BY <2>1 DEF InWork, Retries
    <2> QED
      BY <1>3, <2>1, <2>2, <2>3, <2>4 DEF FreshExecution, InWork, Retries
  <1>6. CASE TriesAgain(x, y)
    <2>1. /\ y.sid = s /\ RetryCount(y.status) = RetryCount(x.status) + 1
          /\ y.to_list \subseteq x.to_list /\ y.pc = "update" /\ x.pc \in {"start", "send"}
          /\ sent' = sent
      BY <1>6 DEF TriesAgain
    <2>2. Due(s) /\ RetryCount(x.status) = Tries(s) /\ Unsent(x.to_list)
      BY <1>1, <2>1 DEF FreshExecution, InWork
    <2>3. Unsent(y.to_list)' /\ RetryCount(y.status) > Tries(s)
      BY <1>2, <2>1, <2>2 DEF Unsent
    <2> QED
      BY <1>3, <2>1, <2>2, <2>3 DEF FreshExecution, InWork, Retries
  <1>7. CASE GivesUp(x, y)
    <2>1. /\ y.sid = s /\ y.to_list \subseteq x.to_list /\ y.pc = "update"
          /\ y.phase \in {"final", "fail"} /\ InWork(x)
      BY <1>7 DEF GivesUp
    <2>2. Due(s)
      BY <1>1, <2>1 DEF FreshExecution
    <2> QED
      BY <1>3, <2>1, <2>2 DEF FreshExecution, Retries
  <1>8. CASE Waits(x, y)
    <2>1. x.pc = "update" /\ x.frames <= budget.dberrors + 1 /\ x.frames \in Nat
      BY <1>1, <1>8 DEF Waits, Alive, Execution
    <2>2. /\ y.pc = "update" /\ y.sid = s /\ y.status = x.status /\ y.to_list = x.to_list
          /\ y.phase = x.phase /\ sent' = sent
      BY <1>1, <1>8, <2>1 DEF Waits
    <2>3. Due(s)
      BY <1>1, <2>1 DEF FreshExecution, InWork
    <2>4. Retries(y) <=> Retries(x)
      BY <2>1, <2>2 DEF Retries
    <2>5. Retries(x) => Unsent(x.to_list) /\ RetryCount(x.status) > Tries(s)
      BY <1>1, <2>1 DEF FreshExecution
    <2> QED
      BY <1>3, <2>2, <2>3, <2>4, <2>5 DEF FreshExecution, Retries, Unsent
  <1>9. CASE Leaves(x, y)
    <2>1. /\ x.pc = "release" /\ y.pc \in {"release", "resubmit"}
          /\ y.pc = "resubmit" => x.phase \in {"ratelimit", "transient"}
          /\ y.sid = s /\ y.status = x.status /\ y.to_list = x.to_list /\ y.phase = x.phase
          /\ queue' = queue /\ sent' = sent
      BY <1>9 DEF Leaves
    <2>2. CASE x.phase \in {"ratelimit", "transient"}
      <3>1. Due(s) /\ Unsent(x.to_list) /\ RetryCount(x.status) = Tries(s)
            /\ \A m \in queue : m.sid = s => RetryCount(m.status) < Tries(s)
        BY <1>1, <2>1, <2>2 DEF FreshExecution, InWork, Retries
      <3> QED
        BY <1>3, <2>1, <3>1 DEF FreshExecution, Unsent
    <2>3. CASE x.phase \notin {"ratelimit", "transient"}
      BY <2>1, <2>3 DEF FreshExecution, InWork, Retries
    <2> QED
      BY <2>1, <2>2, <2>3
  <1> QED
    BY <1>4, <1>5, <1>6, <1>7, <1>8, <1>9, HowItMoves

\* What a step of an execution leaves to the others: emails go to its own list,
\* and while it sends or records it still does so afterwards; only a resubmission
\* adds a message.
LEMMA WhatItLeaves ==
    ASSUME TypeOK, NEW w \in Workers, AnyExecutionStep(w), ~WorkerCrashes(w), ~UpdateStatus(w),
           Alive, budget'.dberrors < MaxDbRetries, budget.dberrors \in Nat
    PROVE  LET x == worker[w]  y == worker'[w] IN
           /\ \/ sent' = sent
              \/ x.pc = "send" /\ \E r \in x.to_list : sent' = [sent EXCEPT ![r] = @ + 1]
           /\ x.pc \in {"send", "update"} => y.pc \in {"send", "update"} /\ y.sid = x.sid
           /\ \/ queue' = queue
              \/ x.pc = "resubmit" /\ sent' = sent /\ queue' = queue \cup {Retried(x)}
  <1> PICK x, y : x = worker[w] /\ y = worker'[w]
    OBVIOUS
  <1>1. /\ Busy(w) /\ x \in Execution /\ MaxDbRetries \in Nat
        /\ x.pc = "update" => x.frames <= budget.dberrors + 1 /\ x.frames \in Nat
    BY ExecutionFrame, WorkerType, BoundsAssumption DEF Busy, Alive, Execution
  <1>2. ~(x.pc = "update" /\ x.frames >= MaxDbRetries /\ budget'.dberrors = budget.dberrors + 1)
    BY <1>1
  <1>3. CASE Ended(x, y)
    BY <1>3 DEF Ended
  <1>4. CASE Attempts(x, y)
    BY <1>4 DEF Attempts
  <1>5. CASE TriesAgain(x, y)
    BY <1>5 DEF TriesAgain
  <1>6. CASE GivesUp(x, y)
    BY <1>6 DEF GivesUp
  <1>7. CASE Waits(x, y)
    BY <1>2, <1>7 DEF Waits
  <1>8. CASE Leaves(x, y)
    BY <1>8 DEF Leaves
  <1> QED
    BY <1>3, <1>4, <1>5, <1>6, <1>7, <1>8, HowItMoves

\* A step of an execution, recording apart, keeps all fresh.
LEMMA FreshMove ==
    ASSUME TypeOK, Books, OneAtWork, Lists, Fresh, Alive, NEW w \in Workers, AnyExecutionStep(w),
           ~WorkerCrashes(w), ~UpdateStatus(w), budget'.dberrors < MaxDbRetries,
           budget.dberrors \in Nat
    PROVE  Lists' /\ Fresh'
  <1> PICK x, y, s : x = worker[w] /\ y = worker'[w] /\ s = x.sid
    OBVIOUS
  <1>1. /\ Busy(w) /\ x \in Execution /\ FreshExecution(x) /\ s \in SubtaskIds
        /\ x.to_list \subseteq assigned[s]
    BY ExecutionFrame, WorkerType DEF Busy, Fresh, Execution, Lists
  <1>2. /\ \A v \in Workers : v # w => worker'[v] = worker[v]
        /\ UNCHANGED <<entry, parent, used, assigned>>
    <2>1. ~UpdateStatus(w) => entry' = entry
      BY ExecutionFrame
    <2> QED
      BY <2>1, ExecutionFrame
  <1>3. /\ \/ sent' = sent
           \/ x.pc = "send" /\ \E r \in x.to_list : sent' = [sent EXCEPT ![r] = @ + 1]
        /\ x.pc \in {"send", "update"} => y.pc \in {"send", "update"} /\ y.sid = s
        /\ \/ queue' = queue
           \/ x.pc = "resubmit" /\ sent' = sent /\ queue' = queue \cup {Retried(x)}
    BY WhatItLeaves
  <1>4. Busy(w)' => FreshExecution(worker[w])' /\ y.sid = s /\ y.to_list \subseteq x.to_list
    BY MovedExecution
  <1>5. /\ sent \in [Recipients -> Nat] /\ assigned \in [SubtaskIds -> SUBSET Recipients]
        /\ \A m \in queue : m.sid \in SubtaskIds
        /\ \A v \in Workers : Busy(v) => worker[v].sid \in SubtaskIds
    BY TriesAreNat DEF TypeOK
  <1>6. \A list \in SUBSET Recipients :
           Unsent(list) /\ (list \cap x.to_list = {} \/ sent' = sent) => Unsent(list)'
    BY <1>3, <1>5 DEF Unsent
  <1>7. \A m \in queue' : m \in queue \/ (m = Retried(x) /\ x.pc = "resubmit" /\ sent' = sent)
    BY <1>3
  <1>8. Retried(x).sid = s /\ Retried(x).to_list = x.to_list /\ Retried(x).status = x.status
    BY DEF Retried
  <1>9. Lists'
    <2>1. ASSUME NEW m \in queue' PROVE m.to_list \subseteq assigned[m.sid]
      BY <1>1, <1>7, <1>8 DEF Lists
    <2>2. ASSUME NEW v \in Workers, Busy(v)'
          PROVE  worker'[v].to_list \subseteq assigned[worker'[v].sid]
      BY <1>1, <1>2, <1>4, <2>2 DEF Lists, Busy
    <2>3. ASSUME NEW p \in Parents, parent[p].pc \in {"ready", "define", "fetch"}
          PROVE  Unsent(Recipients)'
      <3>1. Unsent(Recipients) /\ assigned[s] = {}
        BY <1>1, <2>3 DEF Lists
      <3> QED
        BY <1>1, <1>6, <3>1
    <2>4. ASSUME NEW p \in Parents, parent[p].pc = "queue"
          PROVE  Unsent(parent[p].todo)'
      <3>1. Unsent(parent[p].todo) /\ assigned[s] \cap parent[p].todo = {}
        BY <1>1, <2>4 DEF Lists
      <3>2. parent[p].todo \in SUBSET Recipients
        BY DEF TypeOK, ParentRun
      <3>3. Unsent(parent[p].todo)'
        <4> PICK todo \in SUBSET Recipients : todo = parent[p].todo
          BY <3>2
        <4>1. Unsent(todo)'
          BY <1>1, <1>6, <3>1
        <4> QED
          BY <1>2, <4>1 DEF Unsent
      <3> QED
        BY <3>3
    <2> QED
      BY <1>2, <2>1, <2>2, <2>3, <2>4 DEF Lists, Unsent
  <1>10. ASSUME NEW m \in queue' PROVE FreshMessage(m)'
    <2>1. CASE m \in queue /\ m.sid # s
      <3>1. m.to_list \subseteq assigned[m.sid] /\ assigned[m.sid] \cap assigned[s] = {}
            /\ m.to_list \in SUBSET Recipients
        BY <1>1, <1>5, <2>1 DEF Lists, TypeOK, Message
      <3>2. Unsent(m.to_list) => Unsent(m.to_list)'
        BY <1>1, <1>6, <3>1
      <3>3. Sending(m.sid) => Sending(m.sid)'
        BY <1>2, <2>1 DEF Sending, Busy
      <3>4. FreshMessage(m) /\ entry'.status[m.sid] = entry.status[m.sid]
        BY <1>2, <2>1 DEF Fresh
      <3> QED
        BY <1>5, <2>1, <3>2, <3>3, <3>4, MessageStays
    <2>2. CASE m \in queue /\ m.sid = s
      <3>1. Sending(s) => x.pc \in {"send", "update"}
        BY <1>1 DEF Sending, OneAtWork
      <3>2. x.pc \in {"send", "update"} => Sending(s)'
        BY <1>3 DEF Sending, Busy
      <3>3. Unsent(m.to_list) => Sending(s)' \/ Unsent(m.to_list)'
        BY <1>3, <3>2 DEF Unsent
      <3>4. FreshMessage(m) /\ entry'.status[m.sid] = entry.status[m.sid]
        BY <1>2, <2>2 DEF Fresh
      <3> QED
        BY <1>1, <2>2, <3>1, <3>2, <3>3, <3>4, MessageStays
    <2>3. CASE m = Retried(x) /\ x.pc = "resubmit" /\ sent' = sent
      <3>1. RetryCount(x.status) = Tries(s) /\ Unsent(x.to_list)
        BY <1>1, <2>3 DEF FreshExecution, Retries
      <3>2. RetryCount(x.status) = Tries(s)' /\ Unsent(x.to_list)' /\ Tries(s)' \in Nat
        <4>1. Tries(s) \in Nat
          BY <1>1, TriesAreNat
        <4> QED
          BY <1>2, <2>3, <3>1, <4>1 DEF Tries, Unsent
      <3> QED
        BY <1>8, <2>3, <3>2 DEF FreshMessage
    <2> QED
      BY <1>7, <2>1, <2>2, <2>3
  <1>11. ASSUME NEW v \in Workers, Busy(v)' PROVE FreshExecution(worker[v])'
    <2>1. CASE v = w
      BY <1>4, <1>11, <2>1
    <2>2. CASE v # w
      <3>1. /\ Busy(v) /\ worker'[v] = worker[v] /\ worker[v].sid # s
            /\ FreshExecution(worker[v]) /\ worker[v].sid \in SubtaskIds
            /\ worker[v].to_list \in SUBSET Recipients
        <4>1. Busy(v) /\ worker'[v] = worker[v]
          BY <1>2, <1>11, <2>2 DEF Busy
        <4>2. worker[v] \in Execution
          BY <4>1, WorkerType DEF Busy
        <4> QED
          BY <1>1, <2>2, <4>1, <4>2 DEF OneAtWork, Fresh, Execution
      <3>2. worker[v].to_list \cap x.to_list = {}
        BY <1>1, <3>1 DEF Lists
      <3>3. Unsent(worker[v].to_list) => Unsent(worker[v].to_list)'
        <4> PICK list \in SUBSET Recipients : list = worker[v].to_list
          BY <3>1
        <4>1. Unsent(list) => Unsent(list)'
          BY <1>6, <3>2
        <4> QED
          BY <3>1, <4>1 DEF Unsent
      <3>4. \A m \in queue' : m.sid = worker[v].sid =>
               \E n \in queue : n.sid = m.sid /\ n.status = m.status
        BY <1>7, <1>8, <3>1
      <3> QED
        BY <1>2, <3>1, <3>3, <3>4, ExecutionStays
    <2> QED
      BY <2>1, <2>2
  <1>12. AlwaysOneEmail'
    <2>1. x.pc = "send" => Unsent(x.to_list)
      BY <1>1 DEF FreshExecution
    <2> QED
      BY <1>3, <1>5, <2>1 DEF Fresh, AlwaysOneEmail, Unsent
  <1>13. \A t \in SubtaskIds : entry'.status[t].state = QUEUING => Tries(t)' = 0
    BY <1>2 DEF Fresh, Tries
  <1> QED
    BY <1>9, <1>10, <1>11, <1>12, <1>13 DEF Fresh

\* Recording an end leaves nothing due; recording a retry makes every message of
\* the subtask stale.
LEMMA FreshRecord ==
    ASSUME SerialInv, TypeOK, Books, OneAtWork, Lists, Fresh, Alive, NEW w \in Workers,
           AnyExecutionStep(w), UpdateStatus(w)
    PROVE  Lists' /\ Fresh'
  <1> PICK x, y, s, st : x = worker[w] /\ y = worker'[w] /\ s = x.sid /\ st = x.status
    OBVIOUS
  <1>1. /\ Busy(w) /\ x \in Execution /\ FreshExecution(x) /\ s \in SubtaskIds /\ st \in Status
        /\ x.to_list \subseteq assigned[s] /\ x.pc = "update" /\ TriesOf(x)
    BY ExecutionFrame, WorkerType DEF Busy, Fresh, Execution, Lists, UpdateStatus, Books, InBooks, Book
  <1>2. /\ \A v \in Workers : v # w => worker'[v] = worker[v]
        /\ UNCHANGED <<queue, sent, parent, used, assigned>>
    BY ExecutionFrame DEF UpdateStatus
  <1>3. Due(s) /\ ~UpdateFails(entry, s)
    BY <1>1 DEF FreshExecution, InWork, Due, Alive, UpdateFails
  <1>4. entry' = UpdateSubtaskStatus(entry, s, st) /\ y = [x EXCEPT !.pc = "release", !.raised = FALSE]
    <2>1. UpdateFails(entry, s) = FALSE
      BY <1>3 DEF UpdateFails
    <2>2. /\ entry' = IF UpdateFails(entry, s) THEN entry ELSE UpdateSubtaskStatus(entry, s, st)
          /\ y = [x EXCEPT !.pc = "release", !.raised = UpdateFails(entry, s)]
      BY DEF UpdateStatus, StepTo, TypeOK
    <2> QED
      BY <2>1, <2>2
  <1>5. /\ y.pc = "release" /\ y.sid = s /\ y.status = st /\ y.to_list = x.to_list
        /\ y.phase = x.phase
    BY <1>1, <1>4 DEF Execution
  <1>6. /\ st.state \in READY_STATES \cup {RETRY}
        /\ Settled(entry') = IF st.state = RETRY THEN Settled(entry) ELSE Settled(entry) \cup {s}
        /\ st.state # RETRY => ~InWork(y)
    BY <1>3, <1>4, SerialUpdate
  <1>7. entry'.status[s] = st
    BY <1>1, <1>4 DEF UpdateSubtaskStatus, Recorded, TypeOK, Entry
  <1>8. \A t \in SubtaskIds : t # s => entry'.status[t] = entry.status[t]
    BY StatusKept
  <1>9. /\ \A t \in SubtaskIds : Tries(t) \in Nat
        /\ \A m \in queue : RetryCount(m.status) \in Nat /\ m.sid \in SubtaskIds
        /\ RetryCount(st) \in Nat /\ Tries(s)' = RetryCount(st)
        /\ \A v \in Workers : Busy(v) => worker[v].sid \in SubtaskIds
    BY <1>1, <1>7, TriesAreNat DEF Tries
  <1>10. ASSUME st.state = RETRY
         PROVE  (\A m \in queue : m.sid = s => FreshMessage(m)') /\ FreshExecution(y)'
    <2>1. Retries(x)
      BY <1>1, <1>10 DEF TriesOf, Ends, Retries, READY_STATES, RETRY, SUCCESS, FAILURE, Execution
    <2>2. Unsent(x.to_list) /\ RetryCount(st) > Tries(s)
      BY <1>1, <2>1 DEF FreshExecution
    <2>3. Due(s)'
      BY <1>3, <1>6, <1>7, <1>10 DEF Due, Known, RETRY, UNKNOWN
    <2>4. \A m \in queue : m.sid = s => RetryCount(m.status) < Tries(s)'
      <3>1. \A m \in queue : m.sid = s => RetryCount(m.status) <= Tries(s)
        BY <1>3 DEF Fresh, FreshMessage
      <3> QED
        BY <1>1, <1>9, <2>2, <3>1
    <2>5. \A m \in queue : m.sid = s => FreshMessage(m)'
      BY <1>9, <2>4 DEF FreshMessage
    <2>6. FreshExecution(y)'
      <3>1. RetryCount(y.status) = Tries(s)' /\ Unsent(y.to_list)'
        BY <1>2, <1>5, <1>9, <2>2 DEF Unsent
      <3> QED
        BY <1>2, <1>5, <2>3, <2>4, <3>1 DEF FreshExecution
    <2> QED
      BY <2>5, <2>6
  <1>11. ASSUME st.state # RETRY
         PROVE  (\A m \in queue : m.sid = s => FreshMessage(m)') /\ FreshExecution(y)'
    <2>1. ~Due(s)'
      BY <1>6, <1>11 DEF Due
    <2>2. \A m \in queue : m.sid = s => FreshMessage(m)'
      BY <2>1 DEF FreshMessage
    <2>3. ~InWork(y) /\ ~Retries(y)
      BY <1>5, <1>6, <1>11 DEF InWork, Retries
    <2>4. FreshExecution(y)'
      BY <1>5, <2>3 DEF FreshExecution
    <2> QED
      BY <2>2, <2>4
  <1>12. (\A m \in queue : m.sid = s => FreshMessage(m)') /\ FreshExecution(y)'
    BY <1>10, <1>11
  <1>13. ASSUME NEW m \in queue, m.sid # s PROVE FreshMessage(m)'
    <2>1. Sending(m.sid) => Sending(m.sid)'
      BY <1>2, <1>13 DEF Sending, Busy
    <2>2. Unsent(m.to_list) => Unsent(m.to_list)'
      BY <1>2 DEF Unsent
    <2> QED
      BY <1>8, <1>9, <1>13, <2>1, <2>2, MessageStays DEF Fresh
  <1>14. ASSUME NEW v \in Workers, Busy(v)' PROVE FreshExecution(worker[v])'
    <2>1. CASE v = w
      BY <1>12, <2>1
    <2>2. CASE v # w
      <3>1. /\ Busy(v) /\ worker'[v] = worker[v] /\ worker[v].sid # s
            /\ FreshExecution(worker[v]) /\ worker[v].sid \in SubtaskIds
        BY <1>1, <1>2, <1>9, <1>14, <2>2 DEF Busy, OneAtWork, Fresh
      <3>2. Unsent(worker[v].to_list) => Unsent(worker[v].to_list)'
        BY <1>2, <3>1 DEF Unsent
      <3> QED
        BY <1>2, <1>8, <3>1, <3>2, ExecutionStays
    <2> QED
      BY <2>1, <2>2
  <1>15. \A t \in SubtaskIds : entry'.status[t].state = QUEUING => Tries(t)' = 0
    <2>1. st.state # QUEUING
      BY <1>6 DEF READY_STATES, RETRY, QUEUING, SUCCESS, FAILURE
    <2> QED
      BY <1>7, <1>8, <2>1 DEF Fresh, Tries
  <1>16. Lists'
    <2>1. ASSUME NEW v \in Workers, Busy(v)'
          PROVE  worker'[v].to_list \subseteq assigned[worker'[v].sid]
      BY <1>1, <1>2, <1>5, <2>1 DEF Lists, Busy
    <2> QED
      BY <1>2, <2>1 DEF Lists, Unsent
  <1> QED
    BY <1>2, <1>12, <1>13, <1>14, <1>15, <1>16 DEF Fresh, AlwaysOneEmail

\* Where executions, their entries in the row and what was sent stay as they are,
\* all stays fresh if the new messages are.
LEMMA FreshStays ==
    ASSUME TypeOK, Fresh, UNCHANGED <<worker, sent>>,
           \A t \in SubtaskIds : entry'.status[t] = entry.status[t],
           \A m \in queue' :
               \/ FreshMessage(m)'
               \/ \E n \in queue : n.sid = m.sid /\ n.status = m.status /\ n.to_list = m.to_list,
           \A v \in Workers : Busy(v) =>
               \A m \in queue' : m.sid = worker[v].sid =>
                   \E n \in queue : n.sid = m.sid /\ n.status = m.status
    PROVE  Fresh'
  <1>1. ASSUME NEW m \in queue' PROVE FreshMessage(m)'
    <2>1. CASE \E n \in queue : n.sid = m.sid /\ n.status = m.status /\ n.to_list = m.to_list
      <3>1. PICK n \in queue : n.sid = m.sid /\ n.status = m.status /\ n.to_list = m.to_list
        BY <2>1
      <3>2. /\ Sending(n.sid) => Sending(n.sid)'
            /\ Unsent(n.to_list) => Unsent(n.to_list)'
        BY DEF Sending, Busy, Unsent
      <3>3. FreshMessage(n) /\ n.sid \in SubtaskIds
        BY TriesAreNat DEF Fresh
      <3>4. FreshMessage(n)'
        BY <3>2, <3>3, MessageStays
      <3> QED
        BY <3>1, <3>4 DEF FreshMessage
    <2> QED
      BY <2>1
  <1>2. ASSUME NEW v \in Workers, Busy(v)' PROVE FreshExecution(worker[v])'
    <2>1. /\ Busy(v) /\ worker'[v] = worker[v] /\ FreshExecution(worker[v])
          /\ worker[v].sid \in SubtaskIds
      BY <1>2, TriesAreNat DEF Busy, Fresh
    <2>2. Unsent(worker[v].to_list) => Unsent(worker[v].to_list)'
      BY <2>1 DEF Unsent
    <2> QED
      BY <2>1, <2>2, ExecutionStays
  <1> QED
    BY <1>1, <1>2 DEF Fresh, Tries, AlwaysOneEmail

\* An execution starts with a message that was fresh, and nobody else sends then.
LEMMA FreshReceive ==
    ASSUME TypeOK, OneAtWork', Lists, Fresh, NEW w \in Workers, Receive(w)
    PROVE  Lists' /\ Fresh'
  <1>1. PICK m \in queue :
           /\ queue' = queue \ {m} /\ ~Busy(w)
           /\ worker' = [worker EXCEPT ![w] =
                 [pc |-> "check", sid |-> m.sid, to_list |-> m.to_list, status |-> m.status,
                  retries |-> m.retries, copy |-> m.copy, num |-> Cardinality(m.to_list),
                  frames |-> 0, phase |-> "final", raised |-> FALSE]]
    BY DEF Receive
  <1> PICK y : y = worker'[w]
    OBVIOUS
  <1>2. /\ \A v \in Workers : v # w => worker'[v] = worker[v]
        /\ Busy(w)' /\ y.pc = "check" /\ y.sid = m.sid /\ y.status = m.status
        /\ y.to_list = m.to_list
    BY <1>1 DEF TypeOK, Busy
  <1>3. UNCHANGED <<entry, parent, used, assigned, sent>>
    BY DEF Receive
  <1>4. /\ \A n \in queue : n.sid \in SubtaskIds
        /\ \A v \in Workers : Busy(v) => worker[v].sid \in SubtaskIds
    BY TriesAreNat
  <1>5. \A t \in SubtaskIds : Sending(t) => Sending(t)'
    <2> SUFFICES ASSUME NEW t \in SubtaskIds, NEW v \in Workers, Busy(v), worker[v].sid = t,
                        worker[v].pc \in {"send", "update"}
                 PROVE  Sending(t)'
      BY DEF Sending
    <2>1. v # w /\ worker'[v] = worker[v]
      BY <1>1, <1>2
    <2> QED
      BY <2>1 DEF Sending, Busy
  <1>6. ~Sending(m.sid)
    <2> SUFFICES ASSUME NEW v \in Workers, Busy(v), worker[v].sid = m.sid PROVE FALSE
      BY DEF Sending
    <2>1. v # w /\ worker'[v] = worker[v] /\ Busy(v)'
      BY <1>1, <1>2 DEF Busy
    <2> QED
      BY <1>2, <2>1 DEF OneAtWork
  <1>7. ASSUME NEW n \in queue' PROVE FreshMessage(n)'
    <2>1. Unsent(n.to_list) => Unsent(n.to_list)'
      BY <1>3 DEF Unsent
    <2>2. n \in queue /\ FreshMessage(n)
      BY <1>1 DEF Fresh
    <2> QED
      BY <1>3, <1>4, <1>5, <2>1, <2>2, MessageStays
  <1>8. ASSUME NEW v \in Workers, Busy(v)' PROVE FreshExecution(worker[v])'
    <2>1. CASE v = w
      <3>1. FreshMessage(m)
        BY DEF Fresh
      <3>2. Due(m.sid) => /\ RetryCount(m.status) <= Tries(m.sid)
                          /\ RetryCount(m.status) = Tries(m.sid) => Unsent(m.to_list)
        BY <1>6, <3>1 DEF FreshMessage
      <3>3. (Due(m.sid)' <=> Due(m.sid)) /\ Tries(m.sid)' = Tries(m.sid)
            /\ (Unsent(m.to_list)' <=> Unsent(m.to_list))
        BY <1>3 DEF Due, Known, Settled, Tries, Unsent
      <3>4. FreshExecution(y)'
        BY <1>2, <3>2, <3>3 DEF FreshExecution, InWork, Retries
      <3> QED
        BY <2>1, <3>4
    <2>2. CASE v # w
      <3>1. /\ Busy(v) /\ worker'[v] = worker[v] /\ FreshExecution(worker[v])
            /\ worker[v].sid \in SubtaskIds
        BY <1>2, <1>4, <1>8, <2>2 DEF Busy, Fresh
      <3>2. Unsent(worker[v].to_list) => Unsent(worker[v].to_list)'
        BY <1>3, <3>1 DEF Unsent
      <3> QED
        BY <1>1, <1>3, <3>1, <3>2, ExecutionStays
    <2> QED
      BY <2>1, <2>2
  <1>9. Lists'
    <2>1. ASSUME NEW v \in Workers, Busy(v)'
          PROVE  worker'[v].to_list \subseteq assigned[worker'[v].sid]
      BY <1>2, <2>1 DEF Lists, Busy
    <2> QED
      BY <1>1, <1>3, <2>1 DEF Lists, Unsent
  <1> QED
    BY <1>3, <1>7, <1>8, <1>9 DEF Fresh, AlwaysOneEmail, Tries

\* A parent creates a subtask for recipients nobody else has, who have no email.
LEMMA FreshParent ==
    ASSUME OneParent, TypeOK, Books, Batches, Lists, Fresh, NEW p \in Parents, ParentStep(p)
    PROVE  Lists' /\ Fresh'
  <1>1. /\ parent \in [Parents -> ParentRun] /\ parent[p] \in ParentRun
        /\ UNCHANGED <<worker, sent>> /\ \A q \in Parents : q = p
    BY DEF TypeOK, OneParent, ParentStep, ParentRead, ParentDefine, ParentFetch, ParentQueueSubtask,
       ParentRaises, ParentDone, ParentFailRead, ParentFailSave
  <1>2. /\ \A m \in queue : HandedOut(m.sid) /\ m.sid \in SubtaskIds
        /\ \A v \in Workers : Busy(v) => HandedOut(worker[v].sid) /\ worker[v].sid \in SubtaskIds
    BY TriesAreNat DEF Books, InBooks
  <1>3. ASSUME UNCHANGED <<entry, queue>> PROVE Fresh'
    BY <1>1, <1>3, FreshStays
  <1>4. ASSUME UNCHANGED <<queue, assigned>>,
               parent'[p].pc \in {"ready", "define"} => used' = {},
               parent'[p].pc \in {"ready", "define", "fetch"} =>
                   Unsent(Recipients) /\ \A s \in SubtaskIds : assigned[s] = {},
               parent'[p].pc = "queue" =>
                   Unsent(parent'[p].todo) /\ \A s \in SubtaskIds : assigned[s] \cap parent'[p].todo = {}
        PROVE  Lists'
    BY <1>1, <1>4 DEF Lists, Busy, Unsent
  <1>5. CASE ParentRead(p)
    <2>1. /\ parent[p].pc = "ready" /\ parent'[p].pc \in {"done", "define"}
          /\ UNCHANGED <<entry, queue, assigned, used>>
      BY <1>1, <1>5 DEF ParentRead, ParentRun
    <2> QED
      BY <1>3, <1>4, <2>1 DEF Lists
  <1>6. CASE ParentDefine(p)
    <2>1. PICK ids \in SUBSET SubtaskIds :
             /\ entry' = InitializeSubtaskInfo(parent[p].total, ids)
             /\ parent' = [parent EXCEPT ![p].pc = "fetch", ![p].ids = ids, ![p].wrote = TRUE]
      BY <1>6 DEF ParentDefine
    <2>2. /\ parent[p].pc = "define" /\ parent'[p].pc = "fetch"
          /\ UNCHANGED <<queue, assigned>>
      BY <1>1, <1>6, <2>1 DEF ParentDefine, ParentRun
    <2>3. used = {}
      BY <2>2 DEF Lists
    <2>4. queue' = {} /\ \A v \in Workers : ~Busy(v)
      BY <1>2, <2>2, <2>3 DEF HandedOut
    <2>5. \A v \in Workers : ~Busy(v)'
      BY <1>1, <2>4 DEF Busy
    <2>6. \A s \in SubtaskIds : Tries(s)' = 0
      BY <2>1 DEF Tries, InitializeSubtaskInfo, RetryCount, NewStatus, NoStatus, StatusIn
    <2>7. Fresh'
      BY <1>1, <2>4, <2>5, <2>6 DEF Fresh, AlwaysOneEmail
    <2> QED
      BY <1>4, <2>2, <2>7 DEF Lists
  <1>7. CASE ParentFetch(p)
    <2>1. /\ parent[p].pc = "fetch" /\ parent'[p].pc = "queue" /\ parent'[p].todo \subseteq Recipients
          /\ UNCHANGED <<entry, queue, assigned, used>>
      BY <1>1, <1>7 DEF ParentFetch, ParentRun, TypeOK
    <2>2. Unsent(parent'[p].todo) /\ \A s \in SubtaskIds : assigned[s] \cap parent'[p].todo = {}
      BY <2>1 DEF Lists, Unsent
    <2> QED
      BY <1>3, <1>4, <2>1, <2>2
  <1>8. CASE ParentQueueSubtask(p)
    <2>1. PICK s \in parent[p].ids, chunk \in SUBSET parent[p].todo :
             /\ queue' = queue \cup {[sid |-> s, to_list |-> chunk, status |-> NewStatus,
                                      retries |-> 0, copy |-> 0]}
             /\ parent' = [parent EXCEPT ![p].ids = @ \ {s}, ![p].todo = @ \ chunk]
             /\ assigned' = [assigned EXCEPT ![s] = chunk]
      BY <1>8 DEF ParentQueueSubtask
    <2>2. /\ parent[p].pc = "queue" /\ parent'[p].pc = "queue" /\ entry' = entry
          /\ parent'[p].todo = parent[p].todo \ chunk /\ s \in SubtaskIds /\ used' = used
      BY <1>1, <1>8, <2>1 DEF ParentQueueSubtask, ParentRun
    <2>3. PICK m : m = [sid |-> s, to_list |-> chunk, status |-> NewStatus, retries |-> 0, copy |-> 0]
      OBVIOUS
    <2>4. queue' = queue \cup {m} /\ m.sid = s /\ m.to_list = chunk /\ RetryCount(m.status) = 0
      BY <2>1, <2>3 DEF RetryCount, NewStatus, StatusIn
    <2>5. /\ assigned'[s] = chunk
          /\ \A t \in SubtaskIds : t # s => assigned'[t] = assigned[t]
      BY <2>1, <2>2 DEF TypeOK
    <2>6. /\ \A n \in queue : n.sid # s
          /\ \A v \in Workers : Busy(v) => worker[v].sid # s
      BY <1>2, <2>1 DEF HandedOut
    <2>7. Unsent(parent[p].todo) /\ \A t \in SubtaskIds : assigned[t] \cap parent[p].todo = {}
      BY <2>2 DEF Lists
    <2>8. FreshMessage(m)'
      <3>1. Unsent(m.to_list)'
        BY <1>1, <2>4, <2>7 DEF Unsent
      <3>2. Tries(m.sid)' = Tries(s) /\ Tries(s) \in Nat
        BY <2>2, <2>4, TriesAreNat DEF Tries
      <3> QED
        BY <2>4, <3>1, <3>2 DEF FreshMessage
    <2>9. Fresh'
      <3>1. \A v \in Workers : Busy(v) =>
               \A n \in queue' : n.sid = worker[v].sid =>
                   \E k \in queue : k.sid = n.sid /\ k.status = n.status
        BY <2>4, <2>6
      <3>2. \A n \in queue' :
               \/ FreshMessage(n)'
               \/ \E k \in queue : k.sid = n.sid /\ k.status = n.status /\ k.to_list = n.to_list
        BY <2>4, <2>8
      <3> QED
        BY <1>1, <2>2, <3>1, <3>2, FreshStays
    <2>10. \A n \in queue' : n.to_list \subseteq assigned'[n.sid]
      BY <1>2, <2>4, <2>5, <2>6 DEF Lists
    <2>11. ASSUME NEW v \in Workers, Busy(v)'
           PROVE  worker'[v].to_list \subseteq assigned'[worker'[v].sid]
      <3>1. Busy(v) /\ worker'[v] = worker[v]
        BY <1>1, <2>11 DEF Busy
      <3> QED
        BY <1>2, <2>5, <2>6, <3>1 DEF Lists
    <2>12. \A t, u \in SubtaskIds : t # u => assigned'[t] \cap assigned'[u] = {}
      BY <2>5, <2>7 DEF Lists
    <2> PICK todo : todo = parent'[p].todo
      OBVIOUS
    <2>13. /\ \A r \in todo : sent'[r] = 0
           /\ \A t \in SubtaskIds : assigned'[t] \cap todo = {}
      BY <1>1, <2>2, <2>5, <2>7 DEF Unsent
    <2> QED
      BY <1>1, <2>2, <2>9, <2>10, <2>11, <2>12, <2>13 DEF Lists, Unsent
  <1>9. CASE ParentRaises(p) \/ ParentDone(p)
    <2>1. parent'[p].pc \in {"failed", "done"} /\ UNCHANGED <<entry, queue, assigned, used>>
      BY <1>1, <1>9 DEF ParentRaises, ParentDone, ParentRun
    <2> QED
      BY <1>3, <1>4, <2>1
  <1>10. CASE ParentFailRead(p) \/ ParentFailSave(p)
    BY <1>10 DEF ParentFailRead, ParentFailSave, Batches
  <1> QED
    BY <1>5, <1>6, <1>7, <1>8, <1>9, <1>10 DEF ParentStep

\* A message that is repeated is as fresh as the first.
LEMMA FreshOthers ==
    ASSUME TypeOK, Lists, Fresh,
           \/ UNCHANGED vars
           \/ \E m \in queue : Redeliver(m)
           \/ \E s \in SubtaskIds : LockExpires(s)
    PROVE  Lists' /\ Fresh'
  <1>1. UNCHANGED <<entry, parent, worker, used, assigned, sent>>
    BY DEF vars, Redeliver, LockExpires
  <1>2. ASSUME NEW m \in queue'
        PROVE  \E n \in queue : n.sid = m.sid /\ n.status = m.status /\ n.to_list = m.to_list
    <2>1. CASE m \in queue
      BY <2>1
    <2>2. CASE m \notin queue
      <3>1. PICK n \in queue : Redeliver(n)
        BY <1>2, <2>2 DEF vars, LockExpires
      <3>2. m = [n EXCEPT !.copy = budget.redeliveries + 1] /\ n \in Message
        BY <1>2, <2>2, <3>1 DEF Redeliver, TypeOK
      <3>3. n.sid = m.sid /\ n.status = m.status /\ n.to_list = m.to_list
        BY <3>2 DEF Message
      <3> QED
        BY <3>3
    <2> QED
      BY <2>1, <2>2
  <1>3. Fresh'
    <2>1. \A v \in Workers : Busy(v) =>
             \A m \in queue' : m.sid = worker[v].sid =>
                 \E n \in queue : n.sid = m.sid /\ n.status = m.status
      BY <1>2
    <2>2. \A m \in queue' :
             \/ FreshMessage(m)'
             \/ \E n \in queue : n.sid = m.sid /\ n.status = m.status /\ n.to_list = m.to_list
      BY <1>2
    <2> QED
      BY <1>1, <2>1, <2>2, FreshStays
  <1>4. \A m \in queue' : m.to_list \subseteq assigned[m.sid]
    BY <1>2 DEF Lists
  <1> QED
    BY <1>1, <1>3, <1>4 DEF Lists, Busy, Unsent

\* Every step keeps the invariant.
LEMMA FreshStep ==
    ASSUME OneByOne, OneParent, ParentsSucceed, FreshInv, [Next]_vars
    PROVE  FreshInv'
  <1>1. SerialInv /\ AliveInv /\ SerialInv' /\ AliveInv'
    BY SerialStep, AliveStep DEF FreshInv
  <1> SUFFICES ASSUME Calm' PROVE Lists' /\ Fresh'
    BY <1>1 DEF FreshInv
  <1>2. TypeOK /\ Books /\ OneAtWork /\ OneAtWork'
    BY <1>1 DEF SerialInv, BooksInv
  <1>3. /\ Calm /\ \A w \in Workers : ~WorkerCrashes(w)
        /\ \A p \in Parents : ~ParentCrashes(p)
        /\ ~EnrollmentChanges /\ budget.dberrors \in Nat
    BY <1>2, CalmStays
  <1>4. Batches /\ Alive /\ Lists /\ Fresh
    BY <1>1, <1>3 DEF AliveInv, FreshInv
  <1>5. ASSUME NEW w \in Workers, AnyExecutionStep(w) PROVE Lists' /\ Fresh'
    <2>1. CASE UpdateStatus(w)
      BY <1>1, <1>2, <1>4, <1>5, <2>1, FreshRecord
    <2>2. CASE ~UpdateStatus(w)
      <3>1. budget'.dberrors < MaxDbRetries
        BY DEF Calm
      <3> QED
        BY <1>2, <1>3, <1>4, <1>5, <2>2, <3>1, FreshMove
    <2> QED
      BY <2>1, <2>2
  <1>6. ASSUME NEW p \in Parents, ParentStep(p) PROVE Lists' /\ Fresh'
    BY <1>2, <1>4, <1>6, FreshParent
  <1>7. ASSUME NEW w \in Workers, Receive(w) PROVE Lists' /\ Fresh'
    BY <1>2, <1>4, <1>7, FreshReceive
  <1>8. CASE \/ UNCHANGED vars \/ (\E m \in queue : Redeliver(m))
             \/ (\E s \in SubtaskIds : LockExpires(s))
    BY <1>2, <1>4, <1>8, FreshOthers
  <1> QED
    BY <1>3, <1>5, <1>6, <1>7, <1>8 DEF Next, AnyExecutionStep

\* It holds at the start.
LEMMA FreshInit == Init => FreshInv
  <1> SUFFICES ASSUME Init PROVE FreshInv
    OBVIOUS
  <1>1. \A s \in SubtaskIds : Tries(s) = 0
    BY DEF Init, NewEntry, Tries, RetryCount, NoStatus, StatusIn
  <1>2. \A w \in Workers : ~Busy(w)
    BY DEF Init, Busy, Idle
  <1>3. /\ queue = {} /\ used = {} /\ \A p \in Parents : parent[p].pc = "ready"
        /\ \A s \in SubtaskIds : assigned[s] = {}
        /\ \A r \in Recipients : sent[r] = 0
    BY DEF Init
  <1>4. Lists
    BY <1>2, <1>3 DEF Lists, Unsent
  <1>5. Fresh
    BY <1>1, <1>2, <1>3 DEF Fresh, AlwaysOneEmail
  <1> QED
    BY <1>4, <1>5, SerialInit, AliveInit DEF FreshInv

\* A subtask may be delivered twice, retried, and lose its lock: where its
\* duplicates run one after the other and one parent runs, nobody is sent the
\* email twice as long as nothing crashes, enrolments stay and the database
\* recovers (AlwaysOneEmail).
THEOREM OneEmailWhileCalm ==
    ASSUME OneByOne, OneParent, ParentsSucceed
    PROVE  Spec => [](Calm => AlwaysOneEmail)
  <1>1. FreshInv => (Calm => AlwaysOneEmail)
    BY DEF FreshInv, Fresh
  <1>2. Init => FreshInv
    BY FreshInit
  <1>3. FreshInv /\ [Next]_vars => FreshInv'
    BY FreshStep
  <1> QED
    BY <1>1, <1>2, <1>3, PTL DEF Spec

=============================================================================
