------------------------ MODULE InstructorTasks_proofs ------------------------
(***************************************************************************)
(* Theorems about InstructorTasks, for any number of submissions, workers  *)
(* and status requests and any faults.                                     *)
(***************************************************************************)
EXTENDS InstructorTasksProps, TLAPS

-----------------------------------------------------------------------------
(***************************************************************************)
(* Types.                                                                  *)
(***************************************************************************)
\* Nothing is published, executed or divided into subtasks before its row is
\* there; that is why an execution never finds the row missing.
RecordedFirst ==
    /\ \A t \in Tasks : request[t] = "publish" \/ queue[t] > 0 \/ t \in queued => Exists(t)
    /\ \A w \in Workers : Active(w) => Exists(run[w].task)
    /\ \A w \in Workers : run[w].pc = "queue" => run[w].task \in Delegating

\* The types and the order together are inductive.
TypeInv == TypeOK /\ RecordedFirst

\* A row that is there is not the missing one, and saving a state keeps it a row.
LEMMA RowTypes ==
    /\ Created \in Rows /\ Missing \notin Rows
    /\ \A r \in Rows : r # Missing
    /\ \A r \in Rows, s \in States : [r EXCEPT !.state = s] \in Rows
  BY DEF Rows, Created, Missing, States, READY_STATES

\* The program counters of an active execution.
Pcs == {"read", "start", "queue", "work", "succeeded", "failed", "on_success", "on_failure"}

\* An active execution is a record of the type.
LEMMA RunTypes ==
    ASSUME TypeOK, NEW w \in Workers, Active(w)
    PROVE  /\ run[w] \in Runs /\ run[w].task \in Tasks /\ run[w].copy \in Rows
           /\ run[w].pc \in Pcs
  <1>1. run[w] \in Runs
    BY DEF TypeOK, Active, NoRun
  <1> QED
    BY <1>1 DEF Runs, Pcs

\* An execution that moves on stays with its task and disturbs no other.
Moves(w, pc, r) ==
    /\ run' \in [Workers -> Runs \cup {NoRun}]
    /\ \A v \in Workers : /\ Active(v)' <=> Active(v)
                          /\ v # w => run'[v] = run[v]
                          /\ run'[v].task = run[v].task
    /\ run'[w].pc = pc /\ run'[w].copy = r

\* What writing the pc and the copy of an execution changes ...
LEMMA MoveEffect ==
    ASSUME TypeOK, NEW w \in Workers, Active(w), NEW pc \in Pcs, NEW r \in Rows,
           run' = [run EXCEPT ![w].pc = pc, ![w].copy = r]
    PROVE  Moves(w, pc, r)
  <1>1. run[w] \in Runs
    BY RunTypes
  <1> DEFINE x == [run[w] EXCEPT !.pc = pc, !.copy = r]
  <1>2. x \in Runs
    BY <1>1 DEF Runs, Pcs
  <1>3. x.pc = pc /\ x.task = run[w].task /\ x.copy = r
    BY <1>1 DEF Runs
  <1>4. run' = [run EXCEPT ![w] = x]
    BY DEF TypeOK
  <1>5. run' \in [Workers -> Runs \cup {NoRun}]
    BY <1>2, <1>4 DEF TypeOK
  <1>6. \A v \in Workers : v # w => run'[v] = run[v]
    BY <1>4 DEF TypeOK
  <1>7. run'[w] = x
    BY <1>4 DEF TypeOK
  <1>8. Active(w)'
    BY <1>3, <1>7 DEF Active, Pcs
  <1> QED
    BY <1>3, <1>5, <1>6, <1>7, <1>8 DEF Active, Moves

\* ... and writing its pc alone.
LEMMA GotoEffect ==
    ASSUME TypeOK, NEW w \in Workers, Active(w), NEW pc \in Pcs, Goto(w, pc)
    PROVE  Moves(w, pc, run[w].copy)
  <1>1. run[w] \in Runs /\ run[w].copy \in Rows
    BY RunTypes
  <1>2. [run EXCEPT ![w].pc = pc] = [run EXCEPT ![w].pc = pc, ![w].copy = run[w].copy]
    BY <1>1 DEF TypeOK, Runs
  <1> QED
    BY <1>1, <1>2, MoveEffect DEF Goto

\* A status request under way is a record of the type.
LEMMA PollTypes ==
    ASSUME TypeOK, NEW c \in Polls, poll[c].pc # "idle"
    PROVE  /\ poll[c] \in PollStates /\ poll[c].task \in Tasks /\ poll[c].copy \in Rows
           /\ poll[c].seen \in ResultStates
  BY DEF TypeOK, PollStates, NoPoll

\* An answer keeps the types of the requests and of what was told.
LEMMA AnswerTypes ==
    ASSUME TypeOK, NEW c \in Polls, NEW x \in PollStates, NEW a \in Answers, Answer(c, a, x)
    PROVE  /\ poll' \in [Polls -> PollStates \cup {NoPoll}]
           /\ told' \in [Tasks -> READY_STATES \cup {"none"}]
  <1>1. [x EXCEPT !.pc = "done", !.answer = a] \in PollStates
    BY DEF PollStates
  <1> QED
    BY <1>1 DEF Answer, TypeOK

\* Nothing is recorded at first.
LEMMA TypeInit == Init => TypeInv
  <1> SUFFICES ASSUME Init PROVE TypeInv
    OBVIOUS
  <1>1. TypeOK
    BY DEF Init, TypeOK, ResultStates
  <1>2. RecordedFirst
    <2>1. \A w \in Workers : run[w].pc = "idle"
      BY DEF Init, NoRun
    <2>2. \A t \in Tasks : request[t] = "check" /\ queue[t] = 0 /\ t \notin queued
      BY DEF Init
    <2> QED
      BY <2>1, <2>2 DEF RecordedFirst, Active
  <1> QED
    BY <1>1, <1>2 DEF TypeInv

\* Every step keeps types and order.
LEMMA TypeStep == TypeInv /\ [Next]_vars => TypeInv'
  <1> SUFFICES ASSUME TypeInv, [Next]_vars PROVE TypeInv'
    OBVIOUS
  <1> USE RowTypes DEF TypeInv
  <1> DEFINE Goal == TypeInv'
  <1>1. ASSUME NEW t \in Tasks, CheckRunning(t) PROVE Goal
    BY <1>1 DEF CheckRunning, TypeOK, RecordedFirst, Exists, Active
  <1>2. ASSUME NEW t \in Tasks, CreateRow(t) PROVE Goal
    BY <1>2 DEF CreateRow, TypeOK, RecordedFirst, Exists, Active
  <1>3. ASSUME NEW t \in Tasks, InputTooLong(t) \/ PublishFails(t) PROVE Goal
    BY <1>3 DEF InputTooLong, PublishFails, TypeOK, RecordedFirst, Exists, Active
  <1>4. ASSUME NEW t \in Tasks, Publish(t) PROVE Goal
    BY <1>4 DEF Publish, TypeOK, RecordedFirst, Exists, Active
  <1>5. ASSUME NEW t \in Tasks, SubtasksFinish(t) PROVE Goal
    <2>1. row[t] \in Rows
      BY <1>5 DEF SubtasksFinish, TypeOK, RecordedFirst, Exists
    <2>2. [row[t] EXCEPT !.state = "SUCCESS"] \in Rows
      BY <2>1 DEF States, READY_STATES
    <2> QED
      BY <1>5, <2>2 DEF SubtasksFinish, TypeOK, RecordedFirst, Exists, Active
  <1>6. ASSUME NEW t \in Tasks, Redeliver(t) PROVE Goal
    BY <1>6 DEF Redeliver, TypeOK, RecordedFirst, Exists, Active
  <1>7. ASSUME NEW t \in Tasks, Revoke(t) PROVE Goal
    BY <1>7 DEF Revoke, TypeOK, RecordedFirst, Exists, Active
  <1>8. ASSUME NEW w \in Workers, Start(w) PROVE Goal
    <2>1. PICK t \in Tasks :
             /\ queue[t] > 0
             /\ queue' = [queue EXCEPT ![t] = @ - 1]
             /\ \/ result' = [result EXCEPT ![t] = "REVOKED"] /\ UNCHANGED run
                \/ /\ result' = [result EXCEPT ![t] = "STARTED"]
                   /\ run' = [run EXCEPT ![w] = [pc |-> "read", task |-> t, copy |-> Created]]
      BY <1>8 DEF Start
    <2>2. [pc |-> "read", task |-> t, copy |-> Created] \in Runs
      BY DEF Runs
    <2>3. queue[t] - 1 \in Nat /\ Exists(t)
      BY <2>1 DEF TypeOK, RecordedFirst
    <2>4. TypeOK'
      BY <1>8, <2>1, <2>2, <2>3 DEF Start, TypeOK, ResultStates, READY_STATES
    <2>5. RecordedFirst'
      BY <1>8, <2>1, <2>3 DEF Start, TypeOK, RecordedFirst, Exists, Active
    <2> QED
      BY <2>4, <2>5
  <1>9. ASSUME NEW w \in Workers, ReadEntry(w) \/ HandlerReads(w) PROVE Goal
    <2>1. Active(w)
      BY <1>9 DEF ReadEntry, HandlerReads, Active
    <2>2. row[run[w].task] \in Rows
      BY <2>1, RunTypes DEF TypeOK, RecordedFirst, Exists
    <2>3. PICK pc \in {"start", "on_success", "on_failure"} :
             run' = [run EXCEPT ![w].pc = pc, ![w].copy = row[run[w].task]]
      <3>1. run[w] \in Runs
        BY <2>1, RunTypes
      <3>2. CASE ReadEntry(w)
        BY <3>2 DEF ReadEntry
      <3>3. CASE HandlerReads(w)
        <4>1. PICK pc \in {"on_success", "on_failure"} :
                 pc = (IF run[w].pc = "succeeded" THEN "on_success" ELSE "on_failure")
          OBVIOUS
        <4>2. [[run[w] EXCEPT !.copy = row[run[w].task]] EXCEPT !.pc = pc]
                 = [[run[w] EXCEPT !.pc = pc] EXCEPT !.copy = row[run[w].task]]
          BY <3>1 DEF Runs
        <4> QED
          BY <3>1, <3>3, <4>1, <4>2 DEF HandlerReads, TypeOK, Runs
      <3> QED
        BY <1>9, <3>2, <3>3
    <2>4. Moves(w, pc, row[run[w].task])
      BY <2>1, <2>2, <2>3, MoveEffect DEF Pcs
    <2>5. TypeOK'
      BY <1>9, <2>4 DEF ReadEntry, HandlerReads, TypeOK, Moves
    <2>6. RecordedFirst'
      BY <1>9, <2>4 DEF ReadEntry, HandlerReads, RecordedFirst, Exists, Moves
    <2> QED
      BY <2>5, <2>6
  <1>10. ASSUME NEW w \in Workers, ReportProgress(w) \/ Return(w) \/ Raise(w) PROVE Goal
    <2>1. Active(w)
      BY <1>10 DEF ReportProgress, Return, Raise, Active
    <2>2. \E pc \in {"work", "succeeded", "failed"} : Moves(w, pc, run[w].copy)
      BY <1>10, <2>1, GotoEffect DEF ReportProgress, Return, Raise, Pcs
    <2>3. TypeOK'
      BY <1>10, <2>2 DEF ReportProgress, Return, Raise, TypeOK, ResultStates, READY_STATES,
         Moves
    <2>4. RecordedFirst'
      BY <1>10, <2>2 DEF ReportProgress, Return, Raise, RecordedFirst, Exists, Moves
    <2> QED
      BY <2>3, <2>4
  <1>11. ASSUME NEW w \in Workers, DefineSubtasks(w) PROVE Goal
    <2>1. Active(w) /\ run[w].task \in Delegating
      BY <1>11 DEF DefineSubtasks, Active
    <2>2. \E pc \in {"work", "queue"} : Moves(w, pc, run[w].copy)
      BY <1>11, <2>1, GotoEffect DEF DefineSubtasks, Pcs
    <2>3. [state |-> "PROGRESS", subtasks |-> TRUE] \in Rows
      BY DEF Rows, States
    <2>4. TypeOK'
      BY <1>11, <2>2, <2>3 DEF DefineSubtasks, TypeOK, Moves
    <2>5. \A t \in Tasks : Exists(t) => Exists(t)'
      BY <1>11, <2>3 DEF DefineSubtasks, Exists, TypeOK
    <2>6. \A v \in Workers : Active(v) => run[v].task \in Tasks
      BY RunTypes
    <2>7. RecordedFirst'
      BY <1>11, <2>1, <2>2, <2>5, <2>6 DEF DefineSubtasks, RecordedFirst, Moves
    <2> QED
      BY <2>4, <2>7
  <1>12. ASSUME NEW w \in Workers, QueueSubtasks(w) PROVE Goal
    <2>1. Active(w) /\ run[w].task \in Delegating
      BY <1>12 DEF QueueSubtasks, Active, RecordedFirst
    <2>2. Moves(w, "work", run[w].copy)
      BY <1>12, <2>1, GotoEffect DEF QueueSubtasks, Pcs
    <2>3. TypeOK'
      BY <1>12, <2>1, <2>2 DEF QueueSubtasks, TypeOK, Moves
    <2>4. RecordedFirst'
      BY <1>12, <2>1, <2>2 DEF QueueSubtasks, RecordedFirst, Exists, Moves
    <2> QED
      BY <2>3, <2>4
  <1>13. ASSUME NEW w \in Workers, OnSuccess(w) \/ OnFailure(w) PROVE Goal
    <2>1. Active(w)
      BY <1>13 DEF OnSuccess, OnFailure, Active
    <2>2. \A s \in {"SUCCESS", "FAILURE"} : [run[w].copy EXCEPT !.state = s] \in Rows
      BY <2>1, RunTypes DEF States, READY_STATES
    <2>3. row' \in [Tasks -> Rows \cup {Missing}]
      BY <1>13, <2>2 DEF OnSuccess, OnFailure, TypeOK
    <2>4. run' \in [Workers -> Runs \cup {NoRun}]
      BY <1>13 DEF OnSuccess, OnFailure, TypeOK
    <2>5. TypeOK'
      BY <1>13, <2>3, <2>4 DEF OnSuccess, OnFailure, TypeOK
    <2>6. \A t \in Tasks : Exists(t) => Exists(t)'
      BY <1>13, <2>2 DEF OnSuccess, OnFailure, Exists, TypeOK
    <2>7. \A v \in Workers : run'[v] = run[v] \/ run'[v].pc = "idle"
      BY <1>13 DEF OnSuccess, OnFailure, TypeOK, NoRun
    <2>8. \A v \in Workers : Active(v) => run[v].task \in Tasks
      BY RunTypes
    <2>9. RecordedFirst'
      BY <1>13, <2>6, <2>7, <2>8 DEF OnSuccess, OnFailure, RecordedFirst, Active
    <2> QED
      BY <2>5, <2>9
  <1>14. ASSUME NEW w \in Workers, WorkerCrashes(w) PROVE Goal
    BY <1>14 DEF WorkerCrashes, TypeOK, RecordedFirst, Exists, Active, NoRun
  <1>15. ASSUME NEW c \in Polls, PollRow(c) PROVE Goal
    <2>1. PICK t \in Tasks :
             LET x == [pc |-> "state", task |-> t, copy |-> row[t], seen |-> "PENDING",
                       answer |-> "none", before |-> told[t]]
             IN  /\ Exists(t)
                 /\ IF Running(t) THEN poll' = [poll EXCEPT ![c] = x] /\ UNCHANGED told
                    ELSE Answer(c, row[t].state, x)
      BY <1>15 DEF PollRow
    <2> DEFINE x == [pc |-> "state", task |-> t, copy |-> row[t], seen |-> "PENDING",
                     answer |-> "none", before |-> told[t]]
    <2>2. row[t] \in Rows /\ row[t].state \in Answers
      BY <2>1 DEF TypeOK, Exists, Rows, Answers
    <2>3. told[t] \in Answers
      BY DEF TypeOK, Answers, States
    <2>4. x \in PollStates
      BY <2>2, <2>3 DEF PollStates, ResultStates, Answers
    <2>5. /\ poll' \in [Polls -> PollStates \cup {NoPoll}]
          /\ told' \in [Tasks -> READY_STATES \cup {"none"}]
      <3>1. CASE Running(t)
        BY <2>1, <2>4, <3>1 DEF TypeOK
      <3>2. CASE ~Running(t)
        BY <2>1, <2>2, <2>4, <3>2, AnswerTypes
      <3> QED
        BY <3>1, <3>2
    <2> QED
      BY <1>15, <2>5 DEF PollRow, TypeOK, RecordedFirst, Exists, Active
  <1>16. ASSUME NEW c \in Polls, PollState(c) PROVE Goal
    <2>1. [poll[c] EXCEPT !.pc = "result", !.seen = result[poll[c].task]] \in PollStates
      BY <1>16, PollTypes DEF PollState, TypeOK, PollStates
    <2> QED
      BY <1>16, <2>1 DEF PollState, TypeOK, RecordedFirst, Exists, Active
  <1>17. ASSUME NEW c \in Polls, PollResult(c) PROVE Goal
    <2>1. poll[c] \in PollStates /\ poll[c].seen \in Answers
      BY <1>17, PollTypes DEF PollResult, Answers
    <2>2. "PROGRESS" \in Answers /\ "error" \in Answers
      BY DEF Answers, States
    <2>3. \/ \E a \in Answers : Answer(c, a, poll[c])
          \/ poll' = [poll EXCEPT ![c].pc = "save"] /\ UNCHANGED told
      BY <1>17, <2>1, <2>2 DEF PollResult, FromResult
    <2>4. [poll[c] EXCEPT !.pc = "save"] \in PollStates
      BY <2>1 DEF PollStates
    <2>5. /\ poll' \in [Polls -> PollStates \cup {NoPoll}]
          /\ told' \in [Tasks -> READY_STATES \cup {"none"}]
      BY <2>1, <2>3, <2>4, AnswerTypes DEF TypeOK
    <2> QED
      BY <1>17, <2>5 DEF PollResult, TypeOK, RecordedFirst, Exists, Active
  <1>18. ASSUME NEW c \in Polls, SaveRevoked(c) PROVE Goal
    <2>1. poll[c] \in PollStates /\ poll[c].copy \in Rows
      BY <1>18, PollTypes DEF SaveRevoked
    <2>2. [poll[c].copy EXCEPT !.state = "REVOKED"] \in Rows
      BY <2>1 DEF States, READY_STATES
    <2>3. "REVOKED" \in Answers
      BY DEF Answers, States, READY_STATES
    <2>4. /\ poll' \in [Polls -> PollStates \cup {NoPoll}]
          /\ told' \in [Tasks -> READY_STATES \cup {"none"}]
      BY <1>18, <2>1, <2>3, AnswerTypes DEF SaveRevoked
    <2>5. TypeOK'
      BY <1>18, <2>2, <2>4 DEF SaveRevoked, TypeOK
    <2>6. RecordedFirst'
      BY <1>18, <2>2 DEF SaveRevoked, TypeOK, RecordedFirst, Exists, Active
    <2> QED
      BY <2>5, <2>6
  <1>19. CASE UNCHANGED vars
    BY <1>19 DEF vars, TypeOK, RecordedFirst, Exists, Active
  <1> HIDE DEF Goal
  <1> QED
    BY <1>1, <1>2, <1>3, <1>4, <1>5, <1>6, <1>7, <1>8, <1>9, <1>10, <1>11, <1>12,
       <1>13, <1>14, <1>15, <1>16, <1>17, <1>18, <1>19
    DEF Next, Submitting, Executing, Polling, Goal

\* Every variable keeps its type: no row, copy, result or answer is ever in a
\* state the code does not know.
THEOREM TypeCorrect == Spec => []TypeOK
  <1>1. Spec => []TypeInv
    BY TypeInit, TypeStep, PTL DEF Spec
  <1> QED
    BY <1>1, PTL DEF TypeInv

-----------------------------------------------------------------------------
(***************************************************************************)
(* One task at a time.  Without redelivery the task of a row goes through  *)
(* submission, queue and execution once, in this order; each stage knows   *)
(* what the row and the result backend say, which is why the copies that   *)
(* the handlers and the status requests save are never too old.            *)
(***************************************************************************)
\* No message of t, no execution of t, nothing known of t to the backend.
Untouched(t) ==
    /\ queue[t] = 0 /\ result[t] = "PENDING" /\ t \notin queued
    /\ \A w \in Workers : Active(w) => run[w].task # t

\* A task is submitted, then queued once, then executed once.
Submission(t) ==
    /\ request[t] \in {"check", "create", "rejected"} => ~Exists(t) /\ Untouched(t)
    /\ request[t] \in {"publish", "error"} => Untouched(t)
    /\ request[t] = "publish" => row[t] = Created

Queued(t) ==
    queue[t] > 0 => /\ queue[t] = 1 /\ request[t] = "done" /\ row[t] = Created
                    /\ result[t] = "PENDING" /\ t \notin queued
                    /\ \A w \in Workers : Active(w) => run[w].task # t

OneExecution ==
    \A v, w \in Workers : Active(v) /\ Active(w) /\ run[v].task = run[w].task => v = w

\* What an execution at pc may rely on: what is in the row and the backend.
Executes(x, t) ==
    /\ queue[t] = 0 /\ request[t] = "done"
    /\ x.pc \in {"read", "start"} => row[t] = Created /\ ~x.copy.subtasks
    /\ x.pc \in {"read", "start", "queue", "failed", "on_failure"} => Running(t) /\ t \notin queued
    /\ t \notin Delegating => row[t] = Created
    /\ t \in Delegating /\ x.pc \in {"queue", "work", "succeeded", "on_success"} => row[t].subtasks
    /\ x.pc \in {"on_success", "on_failure"} => x.copy.subtasks = row[t].subtasks
    /\ x.pc \in {"read", "start", "queue", "work"} => result[t] \notin READY_STATES
    /\ x.pc \in {"succeeded", "on_success"} => result[t] = "SUCCESS"
    /\ x.pc \in {"failed", "on_failure"} => result[t] = "FAILURE"

Execution == \A w \in Workers : Active(w) => Executes(run[w], run[w].task)

\* What the row says once the backend knows, and the other way round.
Recorded(t) ==
    /\ result[t] = "REVOKED" =>
          /\ queue[t] = 0 /\ \A w \in Workers : Active(w) => run[w].task # t
          /\ Exists(t) => ~row[t].subtasks /\ row[t].state \in {"QUEUING", "REVOKED"}
    /\ t \notin Delegating /\ Exists(t) => ~row[t].subtasks
    /\ t \notin Delegating /\ Exists(t) /\ ~Running(t) => row[t].state = result[t]
    /\ t \notin Delegating /\ told[t] # "none" => told[t] = result[t]

\* A status request holds a copy no newer than the row, and a final state of the
\* backend that is still the state.
Polled(x, t) ==
    /\ Exists(t) /\ x.before \in READY_STATES \cup {"none"}
    /\ x.copy.subtasks => row[t].subtasks
    /\ x.pc \in {"result", "save"} /\ x.seen \in READY_STATES => result[t] = x.seen
    /\ x.pc = "save" => x.seen = "REVOKED"
    /\ x.pc # "done" /\ t \notin Delegating /\ x.before # "none" => x.before = result[t]
    /\ x.pc \in {"result", "save"} /\ t \notin Delegating /\ x.before # "none" => x.seen = x.before
    /\ x.pc = "done" /\ t \notin Delegating /\ x.before # "none" => x.answer = x.before

Status == \A c \in Polls : poll[c].pc # "idle" => Polled(poll[c], poll[c].task)

\* A task that is recorded and not ended, or about to be recorded, has the key.
HasKey(t) == request[t] = "create" \/ Running(t)

Exclusive == ~raced => \A t, u \in Tasks : HasKey(t) /\ HasKey(u) => t = u

TaskInv == \A t \in Tasks : Submission(t) /\ Queued(t) /\ Recorded(t)

\* The inductive invariant: each task goes once through every stage.
OnceInv == NoRedelivery => TaskInv /\ OneExecution /\ Execution /\ Status /\ Exclusive

\* No task has been submitted at first.
LEMMA OnceInit == Init => OnceInv
  <1> SUFFICES ASSUME Init PROVE TaskInv /\ OneExecution /\ Execution /\ Status /\ Exclusive
    BY DEF OnceInv
  <1>1. \A w \in Workers : ~Active(w)
    BY DEF Init, NoRun, Active
  <1>2. \A c \in Polls : poll[c].pc = "idle"
    BY DEF Init, NoPoll
  <1>3. \A t \in Tasks : /\ ~Exists(t) /\ request[t] = "check" /\ queue[t] = 0
                          /\ result[t] = "PENDING" /\ t \notin queued /\ told[t] = "none"
    BY DEF Init, Exists
  <1>4. TaskInv
    BY <1>1, <1>3 DEF TaskInv, Submission, Queued, Recorded, Untouched
  <1>5. Exclusive
    BY <1>3 DEF Exclusive, HasKey, Running
  <1> QED
    BY <1>1, <1>2, <1>4, <1>5 DEF OneExecution, Execution, Status

\* What an answer changes: one request is done, and the answer is remembered if
\* it is the first final one.
LEMMA AnswerEffect ==
    ASSUME TypeOK, NEW c \in Polls, NEW x \in PollStates, NEW a \in Answers, Answer(c, a, x)
    PROVE  /\ \A d \in Polls : d # c => poll'[d] = poll[d]
           /\ poll'[c].pc = "done" /\ poll'[c].answer = a /\ poll'[c].task = x.task
           /\ poll'[c].copy = x.copy /\ poll'[c].before = x.before
           /\ \A u \in Tasks : u # x.task => told'[u] = told[u]
           /\ told'[x.task] = IF a \in READY_STATES /\ told[x.task] = "none" THEN a ELSE told[x.task]
  <1>1. poll'[c] = [x EXCEPT !.pc = "done", !.answer = a]
    BY DEF Answer, TypeOK
  <1>2. \A d \in Polls : d # c => poll'[d] = poll[d]
    BY DEF Answer, TypeOK
  <1>3. x.task \in Tasks
    BY DEF PollStates
  <1>4. /\ \A u \in Tasks : u # x.task => told'[u] = told[u]
        /\ told'[x.task] = IF a \in READY_STATES /\ told[x.task] = "none" THEN a ELSE told[x.task]
    BY <1>3 DEF Answer, TypeOK
  <1> QED
    BY <1>1, <1>2, <1>4 DEF PollStates

\* Every step keeps it, one case per action.
LEMMA OnceStep == TypeInv /\ OnceInv /\ [Next]_vars => OnceInv'
  <1> SUFFICES ASSUME TypeInv, OnceInv, [Next]_vars, NoRedelivery'
               PROVE  (TaskInv /\ OneExecution /\ Execution /\ Status /\ Exclusive)'
    BY DEF OnceInv
  <1> DEFINE Goal == (TaskInv /\ OneExecution /\ Execution /\ Status /\ Exclusive)'
  <1>0. redelivered \in Nat /\ redelivered' = 0
    BY DEF TypeInv, TypeOK, NoRedelivery
  <1>1. ASSUME NEW t \in Tasks, CheckRunning(t) PROVE Goal
    <2>0. /\ TypeOK /\ RecordedFirst /\ NoRedelivery
          /\ TaskInv /\ OneExecution /\ Execution /\ Status /\ Exclusive
      BY <1>0, <1>1 DEF TypeInv, OnceInv, NoRedelivery, CheckRunning, TaskIsRunning
    <2>1. TaskInv'
      BY <1>1, <2>0
      DEF CheckRunning, TaskInv, Submission, Untouched, Queued, Recorded, Exists, Running,
          Active
    <2>2. OneExecution'
      BY <1>1, <2>0 DEF CheckRunning, OneExecution, Active
    <2>3. Execution'
      BY <1>1, <2>0 DEF CheckRunning, Execution, Executes, Exists, Running, Active
    <2>4. Status'
      BY <1>1, <2>0 DEF CheckRunning, Status, Polled, Exists
    <2>5. Exclusive'
      BY <1>1, <2>0
      DEF CheckRunning, TaskIsRunning, Exclusive, HasKey, Execution, Executes, Exists, Running,
          Active, READY_STATES, TypeOK
    <2> QED
      BY <2>1, <2>2, <2>3, <2>4, <2>5
  <1>2. ASSUME NEW t \in Tasks, CreateRow(t) PROVE Goal
    <2>0. /\ TypeOK /\ RecordedFirst /\ NoRedelivery
          /\ TaskInv /\ OneExecution /\ Execution /\ Status /\ Exclusive
      BY <1>0, <1>2 DEF TypeInv, OnceInv, NoRedelivery, CreateRow
    <2>1. row'[t] = Created /\ Exists(t)' /\ Running(t)' /\ ~row'[t].subtasks /\ row'[t].state = "QUEUING"
      BY <1>2, <2>0 DEF CreateRow, TypeOK, Created, Exists, Running, Missing, READY_STATES
    <2>2. ~Exists(t) /\ Untouched(t)
      BY <1>2, <2>0 DEF CreateRow, TaskInv, Submission
    <2>3. TaskInv'
      BY <1>2, <2>0, <2>1
      DEF CreateRow, TaskInv, Submission, Untouched, Queued, Recorded, Exists, Running, Active,
          TypeOK
    <2>4. OneExecution'
      BY <1>2, <2>0 DEF CreateRow, OneExecution, Active
    <2>5. Execution'
      BY <1>2, <2>0 DEF CreateRow, Execution, Executes, Exists, Running, Active
    <2>6. Status'
      BY <1>2, <2>0, <2>2 DEF CreateRow, Status, Polled, Exists
    <2>7. Exclusive'
      BY <1>2, <2>0 DEF CreateRow, Exclusive, HasKey, Exists, Running
    <2> QED
      BY <2>3, <2>4, <2>5, <2>6, <2>7
  <1>3. ASSUME NEW t \in Tasks, InputTooLong(t) \/ PublishFails(t) PROVE Goal
    <2>0. /\ TypeOK /\ RecordedFirst /\ NoRedelivery
          /\ TaskInv /\ OneExecution /\ Execution /\ Status /\ Exclusive
      BY <1>0, <1>3 DEF TypeInv, OnceInv, NoRedelivery, InputTooLong, PublishFails
    <2>1. \A w \in Workers : Active(w) => run[w].task \in Tasks
      BY <2>0, RunTypes
    <2>2. TaskInv'
      BY <1>3, <2>0
      DEF InputTooLong, PublishFails, TaskInv, Submission, Untouched, Queued, Recorded, Exists,
          Running, Active, TypeOK
    <2>3. OneExecution'
      BY <1>3, <2>0 DEF InputTooLong, PublishFails, OneExecution, Active
    <2>4. Execution'
      BY <1>3, <2>0, <2>1
      DEF InputTooLong, PublishFails, Execution, Executes, Exists, Running, Active, TypeOK
    <2>5. Status'
      BY <1>3, <2>0 DEF InputTooLong, PublishFails, Status, Polled, Exists
    <2>6. Exclusive'
      BY <1>3, <2>0
      DEF InputTooLong, PublishFails, Exclusive, HasKey, Exists, Running, TypeOK
    <2> QED
      BY <2>2, <2>3, <2>4, <2>5, <2>6
  <1>4. ASSUME NEW t \in Tasks, Publish(t) PROVE Goal
    <2>0. /\ TypeOK /\ RecordedFirst /\ NoRedelivery
          /\ TaskInv /\ OneExecution /\ Execution /\ Status /\ Exclusive
      BY <1>0, <1>4 DEF TypeInv, OnceInv, NoRedelivery, Publish
    <2>1. TaskInv'
      BY <1>4, <2>0
      DEF Publish, TaskInv, Submission, Untouched, Queued, Recorded, Exists, Running, Active,
          TypeOK
    <2>2. OneExecution'
      BY <1>4, <2>0 DEF Publish, OneExecution, Active
    <2>3. Execution'
      BY <1>4, <2>0 DEF Publish, Execution, Executes, Exists, Running, Active
    <2>4. Status'
      BY <1>4, <2>0 DEF Publish, Status, Polled, Exists
    <2>5. Exclusive'
      BY <1>4, <2>0 DEF Publish, Exclusive, HasKey, Exists, Running
    <2> QED
      BY <2>1, <2>2, <2>3, <2>4, <2>5
  <1>5. ASSUME NEW t \in Tasks, SubtasksFinish(t) PROVE Goal
    <2>0. /\ TypeOK /\ RecordedFirst /\ NoRedelivery
          /\ TaskInv /\ OneExecution /\ Execution /\ Status /\ Exclusive
      BY <1>0, <1>5 DEF TypeInv, OnceInv, NoRedelivery, SubtasksFinish
    <2>1. row[t] \in Rows /\ t \in Delegating /\ row[t] # Created /\ Running(t)
      BY <2>0, <1>5 DEF SubtasksFinish, TypeOK, RecordedFirst, Exists, Running, Created,
         READY_STATES
    <2>2. row'[t].state = "SUCCESS" /\ row'[t].subtasks /\ Exists(t)' /\ ~Running(t)'
      BY <2>0, <2>1, <1>5, RowTypes DEF SubtasksFinish, TypeOK, Rows, Exists, Running,
         READY_STATES, Missing
    <2>3. TaskInv'
      BY <1>5, <2>0, <2>1
      DEF SubtasksFinish, TaskInv, Submission, Untouched, Queued, Recorded, Exists, Running,
          Active
    <2>4. OneExecution'
      BY <1>5, <2>0 DEF SubtasksFinish, OneExecution, Active
    <2>5. Execution'
      BY <1>5, <2>0, <2>1 DEF SubtasksFinish, Execution, Executes, Exists, Running, Active
    <2>6. Status'
      BY <1>5, <2>0, <2>2 DEF SubtasksFinish, Status, Polled, Exists
    <2>7. Exclusive'
      BY <1>5, <2>0, <2>2 DEF SubtasksFinish, Exclusive, HasKey, Exists, Running
    <2> QED
      BY <2>3, <2>4, <2>5, <2>6, <2>7
  <1>6. ASSUME NEW t \in Tasks, Redeliver(t) PROVE Goal
    BY <1>0, <1>6 DEF Redeliver, TypeInv, TypeOK
  <1>7. ASSUME NEW t \in Tasks, Revoke(t) PROVE Goal
    <2>0. /\ TypeOK /\ RecordedFirst /\ NoRedelivery
          /\ TaskInv /\ OneExecution /\ Execution /\ Status /\ Exclusive
      BY <1>0, <1>7 DEF TypeInv, OnceInv, NoRedelivery, Revoke
    <2>1. TaskInv'
      BY <1>7, <2>0
      DEF Revoke, TaskInv, Submission, Untouched, Queued, Recorded, Exists, Running, Active
    <2>2. OneExecution'
      BY <1>7, <2>0 DEF Revoke, OneExecution, Active
    <2>3. Execution'
      BY <1>7, <2>0 DEF Revoke, Execution, Executes, Exists, Running, Active
    <2>4. Status'
      BY <1>7, <2>0 DEF Revoke, Status, Polled, Exists
    <2>5. Exclusive'
      BY <1>7, <2>0 DEF Revoke, Exclusive, HasKey, Exists, Running
    <2> QED
      BY <2>1, <2>2, <2>3, <2>4, <2>5
  <1>8. ASSUME NEW w \in Workers, Start(w) PROVE Goal
    <2>0. /\ TypeOK /\ RecordedFirst /\ NoRedelivery
          /\ TaskInv /\ OneExecution /\ Execution /\ Status /\ Exclusive
      BY <1>0, <1>8 DEF TypeInv, OnceInv, NoRedelivery, Start
    <2>1. \A v \in Workers : Active(v) => run[v].task \in Tasks
      BY <2>0, RunTypes
    <2>2. PICK t \in Tasks :
             /\ queue[t] > 0 /\ queue' = [queue EXCEPT ![t] = @ - 1] /\ run[w].pc = "idle"
             /\ \/ result' = [result EXCEPT ![t] = "REVOKED"] /\ UNCHANGED run
                \/ /\ result' = [result EXCEPT ![t] = "STARTED"]
                   /\ run' = [run EXCEPT ![w] = [pc |-> "read", task |-> t, copy |-> Created]]
      BY <1>8 DEF Start, Active
    <2>3. /\ queue[t] = 1 /\ request[t] = "done" /\ row[t] = Created
          /\ result[t] = "PENDING" /\ t \notin queued
          /\ \A v \in Workers : Active(v) => run[v].task # t
      BY <2>0, <2>2 DEF TaskInv, Queued
    <2>4. queue'[t] = 0 /\ \A u \in Tasks : u # t => queue'[u] = queue[u] /\ result'[u] = result[u]
      BY <2>0, <2>2, <2>3 DEF TypeOK
    <2>5. \/ UNCHANGED run /\ result'[t] = "REVOKED"
          \/ /\ result'[t] = "STARTED" /\ \A v \in Workers : v # w => run'[v] = run[v]
             /\ run'[w].pc = "read" /\ run'[w].task = t /\ ~run'[w].copy.subtasks
      BY <2>0, <2>2 DEF TypeOK, Created
    <2>6. Exists(t) /\ Running(t) /\ ~row[t].subtasks /\ row[t].state = "QUEUING"
      BY <2>3 DEF Created, Missing, Exists, Running, READY_STATES
    <2>7. told[t] \in READY_STATES \cup {"none"} /\ result[t] \notin READY_STATES
      BY <2>0, <2>3 DEF TypeOK, READY_STATES
    <2>8. \A c \in Polls : poll[c].pc # "idle" => poll[c].task \in Tasks
      BY <2>0, PollTypes
    <2>9. TaskInv'
      BY <1>8, <2>0, <2>1, <2>2, <2>3, <2>4, <2>5, <2>6, <2>7, <2>8
      DEF Start, TaskInv, Submission, Untouched, Queued, Recorded, Execution, Executes,
          OneExecution, Exists, Running, Active, READY_STATES, TypeOK
    <2>10. OneExecution'
      BY <2>0, <2>3, <2>5 DEF OneExecution, Active
    <2>11. Execution'
      BY <1>8, <2>0, <2>1, <2>3, <2>4, <2>5, <2>6
      DEF Start, Execution, Executes, Exists, Running, Active, READY_STATES
    <2>12. Status'
      BY <1>8, <2>0, <2>4, <2>7, <2>8 DEF Start, Status, Polled, Exists
    <2>13. Exclusive'
      BY <1>8, <2>0 DEF Start, Exclusive, HasKey, Exists, Running
    <2> QED
      BY <2>9, <2>10, <2>11, <2>12, <2>13
  <1>9. ASSUME NEW w \in Workers, ReadEntry(w) PROVE Goal
    <2>0. /\ TypeOK /\ RecordedFirst /\ NoRedelivery
          /\ TaskInv /\ OneExecution /\ Execution /\ Status /\ Exclusive
      BY <1>0, <1>9 DEF TypeInv, OnceInv, NoRedelivery, ReadEntry
    <2>1. Active(w) /\ run[w] \in Runs
      BY <1>9, <2>0, RunTypes DEF ReadEntry, Active
    <2>2. PICK t \in Tasks : t = run[w].task
      BY <2>1, RunTypes, <2>0
    <2>3. Executes(run[w], t)
      BY <2>0, <2>1, <2>2 DEF Execution
    <2>4. row[t] = Created /\ row[t] \in Rows /\ ~row[t].subtasks
      BY <1>9, <2>0, <2>2, <2>3, RowTypes DEF ReadEntry, Executes, Created
    <2>5. Moves(w, "start", row[t])
      BY <1>9, <2>0, <2>1, <2>2, <2>4, MoveEffect DEF ReadEntry, Pcs
    <2>6. TaskInv'
      BY <1>9, <2>0, <2>5
      DEF ReadEntry, TaskInv, Submission, Untouched, Queued, Recorded, Moves, Exists, Running
    <2>7. OneExecution'
      BY <2>0, <2>5 DEF OneExecution, Moves
    <2>8. Execution'
      BY <1>9, <2>0, <2>4, <2>5 DEF ReadEntry, Execution, Executes, Moves, Exists, Running
    <2>9. Status'
      BY <1>9, <2>0 DEF ReadEntry, Status, Polled, Exists
    <2>10. Exclusive'
      BY <1>9, <2>0 DEF ReadEntry, Exclusive, HasKey, Exists, Running
    <2> QED
      BY <2>6, <2>7, <2>8, <2>9, <2>10
  <1>10. ASSUME NEW w \in Workers, ReportProgress(w) PROVE Goal
    <2>0. /\ TypeOK /\ RecordedFirst /\ NoRedelivery
          /\ TaskInv /\ OneExecution /\ Execution /\ Status /\ Exclusive
      BY <1>0, <1>10 DEF TypeInv, OnceInv, NoRedelivery, ReportProgress
    <2>1. Active(w) /\ run[w] \in Runs
      BY <1>10, <2>0, RunTypes DEF ReportProgress, Active
    <2>2. PICK t \in Tasks : t = run[w].task
      BY <2>1, RunTypes, <2>0
    <2>3. Executes(run[w], t)
      BY <2>0, <2>1, <2>2 DEF Execution
    <2>4. Moves(w, "work", run[w].copy)
      BY <1>10, <2>0, <2>1, <2>2, <2>3, GotoEffect DEF ReportProgress, Pcs
    <2>5. result'[t] = "PROGRESS" /\ \A u \in Tasks : u # t => result'[u] = result[u]
      BY <1>10, <2>0, <2>2 DEF ReportProgress, TypeOK
    <2>6. /\ told[t] \in READY_STATES \cup {"none"}
          /\ \A c \in Polls : poll[c].pc # "idle" => poll[c].task \in Tasks
      BY <2>0, PollTypes DEF TypeOK
    <2>7. TaskInv'
      BY <1>10, <2>0, <2>3, <2>4, <2>5, <2>6
      DEF ReportProgress, TaskInv, Submission, Untouched, Queued, Recorded, Executes, Moves,
          Exists, Running
    <2>8. OneExecution'
      BY <2>0, <2>4 DEF OneExecution, Moves
    <2>9. Execution'
      BY <1>10, <2>0, <2>2, <2>3, <2>4
      DEF ReportProgress, Execution, Executes, Moves, Exists, Running, READY_STATES
    <2>10. Status'
      BY <1>10, <2>0, <2>3, <2>5, <2>6 DEF ReportProgress, Status, Polled, Executes, Exists
    <2>11. Exclusive'
      BY <1>10, <2>0 DEF ReportProgress, Exclusive, HasKey, Exists, Running
    <2> QED
      BY <2>7, <2>8, <2>9, <2>10, <2>11
  <1>11. ASSUME NEW w \in Workers, DefineSubtasks(w) PROVE Goal
    <2>0. /\ TypeOK /\ RecordedFirst /\ NoRedelivery
          /\ TaskInv /\ OneExecution /\ Execution /\ Status /\ Exclusive
      BY <1>0, <1>11 DEF TypeInv, OnceInv, NoRedelivery, DefineSubtasks
    <2>1. \A v \in Workers : Active(v) => run[v].task \in Tasks
      BY <2>0, RunTypes
    <2>2. Active(w) /\ run[w] \in Runs
      BY <1>11, <2>0, RunTypes DEF DefineSubtasks, Active
    <2>3. PICK t \in Tasks : t = run[w].task
      BY <2>2, RunTypes, <2>0
    <2>4. Executes(run[w], t)
      BY <2>0, <2>2, <2>3 DEF Execution
    <2>5. t \in Delegating /\ Running(t) /\ Exists(t) /\ ~run[w].copy.subtasks
      BY <1>11, <2>0, <2>3, <2>4 DEF DefineSubtasks, Executes, Running
    <2>6. Moves(w, "queue", run[w].copy)
      BY <1>11, <2>0, <2>2, <2>3, <2>4, <2>5, GotoEffect DEF DefineSubtasks, Pcs
    <2>7. /\ \A u \in Tasks : u # t => row'[u] = row[u]
          /\ row'[t].state = "PROGRESS" /\ row'[t].subtasks /\ Running(t)' /\ Exists(t)'
      BY <1>11, <2>0, <2>3, <2>5 DEF DefineSubtasks, TypeOK, Running, Exists, Missing,
         READY_STATES
    <2>8. /\ \A v \in Workers : v # w /\ Active(v) => run[v].task # t
          /\ queue[t] = 0 /\ request[t] = "done" /\ t \notin queued /\ result[t] \notin READY_STATES
      BY <1>11, <2>0, <2>2, <2>3, <2>4 DEF DefineSubtasks, Executes, OneExecution
    <2>9. TaskInv'
      BY <1>11, <2>0, <2>2, <2>6
      DEF DefineSubtasks, TaskInv, Submission, Untouched, Queued, Recorded, Moves, Exists,
          Running
    <2>10. OneExecution'
      BY <2>0, <2>6 DEF OneExecution, Moves
    <2>11. Execution'
      <3>1. ASSUME NEW v \in Workers, Active(v)', v = w PROVE Executes(run[v], run[v].task)'
        BY <1>11, <2>0, <2>1, <2>2, <2>3, <2>4, <2>5, <2>6, <2>7, <2>8, <3>1 DEF DefineSubtasks,
           Moves, Executes, Exists, Running, READY_STATES
      <3>2. ASSUME NEW v \in Workers, Active(v)', v # w PROVE Executes(run[v], run[v].task)'
        <4>1. Active(v) /\ run'[v] = run[v] /\ run[v].task \in Tasks /\ run[v].task # t
          BY <1>11, <2>0, <2>1, <2>2, <2>3, <2>4, <2>5, <2>6, <2>7, <2>8, <3>2 DEF Moves,
             OneExecution
        <4>2. Executes(run[v], run[v].task)
          BY <2>0, <4>1 DEF Execution
        <4> QED
          BY <1>11, <2>0, <2>1, <2>2, <2>3, <2>4, <2>5, <2>6, <2>7, <2>8, <4>1, <4>2 DEF
             DefineSubtasks, Executes, Exists, Running
      <3> QED
        BY <3>1, <3>2 DEF Execution
    <2>12. Status'
      BY <1>11, <2>0, <2>3, <2>7 DEF DefineSubtasks, Status, Polled, Exists
    <2>13. Exclusive'
      BY <1>11, <2>0, <2>5, <2>7 DEF DefineSubtasks, Exclusive, HasKey, Exists, Running
    <2> QED
      BY <2>9, <2>10, <2>11, <2>12, <2>13
  <1>12. ASSUME NEW w \in Workers, QueueSubtasks(w) PROVE Goal
    <2>0. /\ TypeOK /\ RecordedFirst /\ NoRedelivery
          /\ TaskInv /\ OneExecution /\ Execution /\ Status /\ Exclusive
      BY <1>0, <1>12 DEF TypeInv, OnceInv, NoRedelivery, QueueSubtasks
    <2>1. Active(w) /\ run[w] \in Runs
      BY <1>12, <2>0, RunTypes DEF QueueSubtasks, Active
    <2>2. PICK t \in Tasks : t = run[w].task
      BY <2>1, RunTypes, <2>0
    <2>3. Executes(run[w], t)
      BY <2>0, <2>1, <2>2 DEF Execution
    <2>4. Moves(w, "work", run[w].copy)
      BY <1>12, <2>0, <2>1, <2>2, <2>3, GotoEffect DEF QueueSubtasks, Pcs
    <2>5. TaskInv'
      BY <1>12, <2>0, <2>1, <2>4
      DEF QueueSubtasks, TaskInv, Submission, Untouched, Queued, Recorded, Moves, Exists,
          Running
    <2>6. OneExecution'
      BY <2>0, <2>4 DEF OneExecution, Moves
    <2>7. Execution'
      BY <1>12, <2>0, <2>1, <2>4
      DEF QueueSubtasks, Execution, Executes, OneExecution, Moves, Exists, Running
    <2>8. Status'
      BY <1>12, <2>0 DEF QueueSubtasks, Status, Polled, Exists
    <2>9. Exclusive'
      BY <1>12, <2>0 DEF QueueSubtasks, Exclusive, HasKey, Exists, Running
    <2> QED
      BY <2>5, <2>6, <2>7, <2>8, <2>9
  <1>13. ASSUME NEW w \in Workers, Return(w) PROVE Goal
    <2>0. /\ TypeOK /\ RecordedFirst /\ NoRedelivery
          /\ TaskInv /\ OneExecution /\ Execution /\ Status /\ Exclusive
      BY <1>0, <1>13 DEF TypeInv, OnceInv, NoRedelivery, Return
    <2>1. Active(w) /\ run[w] \in Runs
      BY <1>13, <2>0, RunTypes DEF Return, Active
    <2>2. PICK t \in Tasks : t = run[w].task
      BY <2>1, RunTypes, <2>0
    <2>3. Executes(run[w], t)
      BY <2>0, <2>1, <2>2 DEF Execution
    <2>4. Moves(w, "succeeded", run[w].copy)
      BY <1>13, <2>0, <2>1, <2>2, <2>3, GotoEffect DEF Return, Pcs
    <2>5. result'[t] = "SUCCESS" /\ \A u \in Tasks : u # t => result'[u] = result[u]
      BY <1>13, <2>0, <2>2 DEF Return, TypeOK
    <2>6. /\ told[t] \in READY_STATES \cup {"none"}
          /\ \A c \in Polls : poll[c].pc # "idle" => poll[c].task \in Tasks
      BY <2>0, PollTypes DEF TypeOK
    <2>7. TaskInv'
      BY <1>13, <2>0, <2>3, <2>4, <2>5, <2>6
      DEF Return, TaskInv, Submission, Untouched, Queued, Recorded, Executes, Moves, Exists,
          Running
    <2>8. OneExecution'
      BY <2>0, <2>4 DEF OneExecution, Moves
    <2>9. Execution'
      BY <1>13, <2>0, <2>1, <2>2, <2>4, <2>5
      DEF Return, Execution, Executes, OneExecution, Moves, Exists, Running
    <2>10. Status'
      BY <1>13, <2>0, <2>3, <2>5, <2>6 DEF Return, Status, Polled, Executes, Exists
    <2>11. Exclusive'
      BY <1>13, <2>0 DEF Return, Exclusive, HasKey, Exists, Running
    <2> QED
      BY <2>7, <2>8, <2>9, <2>10, <2>11
  <1>14. ASSUME NEW w \in Workers, Raise(w) PROVE Goal
    <2>0. /\ TypeOK /\ RecordedFirst /\ NoRedelivery
          /\ TaskInv /\ OneExecution /\ Execution /\ Status /\ Exclusive
      BY <1>0, <1>14 DEF TypeInv, OnceInv, NoRedelivery, Raise
    <2>1. Active(w) /\ run[w] \in Runs
      BY <1>14, <2>0, RunTypes DEF Raise, Active
    <2>2. PICK t \in Tasks : t = run[w].task
      BY <2>1, RunTypes, <2>0
    <2>3. Executes(run[w], t)
      BY <2>0, <2>1, <2>2 DEF Execution
    <2>4. Moves(w, "failed", run[w].copy)
      BY <1>14, <2>0, <2>1, <2>2, <2>3, GotoEffect DEF Raise, Pcs
    <2>5. result'[t] = "FAILURE" /\ \A u \in Tasks : u # t => result'[u] = result[u]
      BY <1>14, <2>0, <2>2 DEF Raise, TypeOK
    <2>6. /\ told[t] \in READY_STATES \cup {"none"}
          /\ \A c \in Polls : poll[c].pc # "idle" => poll[c].task \in Tasks
      BY <2>0, PollTypes DEF TypeOK
    <2>7. Running(t) /\ t \notin queued
      BY <1>14, <2>0, <2>2, <2>3, RowTypes DEF Raise, Executes, Running, Exists, Created,
         READY_STATES, TypeOK
    <2>8. TaskInv'
      BY <1>14, <2>0, <2>3, <2>4, <2>5, <2>6
      DEF Raise, TaskInv, Submission, Untouched, Queued, Recorded, Executes, Moves, Exists,
          Running
    <2>9. OneExecution'
      BY <2>0, <2>4 DEF OneExecution, Moves
    <2>10. Execution'
      BY <1>14, <2>0, <2>1, <2>2, <2>4, <2>5, <2>7
      DEF Raise, Execution, Executes, OneExecution, Moves, Exists, Running
    <2>11. Status'
      BY <1>14, <2>0, <2>3, <2>5, <2>6 DEF Raise, Status, Polled, Executes, Exists
    <2>12. Exclusive'
      BY <1>14, <2>0 DEF Raise, Exclusive, HasKey, Exists, Running
    <2> QED
      BY <2>8, <2>9, <2>10, <2>11, <2>12
  <1>15. ASSUME NEW w \in Workers, HandlerReads(w) PROVE Goal
    <2>0. /\ TypeOK /\ RecordedFirst /\ NoRedelivery
          /\ TaskInv /\ OneExecution /\ Execution /\ Status /\ Exclusive
      BY <1>0, <1>15 DEF TypeInv, OnceInv, NoRedelivery, HandlerReads
    <2>1. \A v \in Workers : Active(v) => run[v].task \in Tasks
      BY <2>0, RunTypes
    <2>2. Active(w) /\ run[w] \in Runs
      BY <1>15, <2>0, RunTypes DEF HandlerReads, Active
    <2>3. PICK t \in Tasks : t = run[w].task
      BY <2>2, RunTypes, <2>0
    <2>4. Executes(run[w], t)
      BY <2>0, <2>2, <2>3 DEF Execution
    <2>5. row[t] \in Rows
      BY <2>0, <2>2, <2>3 DEF RecordedFirst, TypeOK, Exists
    <2>6. \/ run[w].pc = "succeeded" /\ Moves(w, "on_success", row[t])
          \/ run[w].pc = "failed" /\ Moves(w, "on_failure", row[t])
      <3>1. [[run[w] EXCEPT !.copy = row[t]] EXCEPT !.pc = "on_success"]
               = [[run[w] EXCEPT !.pc = "on_success"] EXCEPT !.copy = row[t]]
        BY <2>2 DEF Runs
      <3>2. [[run[w] EXCEPT !.copy = row[t]] EXCEPT !.pc = "on_failure"]
               = [[run[w] EXCEPT !.pc = "on_failure"] EXCEPT !.copy = row[t]]
        BY <2>2 DEF Runs
      <3>3. CASE run[w].pc = "succeeded"
        <4>1. run' = [run EXCEPT ![w].pc = "on_success", ![w].copy = row[t]]
          BY <1>15, <2>2, <2>3, <3>1, <3>3 DEF HandlerReads, Runs
        <4> QED
          BY <2>0, <2>2, <2>5, <3>3, <4>1, MoveEffect DEF Pcs
      <3>4. CASE run[w].pc = "failed"
        <4>1. run' = [run EXCEPT ![w].pc = "on_failure", ![w].copy = row[t]]
          BY <1>15, <2>2, <2>3, <3>2, <3>4 DEF HandlerReads, Runs
        <4> QED
          BY <2>0, <2>2, <2>5, <3>4, <4>1, MoveEffect DEF Pcs
      <3> QED
        BY <1>15, <3>3, <3>4 DEF HandlerReads
    <2>7. \A v \in Workers : (Active(v)' <=> Active(v)) /\ run'[v].task = run[v].task
      BY <2>6 DEF Moves, Active
    <2>8. UNCHANGED <<row, request, queue, result, queued, revoked, poll, told, raced, redelivered>>
      BY <1>15 DEF HandlerReads
    <2>9. TaskInv'
      BY <2>0, <2>7, <2>8
      DEF TaskInv, Submission, Untouched, Queued, Recorded, Exists, Running
    <2>10. OneExecution'
      BY <2>0, <2>7 DEF OneExecution
    <2>11. Execution'
      <3>1. ASSUME NEW v \in Workers, Active(v)', v = w PROVE Executes(run[v], run[v].task)'
        BY <1>15, <2>0, <2>1, <2>2, <2>3, <2>4, <2>5, <2>6, <2>7, <2>8, <3>1 DEF Moves,
           Executes, Exists, Running, READY_STATES
      <3>2. ASSUME NEW v \in Workers, Active(v)', v # w PROVE Executes(run[v], run[v].task)'
        <4>1. Active(v) /\ run'[v] = run[v] /\ run[v].task \in Tasks /\ run[v].task # t
          BY <1>15, <2>0, <2>1, <2>2, <2>3, <2>4, <2>5, <2>6, <2>7, <2>8, <3>2 DEF Moves,
             OneExecution
        <4>2. Executes(run[v], run[v].task)
          BY <2>0, <4>1 DEF Execution
        <4> QED
          BY <1>15, <2>0, <2>1, <2>2, <2>3, <2>4, <2>5, <2>6, <2>7, <2>8, <4>1, <4>2 DEF
             Executes, Exists, Running
      <3> QED
        BY <3>1, <3>2 DEF Execution
    <2>12. Status'
      BY <2>0, <2>8 DEF Status, Polled, Exists
    <2>13. Exclusive'
      BY <2>0, <2>8 DEF Exclusive, HasKey, Exists, Running
    <2> QED
      BY <2>9, <2>10, <2>11, <2>12, <2>13
  <1>16. ASSUME NEW w \in Workers, OnSuccess(w) PROVE Goal
    <2>0. /\ TypeOK /\ RecordedFirst /\ NoRedelivery
          /\ TaskInv /\ OneExecution /\ Execution /\ Status /\ Exclusive
      BY <1>0, <1>16 DEF TypeInv, OnceInv, NoRedelivery, OnSuccess
    <2>1. \A v \in Workers : Active(v) => run[v].task \in Tasks
      BY <2>0, RunTypes
    <2>2. Active(w) /\ run[w] \in Runs
      BY <1>16, <2>0, RunTypes DEF OnSuccess, Active
    <2>3. PICK t \in Tasks : t = run[w].task
      BY <2>2, RunTypes, <2>0
    <2>4. Executes(run[w], t)
      BY <2>0, <2>2, <2>3 DEF Execution
    <2>5. ~Active(w)' /\ \A v \in Workers : v # w => run'[v] = run[v]
      BY <1>16, <2>0 DEF OnSuccess, TypeOK, NoRun, Active
    <2>6. \/ UNCHANGED row /\ t \in Delegating
          \/ /\ t \notin Delegating /\ row'[t].state = "SUCCESS" /\ ~row'[t].subtasks
             /\ Exists(t)' /\ ~Running(t)' /\ Running(t) /\ \A u \in Tasks : u # t => row'[u] = row[u]
      <3>1. run[w].copy.subtasks = row[t].subtasks /\ run[w].copy \in Rows
        BY <1>16, <2>2, <2>4 DEF OnSuccess, Executes, Runs
      <3>2. CASE t \in Delegating
        BY <1>16, <2>3, <2>4, <3>1, <3>2 DEF OnSuccess, Executes
      <3>3. CASE t \notin Delegating
        <4>1. row[t] = Created /\ ~run[w].copy.subtasks
          BY <2>4, <3>1, <3>3 DEF Executes, Created
        <4>2. row' = [row EXCEPT ![t] = [run[w].copy EXCEPT !.state = "SUCCESS"]]
          BY <1>16, <2>3, <4>1 DEF OnSuccess
        <4>3. row'[t].state = "SUCCESS" /\ ~row'[t].subtasks
          BY <2>0, <3>1, <4>1, <4>2 DEF TypeOK, Rows
        <4> QED
          BY <2>0, <3>3, <4>1, <4>2, <4>3 DEF TypeOK, Exists, Running, Missing, Created,
             READY_STATES
      <3> QED
        BY <3>2, <3>3
    <2>7. /\ \A v \in Workers : v # w /\ Active(v) => run[v].task # t
          /\ queue[t] = 0 /\ request[t] = "done" /\ result[t] = "SUCCESS"
      BY <1>16, <2>0, <2>2, <2>3, <2>4 DEF OnSuccess, Executes, OneExecution
    <2>8. TaskInv'
      BY <1>16, <2>0, <2>1, <2>2, <2>3, <2>4, <2>5, <2>6, <2>7
      DEF OnSuccess, TaskInv, Submission, Untouched, Queued, Recorded, Execution, Executes,
          OneExecution, Exists, Running, Active, READY_STATES, TypeOK
    <2>9. OneExecution'
      BY <2>0, <2>5 DEF OneExecution, Active
    <2>10. Execution'
      BY <1>16, <2>0, <2>1, <2>2, <2>3, <2>4, <2>5, <2>6, <2>7
      DEF OnSuccess, Execution, Executes, OneExecution, TaskInv, Submission, Untouched, Queued,
          Recorded, Exists, Running, Active, READY_STATES, TypeOK
    <2>11. Status'
      BY <1>16, <2>0, <2>1, <2>2, <2>3, <2>4, <2>5, <2>6, <2>7
      DEF OnSuccess, Status, Polled, TaskInv, Submission, Untouched, Queued, Recorded,
          Execution, Executes, Exists, Running, Active, READY_STATES, TypeOK
    <2>12. Exclusive'
      BY <1>16, <2>0, <2>4, <2>6 DEF OnSuccess, Exclusive, HasKey, Executes, Exists, Running
    <2> QED
      BY <2>8, <2>9, <2>10, <2>11, <2>12
  <1>17. ASSUME NEW w \in Workers, OnFailure(w) PROVE Goal
    <2>0. /\ TypeOK /\ RecordedFirst /\ NoRedelivery
          /\ TaskInv /\ OneExecution /\ Execution /\ Status /\ Exclusive
      BY <1>0, <1>17 DEF TypeInv, OnceInv, NoRedelivery, OnFailure
    <2>1. Active(w) /\ run[w] \in Runs
      BY <1>17, <2>0, RunTypes DEF OnFailure, Active
    <2>2. PICK t \in Tasks : t = run[w].task
      BY <2>1, RunTypes, <2>0
    <2>3. Executes(run[w], t)
      BY <2>0, <2>1, <2>2 DEF Execution
    <2>4. ~Active(w)' /\ \A v \in Workers : v # w => run'[v] = run[v]
      BY <1>17, <2>0 DEF OnFailure, TypeOK, NoRun, Active
    <2>5. /\ row'[t].state = "FAILURE" /\ row'[t].subtasks = row[t].subtasks
          /\ Exists(t)' /\ ~Running(t)' /\ Running(t) /\ Exists(t) /\ \A u \in Tasks : u # t => row'[u] = row[u]
      <3>1. run[w].copy.subtasks = row[t].subtasks /\ run[w].copy \in Rows /\ Running(t)
        BY <1>17, <2>1, <2>3 DEF OnFailure, Executes, Runs
      <3>2. row'[t] = [run[w].copy EXCEPT !.state = "FAILURE"] /\ \A u \in Tasks : u # t => row'[u] = row[u]
        BY <1>17, <2>0, <2>2 DEF OnFailure, TypeOK
      <3>3. row'[t].state = "FAILURE" /\ row'[t].subtasks = row[t].subtasks
        BY <3>1, <3>2 DEF Rows
      <3> QED
        BY <3>1, <3>2, <3>3 DEF Exists, Running, Missing, READY_STATES
    <2>6. /\ \A v \in Workers : v # w /\ Active(v) => run[v].task # t
          /\ queue[t] = 0 /\ request[t] = "done" /\ result[t] = "FAILURE"
      BY <1>17, <2>0, <2>1, <2>2, <2>3 DEF OnFailure, Executes, OneExecution
    <2>7. TaskInv'
      BY <1>17, <2>0, <2>4, <2>5, <2>6
      DEF OnFailure, TaskInv, Submission, Untouched, Queued, Recorded, Exists, Running, Active
    <2>8. OneExecution'
      BY <2>0, <2>4 DEF OneExecution, Active
    <2>9. Execution'
      BY <1>17, <2>0, <2>4, <2>5, <2>6
      DEF OnFailure, Execution, Executes, Exists, Running, Active
    <2>10. Status'
      BY <1>17, <2>0, <2>2, <2>5 DEF OnFailure, Status, Polled, Exists
    <2>11. Exclusive'
      BY <1>17, <2>0, <2>5 DEF OnFailure, Exclusive, HasKey, Exists, Running
    <2> QED
      BY <2>7, <2>8, <2>9, <2>10, <2>11
  <1>18. ASSUME NEW w \in Workers, WorkerCrashes(w) PROVE Goal
    <2>0. /\ TypeOK /\ RecordedFirst /\ NoRedelivery
          /\ TaskInv /\ OneExecution /\ Execution /\ Status /\ Exclusive
      BY <1>0, <1>18 DEF TypeInv, OnceInv, NoRedelivery, WorkerCrashes
    <2>1. ~Active(w)' /\ \A v \in Workers : v # w => run'[v] = run[v]
      BY <1>18, <2>0 DEF WorkerCrashes, TypeOK, NoRun, Active
    <2>2. TaskInv'
      BY <1>18, <2>0, <2>1
      DEF WorkerCrashes, TaskInv, Submission, Untouched, Queued, Recorded, Exists, Running,
          Active
    <2>3. OneExecution'
      BY <2>0, <2>1 DEF OneExecution, Active
    <2>4. Execution'
      BY <1>18, <2>0, <2>1 DEF WorkerCrashes, Execution, Executes, Exists, Running, Active
    <2>5. Status'
      BY <1>18, <2>0 DEF WorkerCrashes, Status, Polled, Exists
    <2>6. Exclusive'
      BY <1>18, <2>0 DEF WorkerCrashes, Exclusive, HasKey, Exists, Running
    <2> QED
      BY <2>2, <2>3, <2>4, <2>5, <2>6
  <1>19. ASSUME NEW c \in Polls, PollRow(c) PROVE Goal
    <2>0. /\ TypeOK /\ RecordedFirst /\ NoRedelivery
          /\ TaskInv /\ OneExecution /\ Execution /\ Status /\ Exclusive
      BY <1>0, <1>19 DEF TypeInv, OnceInv, NoRedelivery, PollRow
    <2>1. PICK t \in Tasks :
             LET x == [pc |-> "state", task |-> t, copy |-> row[t], seen |-> "PENDING",
                       answer |-> "none", before |-> told[t]]
             IN  /\ Exists(t)
                 /\ IF Running(t) THEN poll' = [poll EXCEPT ![c] = x] /\ UNCHANGED told
                    ELSE Answer(c, row[t].state, x)
      BY <1>19 DEF PollRow
    <2>2. /\ \A d \in Polls : d # c => poll'[d] = poll[d]
          /\ poll'[c].task = t /\ poll'[c].copy = row[t] /\ poll'[c].before = told[t]
          /\ \/ poll'[c].pc = "state" /\ UNCHANGED told
             \/ /\ poll'[c].pc = "done" /\ poll'[c].answer = row[t].state /\ ~Running(t)
                /\ \A u \in Tasks : u # t => told'[u] = told[u]
                /\ told'[t] = IF told[t] = "none" THEN row[t].state ELSE told[t]
      <3> DEFINE x == [pc |-> "state", task |-> t, copy |-> row[t], seen |-> "PENDING",
                       answer |-> "none", before |-> told[t]]
      <3>1. CASE Running(t)
        BY <2>0, <2>1, <3>1 DEF TypeOK
      <3>2. CASE ~Running(t)
        <4>1. row[t] \in Rows /\ row[t].state \in Answers /\ row[t].state \in READY_STATES
          BY <2>0, <2>1, <3>2 DEF TypeOK, Exists, Running, Rows, Answers
        <4>2. x \in PollStates
          BY <2>0, <4>1 DEF TypeOK, PollStates, ResultStates, Answers, States
        <4> QED
          BY <2>0, <2>1, <3>2, <4>1, <4>2, AnswerEffect
      <3> QED
        BY <3>1, <3>2
    <2>3. Exists(t) /\ told[t] \in READY_STATES \cup {"none"}
      BY <2>0, <2>1 DEF TypeOK
    <2>4. TaskInv'
      BY <1>19, <2>0, <2>2, <2>3
      DEF PollRow, TaskInv, Submission, Untouched, Queued, Recorded, Exists, Running, Active
    <2>5. OneExecution'
      BY <1>19, <2>0 DEF PollRow, OneExecution, Active
    <2>6. Execution'
      BY <1>19, <2>0 DEF PollRow, Execution, Executes, Exists, Running, Active
    <2>7. Status'
      BY <1>19, <2>0, <2>2, <2>3 DEF PollRow, Status, Polled, TaskInv, Recorded, Exists
    <2>8. Exclusive'
      BY <1>19, <2>0 DEF PollRow, Exclusive, HasKey, Exists, Running
    <2> QED
      BY <2>4, <2>5, <2>6, <2>7, <2>8
  <1>20. ASSUME NEW c \in Polls, PollState(c) PROVE Goal
    <2>0. /\ TypeOK /\ RecordedFirst /\ NoRedelivery
          /\ TaskInv /\ OneExecution /\ Execution /\ Status /\ Exclusive
      BY <1>0, <1>20 DEF TypeInv, OnceInv, NoRedelivery, PollState
    <2>1. poll[c] \in PollStates
      BY <1>20, <2>0, PollTypes DEF PollState
    <2>2. PICK t \in Tasks : t = poll[c].task
      BY <2>1 DEF PollStates
    <2>3. TaskInv'
      BY <1>20, <2>0
      DEF PollState, TaskInv, Submission, Untouched, Queued, Recorded, Exists, Running, Active
    <2>4. OneExecution'
      BY <1>20, <2>0 DEF PollState, OneExecution, Active
    <2>5. Execution'
      BY <1>20, <2>0 DEF PollState, Execution, Executes, Exists, Running, Active
    <2>6. Status'
      BY <1>20, <2>0 DEF PollState, Status, Polled, Exists, TypeOK
    <2>7. Exclusive'
      BY <1>20, <2>0 DEF PollState, Exclusive, HasKey, Exists, Running
    <2> QED
      BY <2>3, <2>4, <2>5, <2>6, <2>7
  <1>21. ASSUME NEW c \in Polls, PollResult(c) PROVE Goal
    <2>0. /\ TypeOK /\ RecordedFirst /\ NoRedelivery
          /\ TaskInv /\ OneExecution /\ Execution /\ Status /\ Exclusive
      BY <1>0, <1>21 DEF TypeInv, OnceInv, NoRedelivery, PollResult
    <2>1. poll[c] \in PollStates /\ poll[c].seen \in Answers
      BY <1>21, <2>0, PollTypes DEF PollResult, Answers
    <2>2. PICK t \in Tasks : t = poll[c].task
      BY <2>1 DEF PollStates
    <2>3. Polled(poll[c], t)
      BY <1>21, <2>0, <2>2 DEF PollResult, Status
    <2>4. /\ \A d \in Polls : d # c => poll'[d] = poll[d]
          /\ poll'[c].task = t /\ poll'[c].copy = poll[c].copy /\ poll'[c].before = poll[c].before
          /\ \A u \in Tasks : u # t => told'[u] = told[u]
          /\ \/ /\ poll'[c].pc = "save" /\ poll[c].seen = "REVOKED" /\ UNCHANGED told
                /\ poll'[c].seen = "REVOKED"
             \/ /\ poll'[c].pc = "done"
                /\ \/ poll'[c].answer = "PROGRESS" /\ Trusted(poll[c])
                   \/ poll'[c].answer = "error" /\ Unreadable(poll[c])
                   \/ poll'[c].answer = poll[c].seen
                /\ told'[t] = IF poll'[c].answer \in READY_STATES /\ told[t] = "none"
                              THEN poll'[c].answer ELSE told[t]
      <3>1. CASE ~Trusted(poll[c]) /\ poll[c].seen \in {"REVOKED"}
        <4>1. poll' = [poll EXCEPT ![c].pc = "save"] /\ UNCHANGED told
          BY <1>21, <3>1 DEF PollResult, FromResult
        <4> QED
          BY <2>0, <2>1, <2>2, <3>1, <4>1 DEF TypeOK, PollStates
      <3>2. CASE Trusted(poll[c]) \/ poll[c].seen \notin {"REVOKED"}
        <4>1. \E a \in Answers :
                 /\ Answer(c, a, poll[c])
                 /\ \/ a = "PROGRESS" /\ Trusted(poll[c])
                    \/ a = "error" /\ Unreadable(poll[c])
                    \/ a = poll[c].seen
          BY <1>21, <2>1, <3>2 DEF PollResult, FromResult, Answers, States
        <4> QED
          BY <2>0, <2>1, <2>2, <4>1, AnswerEffect
      <3> QED
        BY <3>1, <3>2
    <2>5. t \notin Delegating => ~Trusted(poll[c]) /\ ~poll[c].copy.subtasks
      BY <2>0, <2>2, <2>3 DEF Trusted, TaskInv, Recorded, Polled
    <2>6. /\ poll[c].seen \in READY_STATES => ~Unreadable(poll[c]) /\ result[t] = poll[c].seen
          /\ told[t] \in READY_STATES \cup {"none"}
          /\ poll[c].pc = "result"
      BY <1>21, <2>0, <2>2, <2>3 DEF PollResult, TypeOK, Polled, Unreadable, READY_STATES
    <2>7. TaskInv'
      BY <1>21, <2>0, <2>4, <2>6
      DEF PollResult, TaskInv, Submission, Untouched, Queued, Recorded, Exists, Running, Active,
          READY_STATES
    <2>8. OneExecution'
      BY <1>21, <2>0 DEF PollResult, OneExecution, Active
    <2>9. Execution'
      BY <1>21, <2>0 DEF PollResult, Execution, Executes, Exists, Running, Active
    <2>10. Status'
      BY <1>21, <2>0, <2>3, <2>4, <2>5, <2>6 DEF PollResult, Status, Polled, Exists
    <2>11. Exclusive'
      BY <1>21, <2>0 DEF PollResult, Exclusive, HasKey, Exists, Running
    <2> QED
      BY <2>7, <2>8, <2>9, <2>10, <2>11
  <1>22. ASSUME NEW c \in Polls, SaveRevoked(c) PROVE Goal
    <2>0. /\ TypeOK /\ RecordedFirst /\ NoRedelivery
          /\ TaskInv /\ OneExecution /\ Execution /\ Status /\ Exclusive
      BY <1>0, <1>22 DEF TypeInv, OnceInv, NoRedelivery, SaveRevoked
    <2>1. poll[c] \in PollStates /\ poll[c].copy \in Rows /\ "REVOKED" \in Answers
      BY <1>22, <2>0, PollTypes DEF SaveRevoked, Answers, States, READY_STATES
    <2>2. PICK t \in Tasks : t = poll[c].task
      BY <2>1 DEF PollStates
    <2>3. /\ Exists(t) /\ ~poll[c].copy.subtasks /\ result[t] = "REVOKED" /\ ~row[t].subtasks
          /\ t \notin Delegating /\ poll[c].before # "none" => poll[c].before = "REVOKED"
          /\ poll[c].before \in READY_STATES \cup {"none"}
      BY <1>22, <2>0, <2>2 DEF SaveRevoked, Status, Polled, TaskInv, Recorded, READY_STATES
    <2>4. /\ row'[t] = [poll[c].copy EXCEPT !.state = "REVOKED"]
          /\ \A u \in Tasks : u # t => row'[u] = row[u]
      BY <1>22, <2>0, <2>2 DEF SaveRevoked, TypeOK
    <2>5. row'[t].state = "REVOKED" /\ ~row'[t].subtasks /\ Exists(t)' /\ ~Running(t)'
      BY <2>1, <2>3, <2>4 DEF Rows, Exists, Running, Missing, READY_STATES
    <2>6. /\ \A d \in Polls : d # c => poll'[d] = poll[d]
          /\ poll'[c].task = t /\ poll'[c].copy = poll[c].copy /\ poll'[c].before = poll[c].before
          /\ poll'[c].pc = "done" /\ poll'[c].answer = "REVOKED"
          /\ \A u \in Tasks : u # t => told'[u] = told[u]
          /\ told'[t] = IF told[t] = "none" THEN "REVOKED" ELSE told[t]
      BY <1>22, <2>0, <2>1, <2>2, AnswerEffect DEF SaveRevoked, READY_STATES
    <2>7. \A d \in Polls : poll[d].pc # "idle" => poll[d].task \in Tasks
      BY <2>0, PollTypes
    <2>8. TaskInv'
      BY <1>22, <2>0, <2>3, <2>4, <2>5, <2>6
      DEF SaveRevoked, TaskInv, Submission, Untouched, Queued, Recorded, Exists, Running, Active
    <2>9. OneExecution'
      BY <1>22, <2>0 DEF SaveRevoked, OneExecution, Active
    <2>10. Execution'
      BY <1>22, <2>0, <2>3, <2>4, <2>5, <2>7
      DEF SaveRevoked, Execution, Executes, TaskInv, Recorded, Exists, Running, Active
    <2>11. Status'
      BY <1>22, <2>0, <2>3, <2>4, <2>5, <2>6, <2>7 DEF SaveRevoked, Status, Polled, Exists
    <2>12. Exclusive'
      BY <1>22, <2>0, <2>5 DEF SaveRevoked, Exclusive, HasKey, Exists, Running
    <2> QED
      BY <2>8, <2>9, <2>10, <2>11, <2>12
  <1>23. ASSUME UNCHANGED vars PROVE Goal
    <2>0. /\ TypeOK /\ RecordedFirst /\ NoRedelivery
          /\ TaskInv /\ OneExecution /\ Execution /\ Status /\ Exclusive
      BY <1>0, <1>23 DEF TypeInv, OnceInv, NoRedelivery, vars
    <2>1. TaskInv'
      BY <1>23, <2>0
      DEF vars, TaskInv, Submission, Untouched, Queued, Recorded, Exists, Running, Active
    <2>2. OneExecution'
      BY <1>23, <2>0 DEF vars, OneExecution, Active
    <2>3. Execution'
      BY <1>23, <2>0 DEF vars, Execution, Executes, Exists, Running, Active
    <2>4. Status'
      BY <1>23, <2>0 DEF vars, Status, Polled, Exists
    <2>5. Exclusive'
      BY <1>23, <2>0 DEF vars, Exclusive, HasKey, Exists, Running
    <2> QED
      BY <2>1, <2>2, <2>3, <2>4, <2>5
  <1> HIDE DEF Goal
  <1> QED
    BY <1>1, <1>2, <1>3, <1>4, <1>5, <1>6, <1>7, <1>8, <1>9, <1>10, <1>11, <1>12, <1>13, <1>14,
       <1>15, <1>16, <1>17, <1>18, <1>19, <1>20, <1>21, <1>22, <1>23
    DEF Next, Submitting, Executing, Polling, Goal

\* Without redelivery each task is submitted, queued and executed once, and every
\* stage finds in row and result backend what it relies on.
THEOREM OnceInvariant == Spec => [](TypeInv /\ OnceInv)
  <1>1. Init => TypeInv /\ OnceInv
    BY TypeInit, OnceInit
  <1>2. TypeInv /\ OnceInv /\ [Next]_vars => TypeInv' /\ OnceInv'
    BY TypeStep, OnceStep
  <1> QED
    BY <1>1, <1>2, PTL DEF Spec

\* The tasks of one key are recorded and executed one after the other, whatever
\* fails, unless two submissions raced or a message was delivered twice.
THEOREM OneTaskPerKeyAlways == Spec => []OneTaskPerKey
  <1>1. TypeInv /\ OnceInv => OneTaskPerKey
    <2> SUFFICES ASSUME TypeInv, OnceInv, ~raced, NoRedelivery,
                        NEW t \in Tasks, NEW u \in Tasks, InProgress(t), InProgress(u)
                 PROVE  t = u
      BY DEF OneTaskPerKey
    <2>1. ASSUME NEW v \in Tasks, InProgress(v) PROVE HasKey(v)
      <3>1. CASE Running(v)
        BY <3>1 DEF HasKey
      <3>2. CASE v \notin Delegating /\ Executed(v)
        <4>1. row[v] = Created
          BY <3>2 DEF OnceInv, Execution, Executes, Executed, Active
        <4> QED
          BY <4>1 DEF HasKey, Running, Exists, Created, Missing, READY_STATES
      <3> QED
        BY <2>1, <3>1, <3>2 DEF InProgress
    <2> QED
      BY <2>1 DEF OnceInv, Exclusive
  <1> QED
    BY <1>1, OnceInvariant, PTL

\* A final answer is not taken back by a later one.
THEOREM AnswersAreAlwaysFinal == Spec => []AnswersAreFinal
  <1>1. TypeInv /\ OnceInv => AnswersAreFinal
    BY DEF OnceInv, Status, Polled, AnswersAreFinal
  <1> QED
    BY <1>1, OnceInvariant, PTL

\* What a step does to a row that is there.
RowStep(t) ==
    /\ Exists(t) /\ ~Running(t) => row'[t] = row[t]
    /\ Exists(t) /\ row[t].subtasks => row'[t].subtasks
    /\ t \in Delegating /\ row'[t].state = "SUCCESS" /\ row[t].state # "SUCCESS"
          => SubtasksFinish(t)

\* What a status request saves for a task that defined no subtasks.
LEMMA RevokedRow ==
    ASSUME NEW r \in Rows, ~r.subtasks
    PROVE  [r EXCEPT !.state = "REVOKED"] = [state |-> "REVOKED", subtasks |-> FALSE]
  <1> DEFINE x == [r EXCEPT !.state = "REVOKED"]
  <1>1. x \in Rows /\ x.state = "REVOKED" /\ ~x.subtasks
    BY DEF Rows, States, READY_STATES
  <1>2. PICK s \in States, b \in BOOLEAN : x = [state |-> s, subtasks |-> b]
    <2> HIDE DEF x
    <2> QED
      BY <1>1 DEF Rows
  <1>3. s = "REVOKED"
    BY <1>1, <1>2
  <1>4. b = FALSE
    BY <1>1, <1>2
  <1> QED
    BY <1>2, <1>3, <1>4

\* Each action that saves a row does only that: the copies are not too old.
LEMMA RowSteps ==
    ASSUME TypeInv, OnceInv, NoRedelivery, [Next]_vars, NEW t \in Tasks
    PROVE  RowStep(t)
  <1>0. TypeOK /\ RecordedFirst /\ TaskInv /\ OneExecution /\ Execution /\ Status
    BY DEF TypeInv, OnceInv
  <1>1. CASE UNCHANGED row
    BY <1>1 DEF RowStep
  <1>2. ASSUME NEW u \in Tasks, CreateRow(u) PROVE RowStep(t)
    <2>1. ~Exists(u)
      BY <1>0, <1>2 DEF CreateRow, TaskInv, Submission
    <2>2. row' = [row EXCEPT ![u] = Created]
      BY <1>2 DEF CreateRow
    <2> QED
      BY <1>0, <2>1, <2>2 DEF RowStep, TypeOK, Created
  <1>3. ASSUME NEW u \in Tasks, SubtasksFinish(u) PROVE RowStep(t)
    <2>1. row[u] \in Rows /\ Running(u)
      BY <1>0, <1>3 DEF SubtasksFinish, TypeOK, RecordedFirst, Exists, Running, READY_STATES
    <2>2. row' = [row EXCEPT ![u] = [row[u] EXCEPT !.state = "SUCCESS"]]
      BY <1>3 DEF SubtasksFinish
    <2> QED
      BY <1>0, <1>3, <2>1, <2>2 DEF RowStep, TypeOK, Rows
  <1>4. ASSUME NEW w \in Workers, DefineSubtasks(w) PROVE RowStep(t)
    <2>1. PICK u \in Tasks : u = run[w].task /\ Executes(run[w], u)
      BY <1>0, <1>4, RunTypes DEF DefineSubtasks, Execution, Active
    <2>2. Running(u) /\ (row' = row \/ row' = [row EXCEPT ![u] = [state |-> "PROGRESS", subtasks |-> TRUE]])
      BY <1>4, <2>1 DEF DefineSubtasks, Executes
    <2> QED
      BY <1>0, <2>2 DEF RowStep, TypeOK
  <1>5. ASSUME NEW w \in Workers, OnSuccess(w) PROVE RowStep(t)
    <2>1. PICK u \in Tasks : u = run[w].task /\ Executes(run[w], u) /\ run[w].copy \in Rows
      BY <1>0, <1>5, RunTypes DEF OnSuccess, Execution, Active
    <2>2. CASE u \in Delegating
      <3>1. row' = row
        BY <1>5, <2>1, <2>2 DEF OnSuccess, Executes
      <3> QED
        BY <3>1 DEF RowStep
    <2>3. CASE u \notin Delegating
      <3>1. Running(u) /\ ~row[u].subtasks
        BY <2>1, <2>3 DEF Executes, Created, Missing, Exists, Running, READY_STATES
      <3>2. \A v \in Tasks : v # u => row'[v] = row[v]
        BY <1>0, <1>5, <2>1 DEF OnSuccess, TypeOK
      <3> QED
        BY <2>3, <3>1, <3>2 DEF RowStep
    <2> QED
      BY <2>2, <2>3
  <1>6. ASSUME NEW w \in Workers, OnFailure(w) PROVE RowStep(t)
    <2>1. PICK u \in Tasks : u = run[w].task /\ Executes(run[w], u) /\ run[w].copy \in Rows
      BY <1>0, <1>6, RunTypes DEF OnFailure, Execution, Active
    <2>2. Running(u) /\ run[w].copy.subtasks = row[u].subtasks
      BY <1>6, <2>1 DEF OnFailure, Executes
    <2>3. row' = [row EXCEPT ![u] = [run[w].copy EXCEPT !.state = "FAILURE"]]
      BY <1>6, <2>1 DEF OnFailure
    <2> QED
      BY <1>0, <2>1, <2>2, <2>3 DEF RowStep, TypeOK, Rows
  <1>7. ASSUME NEW c \in Polls, SaveRevoked(c) PROVE RowStep(t)
    <2>1. PICK u \in Tasks : u = poll[c].task /\ Polled(poll[c], u) /\ poll[c].copy \in Rows
      BY <1>0, <1>7, PollTypes DEF SaveRevoked, Status
    <2>2. /\ result[u] = "REVOKED" /\ Exists(u) /\ ~row[u].subtasks /\ ~poll[c].copy.subtasks
          /\ row[u].state \in {"QUEUING", "REVOKED"} /\ row[u] \in Rows
      BY <1>0, <1>7, <2>1
      DEF SaveRevoked, Polled, TaskInv, Recorded, READY_STATES, TypeOK, Exists
    <2>3. row' = [row EXCEPT ![u] = [poll[c].copy EXCEPT !.state = "REVOKED"]]
      BY <1>7, <2>1 DEF SaveRevoked
    <2>4. [poll[c].copy EXCEPT !.state = "REVOKED"] = [state |-> "REVOKED", subtasks |-> FALSE]
      BY <2>1, <2>2, RevokedRow
    <2>5. ~Running(u) => row[u] = [state |-> "REVOKED", subtasks |-> FALSE]
      BY <2>2 DEF Rows, Running, READY_STATES
    <2>6. row'[u].state # "SUCCESS" /\ (~Running(u) => row'[u] = row[u])
      BY <1>0, <2>3, <2>4, <2>5 DEF TypeOK
    <2>7. t # u => row'[t] = row[t]
      BY <1>0, <2>3 DEF TypeOK
    <2> QED
      BY <2>2, <2>6, <2>7 DEF RowStep
  <1> QED
    BY <1>1, <1>2, <1>3, <1>4, <1>5, <1>6, <1>7
    DEF Next, vars, Submitting, Executing, Polling, CheckRunning, InputTooLong, Publish,
        PublishFails, Redeliver, Revoke, Start, ReadEntry, ReportProgress, QueueSubtasks,
        Return, Raise, HandlerReads, WorkerCrashes, PollRow, PollState, PollResult

\* No message is taken back once it was delivered twice.
LEMMA NoneBefore ==
    ASSUME TypeInv, [Next]_vars, redelivered' = 0
    PROVE  NoRedelivery
  <1>1. CASE UNCHANGED redelivered
    BY <1>1 DEF NoRedelivery
  <1>2. ASSUME NEW t \in Tasks, Redeliver(t) PROVE NoRedelivery
    <2>1. redelivered \in Nat /\ redelivered' = redelivered + 1
      BY <1>2 DEF TypeInv, TypeOK, Redeliver
    <2> QED
      BY <2>1
  <1> QED
    BY <1>1, <1>2
    DEF Next, vars, Submitting, Executing, Polling, CheckRunning, CreateRow, InputTooLong,
        Publish, PublishFails, SubtasksFinish, Revoke, Start, ReadEntry, ReportProgress,
        DefineSubtasks, QueueSubtasks, Return, Raise, HandlerReads, OnSuccess, OnFailure,
        WorkerCrashes, PollRow, PollState, PollResult, SaveRevoked

\* However a task ended, no handler and no status request that saves a copy of
\* its row later changes that.
THEOREM EndIsAlwaysFinal == Spec => EndIsFinal
  <1>1. TypeInv /\ OnceInv /\ [Next]_vars
        => [\A t \in Tasks :
               redelivered' = 0 /\ Exists(t) /\ ~Running(t) => row'[t] = row[t]]_vars
    BY RowSteps, NoneBefore DEF RowStep
  <1> QED
    BY <1>1, OnceInvariant, PTL DEF Spec, EndIsFinal

\* The set of subtasks in a row survives the copies that are saved over it.
THEOREM SubtasksAlwaysStay == Spec => SubtasksStay
  <1>1. TypeInv /\ OnceInv /\ [Next]_vars
        => [\A t \in Tasks :
               redelivered' = 0 /\ Exists(t) /\ row[t].subtasks => row'[t].subtasks]_vars
    BY RowSteps, NoneBefore DEF RowStep
  <1> QED
    BY <1>1, OnceInvariant, PTL DEF Spec, SubtasksStay

\* A delegating task is recorded as successful by its subtasks alone.
THEOREM OnlySubtasksEverSucceed == Spec => OnlySubtasksSucceed
  <1>1. TypeInv /\ OnceInv /\ [Next]_vars
        => [\A t \in Delegating :
               redelivered' = 0 /\ row'[t].state = "SUCCESS" /\ row[t].state # "SUCCESS"
                   => SubtasksFinish(t)]_vars
    BY RowSteps, NoneBefore, TasksAssumption DEF RowStep
  <1> QED
    BY <1>1, OnceInvariant, PTL DEF Spec, OnlySubtasksSucceed

=============================================================================
