----------------------------- MODULE ProblemState -----------------------------
(***************************************************************************)
(* The StudentModule row of one student and one problem (CapaMixin over    *)
(* DjangoKeyValueStore), and everybody who writes it: the student's        *)
(* requests from several tabs, the answers of the external grader (xqueue) *)
(* and the instructor tasks that rescore, reset or delete student state.   *)
(*                                                                         *)
(* All the fields of a problem are one JSON column next to the grade, and  *)
(* whoever saves one field saves the whole row as read.  A web request is  *)
(* one transaction: it reads at its start and its saves are seen together  *)
(* at its end.  Instructor tasks commit each save.  Only the callback of   *)
(* the grader locks the row it reads.                                      *)
(***************************************************************************)
EXTENDS Integers, FiniteSets, TLC

CONSTANTS
    Answers,       \* what the student may answer
    Tabs,          \* concurrent requests of the student
    Tasks,         \* concurrent instructor tasks
    Keys,          \* queue keys: bounds the submissions to the grader
    Kinds,         \* of problems: externally graded, rerandomize = "always"
    Versions,      \* versions of the problem's definition
    MaxAttempts,   \* max_attempts of the problem
    None           \* no answer, key or score

ASSUME AnswersAssumption == None \notin Answers \cup Keys
ASSUME ActorsAssumption == Tabs \cap Tasks = {} /\ None \notin Tabs \cup Tasks
ASSUME KindsAssumption == Kinds \subseteq [external : BOOLEAN, always : BOOLEAN]
ASSUME MaxAttemptsAssumption == MaxAttempts \in Nat \ {0}

VARIABLES
    problem,    \* the kind of problem: it never changes
    version,    \* the definition the modulestore returns now
    row,        \* the committed StudentModule row
    tab,        \* requests: the row as it will be committed
    task,       \* executions of instructor tasks and the row they will save
    stale,      \* whose copy is older than the row
    grader,     \* submissions the external grader has not answered yet
    answered,   \* and those it has: their answers may be posted again
    used,       \* queue keys drawn so far
    checks,     \* history: graded checks since the attempts were reset
    lost,       \* history: a save has overwritten a change it had not read
    overtaken,  \* history: an answer came before the submission's commit
    clash       \* history: two submissions got the same queue key

vars == <<problem, version, row, tab, task, stale, grader, answered, used,
          checks, lost, overtaken, clash>>

-----------------------------------------------------------------------------
\* A score is named by the answer and the definition it was computed from.
Score == [ans : Answers, ver : Versions] \cup {None}

\* The entry of correct_map: its score (0 if None), the key of its queuestate,
\* and, as history, the answer of the check or rescoring that wrote it.
CorrectMap == [checked : Answers \cup {None}, score : Score, key : Keys \cup {None}]

NoMap == [checked |-> None, score |-> None, key |-> None]

State == [attempts : Nat, done : BOOLEAN, answers : Answers \cup {None},
          map : CorrectMap, grade : Score]

NoRow == [deleted |-> TRUE]

\* The defaults of the fields; what a problem without a row is loaded with.
FreshState ==
    [attempts |-> 0, done |-> FALSE, answers |-> None, map |-> NoMap, grade |-> None]

Load(r) == IF r = NoRow THEN FreshState ELSE r

\* LoncapaProblem.get_score: nothing without answers, else what the map says.
GetScore(x) == IF x.answers = None THEN None ELSE x.map.score

\* publish_grade, handle_grade_event
PublishGrade(x) == [x EXCEPT !.grade = GetScore(x)]

\* closed(); that the due date is over only ends the student's requests.
Closed(x) == x.attempts >= MaxAttempts

Idle == [pc |-> "idle"]

Submission == [key : Keys, ans : Answers]

Active == {t \in Tabs : tab[t] # Idle} \cup {t \in Tasks : task[t] # Idle}

\* Django's save() of the copy an actor holds: the whole row, put back if it was
\* deleted meanwhile.  The copies of the others are out of date if it changed it.
Save(actor, new) ==
    /\ row' = new
    /\ lost' = (lost \/ actor \in stale)
    /\ stale' = (IF new # row THEN Active ELSE stale) \ {actor}

\* The history of checks is kept up to the first lost save.
CountChecks(n) == checks' = IF lost' THEN 0 ELSE n

Init ==
    /\ problem \in Kinds
    /\ version \in Versions
    /\ row = NoRow
    /\ tab = [t \in Tabs |-> Idle]
    /\ task = [t \in Tasks |-> Idle]
    /\ stale = {}
    /\ grader = {} /\ answered = {}
    /\ used = {}
    /\ checks = 0 /\ lost = FALSE /\ overtaken = FALSE /\ clash = FALSE

-----------------------------------------------------------------------------
(***************************************************************************)
(* The student's requests.  new is the state after the handler, computed   *)
(* from the row read at the start; sent the key of a submission made.      *)
(***************************************************************************)
Begin(t, new, sent, counts) ==
    /\ tab[t] = Idle
    /\ tab' = [tab EXCEPT ![t] = [pc |-> "open", new |-> new, creates |-> row = NoRow,
                                  sent |-> sent, counts |-> counts]]

MayCheck(x) == ~Closed(x) /\ ~(x.done /\ problem.always)

\* The state after a check: graded now, or queued under a key.
Checked_Uncounted(x, a, score, key) ==
    PublishGrade([x EXCEPT !.done = TRUE, !.answers = a,
                           !.attempts = IF key = None THEN @ + 1 ELSE @,
                           !.map = [checked |-> a, score |-> score, key |-> key]])

Checked(x, a, score, key) ==
    PublishGrade([x EXCEPT !.attempts = @ + 1, !.done = TRUE, !.answers = a,
                           !.map = [checked |-> a, score |-> score, key |-> key]])

\* check_problem of a problem graded in the request.
CheckProblem(t) ==
    /\ ~problem.external /\ MayCheck(Load(row))
    /\ \E a \in Answers :
          Begin(t, Checked(Load(row), a, [ans |-> a, ver |-> version], None), None, TRUE)
    /\ UNCHANGED <<problem, version, row, task, stale, grader, answered, used, checks, lost, overtaken, clash>>

\* check_problem of an externally graded one: the grader has the submission
\* before the request commits.  Keys are digests of the time in seconds; while
\* one is queued a second check waits, but an overlapping one may draw the same.
CheckProblemQueued(t) ==
    /\ problem.external /\ MayCheck(Load(row))
    /\ \E a \in Answers, k \in Keys :
          /\ k \in used => \E u \in Tabs : tab[u] # Idle /\ tab[u].sent = k
          /\ Begin(t, Checked(Load(row), a, None, k), k, TRUE)
          /\ grader' = grader \cup {[key |-> k, ans |-> a]}
          /\ used' = used \cup {k}
          /\ clash' = (clash \/ k \in used)
    /\ UNCHANGED <<problem, version, row, task, stale, answered, checks, lost, overtaken>>

\* ... and send_to_queue reports an error: counted, not queued.
CheckProblemUndelivered(t) ==
    /\ problem.external /\ MayCheck(Load(row))
    /\ \E a \in Answers : Begin(t, Checked(Load(row), a, None, None), None, TRUE)
    /\ UNCHANGED <<problem, version, row, task, stale, grader, answered, used, checks, lost, overtaken, clash>>

\* save_problem; or check_problem whose grading raises StudentInputError: the
\* answers are kept, nothing is graded.
SaveProblem(t) ==
    /\ MayCheck(Load(row))
    /\ \E a \in Answers : Begin(t, [Load(row) EXCEPT !.answers = a], None, FALSE)
    /\ UNCHANGED <<problem, version, row, task, stale, grader, answered, used, checks, lost, overtaken, clash>>

\* reset_problem: a new LoncapaProblem; attempts and the grade stay.
ResetProblem(t) ==
    /\ ~Closed(Load(row)) /\ Load(row).done
    /\ Begin(t, [Load(row) EXCEPT !.done = FALSE, !.answers = None, !.map = NoMap], None, FALSE)
    /\ UNCHANGED <<problem, version, row, task, stale, grader, answered, used, checks, lost, overtaken, clash>>

\* The request ends: DjangoKeyValueStore.set_many has saved all of the row.  A
\* row created meanwhile makes find_or_create raise.
Commit(t) ==
    /\ tab[t] # Idle
    /\ tab[t].creates => row = NoRow
    /\ Save(t, tab[t].new)
    /\ CountChecks(IF tab[t].counts THEN checks + 1 ELSE checks)
    /\ tab' = [tab EXCEPT ![t] = Idle]
    /\ UNCHANGED <<problem, version, task, grader, answered, used, overtaken, clash>>

\* The transaction is rolled back; a submission it made is not.
Rollback(t) ==
    /\ tab[t] # Idle
    /\ tab' = [tab EXCEPT ![t] = Idle]
    /\ stale' = stale \ {t}
    /\ UNCHANGED <<problem, version, row, task, grader, answered, used, checks, lost, overtaken, clash>>

StudentStep(t) ==
    \/ CheckProblem(t) \/ CheckProblemQueued(t) \/ CheckProblemUndelivered(t)
    \/ SaveProblem(t) \/ ResetProblem(t) \/ Commit(t) \/ Rollback(t)

-----------------------------------------------------------------------------
(***************************************************************************)
(* The grader answers, or its answer is posted again: xqueue_callback,     *)
(* under a lock on the row.                                                *)
(***************************************************************************)
WithScore(x, score) == [x EXCEPT !.map.score = score, !.map.key = None]

\* CodeResponse.update_score: a valid answer counts for its own key only, an
\* invalid one empties the entry.
UpdateScore_AnyKey(x, m, valid) ==
    IF ~valid THEN WithScore(x, None)
    ELSE IF x.map.key # None THEN WithScore(x, [ans |-> m.ans, ver |-> version]) ELSE x

UpdateScore_Dropped(x, m, valid) ==
    IF valid /\ x.map.key = m.key THEN WithScore(x, [ans |-> m.ans, ver |-> version]) ELSE x

UpdateScore(x, m, valid) ==
    IF ~valid THEN WithScore(x, None)
    ELSE IF x.map.key = m.key THEN WithScore(x, [ans |-> m.ans, ver |-> version]) ELSE x

XqueueCallback_NoGrade(m, valid) ==
    /\ Save(None, UpdateScore(Load(row), m, valid))
    /\ CountChecks(checks)
    /\ grader' = grader \ {m} /\ answered' = answered \cup {m}
    /\ overtaken' = (overtaken \/ \E t \in Tabs : tab[t] # Idle /\ tab[t].sent = m.key)
    /\ UNCHANGED <<problem, version, tab, task, used, clash>>

XqueueCallback(m, valid) ==
    /\ Save(None, PublishGrade(UpdateScore(Load(row), m, valid)))
    /\ CountChecks(checks)
    /\ grader' = grader \ {m} /\ answered' = answered \cup {m}
    /\ overtaken' = (overtaken \/ \E t \in Tabs : tab[t] # Idle /\ tab[t].sent = m.key)
    /\ UNCHANGED <<problem, version, tab, task, used, clash>>

-----------------------------------------------------------------------------
(***************************************************************************)
(* Instructor tasks.  A row is read in the query of the batch and saved    *)
(* later; a row that is to be left alone is no step.                       *)
(***************************************************************************)
TaskReads(t, kind, new, map) ==
    /\ task[t] = Idle /\ row # NoRow
    /\ task' = [task EXCEPT ![t] = [pc |-> kind, new |-> new, map |-> map]]
    /\ UNCHANGED <<problem, version, row, tab, stale, grader, answered, used, checks, lost, overtaken, clash>>

Rescored(x) ==
    PublishGrade([x EXCEPT !.map = [checked |-> x.answers, key |-> None,
                                    score |-> [ans |-> x.answers, ver |-> version]]])

\* rescore_problem_module_state; file submissions, so external graders, raise.
RescoreReads(t) ==
    /\ ~problem.external /\ Load(row).done
    /\ TaskReads(t, "rescore", Rescored(row), row.map)

\* reset_attempts_module_state
ResetReads(t) ==
    /\ Load(row).attempts > 0
    /\ TaskReads(t, "reset", [row EXCEPT !.attempts = 0], NoMap)

\* delete_problem_module_state
DeleteReads(t) == TaskReads(t, "delete", NoRow, NoMap)

\* publish_grade saves, and commits, the grade next to the state as read ...
RescoreGrades(t) ==
    /\ task[t].pc = "rescore"
    /\ Save(t, [task[t].new EXCEPT !.map = task[t].map])
    /\ CountChecks(checks)
    /\ task' = [task EXCEPT ![t].pc = "rescored"]
    /\ UNCHANGED <<problem, version, tab, grader, answered, used, overtaken, clash>>

\* ... and instance.save() the state.
RescoreSaves(t) ==
    /\ task[t].pc = "rescored"
    /\ Save(t, task[t].new)
    /\ CountChecks(checks)
    /\ task' = [task EXCEPT ![t] = Idle]
    /\ UNCHANGED <<problem, version, tab, grader, answered, used, overtaken, clash>>

ResetSaves(t) ==
    /\ task[t].pc = "reset"
    /\ Save(t, task[t].new)
    /\ CountChecks(0)
    /\ task' = [task EXCEPT ![t] = Idle]
    /\ UNCHANGED <<problem, version, tab, grader, answered, used, overtaken, clash>>

\* delete() removes the row, whatever is in it by now.
Deletes(t) ==
    /\ task[t].pc = "delete"
    /\ row' = NoRow
    /\ stale' = (IF row # NoRow THEN Active ELSE stale) \ {t}
    /\ checks' = 0
    /\ task' = [task EXCEPT ![t] = Idle]
    /\ UNCHANGED <<problem, version, tab, grader, answered, used, lost, overtaken, clash>>

\* The worker dies; between the two saves of a rescoring one of them is lost.
TaskDies(t) ==
    /\ task[t] # Idle
    /\ lost' = (lost \/ task[t].pc = "rescored")
    /\ CountChecks(checks)
    /\ stale' = stale \ {t}
    /\ task' = [task EXCEPT ![t] = Idle]
    /\ UNCHANGED <<problem, version, row, tab, grader, answered, used, overtaken, clash>>

TaskStep(t) ==
    \/ RescoreReads(t) \/ ResetReads(t) \/ DeleteReads(t)
    \/ RescoreGrades(t) \/ RescoreSaves(t) \/ ResetSaves(t) \/ Deletes(t) \/ TaskDies(t)

\* The problem is edited in the CMS; an external grader does not look at it.
EditProblem ==
    /\ ~problem.external
    /\ \E v \in Versions : v # version /\ version' = v
    /\ UNCHANGED <<problem, row, tab, task, stale, grader, answered, used, checks, lost, overtaken, clash>>

Next ==
    \/ \E t \in Tabs : StudentStep(t)
    \/ \E t \in Tasks : TaskStep(t)
    \/ \E m \in grader \cup answered, valid \in BOOLEAN : XqueueCallback(m, valid)
    \/ EditProblem

Spec == Init /\ [][Next]_vars

=============================================================================
