-------------------------- MODULE ProblemState_proofs --------------------------
(***************************************************************************)
(* Theorems about ProblemState, for any number of requests, instructor     *)
(* tasks, answers, queue keys and versions of the problem.                 *)
(*                                                                         *)
(* Who saves the row saves the copy it holds.  The invariant says what     *)
(* holds of every copy, and how a copy that is not stale depends on the    *)
(* row: a save of such a copy is right, a save of another one is a lost    *)
(* change.                                                                 *)
(***************************************************************************)
EXTENDS ProblemStateProps, TLAPS

-----------------------------------------------------------------------------
Request == [pc : {"open"}, new : State, creates : BOOLEAN,
            sent : Keys \cup {None}, counts : BOOLEAN]

Execution == [pc : {"rescore", "rescored", "reset", "delete"},
              new : State \cup {NoRow}, map : CorrectMap]

\* The submissions the grader may answer, for the first time or again.
Sent == grader \cup answered

\* The grader has a submission under the key to answer.
Queued(k) == \E m \in grader : m.key = k

\* An entry of correct_map was scored for the answer it was made for, and so will
\* be the answers that may still come for it, while keys are distinct.
MapGood(m) ==
    /\ m \in CorrectMap
    /\ m.key # None => m.key \in used
    /\ ~clash => /\ m.score # None => m.score.ans = m.checked
                 /\ \A g \in Sent : g.key = m.key => g.ans = m.checked

\* Every copy of the state, stale or not.
Good(x) ==
    /\ x \in State /\ x.attempts <= MaxAttempts
    /\ x.done => x.answers # None
    /\ MapGood(x.map)

\* The grade is that of the state next to it.
Graded(x) == x.done => x.grade = GetScore(x)

-----------------------------------------------------------------------------
(***************************************************************************)
(* A request, and the copy it holds if it is not stale.                    *)
(***************************************************************************)
TabGood(q) ==
    /\ q \in Request /\ Good(q.new)
    /\ q.sent # None /\ ~overtaken => Queued(q.sent)

TabTracks(q) ==
    /\ q.new.attempts = Load(row).attempts + IF q.counts THEN 1 ELSE 0
    /\ Graded(Load(row)) => Graded(q.new)
    /\ q.new.map.key \in {None, q.sent, Load(row).map.key}

TabInv(t) ==
    tab[t] # Idle => TabGood(tab[t]) /\ (t \notin stale => TabTracks(tab[t]))

(***************************************************************************)
(* An instructor task, and the copies it holds if they are not stale.      *)
(***************************************************************************)
TaskGood(q) ==
    /\ q \in Execution
    /\ q.pc # "delete" => Good(q.new) /\ MapGood(q.map)
    /\ q.pc \in {"rescore", "rescored"} => Graded(q.new) /\ q.new.map.key = None
    /\ q.pc = "reset" => q.new.attempts = 0

TaskTracks(q) ==
    /\ q.pc \in {"rescore", "rescored"} => q.new.attempts = Load(row).attempts
    /\ q.pc = "rescore" => q.map.key \in {None, Load(row).map.key}
    /\ q.pc = "reset" => /\ Graded(Load(row)) => Graded(q.new)
                         /\ q.new.map.key \in {None, Load(row).map.key}

TaskInv(t) ==
    task[t] # Idle => TaskGood(task[t]) /\ (t \notin stale => TaskTracks(task[t]))

(***************************************************************************)
(* The row, with what is promised while no change was lost.                *)
(***************************************************************************)
RowInv ==
    /\ \A g \in Sent : g.key \in used
    /\ Good(Load(row))
    /\ ~lost => Load(row).attempts = checks
    /\ ~lost /\ ~Rescoring => Graded(Load(row))
    /\ ~lost /\ ~overtaken /\ Load(row).map.key # None => Queued(Load(row).map.key)

Invariant ==
    /\ TypeOK /\ RowInv
    /\ \A t \in Tabs : TabInv(t)
    /\ \A t \in Tasks : TaskInv(t)

-----------------------------------------------------------------------------
(***************************************************************************)
(* States and what the handlers make of them.                              *)
(***************************************************************************)
\* A deleted row is not a state.
LEMMA NoRowIsNoState == NoRow \notin State
  <1>1. \A x \in State : "done" \in DOMAIN x
    BY DEF State
  <1>2. "done" \notin DOMAIN NoRow
    BY DEF NoRow
  <1> QED
    BY <1>1, <1>2

\* The state that is read: of the row, or a fresh one.
LEMMA LoadFacts ==
    /\ TypeOK => Load(row) \in State
    /\ \A x \in State : Load(x) = x
    /\ Load(NoRow) = FreshState
    /\ FreshState \in State /\ FreshState.attempts = 0 /\ FreshState.done = FALSE
    /\ FreshState.map = NoMap /\ FreshState.answers = None
    /\ NoMap \in CorrectMap /\ NoMap.key = None /\ NoMap.score = None
  <1>1. NoMap \in CorrectMap /\ NoMap.key = None /\ NoMap.score = None
    BY DEF NoMap, CorrectMap, Score
  <1>2. /\ FreshState \in State /\ FreshState.attempts = 0 /\ FreshState.done = FALSE
        /\ FreshState.map = NoMap /\ FreshState.answers = None
    BY <1>1 DEF FreshState, State, Score
  <1> QED
    BY <1>1, <1>2, NoRowIsNoState DEF Load, TypeOK

\* A fresh state is a good one.
LEMMA FreshGood ==
    ASSUME TypeOK
    PROVE  MapGood(NoMap) /\ Good(FreshState) /\ Graded(FreshState)
  <1>1. MaxAttempts \in Nat /\ 0 <= MaxAttempts
    BY MaxAttemptsAssumption
  <1>2. \A g \in Sent : g.key # None
    BY AnswersAssumption DEF TypeOK, Submission, Sent
  <1>3. MapGood(NoMap)
    BY <1>2, LoadFacts DEF MapGood
  <1> QED
    BY <1>1, <1>3, LoadFacts DEF Good, Graded

\* A check counts, and what it leaves is graded.
LEMMA CheckedFacts ==
    ASSUME NEW x \in State, NEW a \in Answers, NEW score \in Score, NEW key \in Keys \cup {None}
    PROVE  \E c \in State :
              /\ c = Checked(x, a, score, key) /\ Graded(c)
              /\ c.attempts = x.attempts + 1 /\ c.answers = a
              /\ c.map \in CorrectMap
              /\ c.map.checked = a /\ c.map.score = score /\ c.map.key = key
  <1> DEFINE m == [checked |-> a, score |-> score, key |-> key]
             y == [x EXCEPT !.attempts = @ + 1, !.done = TRUE, !.answers = a, !.map = m]
             c == [y EXCEPT !.grade = GetScore(y)]
  <1>1. m \in CorrectMap /\ m.checked = a /\ m.score = score /\ m.key = key
    BY DEF CorrectMap
  <1> HIDE DEF m
  <1>2. y \in State /\ y.attempts = x.attempts + 1 /\ y.answers = a /\ y.map = m
    <2>1. x.attempts + 1 \in Nat
      BY DEF State
    <2>2. PICK n \in Nat : n = x.attempts + 1
      BY <2>1
    <2>3. y = [x EXCEPT !.attempts = n, !.done = TRUE, !.answers = a, !.map = m]
      BY <2>2
    <2> HIDE DEF y
    <2> QED
      BY <1>1, <2>2, <2>3 DEF State
  <1> HIDE DEF y
  <1>3. a # None
    BY AnswersAssumption
  <1>4. GetScore(y) = score
    BY <1>1, <1>2, <1>3 DEF GetScore
  <1>5. /\ c \in State /\ c.attempts = x.attempts + 1 /\ c.answers = a /\ c.map = m
        /\ c.grade = score
    BY <1>2, <1>4 DEF State
  <1>6. GetScore(c) = score
    BY <1>1, <1>3, <1>5 DEF GetScore
  <1>7. c = Checked(x, a, score, key)
    BY DEF Checked, PublishGrade, c, y, m
  <1> HIDE DEF c
  <1> QED
    BY <1>1, <1>5, <1>6, <1>7 DEF Graded

\* Publishing a grade changes the grade only.
LEMMA PublishFacts ==
    ASSUME NEW y \in State
    PROVE  \E c \in State :
              /\ c = PublishGrade(y) /\ Graded(c)
              /\ c.attempts = y.attempts /\ c.done = y.done /\ c.answers = y.answers
              /\ c.map = y.map
  <1> DEFINE c == [y EXCEPT !.grade = GetScore(y)]
  <1>1. GetScore(y) \in Score
    BY DEF GetScore, State, CorrectMap, Score
  <1>2. /\ c \in State /\ c.attempts = y.attempts /\ c.done = y.done /\ c.answers = y.answers
        /\ c.map = y.map /\ c.grade = GetScore(y)
    BY <1>1 DEF State
  <1>3. c = PublishGrade(y)
    BY DEF PublishGrade
  <1> HIDE DEF c
  <1>4. GetScore(c) = GetScore(y)
    BY <1>2 DEF GetScore
  <1> QED
    BY <1>2, <1>3, <1>4 DEF Graded

-----------------------------------------------------------------------------
(***************************************************************************)
(* Copies that a step leaves alone.                                        *)
(***************************************************************************)
\* While entries stay good, so do the states they are in.
LEMMA GoodKept ==
    ASSUME \A m : MapGood(m) => MapGood(m)'
    PROVE  \A x : Good(x) => Good(x)'
  BY DEF Good

\* Submissions that stay, or go, keep every entry good.
LEMMA MapsKept ==
    ASSUME Sent' \subseteq Sent, UNCHANGED <<used, clash>>
    PROVE  \A m : MapGood(m) => MapGood(m)'
  BY DEF MapGood

\* Those who do not act keep what holds of them: the copies of a row that is
\* changed become stale.
LEMMA Others ==
    ASSUME Invariant, NEW actor,
           \A u \in Tabs \ {actor} : tab'[u] = tab[u],
           \A u \in Tasks \ {actor} : task'[u] = task[u],
           \A u \in Active \ {actor} : u \notin stale' => row' = row /\ u \notin stale,
           \A m : MapGood(m) => MapGood(m)',
           \A u \in Tabs \ {actor} : tab[u] # Idle /\ tab[u].sent # None /\ ~overtaken' =>
               ~overtaken /\ (Queued(tab[u].sent) => Queued(tab[u].sent)')
    PROVE  /\ \A u \in Tabs \ {actor} : TabInv(u)'
           /\ \A u \in Tasks \ {actor} : TaskInv(u)'
  <1>1. ASSUME NEW u \in Tabs \ {actor}, tab[u] # Idle
        PROVE  TabGood(tab[u])' /\ (u \notin stale' => TabTracks(tab[u])')
    <2>1. PICK q : q = tab[u] /\ q = tab'[u]
      BY <1>1
    <2>2. TabGood(q) /\ (u \notin stale => TabTracks(q)) /\ u \in Active
      BY <1>1, <2>1 DEF Invariant, TabInv, Active
    <2>3. TabGood(q)'
      BY <1>1, <2>1, <2>2, GoodKept DEF TabGood
    <2>4. u \notin stale' => TabTracks(q)'
      BY <1>1, <2>2 DEF TabTracks
    <2> QED
      BY <2>1, <2>3, <2>4
  <1>2. ASSUME NEW u \in Tasks \ {actor}, task[u] # Idle
        PROVE  TaskGood(task[u])' /\ (u \notin stale' => TaskTracks(task[u])')
    <2>1. PICK q : q = task[u] /\ q = task'[u]
      BY <1>2
    <2>2. TaskGood(q) /\ (u \notin stale => TaskTracks(q)) /\ u \in Active
      BY <1>2, <2>1 DEF Invariant, TaskInv, Active
    <2>3. TaskGood(q)'
      BY <2>2, GoodKept DEF TaskGood
    <2>4. u \notin stale' => TaskTracks(q)'
      BY <1>2, <2>2 DEF TaskTracks
    <2> QED
      BY <2>1, <2>3, <2>4
  <1> QED
    BY <1>1, <1>2 DEF TabInv, TaskInv

\* Replacing one request, and one instructor task.
LEMMA ReplaceTab ==
    ASSUME TypeOK, NEW t \in Tabs, NEW q \in Request \cup {Idle}, tab' = [tab EXCEPT ![t] = q]
    PROVE  /\ tab' \in [Tabs -> Request \cup {Idle}] /\ tab'[t] = q
           /\ \A u \in Tabs \ {t} : tab'[u] = tab[u]
  <1>1. tab \in [Tabs -> Request \cup {Idle}]
    BY DEF TypeOK, Request
  <1> QED
    BY <1>1

LEMMA ReplaceTask ==
    ASSUME TypeOK, NEW t \in Tasks, NEW q \in Execution \cup {Idle}, task' = [task EXCEPT ![t] = q]
    PROVE  /\ task' \in [Tasks -> Execution \cup {Idle}] /\ task'[t] = q
           /\ \A u \in Tasks \ {t} : task'[u] = task[u]
  <1>1. task \in [Tasks -> Execution \cup {Idle}]
    BY DEF TypeOK, Execution
  <1> QED
    BY <1>1

\* Actors are requests or tasks.
LEMMA ActorFacts ==
    /\ \A t \in Tabs : t \notin Tasks /\ t # None
    /\ \A t \in Tasks : t \notin Tabs /\ t # None
    /\ None \notin Tabs /\ None \notin Tasks
    /\ Active \subseteq Tabs \cup Tasks
  BY ActorsAssumption DEF Active

-----------------------------------------------------------------------------
(***************************************************************************)
(* Reading the row.                                                        *)
(***************************************************************************)
\* A request begins: it may have sent a submission.
LEMMA RequestBegins ==
    ASSUME Invariant, NEW t \in Tabs, NEW q \in Request, tab[t] = Idle, tab' = [tab EXCEPT ![t] = q],
           TabGood(q)', TabTracks(q),
           UNCHANGED <<problem, version, row, task, stale, answered, checks, lost, overtaken>>,
           \A m : MapGood(m) => MapGood(m)', grader \subseteq grader',
           grader' \in SUBSET Submission, used' \in SUBSET Keys, clash' \in BOOLEAN,
           \A g \in Sent' : g.key \in used'
    PROVE  Invariant'
  <1>1. TypeOK
    BY DEF Invariant
  <1>2. /\ tab' \in [Tabs -> Request \cup {Idle}] /\ tab'[t] = q
        /\ \A u \in Tabs \ {t} : tab'[u] = tab[u]
    BY <1>1, ReplaceTab
  <1>3. TypeOK'
    BY <1>1, <1>2 DEF TypeOK, Request
  <1>4. \A k : Queued(k) => Queued(k)'
    BY DEF Queued
  <1>5. RowInv'
    <2>1. Good(Load(row))'
      BY GoodKept DEF Invariant, RowInv
    <2> QED
      BY <1>4, <2>1 DEF Invariant, RowInv, Rescoring
  <1>6. /\ \A u \in Tabs \ {t} : TabInv(u)'
        /\ \A u \in Tasks \ {t} : TaskInv(u)'
    BY <1>2, <1>4, Others
  <1>7. TabInv(t)'
    BY <1>2 DEF TabInv, TabTracks
  <1> QED
    BY <1>3, <1>5, <1>6, <1>7, ActorFacts DEF Invariant

\* An instructor task has read the row.
LEMMA TaskBegins ==
    ASSUME Invariant, NEW t \in Tasks, NEW q \in Execution, task[t] = Idle,
           task' = [task EXCEPT ![t] = q], q.pc # "rescored", TaskGood(q), TaskTracks(q),
           UNCHANGED <<problem, version, row, tab, stale, grader, answered, used, checks, lost, overtaken, clash>>
    PROVE  Invariant'
  <1>1. TypeOK
    BY DEF Invariant
  <1>2. /\ task' \in [Tasks -> Execution \cup {Idle}] /\ task'[t] = q
        /\ \A u \in Tasks \ {t} : task'[u] = task[u]
    BY <1>1, ReplaceTask
  <1>3. TypeOK'
    BY <1>1, <1>2 DEF TypeOK, Execution
  <1>4. (\A m : MapGood(m) => MapGood(m)') /\ (\A k : Queued(k) => Queued(k)')
    BY MapsKept DEF Queued, Sent
  <1>5. RowInv'
    <2>1. Good(Load(row))'
      BY <1>4, GoodKept DEF Invariant, RowInv
    <2>2. Rescoring' => Rescoring
      BY <1>2 DEF Rescoring
    <2>3. Rescoring => Rescoring'
      BY <1>2 DEF Rescoring, Idle
    <2> QED
      BY <1>4, <2>1, <2>2, <2>3 DEF Invariant, RowInv, Sent
  <1>6. /\ \A u \in Tabs \ {t} : TabInv(u)'
        /\ \A u \in Tasks \ {t} : TaskInv(u)'
    BY <1>2, <1>4, Others
  <1>7. TaskInv(t)'
    BY <1>2, <1>4, GoodKept DEF TaskInv, TaskGood, TaskTracks
  <1> QED
    BY <1>3, <1>5, <1>6, <1>7, ActorFacts DEF Invariant

-----------------------------------------------------------------------------
(***************************************************************************)
(* Saving the row.                                                         *)
(***************************************************************************)
\* Save keeps the types, and a save that loses no change is of a copy that is
\* not stale.
LEMMA SaveFacts ==
    ASSUME Invariant, NEW actor, NEW new, Save(actor, new)
    PROVE  /\ row' = new /\ lost' \in BOOLEAN /\ stale' \in SUBSET (Tabs \cup Tasks)
           /\ ~lost' => ~lost /\ actor \notin stale
           /\ \A u \in Active \ {actor} : u \notin stale' => row' = row /\ u \notin stale
  <1>1. stale \in SUBSET (Tabs \cup Tasks) /\ lost \in BOOLEAN
    BY DEF Invariant, TypeOK
  <1>2. /\ row' = new /\ lost' = (lost \/ actor \in stale)
        /\ stale' = (IF new # row THEN Active ELSE stale) \ {actor}
    BY DEF Save
  <1>3. lost' \in BOOLEAN /\ (~lost' => ~lost /\ actor \notin stale)
    BY <1>2
  <1>4. stale' \in SUBSET (Tabs \cup Tasks)
    BY <1>1, <1>2, ActorFacts
  <1>5. \A u \in Active \ {actor} : u \notin stale' => row' = row /\ u \notin stale
    BY <1>2
  <1> QED
    BY <1>2, <1>3, <1>4, <1>5

\* The row after a save.
LEMMA RowSaved ==
    ASSUME Invariant, NEW new \in State, row' = new, Good(new)',
           Sent' \subseteq Sent, used' = used,
           ~lost' => new.attempts = checks',
           ~lost' /\ ~Rescoring' => Graded(new),
           ~lost' /\ ~overtaken' /\ new.map.key # None => Queued(new.map.key)'
    PROVE  RowInv'
  <1>1. Load(row)' = new
    BY LoadFacts
  <1>2. PICK x : x = new /\ Load(row)' = x
    BY <1>1
  <1>3. /\ Good(x)' /\ Graded(x)' = Graded(new)
        /\ ~lost' /\ ~overtaken' /\ x.map.key # None => Queued(x.map.key)'
    BY <1>2 DEF Graded
  <1> QED
    BY <1>2, <1>3 DEF Invariant, RowInv, Graded, Good, Queued

\* A check of the row that was read, graded now or sent under a key.
LEMMA CheckTracks ==
    ASSUME Invariant, MayCheck(Load(row)), NEW a \in Answers, NEW score \in Score,
           NEW key \in Keys \cup {None},
           NEW q, q = [pc |-> "open", new |-> Checked(Load(row), a, score, key),
                       creates |-> row = NoRow, sent |-> key, counts |-> TRUE]
    PROVE  /\ q \in Request /\ q.sent = key /\ TabTracks(q)
           /\ q.new \in State /\ q.new.attempts <= MaxAttempts /\ q.new.answers # None
           /\ q.new.map \in CorrectMap
           /\ q.new.map.checked = a /\ q.new.map.score = score /\ q.new.map.key = key
  <1>1. PICK x \in State : x = Load(row)
    BY LoadFacts DEF Invariant
  <1>2. PICK c \in State :
           /\ c = Checked(x, a, score, key) /\ Graded(c)
           /\ c.attempts = x.attempts + 1 /\ c.answers = a
           /\ c.map \in CorrectMap
           /\ c.map.checked = a /\ c.map.score = score /\ c.map.key = key
    BY CheckedFacts
  <1>3. q = [pc |-> "open", new |-> c, creates |-> row = NoRow, sent |-> key, counts |-> TRUE]
    BY <1>1, <1>2
  <1>4. q \in Request /\ q.new = c /\ q.sent = key /\ q.counts
    BY <1>3 DEF Request
  <1>5. x.attempts < MaxAttempts /\ x.attempts \in Nat /\ MaxAttempts \in Nat
    BY <1>1, MaxAttemptsAssumption DEF MayCheck, Closed, State
  <1>6. c.attempts <= MaxAttempts /\ a # None
    BY <1>2, <1>5, AnswersAssumption
  <1>7. TabTracks(q)
    BY <1>1, <1>2, <1>4 DEF TabTracks
  <1> QED
    BY <1>2, <1>4, <1>6, <1>7

\* A request that does not check leaves the attempts, and the key or no entry.
LEMMA NoCheckTracks ==
    ASSUME Invariant, NEW new \in State, new.attempts = Load(row).attempts,
           new.done => Load(row).done /\ new.answers # None /\ new.grade = Load(row).grade,
           new.map \in {Load(row).map, NoMap}, new.done => new.map = Load(row).map,
           NEW q, q = [pc |-> "open", new |-> new, creates |-> row = NoRow,
                       sent |-> None, counts |-> FALSE]
    PROVE  q \in Request /\ TabGood(q) /\ TabTracks(q)
  <1>1. PICK x \in State : x = Load(row)
    BY LoadFacts DEF Invariant
  <1>2. q \in Request /\ q.new = new /\ q.sent = None /\ q.counts = FALSE
    BY DEF Request
  <1>3. Good(x) /\ MapGood(NoMap)
    BY <1>1, FreshGood DEF Invariant, RowInv
  <1>4. Good(new)
    BY <1>1, <1>3 DEF Good
  <1>5. Graded(x) => Graded(new)
    BY <1>1, <1>3 DEF Graded, GetScore, Good
  <1>6. new.attempts = x.attempts + 0 /\ new.map.key \in {None, x.map.key}
    BY <1>1, LoadFacts DEF State
  <1> QED
    BY <1>1, <1>2, <1>4, <1>5, <1>6 DEF TabGood, TabTracks

\* A request that begins keeps the invariant.
LEMMA StudentReads ==
    ASSUME Invariant, NEW t \in Tabs,
           \/ CheckProblem(t) \/ CheckProblemQueued(t) \/ CheckProblemUndelivered(t)
           \/ SaveProblem(t) \/ ResetProblem(t)
    PROVE  Invariant'
  <1>1. TypeOK /\ Load(row) \in State
    BY LoadFacts DEF Invariant
  <1>2. /\ grader \in SUBSET Submission /\ used \in SUBSET Keys /\ clash \in BOOLEAN
        /\ \A g \in Sent : g.key \in used
    BY <1>1 DEF TypeOK, Invariant, RowInv
  <1>3. ASSUME UNCHANGED <<grader, answered, used, clash, overtaken>>
        PROVE  (\A m : MapGood(m) => MapGood(m)') /\ (\A q : TabGood(q) => TabGood(q)')
    <2>1. \A m : MapGood(m) => MapGood(m)'
      BY <1>3, MapsKept DEF Sent
    <2> QED
      BY <1>3, <2>1, GoodKept DEF TabGood, Queued
  <1>4. ASSUME NEW a \in Answers, NEW score \in Score,
               score # None => score.ans = a, MayCheck(Load(row)),
               Begin(t, Checked(Load(row), a, score, None), None, TRUE),
               UNCHANGED <<problem, version, row, task, stale, grader, answered, used, checks, lost,
                           overtaken, clash>>
        PROVE  Invariant'
    <2>1. PICK q : /\ tab' = [tab EXCEPT ![t] = q]
                   /\ q = [pc |-> "open", new |-> Checked(Load(row), a, score, None),
                           creates |-> row = NoRow, sent |-> None, counts |-> TRUE]
      BY <1>4 DEF Begin
    <2>2. /\ q \in Request /\ q.sent = None /\ TabTracks(q)
          /\ q.new \in State /\ q.new.attempts <= MaxAttempts /\ q.new.answers # None
          /\ q.new.map \in CorrectMap
          /\ q.new.map.checked = a /\ q.new.map.score = score /\ q.new.map.key = None
      BY <1>4, <2>1, CheckTracks
    <2>3. \A g \in Sent : g.key # None
      BY <1>2, AnswersAssumption DEF Submission, Sent
    <2>4. MapGood(q.new.map)
      BY <1>4, <2>2, <2>3 DEF MapGood
    <2>5. TabGood(q)'
      BY <1>3, <1>4, <2>2, <2>4 DEF TabGood, Good
    <2> QED
      BY <1>2, <1>3, <1>4, <2>1, <2>2, <2>5, RequestBegins DEF Begin, Sent
  <1>5. ASSUME CheckProblem(t)
        PROVE  Invariant'
    <2>1. PICK a \in Answers :
             Begin(t, Checked(Load(row), a, [ans |-> a, ver |-> version], None), None, TRUE)
      BY <1>5 DEF CheckProblem
    <2>2. PICK score : score = [ans |-> a, ver |-> version]
      OBVIOUS
    <2>3. score \in Score /\ score.ans = a
      BY <1>1, <2>2 DEF TypeOK, Score
    <2> QED
      BY <1>4, <1>5, <2>1, <2>2, <2>3 DEF CheckProblem
  <1>6. ASSUME CheckProblemUndelivered(t)
        PROVE  Invariant'
    <2>1. None \in Score
      BY DEF Score
    <2> QED
      BY <1>4, <1>6, <2>1 DEF CheckProblemUndelivered
  <1>7. ASSUME CheckProblemQueued(t)
        PROVE  Invariant'
    <2>1. PICK a \in Answers, k \in Keys :
             /\ Begin(t, Checked(Load(row), a, None, k), k, TRUE)
             /\ grader' = grader \cup {[key |-> k, ans |-> a]}
             /\ used' = used \cup {k}
             /\ clash' = (clash \/ k \in used)
      BY <1>7 DEF CheckProblemQueued
    <2>2. PICK q : /\ tab' = [tab EXCEPT ![t] = q]
                   /\ q = [pc |-> "open", new |-> Checked(Load(row), a, None, k),
                           creates |-> row = NoRow, sent |-> k, counts |-> TRUE]
      BY <2>1 DEF Begin
    <2>3. k # None /\ None \in Score /\ MayCheck(Load(row))
      BY <1>7, AnswersAssumption DEF Score, CheckProblemQueued
    <2>4. /\ q \in Request /\ q.sent = k /\ TabTracks(q)
          /\ q.new \in State /\ q.new.attempts <= MaxAttempts /\ q.new.answers # None
          /\ q.new.map \in CorrectMap
          /\ q.new.map.checked = a /\ q.new.map.score = None /\ q.new.map.key = k
      BY <2>2, <2>3, CheckTracks
    <2>5. PICK g0 \in Submission :
             /\ g0.key = k /\ g0.ans = a
             /\ grader' = grader \cup {g0} /\ Sent' = Sent \cup {g0}
      <3>1. PICK g0 \in Submission : g0.key = k /\ g0.ans = a /\ grader' = grader \cup {g0}
        BY <2>1 DEF Submission
      <3>2. answered' = answered
        BY <1>7 DEF CheckProblemQueued
      <3> QED
        BY <3>1, <3>2 DEF Sent
    <2>6. \A m : MapGood(m) => MapGood(m)'
      <3>1. SUFFICES ASSUME NEW m, MapGood(m) PROVE MapGood(m)'
        OBVIOUS
      <3>2. ASSUME ~clash'
            PROVE  /\ m.score # None => m.score.ans = m.checked
                   /\ \A g \in Sent' : g.key = m.key => g.ans = m.checked
        <4>1. ~clash /\ k \notin used
          BY <2>1, <3>2
        <4>2. m.key # k
          BY <2>3, <3>1, <4>1 DEF MapGood
        <4> QED
          BY <2>5, <3>1, <4>1, <4>2 DEF MapGood
      <3> QED
        BY <2>1, <3>1, <3>2 DEF MapGood
    <2>7. MapGood(q.new.map)'
      <3>1. ~clash' => \A g \in Sent : g.key # k
        BY <2>1 DEF Invariant, RowInv
      <3> QED
        BY <2>1, <2>4, <2>5, <3>1 DEF MapGood
    <2>8. TabGood(q)'
      BY <2>4, <2>5, <2>7 DEF TabGood, Good, Queued
    <2>9. /\ grader \subseteq grader' /\ grader' \in SUBSET Submission
          /\ used' \in SUBSET Keys /\ clash' \in BOOLEAN
          /\ \A g \in Sent' : g.key \in used'
      BY <1>2, <2>1, <2>5 DEF Invariant, RowInv
    <2> QED
      BY <1>7, <2>1, <2>2, <2>4, <2>6, <2>8, <2>9, RequestBegins DEF Begin, CheckProblemQueued
  <1>8. ASSUME NEW new \in State, new.attempts = Load(row).attempts,
               new.done => Load(row).done /\ new.answers # None /\ new.grade = Load(row).grade,
               new.map \in {Load(row).map, NoMap}, new.done => new.map = Load(row).map,
               Begin(t, new, None, FALSE),
               UNCHANGED <<problem, version, row, task, stale, grader, answered, used, checks, lost,
                           overtaken, clash>>
        PROVE  Invariant'
    <2>1. PICK q : /\ tab' = [tab EXCEPT ![t] = q]
                   /\ q = [pc |-> "open", new |-> new, creates |-> row = NoRow,
                           sent |-> None, counts |-> FALSE]
      BY <1>8 DEF Begin
    <2>2. q \in Request /\ TabGood(q) /\ TabTracks(q)
      BY <1>8, <2>1, NoCheckTracks
    <2> QED
      BY <1>2, <1>3, <1>8, <2>1, <2>2, RequestBegins DEF Begin, Sent
  <1>9. ASSUME SaveProblem(t)
        PROVE  Invariant'
    <2>1. PICK a \in Answers : Begin(t, [Load(row) EXCEPT !.answers = a], None, FALSE)
      BY <1>9 DEF SaveProblem
    <2>2. PICK new : new = [Load(row) EXCEPT !.answers = a]
      OBVIOUS
    <2>3. /\ new \in State /\ new.attempts = Load(row).attempts /\ new.done = Load(row).done
          /\ new.answers = a /\ new.grade = Load(row).grade /\ new.map = Load(row).map
      BY <1>1, <2>2 DEF State
    <2>4. a # None
      BY AnswersAssumption
    <2> QED
      BY <1>8, <1>9, <2>1, <2>2, <2>3, <2>4 DEF SaveProblem
  <1>10. ASSUME ResetProblem(t)
         PROVE  Invariant'
    <2>1. PICK new : new = [Load(row) EXCEPT !.done = FALSE, !.answers = None, !.map = NoMap]
      OBVIOUS
    <2>2. /\ new \in State /\ new.attempts = Load(row).attempts /\ new.done = FALSE
          /\ new.map = NoMap
      BY <1>1, <2>1, LoadFacts DEF State
    <2> QED
      BY <1>8, <1>10, <2>1, <2>2 DEF ResetProblem
  <1> QED
    BY <1>5, <1>6, <1>7, <1>9, <1>10

\* The request's copy is saved, or dropped.
LEMMA StudentEnds ==
    ASSUME Invariant, NEW t \in Tabs, Commit(t) \/ Rollback(t)
    PROVE  Invariant'
  <1>1. TypeOK /\ tab[t] # Idle /\ TabInv(t) /\ checks \in Nat
    BY DEF Invariant, TypeOK, Commit, Rollback
  <1>2. PICK q : q = tab[t]
    OBVIOUS
  <1>3. q \in Request /\ TabGood(q) /\ (t \notin stale => TabTracks(q))
    BY <1>1, <1>2 DEF TabInv, TabGood
  <1>4. /\ tab' \in [Tabs -> Request \cup {Idle}] /\ tab'[t] = Idle
        /\ \A u \in Tabs \ {t} : tab'[u] = tab[u]
    <2>1. PICK r : r = Idle /\ tab' = [tab EXCEPT ![t] = r]
      BY DEF Commit, Rollback
    <2>2. r \in Request \cup {Idle}
      BY <2>1
    <2> QED
      BY <1>1, <2>1, <2>2, ReplaceTab
  <1>5. UNCHANGED <<problem, version, task, grader, answered, used, overtaken, clash>>
    BY DEF Commit, Rollback
  <1>6. /\ \A m : MapGood(m) => MapGood(m)'
        /\ \A k : Queued(k)' = Queued(k)
    BY <1>5, MapsKept DEF Queued, Sent
  <1>7. ASSUME \A u \in Active \ {t} : u \notin stale' => row' = row /\ u \notin stale,
               RowInv', TypeOK'
        PROVE  Invariant'
    <2>1. /\ \A u \in Tabs \ {t} : TabInv(u)'
          /\ \A u \in Tasks \ {t} : TaskInv(u)'
      BY <1>4, <1>5, <1>6, <1>7, Others
    <2>2. TabInv(t)'
      BY <1>4 DEF TabInv
    <2> QED
      BY <1>7, <2>1, <2>2, ActorFacts DEF Invariant
  <1>8. CASE Commit(t)
    <2>1. PICK new \in State : new = q.new
      BY <1>3 DEF Request
    <2>2. /\ row' = new /\ lost' \in BOOLEAN /\ stale' \in SUBSET (Tabs \cup Tasks)
          /\ ~lost' => ~lost /\ t \notin stale
          /\ \A u \in Active \ {t} : u \notin stale' => row' = row /\ u \notin stale
      BY <1>2, <1>8, <2>1, SaveFacts DEF Commit
    <2>3. checks' = IF lost' THEN 0 ELSE IF q.counts THEN checks + 1 ELSE checks
      BY <1>2, <1>8 DEF Commit, CountChecks
    <2>4. checks' \in Nat
      BY <1>1, <2>3
    <2>5. TypeOK'
      BY <1>1, <1>4, <1>5, <2>2, <2>4 DEF TypeOK, Request
    <2>6. ASSUME ~lost'
          PROVE  ~lost /\ TabTracks(q) /\ Load(row).attempts = checks
      BY <1>3, <2>2, <2>6 DEF Invariant, RowInv
    <2>7. ~lost' => new.attempts = checks'
      BY <1>1, <2>1, <2>3, <2>6 DEF TabTracks
    <2>8. ~lost' /\ ~Rescoring' => Graded(new)
      BY <1>5, <2>1, <2>6 DEF Invariant, RowInv, TabTracks, Rescoring
    <2>9. ~lost' /\ ~overtaken' /\ new.map.key # None => Queued(new.map.key)'
      BY <1>3, <1>5, <1>6, <2>1, <2>6 DEF Invariant, RowInv, TabTracks, TabGood
    <2>10. Good(new)'
      BY <1>3, <1>6, <2>1, GoodKept DEF TabGood
    <2>11. RowInv'
      BY <1>5, <2>2, <2>7, <2>8, <2>9, <2>10, RowSaved DEF Sent
    <2> QED
      BY <1>7, <2>2, <2>5, <2>11
  <1>9. CASE Rollback(t)
    <2>1. UNCHANGED <<row, checks, lost>> /\ stale' = stale \ {t}
      BY <1>9 DEF Rollback
    <2>2. TypeOK'
      BY <1>1, <1>4, <1>5, <2>1 DEF TypeOK, Request
    <2>3. Good(Load(row))'
      BY <1>6, <2>1, GoodKept DEF Invariant, RowInv
    <2>4. RowInv'
      BY <1>5, <1>6, <2>1, <2>3 DEF Invariant, RowInv, Rescoring, Sent
    <2> QED
      BY <1>7, <2>1, <2>2, <2>4
  <1> QED
    BY <1>8, <1>9

-----------------------------------------------------------------------------
(***************************************************************************)
(* The grader answers.                                                     *)
(***************************************************************************)
\* An answer counts for the entry of its key; after it that key is gone.
LEMMA UpdateFacts ==
    ASSUME Invariant, NEW x \in State, Good(x), NEW m \in Sent, NEW valid \in BOOLEAN
    PROVE  \E y \in State :
              /\ y = UpdateScore(x, m, valid)
              /\ y.attempts = x.attempts /\ y.done = x.done /\ y.answers = x.answers
              /\ MapGood(y.map)
              /\ y.map.key # None => y.map.key = x.map.key /\ y.map.key # m.key
  <1>1. /\ m \in Submission /\ m.key # None /\ m.ans \in Answers /\ version \in Versions
        /\ x.map \in CorrectMap
    BY AnswersAssumption DEF Invariant, TypeOK, Submission, Sent, State
  <1>2. ASSUME NEW score \in Score,
               ~clash => (score # None => score.ans = x.map.checked)
        PROVE  \E y \in State :
                  /\ y = WithScore(x, score)
                  /\ y.attempts = x.attempts /\ y.done = x.done /\ y.answers = x.answers
                  /\ MapGood(y.map) /\ y.map.key = None
    <2>1. PICK e : e = [x.map EXCEPT !.score = score, !.key = None]
      OBVIOUS
    <2>2. e \in CorrectMap /\ e.score = score /\ e.key = None /\ e.checked = x.map.checked
      BY <1>1, <2>1 DEF CorrectMap
    <2>3. PICK y : y = [x EXCEPT !.map = e]
      OBVIOUS
    <2>4. /\ y \in State /\ y.map = e
          /\ y.attempts = x.attempts /\ y.done = x.done /\ y.answers = x.answers
      BY <2>2, <2>3 DEF State
    <2>5. y = WithScore(x, score)
      BY <1>1, <2>1, <2>3 DEF WithScore, State, CorrectMap
    <2>6. \A g \in Sent : g.key # None
      BY AnswersAssumption DEF Invariant, TypeOK, Submission, Sent
    <2>7. MapGood(e)
      BY <1>2, <2>2, <2>6 DEF MapGood
    <2> QED
      BY <2>2, <2>4, <2>5, <2>7
  <1>3. CASE ~valid
    <2>1. None \in Score
      BY DEF Score
    <2> QED
      BY <1>2, <1>3, <2>1 DEF UpdateScore
  <1>4. CASE valid /\ x.map.key = m.key
    <2>1. PICK score : score = [ans |-> m.ans, ver |-> version]
      OBVIOUS
    <2>2. score \in Score /\ score.ans = m.ans
      BY <1>1, <2>1 DEF Score
    <2>3. ~clash => score.ans = x.map.checked
      BY <1>4, <2>2 DEF Good, MapGood
    <2>4. UpdateScore(x, m, valid) = WithScore(x, score)
      BY <1>4, <2>1 DEF UpdateScore
    <2> QED
      BY <1>2, <2>2, <2>3, <2>4
  <1>5. CASE valid /\ x.map.key # m.key
    BY <1>5 DEF UpdateScore, Good
  <1> QED
    BY <1>3, <1>4, <1>5

\* The callback of the grader keeps the invariant.
LEMMA GraderAnswers ==
    ASSUME Invariant, NEW m \in Sent, NEW valid \in BOOLEAN, XqueueCallback(m, valid)
    PROVE  Invariant'
  <1>1. TypeOK /\ checks \in Nat
    BY DEF Invariant, TypeOK
  <1>2. PICK x \in State : x = Load(row)
    BY <1>1, LoadFacts
  <1>3. Good(x)
    BY <1>2 DEF Invariant, RowInv
  <1>4. PICK y \in State :
           /\ y = UpdateScore(x, m, valid)
           /\ y.attempts = x.attempts /\ y.done = x.done /\ y.answers = x.answers
           /\ MapGood(y.map)
           /\ y.map.key # None => y.map.key = x.map.key /\ y.map.key # m.key
    BY <1>3, UpdateFacts
  <1>5. PICK new \in State :
           /\ new = PublishGrade(y) /\ Graded(new)
           /\ new.attempts = y.attempts /\ new.done = y.done /\ new.answers = y.answers
           /\ new.map = y.map
    BY PublishFacts
  <1>6. /\ Save(None, new) /\ CountChecks(checks)
        /\ grader' = grader \ {m} /\ answered' = answered \cup {m}
        /\ overtaken' = (overtaken \/ \E t \in Tabs : tab[t] # Idle /\ tab[t].sent = m.key)
        /\ UNCHANGED <<problem, version, tab, task, used, clash>>
    BY <1>2, <1>4, <1>5 DEF XqueueCallback
  <1>7. /\ row' = new /\ lost' \in BOOLEAN /\ stale' \in SUBSET (Tabs \cup Tasks)
        /\ ~lost' => ~lost
        /\ \A u \in Active \ {None} : u \notin stale' => row' = row /\ u \notin stale
    BY <1>6, SaveFacts
  <1>8. checks' = IF lost' THEN 0 ELSE checks
    BY <1>6 DEF CountChecks
  <1>9. TypeOK'
    <2>1. checks' \in Nat
      BY <1>1, <1>8
    <2>2. overtaken' \in BOOLEAN
      BY <1>1, <1>6 DEF TypeOK
    <2> QED
      BY <1>1, <1>6, <1>7, <2>1, <2>2 DEF TypeOK, Sent
  <1>10. \A e : MapGood(e) => MapGood(e)'
    BY <1>6, MapsKept DEF Sent
  <1>11. \A k : k # m.key /\ Queued(k) => Queued(k)'
    BY <1>6 DEF Queued
  <1>12. /\ \A u \in Tabs \ {None} : TabInv(u)'
         /\ \A u \in Tasks \ {None} : TaskInv(u)'
    BY <1>6, <1>7, <1>10, <1>11, Others
  <1>13. Good(new)'
    <2>1. Good(new)
      BY <1>3, <1>4, <1>5 DEF Good
    <2> QED
      BY <1>10, <2>1, GoodKept
  <1>14. ~lost' => new.attempts = checks'
    BY <1>2, <1>4, <1>5, <1>7, <1>8 DEF Invariant, RowInv
  <1>15. ~lost' /\ ~overtaken' /\ new.map.key # None => Queued(new.map.key)'
    BY <1>2, <1>4, <1>5, <1>6, <1>7, <1>11 DEF Invariant, RowInv
  <1>16. RowInv'
    BY <1>5, <1>6, <1>7, <1>13, <1>14, <1>15, RowSaved DEF Sent
  <1> QED
    BY <1>9, <1>12, <1>16, ActorFacts DEF Invariant

-----------------------------------------------------------------------------
(***************************************************************************)
(* Instructor tasks.                                                       *)
(***************************************************************************)
\* A task that reads the row keeps the invariant.
LEMMA TaskReading ==
    ASSUME Invariant, NEW t \in Tasks, RescoreReads(t) \/ ResetReads(t) \/ DeleteReads(t)
    PROVE  Invariant'
  <1>1. TypeOK /\ row \in State /\ Load(row) = row
    BY LoadFacts DEF Invariant, TypeOK, RescoreReads, ResetReads, DeleteReads, TaskReads
  <1>2. Good(row)
    BY <1>1 DEF Invariant, RowInv
  <1>3. row.map \in CorrectMap /\ MapGood(row.map)
    BY <1>2 DEF Good, MapGood
  <1>4. ASSUME NEW kind \in {"rescore", "reset", "delete"}, NEW new \in State \cup {NoRow},
               NEW map \in CorrectMap,
               kind # "delete" => Good(new) /\ MapGood(map),
               kind = "rescore" => /\ Graded(new) /\ new.map.key = None
                                   /\ new.attempts = row.attempts /\ map.key = row.map.key,
               kind = "reset" => /\ new.attempts = 0 /\ new.map = row.map
                                 /\ Graded(row) => Graded(new),
               TaskReads(t, kind, new, map)
        PROVE  Invariant'
    <2>1. PICK q : /\ q = [pc |-> kind, new |-> new, map |-> map]
                   /\ task' = [task EXCEPT ![t] = q]
      BY <1>4 DEF TaskReads
    <2>2. q \in Execution /\ q.pc = kind /\ q.new = new /\ q.map = map
      BY <2>1 DEF Execution
    <2>3. TaskGood(q) /\ TaskTracks(q)
      BY <1>1, <1>4, <2>2 DEF TaskGood, TaskTracks
    <2>4. q.pc # "rescored"
      BY <2>2
    <2> QED
      BY <1>4, <2>1, <2>2, <2>3, <2>4, TaskBegins DEF TaskReads
  <1>5. CASE RescoreReads(t)
    <2>1. row.done /\ row.answers # None /\ row.answers \in Answers /\ version \in Versions
      BY <1>1, <1>2, <1>5 DEF RescoreReads, Good, State, TypeOK
    <2>2. PICK score : score = [ans |-> row.answers, ver |-> version]
      OBVIOUS
    <2>3. score \in Score /\ score.ans = row.answers
      BY <2>1, <2>2 DEF Score
    <2>4. PICK e : e = [checked |-> row.answers, key |-> None, score |-> score]
      OBVIOUS
    <2>5. e \in CorrectMap /\ e.checked = row.answers /\ e.key = None /\ e.score = score
      BY <2>1, <2>3, <2>4 DEF CorrectMap
    <2>6. \A g \in Sent : g.key # None
      BY <1>1, AnswersAssumption DEF TypeOK, Submission, Sent
    <2>7. MapGood(e)
      BY <2>3, <2>5, <2>6 DEF MapGood
    <2>8. PICK y : y = [row EXCEPT !.map = e]
      OBVIOUS
    <2>9. /\ y \in State /\ y.map = e /\ y.attempts = row.attempts
          /\ y.done = row.done /\ y.answers = row.answers
      BY <1>1, <2>5, <2>8 DEF State
    <2>10. PICK new \in State :
              /\ new = PublishGrade(y) /\ Graded(new)
              /\ new.attempts = y.attempts /\ new.done = y.done /\ new.answers = y.answers
              /\ new.map = y.map
      BY <2>9, PublishFacts
    <2>11. Good(new)
      BY <1>2, <2>7, <2>9, <2>10 DEF Good
    <2>12. TaskReads(t, "rescore", new, row.map)
      BY <1>5, <2>2, <2>4, <2>8, <2>10 DEF RescoreReads, Rescored
    <2> QED
      BY <1>3, <1>4, <2>5, <2>9, <2>10, <2>11, <2>12
  <1>6. CASE ResetReads(t)
    <2>1. PICK new : new = [row EXCEPT !.attempts = 0]
      OBVIOUS
    <2>2. /\ new \in State /\ new.attempts = 0 /\ new.done = row.done
          /\ new.answers = row.answers /\ new.map = row.map /\ new.grade = row.grade
      BY <1>1, <2>1 DEF State
    <2>3. 0 <= MaxAttempts
      BY MaxAttemptsAssumption
    <2>4. Good(new) /\ (Graded(row) => Graded(new))
      BY <1>2, <2>2, <2>3 DEF Good, Graded, GetScore
    <2>5. TaskReads(t, "reset", new, NoMap)
      BY <1>6, <2>1 DEF ResetReads
    <2> QED
      BY <1>1, <1>4, <2>2, <2>4, <2>5, FreshGood, LoadFacts
  <1>7. CASE DeleteReads(t)
    BY <1>4, <1>7, LoadFacts DEF DeleteReads
  <1> QED
    BY <1>5, <1>6, <1>7

\* What a task does to the rest when it goes on or ends.
LEMMA TaskStops ==
    ASSUME Invariant, NEW t \in Tasks, NEW q \in Execution \cup {Idle},
           task' = [task EXCEPT ![t] = q],
           UNCHANGED <<problem, version, tab, grader, answered, used, overtaken, clash>>,
           \A u \in Active \ {t} : u \notin stale' => row' = row /\ u \notin stale,
           row' \in State \cup {NoRow}, stale' \in SUBSET (Tabs \cup Tasks),
           checks' \in Nat, lost' \in BOOLEAN,
           RowInv', q # Idle => TaskGood(q) /\ TaskTracks(q)'
    PROVE  Invariant'
  <1>1. TypeOK
    BY DEF Invariant
  <1>2. /\ task' \in [Tasks -> Execution \cup {Idle}] /\ task'[t] = q
        /\ \A u \in Tasks \ {t} : task'[u] = task[u]
    BY <1>1, ReplaceTask
  <1>3. TypeOK'
    BY <1>1, <1>2 DEF TypeOK, Execution
  <1>4. (\A m : MapGood(m) => MapGood(m)') /\ (\A k : Queued(k) => Queued(k)')
    BY MapsKept DEF Queued, Sent
  <1>5. /\ \A u \in Tabs \ {t} : TabInv(u)'
        /\ \A u \in Tasks \ {t} : TaskInv(u)'
    BY <1>2, <1>4, Others
  <1>6. TaskInv(t)'
    BY <1>2, <1>4, GoodKept DEF TaskInv, TaskGood
  <1> QED
    BY <1>3, <1>5, <1>6, ActorFacts DEF Invariant

\* A task that saves its copy, deletes the row or dies keeps the invariant.
LEMMA TaskSaving ==
    ASSUME Invariant, NEW t \in Tasks,
           \/ RescoreGrades(t) \/ RescoreSaves(t) \/ ResetSaves(t) \/ Deletes(t) \/ TaskDies(t)
    PROVE  Invariant'
  <1>1. /\ TypeOK /\ task[t] # Idle /\ checks \in Nat /\ lost \in BOOLEAN
        /\ row \in State \cup {NoRow} /\ stale \in SUBSET (Tabs \cup Tasks)
    BY DEF Invariant, TypeOK, RescoreGrades, RescoreSaves, ResetSaves, Deletes, TaskDies, Idle
  <1>2. PICK q : q = task[t]
    OBVIOUS
  <1>3. q \in Execution /\ TaskGood(q) /\ (t \notin stale => TaskTracks(q))
    BY <1>1, <1>2 DEF Invariant, TaskInv, TaskGood
  <1>4. UNCHANGED <<problem, version, tab, grader, answered, used, overtaken, clash>>
    BY DEF RescoreGrades, RescoreSaves, ResetSaves, Deletes, TaskDies
  <1>5. (\A m : MapGood(m) => MapGood(m)') /\ (\A k : Queued(k)' = Queued(k))
    BY <1>4, MapsKept DEF Queued, Sent
  <1>6. task \in [Tasks -> Execution \cup {Idle}]
    BY <1>1 DEF TypeOK, Execution
  <1>7. ASSUME q.pc # "rescored", task' = [task EXCEPT ![t] = Idle]
        PROVE  Rescoring' = Rescoring
    BY <1>2, <1>6, <1>7 DEF Rescoring, Idle
  <1>8. CASE RescoreGrades(t)
    <2>1. /\ q.pc = "rescore" /\ Good(q.new) /\ MapGood(q.map) /\ q.new \in State
          /\ q.map \in CorrectMap /\ Graded(q.new) /\ q.new.map.key = None
      BY <1>2, <1>3, <1>8 DEF RescoreGrades, TaskGood, Good, MapGood
    <2>2. PICK new : new = [q.new EXCEPT !.map = q.map]
      OBVIOUS
    <2>3. /\ new \in State /\ new.map = q.map /\ new.attempts = q.new.attempts
          /\ new.done = q.new.done /\ new.answers = q.new.answers
      BY <2>1, <2>2 DEF State
    <2>4. /\ row' = new /\ lost' \in BOOLEAN /\ stale' \in SUBSET (Tabs \cup Tasks)
          /\ ~lost' => ~lost /\ t \notin stale
          /\ \A u \in Active \ {t} : u \notin stale' => row' = row /\ u \notin stale
      BY <1>2, <1>8, <2>2, SaveFacts DEF RescoreGrades
    <2>5. checks' = IF lost' THEN 0 ELSE checks
      BY <1>8 DEF RescoreGrades, CountChecks
    <2>6. PICK r : r = [q EXCEPT !.pc = "rescored"] /\ task' = [task EXCEPT ![t] = r]
      BY <1>2, <1>8 DEF RescoreGrades
    <2>7. r \in Execution /\ r.pc = "rescored" /\ r.new = q.new /\ r.map = q.map
      BY <1>3, <2>6 DEF Execution
    <2>8. Rescoring'
      BY <1>6, <2>6, <2>7 DEF Rescoring
    <2>9. Good(new)'
      <3>1. Good(new)
        BY <2>1, <2>3 DEF Good
      <3> QED
        BY <1>5, <3>1, GoodKept
    <2>10. ~lost' => TaskTracks(q) /\ ~lost /\ Load(row).attempts = checks
      BY <1>3, <2>4 DEF Invariant, RowInv
    <2>11. ~lost' => new.attempts = checks'
      BY <2>1, <2>3, <2>5, <2>10 DEF TaskTracks
    <2>12. ~lost' /\ ~overtaken' /\ new.map.key # None => Queued(new.map.key)'
      BY <1>4, <1>5, <2>1, <2>3, <2>10 DEF Invariant, RowInv, TaskTracks
    <2>13. RowInv'
      BY <1>4, <2>3, <2>4, <2>8, <2>9, <2>11, <2>12, RowSaved DEF Sent
    <2>14. TaskGood(r)
      BY <2>1, <2>7 DEF TaskGood
    <2>15. TaskTracks(r)'
      <3>1. Load(row)' = new
        BY <2>3, <2>4, LoadFacts
      <3> QED
        BY <2>3, <2>7, <3>1 DEF TaskTracks
    <2>16. checks' \in Nat
      BY <1>1, <2>5
    <2> QED
      BY <1>4, <2>3, <2>4, <2>6, <2>7, <2>13, <2>14, <2>15, <2>16, TaskStops
  <1>9. CASE RescoreSaves(t) \/ ResetSaves(t)
    <2>1. /\ q.pc \in {"rescored", "reset"} /\ Good(q.new) /\ q.new \in State
          /\ q.pc = "rescored" => Graded(q.new) /\ q.new.map.key = None
          /\ q.pc = "reset" => q.new.attempts = 0
      BY <1>2, <1>3, <1>9 DEF RescoreSaves, ResetSaves, TaskGood, Good
    <2>2. PICK new \in State : new = q.new
      BY <2>1
    <2>3. /\ row' = new /\ lost' \in BOOLEAN /\ stale' \in SUBSET (Tabs \cup Tasks)
          /\ ~lost' => ~lost /\ t \notin stale
          /\ \A u \in Active \ {t} : u \notin stale' => row' = row /\ u \notin stale
      BY <1>2, <1>9, <2>2, SaveFacts DEF RescoreSaves, ResetSaves
    <2>4. /\ q.pc = "rescored" => checks' = IF lost' THEN 0 ELSE checks
          /\ q.pc = "reset" => checks' = 0
      BY <1>2, <1>9 DEF RescoreSaves, ResetSaves, CountChecks
    <2>5. PICK r \in Execution \cup {Idle} : r = Idle /\ task' = [task EXCEPT ![t] = r]
      BY <1>9 DEF RescoreSaves, ResetSaves
    <2>6. ~lost' => TaskTracks(q) /\ ~lost /\ Load(row).attempts = checks
      BY <1>3, <2>3 DEF Invariant, RowInv
    <2>7. ~lost' => new.attempts = checks'
      BY <2>1, <2>2, <2>4, <2>6 DEF TaskTracks
    <2>8. ~lost' /\ ~Rescoring' => Graded(new)
      BY <1>7, <2>1, <2>2, <2>5, <2>6 DEF Invariant, RowInv, TaskTracks
    <2>9. ~lost' /\ ~overtaken' /\ new.map.key # None => Queued(new.map.key)'
      BY <1>4, <1>5, <2>1, <2>2, <2>6 DEF Invariant, RowInv, TaskTracks
    <2>10. Good(new)'
      BY <1>5, <2>1, <2>2, GoodKept
    <2>11. RowInv'
      BY <1>4, <2>3, <2>7, <2>8, <2>9, <2>10, RowSaved DEF Sent
    <2>12. checks' \in Nat
      BY <1>1, <2>1, <2>4
    <2> QED
      BY <1>4, <2>3, <2>5, <2>11, <2>12, TaskStops
  <1>10. CASE Deletes(t)
    <2>1. /\ q.pc = "delete" /\ row' = NoRow /\ checks' = 0 /\ lost' = lost
          /\ stale' = (IF row # NoRow THEN Active ELSE stale) \ {t}
      BY <1>2, <1>10 DEF Deletes
    <2>2. PICK r \in Execution \cup {Idle} : r = Idle /\ task' = [task EXCEPT ![t] = r]
      BY <1>10 DEF Deletes
    <2>3. PICK fresh \in State : fresh = FreshState /\ Load(row)' = fresh
      BY <2>1, LoadFacts
    <2>4. /\ Good(fresh)' /\ Graded(fresh) /\ fresh.attempts = 0 /\ fresh.map.key = None
      BY <1>1, <1>5, <2>3, FreshGood, GoodKept, LoadFacts
    <2>5. RowInv'
      BY <1>4, <2>1, <2>3, <2>4 DEF Invariant, RowInv, Graded, Good, Sent
    <2>6. \A u \in Active \ {t} : u \notin stale' => row' = row /\ u \notin stale
      BY <2>1
    <2>7. stale' \in SUBSET (Tabs \cup Tasks)
      BY <1>1, <2>1, ActorFacts
    <2>8. checks' \in Nat /\ row' \in State \cup {NoRow} /\ lost' \in BOOLEAN
      BY <1>1, <2>1
    <2> QED
      BY <1>4, <2>2, <2>5, <2>6, <2>7, <2>8, TaskStops
  <1>11. CASE TaskDies(t)
    <2>1. /\ lost' = (lost \/ q.pc = "rescored") /\ stale' = stale \ {t} /\ row' = row
          /\ checks' = IF lost' THEN 0 ELSE checks
      BY <1>2, <1>11 DEF TaskDies, CountChecks
    <2>2. PICK r \in Execution \cup {Idle} : r = Idle /\ task' = [task EXCEPT ![t] = r]
      BY <1>11 DEF TaskDies
    <2>3. Good(Load(row))'
      BY <1>5, <2>1, GoodKept DEF Invariant, RowInv
    <2>4. RowInv'
      BY <1>4, <1>5, <1>7, <2>1, <2>2, <2>3 DEF Invariant, RowInv, Sent
    <2>5. checks' \in Nat /\ lost' \in BOOLEAN
      BY <1>1, <2>1
    <2>6. stale' \in SUBSET (Tabs \cup Tasks)
      BY <1>1, <2>1
    <2> QED
      BY <1>1, <1>4, <2>1, <2>2, <2>4, <2>5, <2>6, TaskStops
  <1> QED
    BY <1>8, <1>9, <1>10, <1>11

-----------------------------------------------------------------------------
(***************************************************************************)
(* The theorems.                                                           *)
(***************************************************************************)
\* Initially there is no row, and nobody holds a copy.
LEMMA InitCorrect == Init => Invariant
  <1> SUFFICES ASSUME Init PROVE Invariant
    OBVIOUS
  <1>1. TypeOK
    BY DEF Init, TypeOK
  <1>2. Load(row) = FreshState /\ Good(FreshState) /\ Graded(FreshState)
    BY <1>1, FreshGood, LoadFacts DEF Init
  <1>3. RowInv
    BY <1>2, LoadFacts DEF Init, RowInv, Sent
  <1> QED
    BY <1>1, <1>3 DEF Init, Invariant, TabInv, TaskInv

\* Every step keeps the invariant.
LEMMA NextCorrect == Invariant /\ [Next]_vars => Invariant'
  <1> SUFFICES ASSUME Invariant, [Next]_vars PROVE Invariant'
    OBVIOUS
  <1>1. ASSUME UNCHANGED <<row, tab, task, stale, grader, answered, used, checks, lost, overtaken, clash>>,
               problem' \in Kinds, version' \in Versions
        PROVE  Invariant'
    <2>1. (\A m : MapGood(m) => MapGood(m)') /\ (\A k : Queued(k)' = Queued(k))
      BY <1>1, MapsKept DEF Queued, Sent
    <2>2. TypeOK'
      BY <1>1 DEF Invariant, TypeOK
    <2>3. Good(Load(row))'
      BY <1>1, <2>1, GoodKept DEF Invariant, RowInv
    <2>4. RowInv'
      BY <1>1, <2>1, <2>3 DEF Invariant, RowInv, Rescoring, Sent
    <2>5. /\ \A u \in Tabs \ {None} : TabInv(u)'
          /\ \A u \in Tasks \ {None} : TaskInv(u)'
      BY <1>1, <2>1, Others
    <2> QED
      BY <2>2, <2>4, <2>5, ActorFacts DEF Invariant
  <1>2. ASSUME EditProblem
        PROVE  Invariant'
    BY <1>1, <1>2 DEF EditProblem, Invariant, TypeOK
  <1>3. ASSUME UNCHANGED vars
        PROVE  Invariant'
    BY <1>1, <1>3 DEF vars, Invariant, TypeOK
  <1> QED
    BY <1>2, <1>3, StudentReads, StudentEnds, GraderAnswers, TaskReading, TaskSaving
    DEF Next, StudentStep, TaskStep, Sent

\* Every variable keeps its type.
THEOREM TypeCorrect == Spec => []TypeOK
  <1>1. Invariant => TypeOK
    BY DEF Invariant
  <1> QED
    BY <1>1, InitCorrect, NextCorrect, PTL DEF Spec

\* No more attempts are recorded than allowed, and they are the checks graded
\* while no save overwrote a change.
THEOREM AttemptsCorrect == Spec => []AttemptsCountChecks
  <1>1. Invariant => AttemptsCountChecks
    BY LoadFacts DEF Invariant, RowInv, TypeOK, Good, AttemptsCountChecks
  <1> QED
    BY <1>1, InitCorrect, NextCorrect, PTL DEF Spec

\* A score is that of the answer it is shown for.
THEOREM ScoreCorrect == Spec => []ScoreIsOfItsAnswer
  <1>1. Invariant => ScoreIsOfItsAnswer
    BY LoadFacts DEF Invariant, RowInv, TypeOK, Good, MapGood, ScoreIsOfItsAnswer
  <1> QED
    BY <1>1, InitCorrect, NextCorrect, PTL DEF Spec

\* The grade of a row is that of its state.
THEOREM GradeCorrect == Spec => []GradeFollowsState
  <1>1. Invariant => GradeFollowsState
    BY LoadFacts DEF Invariant, RowInv, TypeOK, Graded, GradeFollowsState
  <1> QED
    BY <1>1, InitCorrect, NextCorrect, PTL DEF Spec

\* What waits for the grader will be answered.
THEOREM QueuedCorrect == Spec => []QueuedIsPending
  <1>1. Invariant => QueuedIsPending
    BY LoadFacts DEF Invariant, RowInv, TypeOK, Queued, QueuedIsPending
  <1> QED
    BY <1>1, InitCorrect, NextCorrect, PTL DEF Spec

=============================================================================
