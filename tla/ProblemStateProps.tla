--------------------------- MODULE ProblemStateProps ---------------------------
(***************************************************************************)
(* What holds of a student's problem although everybody saves whole rows.  *)
(***************************************************************************)
EXTENDS ProblemState

\* Types of all variables.
TypeOK ==
    /\ problem \in Kinds
    /\ version \in Versions
    /\ row \in State \cup {NoRow}
    /\ tab \in [Tabs -> [pc : {"open"}, new : State, creates : BOOLEAN,
                         sent : Keys \cup {None}, counts : BOOLEAN] \cup {Idle}]
    /\ task \in [Tasks -> [pc : {"rescore", "rescored", "reset", "delete"},
                           new : State \cup {NoRow}, map : CorrectMap] \cup {Idle}]
    /\ stale \in SUBSET (Tabs \cup Tasks)
    /\ grader \in SUBSET Submission /\ answered \in SUBSET Submission
    /\ used \in SUBSET Keys
    /\ checks \in Nat
    /\ lost \in BOOLEAN /\ overtaken \in BOOLEAN /\ clash \in BOOLEAN

\* However requests, tasks and stale copies interleave, no more attempts are
\* recorded than the problem allows; and while no save has overwritten another's
\* change, they are the checks that were graded since attempts were last reset:
\* saving, resetting, rescoring and the grader's answers do not count, and a
\* check that is rolled back does not either.
AttemptsCountChecks ==
    /\ row # NoRow => row.attempts <= MaxAttempts
    /\ ~lost => Load(row).attempts = checks

\* The score shown for a submission is that of the answer submitted, however
\* late, twice or out of order the grader's answers come, and whichever of two
\* overlapping submissions is recorded, unless both got the same key.
ScoreIsOfItsAnswer ==
    row # NoRow /\ ~clash /\ row.map.score # None => row.map.score.ans = row.map.checked

Rescoring == \E t \in Tasks : task[t].pc = "rescored"

\* The grade in the row, which progress pages and grading use, is the score of
\* the state next to it for a problem that is done, unless a save was lost or a
\* rescoring is between its two saves.
GradeFollowsState ==
    row # NoRow /\ row.done /\ ~lost /\ ~Rescoring => row.grade = GetScore(row)

\* A problem shown as being graded is waiting for an answer that will come: no
\* queue key survives the submission it stands for, unless a save was lost or
\* the grader was faster than the commit of the submission.
QueuedIsPending ==
    row # NoRow /\ row.map.key # None /\ ~lost /\ ~overtaken =>
        \E m \in grader : m.key = row.map.key

=============================================================================
