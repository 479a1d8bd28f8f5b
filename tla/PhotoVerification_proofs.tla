------------------------ MODULE PhotoVerification_proofs ------------------------
(***************************************************************************)
(* Theorems about PhotoVerification, for any number of windows, attempts,  *)
(* submissions and results under way.                                      *)
(***************************************************************************)
EXTENDS PhotoVerificationProps, TLAPS

-----------------------------------------------------------------------------
AllWindows == Windows \cup {Initial}

Submission == [pc : {"read", "posted"}, window : AllWindows, got : BOOLEAN]

\* What is approved has passed, what has passed was created, and the last attempt
\* of a window is one of that window.
AttemptsSound ==
    /\ \A i \in Ids : attempts[i].status = "approved" => i \in passed
    /\ \A i \in passed : attempts[i] # NoAttempt
    /\ \A w \in AllWindows : last[w] # 0 => last[w] \in Of(w)

\* A copy that is submitted is of the window of its attempt.
CopiesSound ==
    \A i \in Ids : held[i] # NotHeld /\ attempts[i] # NoAttempt =>
        held[i].window = attempts[i].window

Final == {"approved", "denied"}

\* A result under way is about an attempt, one that passed if it says so; and an
\* error was reported before the attempt had a result, if it is not outdated.
AnswersSound ==
    \A a \in answers :
        /\ attempts[a[1]] # NoAttempt
        /\ a[2] = "approved" => a[1] \in passed
        /\ a[2] = "must_retry" /\ attempts[a[1]].status \in Final => a \in outdated

Invariant == TypeOK /\ AttemptsSound /\ CopiesSound /\ AnswersSound

\* Attempts are not deleted and stay in their window; what has passed has passed.
Kept ==
    /\ \A i \in Ids : attempts[i] # NoAttempt =>
           attempts'[i] # NoAttempt /\ attempts'[i].window = attempts[i].window
    /\ passed \subseteq passed'

-----------------------------------------------------------------------------
\* An attempt that was created is a record of the type.
LEMMA AttemptTypes ==
    ASSUME TypeOK, NEW i \in Ids, attempts[i] # NoAttempt
    PROVE  attempts[i] \in Attempt
  BY DEF TypeOK

\* A submission under way, too.
LEMMA HeldTypes ==
    ASSUME TypeOK, NEW i \in Ids, held[i] # NotHeld
    PROVE  held[i] \in Submission
  BY DEF TypeOK, Submission, AllWindows

\* A status other than "none" is that of an attempt.
LEMMA StatusOfAttempt ==
    ASSUME TypeOK, NEW i \in Ids, attempts[i].status \in Status
    PROVE  attempts[i] \in Attempt /\ attempts[i] # NoAttempt
  <1>1. NoAttempt.status = "none" /\ "none" \notin Status
    BY DEF NoAttempt, Status
  <1> QED
    BY <1>1, AttemptTypes

\* Saving an attempt: created now, or kept in its window.
LEMMA SaveStep ==
    ASSUME Invariant, NEW i \in Ids, NEW w \in AllWindows, NEW status \in Status,
           SaveAttempt(i, w, status),
           attempts[i] = NoAttempt \/ attempts[i].window = w,
           passed' = passed, status = "approved" => i \in passed
    PROVE  /\ attempts' \in [Ids -> Attempt \cup {NoAttempt}]
           /\ last' \in [AllWindows -> Ids \cup {0}]
           /\ attempts'[i].window = w /\ attempts'[i].status = status
           /\ \A j \in Ids \ {i} : attempts'[j] = attempts[j]
           /\ AttemptsSound' /\ Kept
  <1> DEFINE new == [window |-> w, status |-> status]
  <1>1. new \in Attempt /\ new # NoAttempt /\ new.window = w /\ new.status = status
    BY DEF Attempt, NoAttempt, AllWindows
  <1>2. attempts' = [attempts EXCEPT ![i] = new] /\ last' = [last EXCEPT ![w] = i]
    BY DEF SaveAttempt
  <1> HIDE DEF new
  <1>3. /\ attempts \in [Ids -> Attempt \cup {NoAttempt}]
        /\ last \in [AllWindows -> Ids \cup {0}]
    BY DEF Invariant, TypeOK, AllWindows
  <1>4. /\ attempts' \in [Ids -> Attempt \cup {NoAttempt}] /\ attempts'[i] = new
        /\ \A j \in Ids \ {i} : attempts'[j] = attempts[j]
    BY <1>1, <1>2, <1>3
  <1>5. /\ last' \in [AllWindows -> Ids \cup {0}]
        /\ \A v \in AllWindows : last'[v] = IF v = w THEN i ELSE last[v]
    BY <1>2, <1>3
  <1>6. \A v \in AllWindows : Of(v) \subseteq Of(v)' /\ i \in Of(w)'
    BY <1>1, <1>4 DEF Of
  <1>7. AttemptsSound'
    <2>1. \A j \in Ids : attempts'[j].status = "approved" => j \in passed'
      BY <1>1, <1>4 DEF Invariant, AttemptsSound
    <2>2. \A j \in passed' : attempts'[j] # NoAttempt
      BY <1>1, <1>4 DEF Invariant, AttemptsSound, TypeOK
    <2>3. \A v \in AllWindows : last'[v] # 0 => last'[v] \in Of(v)'
      BY <1>5, <1>6 DEF Invariant, AttemptsSound
    <2> QED
      BY <2>1, <2>2, <2>3 DEF AttemptsSound
  <1>8. Kept
    BY <1>1, <1>4 DEF Kept
  <1> QED
    BY <1>1, <1>4, <1>5, <1>7, <1>8 DEF AllWindows

\* A step that makes no result final keeps those under way sound.
LEMMA AnswersKept ==
    ASSUME Invariant, Kept, UNCHANGED <<answers, outdated>>,
           \A i \in Ids : attempts'[i].status \in Final => attempts[i].status \in Final
    PROVE  AnswersSound'
  <1>1. \A a \in answers : a[1] \in Ids
    BY DEF Invariant, TypeOK
  <1> QED
    BY <1>1 DEF Invariant, AnswersSound, Kept

\* A step that saves no attempt.
LEMMA NoSave ==
    ASSUME Invariant, UNCHANGED <<attempts, last, answers, passed, outdated>>
    PROVE  AttemptsSound' /\ AnswersSound' /\ Kept
  <1>1. AttemptsSound' /\ Kept
    BY DEF Invariant, AttemptsSound, Kept, Of
  <1> QED
    BY <1>1, AnswersKept

\* Replacing one submission.
LEMMA HeldStep ==
    ASSUME Invariant, NEW i \in Ids, NEW r, held' = [held EXCEPT ![i] = r],
           r \in Submission, attempts'[i] # NoAttempt => r.window = attempts'[i].window,
           \A j \in Ids \ {i} : attempts'[j] = attempts[j]
    PROVE  held' \in [Ids -> Submission \cup {NotHeld}] /\ CopiesSound'
  <1>1. held \in [Ids -> Submission \cup {NotHeld}]
    BY DEF Invariant, TypeOK, Submission, AllWindows
  <1>2. \A j \in Ids : held'[j] = IF j = i THEN r ELSE held[j]
    BY <1>1
  <1> QED
    BY <1>1, <1>2 DEF Invariant, CopiesSound

\* Ending one.
LEMMA HeldFreed ==
    ASSUME Invariant, NEW i \in Ids, held' = [held EXCEPT ![i] = NotHeld],
           \A j \in Ids \ {i} : attempts'[j] = attempts[j]
    PROVE  held' \in [Ids -> Submission \cup {NotHeld}] /\ CopiesSound'
  <1>1. held \in [Ids -> Submission \cup {NotHeld}]
    BY DEF Invariant, TypeOK, Submission, AllWindows
  <1>2. \A j \in Ids : held'[j] = IF j = i THEN NotHeld ELSE held[j]
    BY <1>1
  <1> QED
    BY <1>1, <1>2 DEF Invariant, CopiesSound

\* Posting photos holds a copy of the window.
LEMMA PostStep ==
    ASSUME Invariant, NEW i \in Ids, NEW w \in AllWindows, Post(i, w),
           attempts[i] = NoAttempt \/ attempts[i].window = w,
           UNCHANGED <<attempts, last, expired, passed, answers, outdated>>
    PROVE  Invariant' /\ Kept
  <1>1. PICK got \in BOOLEAN :
           /\ held' = [held EXCEPT ![i] = [pc |-> "posted", window |-> w, got |-> got]]
           /\ known' = IF got THEN known \cup {i} ELSE known
    BY DEF Post
  <1>2. PICK r : r = [pc |-> "posted", window |-> w, got |-> got]
    OBVIOUS
  <1>3. r \in Submission /\ r.window = w
    BY <1>2 DEF Submission
  <1>4. held' \in [Ids -> Submission \cup {NotHeld}] /\ CopiesSound'
    BY <1>1, <1>2, <1>3, HeldStep
  <1>5. TypeOK'
    BY <1>1, <1>4 DEF Invariant, TypeOK, Submission, AllWindows
  <1> QED
    BY <1>4, <1>5, NoSave DEF Invariant

\* A result, or a new attempt, saves no submission; a final result makes the others
\* of its attempt outdated.
LEMMA ResultStep ==
    ASSUME Invariant, NEW i \in Ids, NEW w \in AllWindows, NEW status \in Status,
           SaveAttempt(i, w, status),
           attempts[i] = NoAttempt => held[i] = NotHeld,
           attempts[i] = NoAttempt \/ attempts[i].window = w,
           status = "approved" => i \in passed,
           UNCHANGED <<held, known, expired, passed>>,
           answers' \subseteq answers, outdated' \subseteq answers',
           outdated \cap answers' \subseteq outdated',
           status \in Final => \A a \in answers' : a[1] = i => a \in outdated'
    PROVE  Invariant' /\ Kept
  <1>1. /\ attempts' \in [Ids -> Attempt \cup {NoAttempt}]
        /\ last' \in [AllWindows -> Ids \cup {0}]
        /\ attempts'[i].window = w /\ attempts'[i].status = status
        /\ \A j \in Ids \ {i} : attempts'[j] = attempts[j]
        /\ AttemptsSound' /\ Kept
    BY SaveStep
  <1>2. TypeOK'
    BY <1>1 DEF Invariant, TypeOK, AllWindows
  <1>3. CopiesSound'
    BY <1>1 DEF Invariant, CopiesSound
  <1>4. AnswersSound'
    <2>1. \A a \in answers : a[1] \in Ids
      BY DEF Invariant, TypeOK
    <2> QED
      BY <1>1, <2>1 DEF Invariant, AnswersSound, Kept
  <1> QED
    BY <1>1, <1>2, <1>3, <1>4 DEF Invariant

\* A result is read: it is about an attempt, and an error finds it without a result.
LEMMA ReadStep ==
    ASSUME Invariant, NEW i \in Ids, NEW status \in {"must_retry", "approved", "denied"},
           attempts[i] # NoAttempt, answers' = answers \cup {<<i, status>>},
           status = "must_retry" => attempts[i].status \notin Final,
           passed' = IF status = "approved" THEN passed \cup {i} ELSE passed,
           UNCHANGED <<attempts, last, held, known, expired, outdated>>
    PROVE  Invariant' /\ Kept
  <1>1. TypeOK' /\ CopiesSound' /\ AttemptsSound' /\ Kept
    BY DEF Invariant, TypeOK, CopiesSound, AttemptsSound, Kept, Of
  <1>2. AnswersSound'
    BY DEF Invariant, AnswersSound
  <1> QED
    BY <1>1, <1>2 DEF Invariant

\* Initially there are no attempts.
LEMMA InitCorrect == Init => Invariant
  <1> SUFFICES ASSUME Init PROVE Invariant
    OBVIOUS
  <1>1. /\ \A i \in Ids : attempts[i] = NoAttempt /\ held[i] = NotHeld
        /\ \A w \in AllWindows : last[w] = 0
    BY DEF Init, AllWindows
  <1>2. NoAttempt.status # "approved"
    BY DEF NoAttempt
  <1>3. TypeOK
    BY DEF Init, TypeOK
  <1> QED
    BY <1>1, <1>2, <1>3 DEF Init, Invariant, AttemptsSound, CopiesSound, AnswersSound

\* Every step keeps the attempts sound, and their windows.
LEMMA NextCorrect == Invariant /\ [Next]_vars => Invariant' /\ Kept
  <1> SUFFICES ASSUME Invariant, [Next]_vars PROVE Invariant' /\ Kept
    OBVIOUS
  <1>1. TypeOK /\ Initial \in AllWindows
    BY DEF Invariant, AllWindows
  <1>2. \A i \in Ids, w \in AllWindows :
            i \in Of(w) <=> attempts[i] # NoAttempt /\ attempts[i].window = w
    BY DEF Of
  <1>3. \A i \in Ids : Submitted(i) => attempts[i] # NoAttempt /\ attempts[i].window \in AllWindows
    <2>1. SUFFICES ASSUME NEW i \in Ids, Submitted(i)
                   PROVE  attempts[i] # NoAttempt /\ attempts[i].window \in AllWindows
      OBVIOUS
    <2>2. attempts[i] \in Attempt /\ attempts[i] # NoAttempt
      BY <1>1, <2>1, StatusOfAttempt DEF Submitted, Status
    <2> QED
      BY <2>2 DEF Attempt, AllWindows
  <1>4. ASSUME NEW i \in Ids, CreateReady(i)
        PROVE  Invariant' /\ Kept
    <2>1. attempts[i] = NoAttempt /\ held[i] = NotHeld
      BY <1>4 DEF CreateReady, New
    <2>2. PICK status \in Status : SaveAttempt(i, Initial, status) /\ status \notin Final
      BY <1>4 DEF CreateReady, Status, Final
    <2>3. UNCHANGED <<held, known, expired, passed, answers, outdated>> /\ outdated \subseteq answers
      BY <1>1, <1>4 DEF CreateReady, TypeOK
    <2>4. status # "approved"
      BY <2>2 DEF Final
    <2> QED
      BY <1>1, <2>1, <2>2, <2>3, <2>4, ResultStep
  <1>5. ASSUME NEW i \in Ids, SubmitReady(i)
        PROVE  Invariant' /\ Kept
    BY <1>1, <1>2, <1>5, PostStep DEF SubmitReady
  <1>6. ASSUME NEW i \in Ids, NEW w \in AllWindows, Reverify(i, w)
        PROVE  Invariant' /\ Kept
    BY <1>6, PostStep DEF Reverify, New
  <1>7. ASSUME RetryReads
        PROVE  Invariant' /\ Kept
    <2> DEFINE copy(i) == [pc |-> "read", window |-> attempts[i].window, got |-> FALSE]
    <2>1. PICK failed \in SUBSET Ids :
             /\ \A i \in failed : attempts[i].status = "must_retry"
             /\ held' = [i \in Ids |-> IF i \in failed THEN copy(i) ELSE held[i]]
             /\ UNCHANGED <<attempts, last, known, expired, passed, answers, outdated>>
      BY <1>7 DEF RetryReads
    <2>2. \A i \in failed : copy(i) \in Submission /\ copy(i).window = attempts[i].window
      <3>1. SUFFICES ASSUME NEW i \in failed
                     PROVE  copy(i) \in Submission /\ copy(i).window = attempts[i].window
        OBVIOUS
      <3>2. attempts[i] \in Attempt
        BY <1>1, <2>1, <3>1, StatusOfAttempt DEF Status
      <3>3. attempts[i].window \in AllWindows
        BY <3>2 DEF Attempt, AllWindows
      <3> QED
        BY <3>3 DEF Submission
    <2> HIDE DEF copy
    <2>3. held' \in [Ids -> Submission \cup {NotHeld}]
      BY <1>1, <2>1, <2>2, HeldTypes
    <2>4. CopiesSound'
      BY <2>1, <2>2 DEF Invariant, CopiesSound
    <2>5. TypeOK'
      BY <1>1, <2>1, <2>3 DEF TypeOK, Submission, AllWindows
    <2> QED
      BY <2>1, <2>4, <2>5, NoSave DEF Invariant
  <1>8. ASSUME NEW i \in Ids, held[i] # NotHeld
        PROVE  /\ held[i].window \in AllWindows
               /\ attempts[i] = NoAttempt \/ attempts[i].window = held[i].window
    BY <1>1, <1>8, HeldTypes DEF Invariant, CopiesSound, Submission
  <1>9. ASSUME NEW i \in Ids, RetryPosts(i)
        PROVE  Invariant' /\ Kept
    <2>1. held[i] # NotHeld
      BY <1>9 DEF RetryPosts, NotHeld
    <2> QED
      BY <1>8, <1>9, <2>1, PostStep DEF RetryPosts
  <1>10. ASSUME NEW i \in Ids, SaveSubmission(i)
         PROVE  Invariant' /\ Kept
    <2>1. held[i] # NotHeld
      BY <1>10 DEF SaveSubmission, NotHeld
    <2>2. PICK status \in {"submitted", "must_retry"} : SaveAttempt(i, held[i].window, status)
      BY <1>10 DEF SaveSubmission
    <2>3. /\ attempts' \in [Ids -> Attempt \cup {NoAttempt}]
          /\ last' \in [AllWindows -> Ids \cup {0}]
          /\ attempts'[i].status = status
          /\ \A j \in Ids \ {i} : attempts'[j] = attempts[j]
          /\ AttemptsSound' /\ Kept
      BY <1>8, <1>10, <2>1, <2>2, SaveStep DEF SaveSubmission, Status
    <2>4. held' \in [Ids -> Submission \cup {NotHeld}] /\ CopiesSound'
      BY <1>10, <2>3, HeldFreed DEF SaveSubmission
    <2>5. TypeOK'
      BY <1>1, <1>10, <2>3, <2>4 DEF SaveSubmission, TypeOK, Submission, AllWindows
    <2>6. AnswersSound'
      BY <1>10, <2>2, <2>3, AnswersKept DEF SaveSubmission, Final
    <2> QED
      BY <2>3, <2>4, <2>5, <2>6 DEF Invariant
  <1>11. ASSUME NEW i \in Ids, SubmissionDies(i)
         PROVE  Invariant' /\ Kept
    <2>1. held' \in [Ids -> Submission \cup {NotHeld}] /\ CopiesSound'
      BY <1>11, HeldFreed DEF SubmissionDies
    <2>2. TypeOK'
      BY <1>1, <1>11, <2>1 DEF SubmissionDies, TypeOK, Submission, AllWindows
    <2> QED
      BY <1>11, <2>1, <2>2, NoSave DEF SubmissionDies, Invariant
  <1>12. ASSUME NEW i \in Ids, ResultsCallback(i)
         PROVE  Invariant' /\ Kept
    <2>1. attempts[i] # NoAttempt
      BY <1>3, <1>12 DEF ResultsCallback, Approve, Deny, SystemError, Answer
    <2>2. UNCHANGED <<attempts, last, held, known, expired, outdated>>
      BY <1>12 DEF ResultsCallback
    <2>3. CASE Approve(i)
      BY <2>1, <2>2, <2>3, ReadStep DEF Approve, Answer
    <2>4. CASE Deny(i)
      BY <2>1, <2>2, <2>4, ReadStep DEF Deny, Answer
    <2>5. CASE SystemError(i)
      BY <2>1, <2>2, <2>5, ReadStep DEF SystemError, Answer, Final
    <2> QED
      BY <1>12, <2>3, <2>4, <2>5 DEF ResultsCallback
  <1>15. ASSUME NEW i \in Ids, NEW status \in Status, SaveResult(i, status)
         PROVE  Invariant' /\ Kept
    <2>1. /\ <<i, status>> \in answers /\ SaveAttempt(i, attempts[i].window, status)
          /\ answers' = answers \ {<<i, status>>}
          /\ outdated' = (outdated \cup {a \in answers : a[1] = i}) \ {<<i, status>>}
          /\ UNCHANGED <<held, known, expired, passed>>
      BY <1>15 DEF SaveResult
    <2>2. attempts[i] # NoAttempt /\ (status = "approved" => i \in passed)
      BY <2>1 DEF Invariant, AnswersSound
    <2>3. attempts[i].window \in AllWindows
      BY <1>1, <2>2, AttemptTypes DEF Attempt, AllWindows
    <2>4. /\ answers' \subseteq answers /\ outdated' \subseteq answers'
          /\ outdated \cap answers' \subseteq outdated'
          /\ \A a \in answers' : a[1] = i => a \in outdated'
      BY <1>1, <2>1 DEF TypeOK
    <2> QED
      BY <2>1, <2>2, <2>3, <2>4, ResultStep
  <1>16. ASSUME NEW i \in Ids, NEW status \in Status, ResultDies(i, status)
         PROVE  Invariant' /\ Kept
    BY <1>16 DEF ResultDies, Invariant, TypeOK, AttemptsSound, CopiesSound, AnswersSound, Kept, Of
  <1>13. ASSUME NEW i \in Ids, Expire(i)
         PROVE  Invariant' /\ Kept
    <2>1. TypeOK' /\ CopiesSound'
      BY <1>13 DEF Expire, Invariant, TypeOK, CopiesSound
    <2> QED
      BY <1>13, <2>1, NoSave DEF Expire, Invariant
  <1>14. ASSUME UNCHANGED vars
         PROVE  Invariant' /\ Kept
    <2>1. TypeOK' /\ CopiesSound'
      BY <1>14 DEF vars, Invariant, TypeOK, CopiesSound
    <2> QED
      BY <1>14, <2>1, NoSave DEF vars, Invariant
  <1> QED
    BY <1>4, <1>5, <1>6, <1>7, <1>9, <1>10, <1>11, <1>12, <1>13, <1>14, <1>15, <1>16
    DEF Next, AllWindows

\* Every variable keeps its type.
THEOREM TypeCorrect == Spec => []TypeOK
  <1>1. Invariant => TypeOK
    BY DEF Invariant
  <1> QED
    BY <1>1, InitCorrect, NextCorrect, PTL DEF Spec

-----------------------------------------------------------------------------
(***************************************************************************)
(* Results.                                                                *)
(***************************************************************************)
\* An attempt with a result keeps one, unless a submission of it is saved that was
\* answered before, or an error that was read before the result was saved.
THEOREM ResultsCorrect == Spec => ResultStands
  <1> DEFINE Stands == \A i \in Ids : attempts[i].status \in {"approved", "denied"} =>
                           \/ attempts'[i].status \in {"approved", "denied"}
                           \/ Saves(i)
                           \/ <<i, "must_retry">> \in outdated \ answers'
  <1>1. Invariant /\ [Next]_vars => [Stands]_vars
    <2>1. SUFFICES ASSUME Invariant, Next, NEW i \in Ids, attempts[i].status \in Final
                   PROVE  \/ attempts'[i].status \in Final \/ Saves(i)
                          \/ <<i, "must_retry">> \in outdated \ answers'
      BY DEF Final
    <2>2. /\ attempts \in [Ids -> Attempt \cup {NoAttempt}] /\ attempts[i] # NoAttempt
          /\ held \in [Ids -> Submission \cup {NotHeld}]
      BY <2>1, StatusOfAttempt DEF Invariant, TypeOK, Status, Submission, AllWindows, Final
    <2>3. ASSUME NEW j \in Ids, NEW w, NEW status, SaveAttempt(j, w, status),
                 j # i \/ status \in Final
          PROVE  attempts'[i].status \in Final
      <3>1. attempts'[i] = IF i = j THEN [window |-> w, status |-> status] ELSE attempts[i]
        BY <2>2, <2>3 DEF SaveAttempt
      <3> QED
        BY <2>1, <2>3, <3>1
    <2>4. ASSUME NEW j \in Ids, CreateReady(j)
          PROVE  attempts'[i].status \in Final
      BY <2>2, <2>3, <2>4 DEF CreateReady, New
    <2>5. ASSUME NEW j \in Ids, SaveSubmission(j)
          PROVE  attempts'[i].status \in Final \/ Saves(i)
      <3>1. CASE j # i
        BY <2>3, <2>5, <3>1 DEF SaveSubmission
      <3>2. CASE j = i
        BY <2>2, <2>5, <3>2 DEF SaveSubmission, Saves
      <3> QED
        BY <3>1, <3>2
    <2>6. ASSUME NEW j \in Ids, NEW status \in Status, SaveResult(j, status)
          PROVE  attempts'[i].status \in Final \/ <<i, "must_retry">> \in outdated \ answers'
      <3>1. /\ <<j, status>> \in answers /\ <<j, status>> \notin answers'
            /\ SaveAttempt(j, attempts[j].window, status)
        BY <2>6 DEF SaveResult
      <3>2. CASE j # i \/ status \in Final
        BY <2>3, <3>1, <3>2
      <3>3. CASE j = i /\ status \notin Final
        <4>1. status = "must_retry"
          BY <2>1, <3>1, <3>3 DEF Invariant, TypeOK, Final
        <4> QED
          BY <2>1, <3>1, <3>3, <4>1 DEF Invariant, AnswersSound
      <3> QED
        BY <3>2, <3>3
    <2>7. CASE attempts' = attempts
      BY <2>1, <2>7
    <2> QED
      BY <2>1, <2>4, <2>5, <2>6, <2>7
      DEF Next, SubmitReady, Reverify, RetryReads, RetryPosts, SubmissionDies, Expire,
          ResultsCallback, ResultDies
  <1> QED
    BY <1>1, InitCorrect, NextCorrect, PTL DEF Spec, ResultStands

-----------------------------------------------------------------------------
(***************************************************************************)
(* The promise to those who rely on photo verification.                    *)
(***************************************************************************)
\* What is vouched for has passed.
LEMMA VouchedFor == Invariant => Vouching!Vouched
  <1> SUFFICES ASSUME Invariant PROVE Vouching!Vouched
    OBVIOUS
  <1> DEFINE Earned == {w \in AllWindows : Of(w) \cap passed # {}}
  <1>1. UserIsVerified(Initial) => Initial \in Earned
    BY DEF UserIsVerified, Invariant, AttemptsSound, Of, AllWindows
  <1>2. UserIsReverified => Windows \subseteq Earned
    <2>1. SUFFICES ASSUME UserIsReverified, NEW w \in Windows
                   PROVE  w \in Earned
      OBVIOUS
    <2>2. last[w] # 0 /\ attempts[last[w]].status = "approved" /\ w \in AllWindows
      BY <2>1 DEF UserIsReverified, AllWindows
    <2>3. last[w] \in Of(w) /\ last[w] \in passed
      BY <2>2 DEF Invariant, AttemptsSound, Of
    <2> QED
      BY <2>2, <2>3
  <1> QED
    BY <1>1, <1>2 DEF Vouching!Vouched, AllWindows

\* The attempts of a student keep the promise of photo verification.
THEOREM IdentityKept == Spec => ImplementsIdentity
  <1>1. Init => Vouching!IdentityInit
    <2> SUFFICES ASSUME Init PROVE Vouching!IdentityInit
      OBVIOUS
    <2>1. \A i \in Ids : attempts[i] = NoAttempt /\ attempts[i].status # "approved"
      BY DEF Init, NoAttempt
    <2>2. ~UserIsVerified(Initial)
      BY <2>1 DEF UserIsVerified, Of
    <2>3. UserIsReverified = (Windows = {})
      BY DEF Init, UserIsReverified
    <2>4. {w \in Windows \cup {Initial} : Of(w) \cap passed # {}} = {}
      BY DEF Init
    <2> QED
      BY <2>2, <2>3, <2>4 DEF Vouching!IdentityInit
  <1>2. Invariant' => Vouching!Vouched'
    BY VouchedFor, PTL
  <1>3. Invariant /\ Kept /\ Invariant' => Vouching!IdentityNext
    <2> SUFFICES ASSUME Invariant, Kept, Invariant' PROVE Vouching!IdentityNext
      OBVIOUS
    <2>1. Vouching!Vouched'
      BY <1>2
    <2>2. UserIsVerified(Initial)' \in BOOLEAN /\ UserIsReverified' \in BOOLEAN
      BY DEF UserIsVerified, UserIsReverified
    <2>3. \A w \in AllWindows : Of(w) \subseteq Of(w)' /\ passed \subseteq passed'
      BY DEF Kept, Of
    <2>4. {w \in AllWindows : Of(w) \cap passed # {}} \subseteq
          {w \in AllWindows : Of(w)' \cap passed' # {}}
      BY <2>3
    <2> QED
      BY <2>1, <2>2, <2>4 DEF Vouching!IdentityNext, AllWindows
  <1> QED
    BY <1>1, <1>3, InitCorrect, NextCorrect, PTL
    DEF Spec, ImplementsIdentity, Vouching!IdentitySpec

=============================================================================
