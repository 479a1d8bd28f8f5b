--------------------------- MODULE PhotoVerification ---------------------------
(***************************************************************************)
(* The attempts of one student to prove their identity                     *)
(* (SoftwareSecurePhotoVerification): initial ones, and one for every      *)
(* mid-course window of a course.  Photos are posted to an external        *)
(* service, which posts its results back to results_callback: late, again, *)
(* or before the request that sent the photos has saved that it did.       *)
(***************************************************************************)
EXTENDS Integers, FiniteSets, FiniteSetsExt

CONSTANTS
    Windows,    \* the mid-course reverification windows of the course
    Initial,    \* the "window" of an initial verification
    MaxPhotos,  \* bounds the attempts
    MaxHeld,    \* bounds the submissions under way at once
    MaxAnswers  \* and the results

ASSUME InitialAssumption == Initial \notin Windows
ASSUME BoundsAssumption == MaxPhotos \in Nat /\ MaxHeld \in Nat /\ MaxAnswers \in Nat

Ids == 1..MaxPhotos

VARIABLES
    attempts,   \* the committed attempts, in the order they were created
    last,       \* of each window, the attempt saved most recently (0: none)
    held,       \* copies of attempts whose photos are being submitted
    known,      \* attempts whose photos the service has
    expired,    \* attempts older than DAYS_GOOD_FOR
    answers,    \* results under way: attempts and the status they will be saved with
    passed,     \* history: attempts the service has ever passed
    outdated    \* history: answers read before another one of their attempt was saved

vars == <<attempts, last, held, known, expired, answers, passed, outdated>>

-----------------------------------------------------------------------------
Status == {"ready", "submitted", "must_retry", "approved", "denied"}

Attempt == [window : Windows \cup {Initial}, status : Status]

NoAttempt == [status |-> "none"]

NotHeld == [pc |-> "idle"]

Init ==
    /\ attempts = [i \in Ids |-> NoAttempt]
    /\ last = [w \in Windows \cup {Initial} |-> 0]
    /\ held = [i \in Ids |-> NotHeld]
    /\ known = {} /\ expired = {} /\ answers = {} /\ passed = {} /\ outdated = {}

Of(w) == {i \in Ids : attempts[i] # NoAttempt /\ attempts[i].window = w}

New(i) ==
    /\ attempts[i] = NoAttempt /\ held[i] = NotHeld
    /\ \A j \in 1..(i - 1) : attempts[j] # NoAttempt \/ held[j] # NotHeld

\* save(): updated_at makes it the last of its window.
SaveAttempt(i, w, status) ==
    /\ attempts' = [attempts EXCEPT ![i] = [window |-> w, status |-> status]]
    /\ last' = [last EXCEPT ![w] = i]

UserIsVerified_AnyWindow(w) ==
    \E i \in Ids \ expired : attempts[i].status = "approved"

UserIsVerified(w) == \E i \in Of(w) \ expired : attempts[i].status = "approved"

UserHasValidOrPending(w) ==
    \E i \in Of(w) \ expired :
        \/ attempts[i].status \in {"submitted", "approved"}
        \/ w = Initial /\ attempts[i].status = "must_retry"

\* user_is_reverified_for_all: the last attempt of every window counts, however old.
UserIsReverified ==
    \A w \in Windows : last[w] # 0 /\ attempts[last[w]].status = "approved"

-----------------------------------------------------------------------------
\* create_order takes photos of a student without a verification: they are
\* submitted when the order is purchased.
CreateReady(i) ==
    /\ New(i) /\ ~UserHasValidOrPending(Initial)
    /\ SaveAttempt(i, Initial, "ready")
    /\ UNCHANGED <<held, known, expired, passed, answers, outdated>>

Free == Cardinality({i \in Ids : held[i] # NotHeld}) < MaxHeld

\* send_request: the service has the photos or not; that it does may be unknown.
Post(i, w) ==
    \E got \in BOOLEAN :
        /\ held' = [held EXCEPT ![i] = [pc |-> "posted", window |-> w, got |-> got]]
        /\ known' = IF got THEN known \cup {i} ELSE known

\* purchased_callback of a certificate: active_for_user is the newest ready one.
SubmitReady(i) ==
    /\ held[i] = NotHeld /\ Free
    /\ i \in Of(Initial) /\ attempts[i].status = "ready"
    /\ \A j \in Of(Initial) : attempts[j].status = "ready" => j <= i
    /\ Post(i, Initial)
    /\ UNCHANGED <<attempts, last, expired, passed, answers, outdated>>

\* ReverifyView, MidCourseReverifyView: a new attempt is posted before the
\* request commits it; mid-course it uses the photo ID of an initial one.
Reverify(i, w) ==
    /\ New(i) /\ Free
    /\ w # Initial => Of(Initial) # {}
    /\ Post(i, w)
    /\ UNCHANGED <<attempts, last, expired, passed, answers, outdated>>

\* retry_failed_photo_verifications reads all it will submit again ...
RetryReads ==
    LET failed == {i \in Ids : attempts[i].status = "must_retry" /\ held[i] = NotHeld} IN
    /\ failed # {} /\ Free
    /\ held' = [i \in Ids |-> IF i \in failed
                              THEN [pc |-> "read", window |-> attempts[i].window, got |-> FALSE]
                              ELSE held[i]]
    /\ UNCHANGED <<attempts, last, known, expired, passed, answers, outdated>>

\* ... and submits one after the other.
RetryPosts(i) ==
    /\ held[i].pc = "read"
    /\ Post(i, held[i].window)
    /\ UNCHANGED <<attempts, last, expired, passed, answers, outdated>>

\* submit() saves the copy: whatever the service has answered meanwhile.
SaveSubmission(i) ==
    /\ held[i].pc = "posted"
    /\ \/ held[i].got /\ SaveAttempt(i, held[i].window, "submitted")
       \/ SaveAttempt(i, held[i].window, "must_retry")
    /\ held' = [held EXCEPT ![i] = NotHeld]
    /\ UNCHANGED <<known, expired, passed, answers, outdated>>

SubmissionDies(i) ==
    /\ held[i] # NotHeld
    /\ held' = [held EXCEPT ![i] = NotHeld]
    /\ UNCHANGED <<attempts, last, known, expired, passed, answers, outdated>>

-----------------------------------------------------------------------------
\* results_callback reads the attempt without a lock: approve, deny and
\* system_error look at that copy.  They demand that it was submitted; before that
\* they raise and the result is lost.
Submitted(i) == attempts[i].status \in {"must_retry", "submitted", "approved", "denied"}

Answer(i, status) == Submitted(i) /\ answers' = answers \cup {<<i, status>>}

SystemError_Always(i) == Answer(i, "must_retry") /\ UNCHANGED passed

SystemError(i) ==
    /\ attempts[i].status \notin {"approved", "denied"}
    /\ Answer(i, "must_retry") /\ UNCHANGED passed

Approve(i) ==
    /\ attempts[i].status # "approved"
    /\ Answer(i, "approved") /\ passed' = passed \cup {i}

Deny(i) == Answer(i, "denied") /\ UNCHANGED passed

\* The service posts a result for photos it has ...
ResultsCallback(i) ==
    /\ i \in known /\ Cardinality(answers) < MaxAnswers
    /\ Approve(i) \/ Deny(i) \/ SystemError(i)
    /\ UNCHANGED <<attempts, last, held, known, expired, outdated>>

\* ... and the request saves its copy, whatever was saved meanwhile.
SaveResult(i, status) ==
    /\ <<i, status>> \in answers
    /\ SaveAttempt(i, attempts[i].window, status)
    /\ answers' = answers \ {<<i, status>>}
    /\ outdated' = (outdated \cup {a \in answers : a[1] = i}) \ {<<i, status>>}
    /\ UNCHANGED <<held, known, expired, passed>>

\* Or it raises, and is rolled back.
ResultDies(i, status) ==
    /\ <<i, status>> \in answers
    /\ answers' = answers \ {<<i, status>>} /\ outdated' = outdated \ {<<i, status>>}
    /\ UNCHANGED <<attempts, last, held, known, expired, passed>>

\* Attempts expire in the order they were created.
Expire(i) ==
    /\ i \notin expired /\ attempts[i] # NoAttempt /\ 1..(i - 1) \subseteq expired
    /\ expired' = expired \cup {i}
    /\ UNCHANGED <<attempts, last, held, known, passed, answers, outdated>>

Next ==
    \/ RetryReads
    \/ \E i \in Ids :
          \/ CreateReady(i) \/ SubmitReady(i)
          \/ \E w \in Windows \cup {Initial} : Reverify(i, w)
          \/ RetryPosts(i) \/ SaveSubmission(i) \/ SubmissionDies(i)
          \/ ResultsCallback(i) \/ Expire(i)
          \/ \E status \in Status : SaveResult(i, status) \/ ResultDies(i, status)

Spec == Init /\ [][Next]_vars

=============================================================================
