------------------------- MODULE PhotoVerificationProps -------------------------
(***************************************************************************)
(* What the photo verifications of a student may be relied on for.         *)
(***************************************************************************)
EXTENDS PhotoVerification

\* Types of all variables.
TypeOK ==
    /\ attempts \in [Ids -> Attempt \cup {NoAttempt}]
    /\ last \in [Windows \cup {Initial} -> Ids \cup {0}]
    /\ held \in [Ids -> [pc : {"read", "posted"}, window : Windows \cup {Initial}, got : BOOLEAN]
                          \cup {NotHeld}]
    /\ known \in SUBSET Ids /\ expired \in SUBSET Ids
    /\ passed \in SUBSET Ids
    /\ answers \in SUBSET (Ids \X {"must_retry", "approved", "denied"})
    /\ outdated \in SUBSET answers

Saves(i) == held[i].pc = "posted" /\ held'[i] = NotHeld

\* The service's result stands: an attempt that was approved or denied does not
\* go back to waiting for a result, by errors reported late or by submitting it
\* again.  Two saves are excepted, since each overwrites what it has not read: of a
\* submission that was answered before it was saved, and of an error reported
\* while the result was under way.
ResultStands ==
    [][\A i \in Ids :
          attempts[i].status \in {"approved", "denied"} =>
              \/ attempts'[i].status \in {"approved", "denied"}
              \/ Saves(i)
              \/ <<i, "must_retry">> \in outdated \ answers']_vars

Vouching == INSTANCE Identity
    WITH verified <- UserIsVerified(Initial), reverified <- UserIsReverified,
         earned <- {w \in Windows \cup {Initial} : Of(w) \cap passed # {}}

\* Whatever is lost, late or repeated, the attempts keep the promise that add_cert
\* relies on: nobody is vouched for without photos that passed.
ImplementsIdentity == Vouching!IdentitySpec

=============================================================================
