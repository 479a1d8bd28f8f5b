-------------------------- MODULE MCPhotoVerification --------------------------
(* Instances of PhotoVerification for TLC. *)
EXTENDS PhotoVerificationProps

\* Requests write rows of their own, unless they are about one attempt: while
\* there are results under way, all that is at work is about the same.
OneAtWork ==
    \A a \in answers : /\ \A b \in answers : b[1] = a[1]
                       /\ \A i \in Ids \ {a[1]} : held[i] = NotHeld

=============================================================================
