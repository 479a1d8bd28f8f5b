------------------------------ MODULE Certificates ------------------------------
(***************************************************************************)
(* The certificate of one student in one course (GeneratedCertificate):    *)
(* graded and requested by the student (request_certificate) or by         *)
(* management commands (ungenerated_certs, regenerate_user), made by an    *)
(* agent behind the xqueue, which posts to update_certificate.  Grading    *)
(* relies on Identity for the student's photo verifications.               *)
(*                                                                         *)
(* Whoever saves the row saves all of it as read.  A command commits the   *)
(* row and then sends the request; the student's request sends it and      *)
(* commits the row at its end.                                             *)
(***************************************************************************)
EXTENDS Identity, Integers, FiniteSetsExt

CONSTANTS
    Adders,     \* concurrent executions of add_cert
    MaxKeys     \* bounds the requests to the queue

ASSUME MaxKeysAssumption == MaxKeys \in Nat

VARIABLES
    cert,       \* the row: without one the status is "unavailable" too
    template,   \* the template of every request that was sent, by its key
    pending,    \* requests the agent has not answered
    adder,      \* executions of add_cert, with the row they will save
    answer,     \* an answer being processed
    drawn,      \* keys drawn so far
    named,      \* requests for which the command named a template file itself
    astray      \* history: requests not sent, or answered before the row was there

certVars == <<cert, template, pending, adder, answer, drawn, named, astray>>
vars == <<identity, certVars>>

-----------------------------------------------------------------------------
Modes == {"honor", "verified"}

CertStatus == {"unavailable", "generating", "downloadable", "error", "notpassing", "restricted"}

\* pdf names the request the downloadable file was made for, 0 if there is none.
Certificate == [status : CertStatus, key : 0..MaxKeys, mode : Modes, pdf : 0..MaxKeys]

Idle == [pc |-> "idle"]

Init ==
    /\ IdentityInit
    /\ cert = [status |-> "unavailable", key |-> 0, mode |-> "honor", pdf |-> 0]
    /\ template = [k \in 1..MaxKeys |-> "none"]
    /\ pending = {}
    /\ adder = [a \in Adders |-> Idle]
    /\ answer = Idle
    /\ drawn = 0
    /\ named = {}
    /\ astray = {}

\* A verified certificate takes an enrolment in the verified track, a valid
\* initial verification and one in every window; else it is an honor one.
CertMode_OnceVerified(enrolled) ==
    IF enrolled = "verified" /\ verified THEN "verified" ELSE "honor"

CertMode(enrolled) ==
    IF enrolled = "verified" /\ verified /\ reverified
    THEN "verified" ELSE "honor"

ValidStatuses == {"generating", "unavailable", "error", "notpassing"}

\* add_cert: grade the student and decide on the row to save.
Grade_SameKey(a, pc) ==
    \E enrolled \in Modes :
        LET graded == [cert EXCEPT !.mode = CertMode(enrolled)]
            key == IF cert.key = 0 THEN 1 ELSE cert.key IN
        \/ /\ drawn' = Max({drawn, key})
           /\ adder' = [adder EXCEPT ![a] =
                  [pc |-> pc, new |-> [graded EXCEPT !.status = "generating", !.key = key]]]
        \/ \E status \in {"notpassing", "restricted"} :
              /\ adder' = [adder EXCEPT ![a] =
                     [pc |-> "save", new |-> [graded EXCEPT !.status = status]]]
              /\ UNCHANGED drawn

Grade(a, pc) ==
    \E enrolled \in Modes :
        LET graded == [cert EXCEPT !.mode = CertMode(enrolled)] IN
        \/ /\ drawn < MaxKeys
           /\ drawn' = drawn + 1
           /\ adder' = [adder EXCEPT ![a] =
                  [pc |-> pc, new |-> [graded EXCEPT !.status = "generating", !.key = drawn']]]
        \/ \E status \in {"notpassing", "restricted"} :
              /\ adder' = [adder EXCEPT ![a] =
                     [pc |-> "save", new |-> [graded EXCEPT !.status = status]]]
              /\ UNCHANGED drawn

-----------------------------------------------------------------------------
(***************************************************************************)
(* Management commands.                                                    *)
(***************************************************************************)
UngeneratedCerts(a) ==
    /\ adder[a] = Idle /\ cert.status \in ValidStatuses
    /\ Grade(a, "save_send")
    /\ UNCHANGED <<identity, cert, template, pending, answer, named, astray>>

\* regen_cert makes any certificate unavailable and then adds it.
RegenCert(a) ==
    /\ adder[a] = Idle
    /\ cert' = [cert EXCEPT !.status = "unavailable"]
    /\ adder' = [adder EXCEPT ![a] = [pc |-> "regen"]]
    /\ UNCHANGED <<identity, template, pending, answer, drawn, named, astray>>

\* The command may name the template file (regenerate_user -T).
RegenAdds(a) ==
    /\ adder[a].pc = "regen" /\ cert.status \in ValidStatuses
    /\ Grade(a, "save_send")
    /\ named' \in {named, named \cup (drawn + 1)..drawn'}
    /\ UNCHANGED <<identity, cert, template, pending, answer, astray>>

SaveCert(a) ==
    /\ adder[a].pc \in {"save", "save_send", "commit"}
    /\ cert' = adder[a].new
    /\ adder' = [adder EXCEPT ![a] = IF @.pc = "save_send" THEN [@ EXCEPT !.pc = "send"]
                                     ELSE Idle]
    /\ astray' = IF adder[a].pc = "commit" /\ adder[a].new.key \notin pending
                 THEN astray \cup {adder[a].new.key} ELSE astray
    /\ UNCHANGED <<identity, template, pending, answer, drawn, named>>

\* The template of a request: the file that was named, or the one of the mode.
TemplatePdf(key, mode) == IF key \in named THEN "given" ELSE mode

\* _send_to_xqueue
Send(a) ==
    /\ template' = [template EXCEPT ![adder[a].new.key] =
                        TemplatePdf(adder[a].new.key, adder[a].new.mode)]
    /\ pending' = pending \cup {adder[a].new.key}

CommandSends(a) ==
    /\ adder[a].pc = "send"
    /\ Send(a)
    /\ adder' = [adder EXCEPT ![a] = Idle]
    /\ UNCHANGED <<identity, cert, answer, drawn, named, astray>>

-----------------------------------------------------------------------------
(***************************************************************************)
(* The student's own request.                                              *)
(***************************************************************************)
RequestCertificate(a) ==
    /\ adder[a] = Idle /\ cert.status \in {"unavailable", "notpassing", "error"}
    /\ Grade(a, "send_commit")
    /\ UNCHANGED <<identity, cert, template, pending, answer, named, astray>>

RequestSends(a) ==
    /\ adder[a].pc = "send_commit"
    /\ Send(a)
    /\ adder' = [adder EXCEPT ![a].pc = "commit"]
    /\ UNCHANGED <<identity, cert, answer, drawn, named, astray>>

\* Sending fails, or the process dies: a command has saved its row by then, the
\* student's request is rolled back.
AddDies(a) ==
    /\ adder[a] # Idle
    /\ astray' = IF adder[a].pc = "send" THEN astray \cup {adder[a].new.key} ELSE astray
    /\ adder' = [adder EXCEPT ![a] = Idle]
    /\ UNCHANGED <<identity, cert, template, pending, answer, drawn, named>>

-----------------------------------------------------------------------------
(***************************************************************************)
(* update_certificate: the row is looked up by the key of the request.     *)
(***************************************************************************)
Updated_IgnoresErrors(error) ==
    IF error THEN cert ELSE [cert EXCEPT !.status = "downloadable", !.pdf = cert.key]

Updated(error) ==
    IF error THEN [cert EXCEPT !.status = "error"]
    ELSE [cert EXCEPT !.status = "downloadable", !.pdf = cert.key]

\* An answer without its row, or to a row that is not being generated, is refused.
UpdateReads(k, error) ==
    /\ answer = Idle
    /\ pending' = pending \ {k}
    /\ answer' = IF cert.key = k /\ (error \/ cert.status = "generating")
                 THEN [pc |-> "save", new |-> Updated(error)] ELSE Idle
    /\ UNCHANGED <<identity, cert, template, adder, drawn, named, astray>>

UpdateSaves ==
    /\ answer # Idle
    /\ cert' = answer.new
    /\ answer' = Idle
    /\ UNCHANGED <<identity, template, pending, adder, drawn, named, astray>>

CertNext ==
    \/ \E a \in Adders :
          \/ UngeneratedCerts(a) \/ RegenCert(a) \/ RegenAdds(a) \/ SaveCert(a) \/ CommandSends(a)
          \/ RequestCertificate(a) \/ RequestSends(a) \/ AddDies(a)
    \/ \E k \in pending, error \in BOOLEAN : UpdateReads(k, error)
    \/ UpdateSaves

Next == CertNext \/ (IdentityNext /\ UNCHANGED certVars)

Spec == Init /\ [][Next]_vars

=============================================================================
