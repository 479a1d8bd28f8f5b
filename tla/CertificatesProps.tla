--------------------------- MODULE CertificatesProps ---------------------------
(***************************************************************************)
(* What a certificate says, and what it may be relied on for.              *)
(***************************************************************************)
EXTENDS Certificates

\* Types of all variables.
TypeOK ==
    /\ IdentityType
    /\ cert \in Certificate
    /\ template \in [1..MaxKeys -> Modes \cup {"given", "none"}]
    /\ \A keys \in {pending, named, astray} : keys \in SUBSET (1..MaxKeys)
    /\ adder \in [Adders ->
          {Idle, [pc |-> "regen"]}
          \cup [pc : {"save", "save_send", "send", "send_commit", "commit"},
                new : Certificate]]
    /\ answer \in {Idle} \cup [pc : {"save"}, new : Certificate]
    /\ drawn \in 0..MaxKeys

\* The file a student can download was made from the template of the mode that
\* the row records, or from the file that the command named for that very
\* request, whichever requests overlap and however late the agent answers those
\* that were replaced.
DownloadIsAsRecorded ==
    cert.status = "downloadable" =>
        /\ cert.pdf # 0
        /\ template[cert.pdf] = IF cert.pdf \in named THEN "given" ELSE cert.mode

\* A verified certificate is only made for a student whose photos the service
\* has passed at some time: initial ones, and some in every mid-course window.
VerifiedIsEarned ==
    cert.status = "downloadable" /\ cert.mode = "verified" =>
        earned = Windows \cup {Initial}

\* A certificate that is being generated has a request the agent will answer,
\* unless the request could not be sent or was answered before the row was saved.
GeneratingIsRequested ==
    cert.status = "generating" /\ cert.key \notin astray =>
        \/ cert.key \in pending
        \/ answer # Idle /\ answer.new.key = cert.key
        \/ \E a \in Adders : adder[a].pc = "send" /\ adder[a].new.key = cert.key

=============================================================================
