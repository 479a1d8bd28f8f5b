------------------------------ MODULE MCDraftStore ------------------------------
(* An instance of DraftStore for TLC. *)
EXTENDS DraftStoreProps, TLC

CONSTANTS q1, q2, u1, u2, g1, g2, p1

TwoUnits == q1 :> {u1, u2} @@ q2 :> {} @@ u1 :> {g1} @@ u2 :> {} @@ g1 :> {p1} @@ p1 :> {}

\* Nothing but the initial tree tells blocks of one category apart.
Symmetric == {a @@ b @@ c : a \in Permutations({q1, q2}), b \in Permutations({u1, u2}),
                            c \in Permutations({g1, g2})}

\* The course is spread over both sections, and its text changed, only while g2 has
\* not been created.
Narrow == Promised /\ (fresh = {} =>
    /\ \E q \in Sections : published[q].kids = {}
    /\ \A b \in Existing(published) : published[b].data = Blank
    /\ \A b \in Existing(draft) : draft[b].data = Blank)

=============================================================================
