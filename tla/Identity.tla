-------------------------------- MODULE Identity --------------------------------
(***************************************************************************)
(* What photo verification promises to those who rely on it: a student is  *)
(* vouched for now, initially or in all mid-course windows, only if the    *)
(* service has passed photos of them at some time.  It may be taken back   *)
(* and given again at any time.                                            *)
(***************************************************************************)
CONSTANTS
    Windows,    \* the mid-course reverification windows of the course
    Initial     \* the "window" of an initial verification

ASSUME InitialAssumption == Initial \notin Windows

VARIABLES
    verified,     \* user_is_verified: initially, and not too long ago
    reverified,   \* user_is_reverified_for_all windows of the course
    earned        \* windows in which the service has ever passed photos

identity == <<verified, reverified, earned>>

IdentityType ==
    verified \in BOOLEAN /\ reverified \in BOOLEAN /\ earned \in SUBSET (Windows \cup {Initial})

Vouched == (verified => Initial \in earned) /\ (reverified => Windows \subseteq earned)

IdentityInit == verified = FALSE /\ reverified = (Windows = {}) /\ earned = {}

IdentityNext ==
    /\ verified' \in BOOLEAN /\ reverified' \in BOOLEAN
    /\ earned' \in SUBSET (Windows \cup {Initial}) /\ earned \subseteq earned'
    /\ Vouched'

IdentitySpec == IdentityInit /\ [][IdentityNext]_identity

=============================================================================
