---------------------------- MODULE MCEngagement ----------------------------
EXTENDS Engagement

(* Three likes of different posts, one after the other.                    *)
FewRequests == {"l1", "l2", "l3"}
FewKind == [r \in FewRequests |-> "like"]
FewPost == [r \in FewRequests |-> r]
=============================================================================
