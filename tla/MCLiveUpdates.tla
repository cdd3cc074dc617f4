--------------------------- MODULE MCLiveUpdates ---------------------------
(* Three requests: two of the peer, one of the viewer from another device. *)
EXTENDS LiveUpdates

MCSends == {"p1", "p2", "v1"}
MCSender == [s \in MCSends |-> IF s = "v1" THEN "viewer" ELSE "peer"]
=============================================================================
