---------------------------- MODULE MCFederation ----------------------------
(* One delivery with two workers, where a message with the last retry      *)
(* number may outlive the broker's visibility timeout; and one instance    *)
(* that sends and is asked, with two processes.                            *)
EXTENDS Federation

MCSlowRetries == {MaxRetries}

(* Far enough apart for a copy that is one tick too late for the bound.    *)
MCTimes == {0, 3, 4}
=============================================================================
