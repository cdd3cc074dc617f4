------------------------- MODULE MCTaskReliability -------------------------
(* The limits of the code itself.                                          *)
EXTENDS TaskReliability

MCRetryLimit == [mail |-> 5, media |-> 3, unfurl |-> 2]

MCRecordedMax == [mail |-> 3, media |-> 3, unfurl |-> 3]
=============================================================================
