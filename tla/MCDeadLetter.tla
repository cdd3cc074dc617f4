---------------------------- MODULE MCDeadLetter ----------------------------
(***************************************************************************)
(* The three tasks with their limits in the order they have in the code:   *)
(* equal for attachments (3 and 3), the smaller one in autoretry for link  *)
(* previews (2 and 3), the greater one in autoretry for e-mails (5 and 3). *)
(***************************************************************************)
EXTENDS DeadLetter

MCRetryLimit == [mail |-> 2, media |-> 1, unfurl |-> 1]

MCRecordedMax == [mail |-> 1, media |-> 1, unfurl |-> 2]

MCMaxRequests == [mail |-> 2, media |-> 1, unfurl |-> 2]

(* Rows of e-mails cannot be replayed; rows of previews are like the others. *)
MCMaxCommands == [mail |-> 0, media |-> 2, unfurl |-> 0]
=============================================================================
