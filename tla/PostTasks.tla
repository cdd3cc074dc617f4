----------------------------- MODULE PostTasks -----------------------------
(***************************************************************************)
(* The tasks of apps/posts/tasks.py on top of the task layer: one          *)
(* attachment that is processed, or one link that is unfurled into a       *)
(* preview.  Their bodies replace the delivery of an e-mail; the rest of   *)
(* an attempt is that of TaskReliability.                                  *)
(*                                                                         *)
(* Abstracted: the checks of type and MIME type (an attachment is valid or *)
(* is not), pages and oEmbed answers (a page that cannot be fetched still  *)
(* makes a preview, with an error in it), posts without a link and posts   *)
(* that are gone (their task ends at once).                                *)
(***************************************************************************)
EXTENDS TaskReliability

VARIABLES
    valid,  \* the attachment passes the checks
    work    \* Attachment.processing_state, or whether there is a LinkPreview

postVars == <<valid, work>>

Works == {"pending", "processed", "failed"}

PostInit ==
    /\ valid \in BOOLEAN
    /\ task # "media" => valid
    /\ work = "pending"

(* The labels behind the skip test that the post tasks add.                *)
Busy == {"save", "tell"}

(* Mutated Read: whatever has been handled before is done.                 *)
ReadHandled(w) ==
    /\ pc[w] = "run" /\ task # "mail"
    /\ \/ work # "pending" /\ Goto(w, "mark")
       \/ work = "pending" /\ valid /\ Goto(w, "save")
       \/ work = "pending" /\ ~valid /\ Goto(w, "tell")
    /\ UNCHANGED <<task, status, failures, queue, issued, msg, effects, faults,
                   postVars>>

(* The attachment or the preview is read: done before, checked, or refused. *)
Read(w) ==
    /\ pc[w] = "run" /\ task # "mail"
    /\ \/ work = "processed" /\ Goto(w, "mark")
       \/ work # "processed" /\ valid /\ Goto(w, "save")
       \/ work # "processed" /\ ~valid /\ Goto(w, "tell")
    /\ UNCHANGED <<task, status, failures, queue, issued, msg, effects, faults,
                   postVars>>

(* The result is saved over whatever another attempt has written; fetching *)
(* a page may raise.                                                       *)
Save(w) ==
    /\ pc[w] = "save"
    /\ \/ /\ work' = "processed"
          /\ effects' = effects + 1
          /\ Goto(w, "mark")
       \/ /\ task = "unfurl"
          /\ Goto(w, "fail")
          /\ UNCHANGED <<work, effects>>
    /\ UNCHANGED <<task, status, failures, queue, issued, msg, faults, valid>>

(* A failing attempt at an attachment says so before it is recorded.       *)
Tell(w) ==
    /\ pc[w] = "tell"
    /\ work' = "failed"
    /\ Goto(w, "fail")
    /\ UNCHANGED <<task, status, failures, queue, issued, msg, effects, faults,
                   valid>>

(* A database error in the body of a post task.  The try block of          *)
(* process_media_attachment begins at once, that of unfurl_post_link       *)
(* behind the search for a preview and the success recorded for it.        *)
PostDatabaseError(w) ==
    /\ faults < MaxFaults
    /\ faults' = faults + 1
    /\ \/ task = "media" /\ pc[w] \in {"run", "save", "mark"} /\ Goto(w, "tell")
       \/ task = "unfurl" /\ pc[w] \in {"save", "mark"} /\ Goto(w, "fail")
       \/ task = "unfurl" /\ pc[w] \in {"run", "mark"} /\ Goto(w, "retry")
       \/ pc[w] = "tell" /\ Goto(w, "retry")
    /\ UNCHANGED <<task, status, failures, queue, issued, msg, effects, postVars>>

PostBody(w) == Read(w) \/ Save(w) \/ Tell(w)

(* The steps of an attempt, whatever its task is.                          *)
Attempt(w) ==
    \/ PostBody(w)
    \/ (pc[w] = "run" => task = "mail") /\ Body(w) /\ UNCHANGED postVars

Trouble(w) ==
    \/ Crash(w) /\ UNCHANGED postVars
    \/ (pc[w] = "mark" => task = "mail") /\ DatabaseError(w) /\ UNCHANGED postVars
    \/ task # "mail" /\ PostDatabaseError(w)

Quiet == queue = {} /\ \A w \in Workers : pc[w] = "idle"

(***************************************************************************)
(* What a post shows agrees with how the task was recorded: a success that *)
(* nobody works on any more left a processed attachment or a preview, also *)
(* when attempts died or failed in between.  The one exception is a        *)
(* database error in one of two overlapping requests: it may write FAILED  *)
(* over PROCESSED, and the recorded success keeps everybody from trying    *)
(* again.                                                                  *)
(***************************************************************************)
SuccessIsServed ==
    task # "mail" /\ Quiet /\ status = "succeeded" =>
        \/ work = "processed"
        \/ faults > 0 /\ Cardinality(issued) > 1
=============================================================================
