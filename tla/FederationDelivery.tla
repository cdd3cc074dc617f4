------------------------- MODULE FederationDelivery -------------------------
(***************************************************************************)
(* One outbound FederationDelivery row: enqueue_post_for_federation        *)
(* creates it and requests execute_federation_delivery                     *)
(* (apps/federation/tasks.py), which signs and POSTs the activity and      *)
(* retries by hand with self.retry inside its own try block.  One database *)
(* statement, HTTP request or publication per action.                      *)
(*                                                                         *)
(* self.retry publishes the next attempt and then raises Retry.  Raised    *)
(* for an HTTP status, that exception is caught by the task's own          *)
(* "except Exception", which records a second failure and publishes a      *)
(* second next attempt.                                                    *)
(*                                                                         *)
(* Abstracted: signing, URLs and bodies; countdowns (a message may be      *)
(* taken at any time); retry_count, attempt_count and last_attempted_at,   *)
(* which no guard reads.  FEATURE_FEDERATION_OUTBOUND_ENABLED is on.       *)
(***************************************************************************)
EXTENDS Integers, FiniteSets

CONSTANTS
    Workers,     \* Celery worker processes
    MaxRetries,  \* max_retries of the task
    SlowRetries, \* retries whose countdown outlives the broker's visibility
                 \* timeout, so that the broker may deliver them twice
    MaxFaults    \* bound on worker deaths, database, broker and web errors

ASSUME LimitAssumption ==
    /\ MaxRetries \in Nat
    /\ MaxFaults \in Nat
    /\ SlowRetries \subseteq 1..MaxRetries

Retries == 0..MaxRetries

VARIABLES
    delivery,   \* FederationDelivery.state, or "absent"
    execution,  \* AsyncTaskExecution.status, or "absent"
    rows,       \* AsyncTaskFailure rows of the delivery
    queue,      \* how many messages wait in the broker, by request.retries
    published,  \* how many messages self.retry has published, by retries
    pc,         \* where each worker is in the task body
    path,       \* how the attempt went, once it is being recorded
    retries,    \* request.retries of the message each worker holds
    accepted,   \* POSTs the remote inbox accepted
    requested,  \* the web process has called .delay()
    faults

vars == <<delivery, execution, rows, queue, published, pc, path, retries,
          accepted, requested, faults>>

Labels == {"idle", "create", "fetch", "resume", "load", "post", "save",
           "mark", "state", "exec", "row", "retry"}

(* "permanent": a 4xx other than 429; "response": 429 or 5xx; "exception": *)
(* whatever reached the except clause.                                     *)
Paths == {"none", "permanent", "response", "exception"}

(* The values the state ranges over; how an attempt went is known exactly  *)
(* while it is being recorded.                                             *)
TypeOK ==
    /\ delivery \in {"absent", "pending", "retrying", "success", "failed"}
    /\ execution \in {"absent", "started", "succeeded", "failed"}
    /\ rows \subseteq [retries: Retries, terminal: BOOLEAN]
    /\ queue \in [Retries -> Nat]
    /\ published \in [Retries -> Nat]
    /\ pc \in [Workers -> Labels]
    /\ path \in [Workers -> Paths]
    /\ retries \in [Workers -> Retries]
    /\ \A w \in Workers :
        pc[w] \in {"state", "exec", "row", "retry"} <=> path[w] # "none"
    /\ accepted \in Nat
    /\ requested \in BOOLEAN
    /\ faults \in 0..MaxFaults

Init ==
    /\ delivery = "absent"
    /\ execution = "absent"
    /\ rows = {}
    /\ queue = [r \in Retries |-> 0]
    /\ published = [r \in Retries |-> 0]
    /\ pc = [w \in Workers |-> "idle"]
    /\ path = [w \in Workers |-> "none"]
    /\ retries = [w \in Workers |-> 0]
    /\ accepted = 0
    /\ requested = FALSE
    /\ faults = 0

Goto(w, label) == pc' = [pc EXCEPT ![w] = label] /\ UNCHANGED path

Record(w, how) ==
    /\ pc' = [pc EXCEPT ![w] = "state"]
    /\ path' = [path EXCEPT ![w] = how]

Finish(w) ==
    /\ pc' = [pc EXCEPT ![w] = "idle"]
    /\ path' = [path EXCEPT ![w] = "none"]

Fault == faults < MaxFaults /\ faults' = faults + 1

-----------------------------------------------------------------------------

(* The post_save signal: get_or_create of the row, then .delay().          *)
CreateDelivery ==
    /\ delivery = "absent"
    /\ delivery' = "pending"
    /\ UNCHANGED <<execution, rows, queue, published, pc, path, retries,
                   accepted, requested, faults>>

RequestDelivery ==
    /\ delivery # "absent"
    /\ ~requested
    /\ requested' = TRUE
    /\ queue' = [queue EXCEPT ![0] = @ + 1]
    /\ UNCHANGED <<delivery, execution, rows, published, pc, path, retries,
                   accepted, faults>>

(* The broker loses the request, or the web process dies before .delay():  *)
(* nothing else ever requests a delivery.                                  *)
RequestLost ==
    /\ delivery # "absent"
    /\ ~requested
    /\ requested' = TRUE
    /\ Fault
    /\ UNCHANGED <<delivery, execution, rows, queue, published, pc, path,
                   retries, accepted>>

Receive(w) ==
    /\ pc[w] = "idle"
    /\ \E r \in Retries :
        /\ queue[r] > 0
        /\ queue' = [queue EXCEPT ![r] = @ - 1]
        /\ retries' = [retries EXCEPT ![w] = r]
    /\ Goto(w, "create")
    /\ UNCHANGED <<delivery, execution, rows, published, accepted, requested,
                   faults>>

(* The broker delivers a message with a long countdown once more.          *)
Redeliver ==
    /\ \E r \in SlowRetries : queue[r] > 0 /\ queue' = [queue EXCEPT ![r] = @ + 1]
    /\ Fault
    /\ UNCHANGED <<delivery, execution, rows, published, pc, path, retries,
                   accepted, requested>>

(* start_task_execution: INSERT, or SELECT and skip, or SELECT and UPDATE. *)
CreateExecution(w) ==
    /\ pc[w] = "create"
    /\ \/ execution = "absent" /\ execution' = "started" /\ Goto(w, "load")
       \/ execution # "absent" /\ UNCHANGED execution /\ Goto(w, "fetch")
    /\ UNCHANGED <<delivery, rows, queue, published, retries, accepted,
                   requested, faults>>

(* Mutated FetchExecution: no skip of a succeeded execution.               *)
FetchExecutionNoSkip(w) ==
    /\ pc[w] = "fetch"
    /\ Goto(w, "resume")
    /\ UNCHANGED <<delivery, execution, rows, queue, published, retries,
                   accepted, requested, faults>>

FetchExecution(w) ==
    /\ pc[w] = "fetch"
    /\ \/ execution = "succeeded" /\ Finish(w)
       \/ execution # "succeeded" /\ Goto(w, "resume")
    /\ UNCHANGED <<delivery, execution, rows, queue, published, retries,
                   accepted, requested, faults>>

ResumeExecution(w) ==
    /\ pc[w] = "resume"
    /\ execution' = "started"
    /\ Goto(w, "load")
    /\ UNCHANGED <<delivery, rows, queue, published, retries, accepted,
                   requested, faults>>

(* SELECT of the delivery; one already successful is only marked.          *)
LoadDelivery(w) ==
    /\ pc[w] = "load"
    /\ \/ delivery = "success" /\ Goto(w, "mark")
       \/ delivery # "success" /\ Goto(w, "post")
    /\ UNCHANGED <<delivery, execution, rows, queue, published, retries,
                   accepted, requested, faults>>

(* Mutated Post: every response counts as a delivery.                      *)
PostIgnoringStatus(w) ==
    /\ pc[w] = "post"
    /\ \/ accepted' \in {accepted, accepted + 1} /\ Goto(w, "save")
       \/ accepted' \in {accepted, accepted + 1} /\ Record(w, "exception")
    /\ UNCHANGED <<delivery, execution, rows, queue, published, retries,
                   requested, faults>>

(* The signed POST: accepted, refused with a status, or an exception, of   *)
(* which a timeout leaves open whether the remote accepted it.             *)
Post(w) ==
    /\ pc[w] = "post"
    /\ \/ accepted' = accepted + 1 /\ Goto(w, "save")
       \/ UNCHANGED accepted /\ \E how \in {"permanent", "response"} : Record(w, how)
       \/ accepted' \in {accepted, accepted + 1} /\ Record(w, "exception")
    /\ UNCHANGED <<delivery, execution, rows, queue, published, retries,
                   requested, faults>>

(* The accepted delivery is saved, whatever another attempt has written.   *)
SaveDelivery(w) ==
    /\ pc[w] = "save"
    /\ delivery' = "success"
    /\ Goto(w, "mark")
    /\ UNCHANGED <<execution, rows, queue, published, retries, accepted,
                   requested, faults>>

MarkSucceeded(w) ==
    /\ pc[w] = "mark"
    /\ execution' = "succeeded"
    /\ Finish(w)
    /\ UNCHANGED <<delivery, rows, queue, published, retries, accepted,
                   requested, faults>>

Exhausted(w) == retries[w] >= MaxRetries

(* UPDATE of the delivery in the two failure branches: only the except     *)
(* clause turns an exhausted delivery into a failed one.                   *)
UpdateState(w) ==
    /\ pc[w] = "state"
    /\ delivery' = IF \/ path[w] = "permanent"
                      \/ path[w] = "exception" /\ Exhausted(w)
                   THEN "failed" ELSE "retrying"
    /\ Goto(w, "exec")
    /\ UNCHANGED <<execution, rows, queue, published, retries, accepted,
                   requested, faults>>

(* mark_task_execution_failed: the execution row, then the failure row.    *)
MarkFailed(w) ==
    /\ pc[w] = "exec"
    /\ execution' = "failed"
    /\ Goto(w, "row")
    /\ UNCHANGED <<delivery, rows, queue, published, retries, accepted,
                   requested, faults>>

(* Mutated RecordFailure: an exhausted attempt is not marked terminal.     *)
RecordFailureOpen(w) ==
    /\ pc[w] = "row"
    /\ rows' = rows \union
        {[retries |-> retries[w], terminal |-> path[w] = "permanent"]}
    /\ IF path[w] = "permanent" \/ Exhausted(w)
       THEN Finish(w) ELSE Goto(w, "retry")
    /\ UNCHANGED <<delivery, execution, queue, published, retries, accepted,
                   requested, faults>>

RecordFailure(w) ==
    /\ pc[w] = "row"
    /\ rows' = rows \union
        {[retries |-> retries[w],
          terminal |-> path[w] = "permanent" \/ Exhausted(w)]}
    /\ IF path[w] = "permanent" \/ Exhausted(w)
       THEN Finish(w) ELSE Goto(w, "retry")
    /\ UNCHANGED <<delivery, execution, queue, published, retries, accepted,
                   requested, faults>>

(* Mutated AfterRetry: the Retry of the except clause is caught again.     *)
AfterRetryAgain(w) == Record(w, "exception")

(* raise self.retry(...): in the try block the Retry exception reaches the *)
(* except clause of the same attempt, in the except clause it leaves.      *)
AfterRetry(w) ==
    IF path[w] = "response" THEN Record(w, "exception") ELSE Finish(w)

Retry(w) ==
    /\ pc[w] = "retry"
    /\ queue' = [queue EXCEPT ![retries[w] + 1] = @ + 1]
    /\ published' = [published EXCEPT ![retries[w] + 1] = @ + 1]
    /\ AfterRetry(w)
    /\ UNCHANGED <<delivery, execution, rows, retries, accepted, requested,
                   faults>>

(* The broker refuses the publication: self.retry raises Reject.           *)
BrokerError(w) ==
    /\ pc[w] = "retry"
    /\ Fault
    /\ AfterRetry(w)
    /\ UNCHANGED <<delivery, execution, rows, queue, published, retries,
                   accepted, requested>>

(* A database statement raises: in front of the try block or in the except *)
(* clause the attempt ends unretried, in the try block it is an exception. *)
DatabaseError(w) ==
    /\ \/ /\ \/ pc[w] \in {"create", "fetch", "resume"}
             \/ pc[w] \in {"state", "exec", "row"} /\ path[w] = "exception"
          /\ Finish(w)
       \/ /\ \/ pc[w] \in {"load", "save", "mark"}
             \/ /\ pc[w] \in {"state", "exec", "row"}
                /\ path[w] \in {"permanent", "response"}
          /\ Record(w, "exception")
    /\ Fault
    /\ UNCHANGED <<delivery, execution, rows, queue, published, retries,
                   accepted, requested>>

Crash(w) ==
    /\ pc[w] # "idle"
    /\ Finish(w)
    /\ Fault
    /\ UNCHANGED <<delivery, execution, rows, queue, published, retries,
                   accepted, requested>>

-----------------------------------------------------------------------------

Body(w) ==
    \/ CreateExecution(w)
    \/ FetchExecution(w)
    \/ ResumeExecution(w)
    \/ LoadDelivery(w)
    \/ Post(w)
    \/ SaveDelivery(w)
    \/ MarkSucceeded(w)
    \/ UpdateState(w)
    \/ MarkFailed(w)
    \/ RecordFailure(w)
    \/ Retry(w)

Next ==
    \/ CreateDelivery \/ RequestDelivery \/ RequestLost \/ Redeliver
    \/ \E w \in Workers :
        Receive(w) \/ Body(w) \/ BrokerError(w) \/ DatabaseError(w) \/ Crash(w)

Spec == Init /\ [][Next]_vars

(* Whoever has begun goes on: the signal handler and the workers.          *)
Fairness ==
    /\ WF_vars(RequestDelivery)
    /\ \A w \in Workers : WF_vars(Body(w))
    /\ WF_vars(\E w \in Workers : Receive(w))

FairSpec == Spec /\ Fairness

-----------------------------------------------------------------------------

(***************************************************************************)
(* The retry tree is finite: two publications per refused attempt at most, *)
(* so at most 2^r messages ever carry retry number r.  (A linear chain is  *)
(* what self.retry is meant to give; this is what bounds the doubling.)    *)
(***************************************************************************)
RetryTreeBounded ==
    faults = 0 => \A r \in Retries : published[r] <= 2^r

(***************************************************************************)
(* A recorded success, of the delivery or of its execution, is backed by   *)
(* an accepted POST, whatever duplicates, deaths and overwrites happened.  *)
(***************************************************************************)
SuccessWasAccepted ==
    delivery = "success" \/ execution = "succeeded" => accepted > 0

(* The execution succeeded and no worker can POST or overwrite it.         *)
Harmless(w) ==
    \/ pc[w] \in {"idle", "create", "fetch"}
    \/ pc[w] \in {"row", "retry"} /\ path[w] = "exception"

Latched == execution = "succeeded" /\ \A w \in Workers : Harmless(w)

(***************************************************************************)
(* The delivery implements the abstract job of IdempotentJob: duplicated   *)
(* messages that are still waiting when the success is recorded are        *)
(* skipped, only attempts already past the skip test can POST again.       *)
(***************************************************************************)
Job == INSTANCE IdempotentJob
        WITH phase <- IF Latched THEN "latched" ELSE "open",
             effects <- accepted

ImplementsJob == Job!JobSpec

(***************************************************************************)
(* Without faults a created delivery is worked off, and what remains is a  *)
(* recorded success or a failure that the dead-letter list shows.          *)
(***************************************************************************)
Quiet ==
    /\ requested
    /\ \A r \in Retries : queue[r] = 0
    /\ \A w \in Workers : pc[w] = "idle"

WorkedOff ==
    Quiet /\ (execution = "succeeded" \/ \E f \in rows : f.terminal)

EventuallyWorkedOff ==
    delivery # "absent" ~> (faults > 0 \/ WorkedOff)

-----------------------------------------------------------------------------

(***************************************************************************)
(* What test_execute_federation_delivery_is_idempotent_after_success says  *)
(* of the task: once the execution is recorded as succeeded, running it    *)
(* does not reach the remote inbox again.                                  *)
(***************************************************************************)
IdempotentAfterSuccess ==
    [][execution = "succeeded" => accepted' = accepted]_vars
=============================================================================
