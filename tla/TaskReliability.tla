-------------------------- MODULE TaskReliability --------------------------
(***************************************************************************)
(* The retried, idempotent Celery tasks of the project, seen from one      *)
(* AsyncTaskExecution row (one task_name, one idempotency_key): the three  *)
(* helpers of apps/core/services/task_reliability.py as the e-mail tasks   *)
(* of apps/accounts/tasks.py call them, one database statement per action. *)
(* PostTasks adds the bodies of the tasks of apps/posts/tasks.py; which    *)
(* task the row belongs to decides about the limits and never changes.     *)
(*                                                                         *)
(* A Celery worker acknowledges a message when it takes it (the project    *)
(* does not set acks_late), so a worker that dies loses it.  Every         *)
(* exception that leaves a task body reaches autoretry_for=(Exception,),   *)
(* which publishes the same task id again with one more retry while        *)
(* retry_kwargs["max_retries"] allows it.                                  *)
(*                                                                         *)
(* Abstracted: attempt_count, payload, correlation ids and error texts     *)
(* (no guard reads them); backoff delays (a message may be taken at any    *)
(* time); e-mail texts and the verification token a mail carries.  The     *)
(* operator commands on failure rows are not part of this module.          *)
(***************************************************************************)
EXTENDS Naturals, FiniteSets

CONSTANTS
    Workers,      \* Celery worker processes that may run this task
    TaskIds,      \* ids of the deliveries requested with .delay(); bounds them
    RetryLimit,   \* by task, retry_kwargs["max_retries"] of autoretry
    RecordedMax,  \* by task, task.max_retries: what failure rows compare with
    LastRetry,    \* no task is retried more often
    MaxFaults,    \* bound on worker deaths and database errors
    NoMsg         \* a worker that holds no message

Tasks == {"mail", "media", "unfurl"}

Message == [id: TaskIds, retries: 0..LastRetry]

ASSUME LimitAssumption ==
    /\ LastRetry \in Nat
    /\ RetryLimit \in [Tasks -> 0..LastRetry]
    /\ RecordedMax \in [Tasks -> Nat]
    /\ MaxFaults \in Nat

ASSUME NoMsgAssumption == NoMsg \notin Message

VARIABLES
    task,      \* the task the execution row belongs to
    status,    \* AsyncTaskExecution.status, or "absent" when there is no row
    failures,  \* the AsyncTaskFailure rows of this key
    queue,     \* messages in the broker
    issued,    \* ids already requested
    pc,        \* where each worker is in the task body
    msg,       \* the message each worker holds
    effects,   \* e-mails the SMTP server accepted
    faults     \* worker deaths and database errors so far

vars == <<task, status, failures, queue, issued, pc, msg, effects, faults>>

Status == {"absent", "started", "succeeded", "failed"}

FailureRow == [id: TaskIds, retries: 0..LastRetry, terminal: BOOLEAN]

(***************************************************************************)
(* "create" and "fetch" are before the skip test, "resume" to "retry"      *)
(* behind it: "resume" is about to overwrite the row it read, "run" about  *)
(* to perform the effect, "mark" and "fail" about to record how it went,   *)
(* "row" about to add the failure row, "retry" about to leave the body     *)
(* with an exception.                                                      *)
(***************************************************************************)
BeforeGuard == {"idle", "create", "fetch"}
AfterGuard == {"resume", "run", "mark", "fail", "refused", "row", "refusedRow", "retry"}
PC == BeforeGuard \union AfterGuard

(* The values the state ranges over; a worker holds a message exactly     *)
(* while it is in a task body.                                             *)
TypeOK ==
    /\ task \in Tasks
    /\ status \in Status
    /\ failures \subseteq FailureRow
    /\ queue \subseteq Message
    /\ issued \subseteq TaskIds
    /\ pc \in [Workers -> PC]
    /\ msg \in [Workers -> Message \union {NoMsg}]
    /\ \A w \in Workers : pc[w] = "idle" <=> msg[w] = NoMsg
    /\ effects \in Nat
    /\ faults \in 0..MaxFaults

Begin ==
    /\ status = "absent"
    /\ failures = {}
    /\ queue = {}
    /\ issued = {}
    /\ pc = [w \in Workers |-> "idle"]
    /\ msg = [w \in Workers |-> NoMsg]
    /\ effects = 0
    /\ faults = 0

Init == task = "mail" /\ Begin

Goto(w, label) == pc' = [pc EXCEPT ![w] = label]

Finish(w) ==
    /\ pc' = [pc EXCEPT ![w] = "idle"]
    /\ msg' = [msg EXCEPT ![w] = NoMsg]

-----------------------------------------------------------------------------

(* A view, a signal or a support page calls .delay(): a fresh task id.     *)
Request(id) ==
    /\ id \notin issued
    /\ issued' = issued \union {id}
    /\ queue' = queue \union {[id |-> id, retries |-> 0]}
    /\ UNCHANGED <<task, status, failures, pc, msg, effects, faults>>

(* A free worker takes, and so acknowledges, a message.                    *)
Receive(w) ==
    /\ pc[w] = "idle"
    /\ \E m \in queue :
        /\ queue' = queue \ {m}
        /\ msg' = [msg EXCEPT ![w] = m]
    /\ Goto(w, "create")
    /\ UNCHANGED <<task, status, failures, issued, effects, faults>>

(* INSERT of the execution row; the unique key lets one insert succeed.    *)
CreateExecution(w) ==
    /\ pc[w] = "create"
    /\ \/ /\ status = "absent"
          /\ status' = "started"
          /\ Goto(w, "run")
       \/ /\ status # "absent"
          /\ Goto(w, "fetch")
          /\ UNCHANGED status
    /\ UNCHANGED <<task, failures, queue, issued, msg, effects, faults>>

(* Mutated FetchExecution: resumes a succeeded execution too.              *)
FetchExecutionNoSkip(w) ==
    /\ pc[w] = "fetch"
    /\ Goto(w, "resume")
    /\ UNCHANGED <<task, status, failures, queue, issued, msg, effects, faults>>

(* SELECT of the existing row, without a lock, and the skip test on it.    *)
FetchExecution(w) ==
    /\ pc[w] = "fetch"
    /\ \/ /\ status = "succeeded"
          /\ Finish(w)
       \/ /\ status # "succeeded"
          /\ Goto(w, "resume")
          /\ UNCHANGED msg
    /\ UNCHANGED <<task, status, failures, queue, issued, effects, faults>>

(* UPDATE of the row read before: whatever the row says now becomes        *)
(* "started".                                                              *)
ResumeExecution(w) ==
    /\ pc[w] = "resume"
    /\ status' = "started"
    /\ Goto(w, "run")
    /\ UNCHANGED <<task, failures, queue, issued, msg, effects, faults>>

(* send_mail returns, raises (before or after the server accepted the      *)
(* message) or raises SMTPRecipientsRefused.                               *)
Deliver(w) ==
    /\ pc[w] = "run"
    /\ \/ effects' = effects + 1 /\ Goto(w, "mark")
       \/ effects' \in {effects, effects + 1} /\ Goto(w, "fail")
       \/ UNCHANGED effects /\ Goto(w, "refused")
    /\ UNCHANGED <<task, status, failures, queue, issued, msg, faults>>

MarkSucceeded(w) ==
    /\ pc[w] = "mark"
    /\ status' = "succeeded"
    /\ Finish(w)
    /\ UNCHANGED <<task, failures, queue, issued, effects, faults>>

(* First statement of mark_task_execution_failed: the execution row.       *)
MarkFailed(w) ==
    /\ \/ pc[w] = "fail" /\ Goto(w, "row")
       \/ pc[w] = "refused" /\ Goto(w, "refusedRow")
    /\ status' = "failed"
    /\ UNCHANGED <<task, failures, queue, issued, msg, effects, faults>>

FailureOf(m, terminal) ==
    [id |-> m.id, retries |-> m.retries, terminal |-> terminal]

(* Mutated RecordFailure: a row for the last attempt only; the attempt     *)
(* number compared where the number of retries was meant; > for >=.        *)
RecordFailureTerminalOnly(w) ==
    /\ \/ /\ pc[w] = "row"
          /\ failures' = IF msg[w].retries >= RecordedMax[task]
                         THEN failures \union {FailureOf(msg[w], TRUE)}
                         ELSE failures
          /\ Goto(w, "retry")
          /\ UNCHANGED msg
       \/ /\ pc[w] = "refusedRow"
          /\ failures' = failures \union {FailureOf(msg[w], TRUE)}
          /\ Finish(w)
    /\ UNCHANGED <<task, status, queue, issued, effects, faults>>

RecordFailureByAttempt(w) ==
    /\ pc[w] \in {"row", "refusedRow"}
    /\ failures' = failures \union
            {FailureOf(msg[w], msg[w].retries + 1 >= RecordedMax[task])}
    /\ IF pc[w] = "row" THEN Goto(w, "retry") /\ UNCHANGED msg ELSE Finish(w)
    /\ UNCHANGED <<task, status, queue, issued, effects, faults>>

RecordFailureBeyondMax(w) ==
    /\ pc[w] \in {"row", "refusedRow"}
    /\ failures' = failures \union
            {FailureOf(msg[w], msg[w].retries > RecordedMax[task])}
    /\ IF pc[w] = "row" THEN Goto(w, "retry") /\ UNCHANGED msg ELSE Finish(w)
    /\ UNCHANGED <<task, status, queue, issued, effects, faults>>

(* Second statement: the failure row.  A refused recipient is final and    *)
(* the task returns; otherwise the exception is raised again.              *)
RecordFailure(w) ==
    /\ \/ /\ pc[w] = "row"
          /\ failures' = failures \union
                {FailureOf(msg[w], msg[w].retries >= RecordedMax[task])}
          /\ Goto(w, "retry")
          /\ UNCHANGED msg
       \/ /\ pc[w] = "refusedRow"
          /\ failures' = failures \union {FailureOf(msg[w], TRUE)}
          /\ Finish(w)
    /\ UNCHANGED <<task, status, queue, issued, effects, faults>>

(* Celery's autoretry wrapper: publish the task id again or give up.       *)
AutoRetry(w) ==
    /\ pc[w] = "retry"
    /\ queue' = IF msg[w].retries < RetryLimit[task]
                THEN queue \union {[msg[w] EXCEPT !.retries = @ + 1]}
                ELSE queue
    /\ Finish(w)
    /\ UNCHANGED <<task, status, failures, issued, effects, faults>>

(* The worker process dies; its message was acknowledged already.          *)
Crash(w) ==
    /\ pc[w] # "idle"
    /\ faults < MaxFaults
    /\ faults' = faults + 1
    /\ Finish(w)
    /\ UNCHANGED <<task, status, failures, queue, issued, effects>>

(* A database statement raises.  Inside the try block that is one more     *)
(* failure of the task; outside it, or in the handler, the exception       *)
(* leaves the body with no failure row.                                    *)
DatabaseError(w) ==
    /\ faults < MaxFaults
    /\ faults' = faults + 1
    /\ \/ pc[w] = "mark" /\ Goto(w, "fail") /\ UNCHANGED msg
       \/ /\ pc[w] \in {"create", "fetch", "resume", "fail", "row",
                        "refused", "refusedRow"}
          /\ Goto(w, "retry")
          /\ UNCHANGED msg
    /\ UNCHANGED <<task, status, failures, queue, issued, effects>>

-----------------------------------------------------------------------------

Body(w) ==
    \/ CreateExecution(w)
    \/ FetchExecution(w)
    \/ ResumeExecution(w)
    \/ Deliver(w)
    \/ MarkSucceeded(w)
    \/ MarkFailed(w)
    \/ RecordFailure(w)
    \/ AutoRetry(w)

Next ==
    \/ \E id \in TaskIds : Request(id)
    \/ \E w \in Workers : Receive(w) \/ Body(w) \/ Crash(w) \/ DatabaseError(w)

Spec == Init /\ [][Next]_vars

(***************************************************************************)
(* A running worker gets on with its task and a free one eventually takes  *)
(* a waiting message.  Nobody has to request anything and nothing has to   *)
(* fail.                                                                   *)
(***************************************************************************)
FairSpec ==
    /\ Spec
    /\ \A w \in Workers : WF_vars(Body(w))
    /\ WF_vars(\E w \in Workers : Receive(w))

-----------------------------------------------------------------------------

(* The success is recorded and no worker can still perform the effect or   *)
(* overwrite the status: each is in front of the skip test or past the     *)
(* write of the status.                                                    *)
Harmless == BeforeGuard \union {"row", "refusedRow", "retry"}

Latched ==
    /\ status = "succeeded"
    /\ \A w \in Workers : pc[w] \in Harmless

(* The attempts that are waiting or being worked on.                       *)
Working == {w \in Workers : msg[w] # NoMsg}

Live == queue \union {msg[w] : w \in Working}

(***************************************************************************)
(* A task id is never in two places at once: autoretry publishes the next  *)
(* attempt as the last thing the current one does, so attempts of one      *)
(* request cannot overlap (attempts of two requests can).                  *)
(***************************************************************************)
OneIncarnation ==
    /\ \A m, n \in queue : m.id = n.id => m = n
    /\ \A m \in queue, w \in Working : msg[w].id # m.id
    /\ \A v, w \in Working : msg[v].id = msg[w].id => v = w

(***************************************************************************)
(* The failure rows are a complete trail: attempt r of a request is        *)
(* waiting or running only if each earlier attempt left its row, up to one *)
(* missing row per database error.                                         *)
(***************************************************************************)
AttemptTrail ==
    \A m \in Live :
        Cardinality({k \in 0..(m.retries - 1) :
            \A f \in failures : f.id = m.id => f.retries # k}) <= faults

(***************************************************************************)
(* A failure row the task layer marks terminal closes its request: the     *)
(* same task id is not attempted again.  False of the e-mail tasks, whose  *)
(* rows are compared with a smaller limit than the one autoretry uses.     *)
(***************************************************************************)
TerminalIsFinal ==
    \A f \in failures : \A m \in Live :
        f.terminal /\ m.id = f.id => m.retries <= f.retries

(***************************************************************************)
(* The recorded execution implements the abstract job: a success is        *)
(* recorded only after the effect, and once no attempt is under way the    *)
(* effect is never repeated, whatever is requested later.                  *)
(***************************************************************************)
Job == INSTANCE IdempotentJob
        WITH phase <- IF Latched THEN "latched" ELSE "open"

ImplementsJob == Job!JobSpec

(* A row that shows that its request was given up: a terminal one, or,     *)
(* when autoretry gives up before the limit of the rows is reached (link   *)
(* previews: 2 and 3), the row of the last attempt, which is not terminal. *)
GivenUp(f) ==
    \/ f.terminal
    \/ RetryLimit[task] < RecordedMax[task] /\ f.retries = RetryLimit[task]

(***************************************************************************)
(* Without deaths and database errors every request is worked off, and     *)
(* what remains is either a recorded success or a recorded failure with a  *)
(* row that shows that it was given up; that is a terminal row of the      *)
(* dead-letter list, except for a link preview.                            *)
(***************************************************************************)
Settled ==
    /\ queue = {}
    /\ \A w \in Workers : pc[w] = "idle"
    /\ \/ issued = {}
       \/ status = "succeeded"
       \/ status = "failed" /\ \E f \in failures : GivenUp(f)

EventuallySettled == <>[](faults > 0 \/ Settled)
=============================================================================
