-------------------------- MODULE ConversationSend --------------------------
(***************************************************************************)
(* Sending into one direct conversation: send_encrypted_message_view of    *)
(* apps/private_messages/views.py and the services it calls.  Each request *)
(* is one database transaction that holds the lock on the conversation row *)
(* (select_for_update) from the count of recent messages to the commit.    *)
(*                                                                         *)
(* Time is a clock; a message is stored at a fresh reading of it, so two   *)
(* messages have different created_at (the microseconds of two inserts     *)
(* that wait for the same lock do differ).                                 *)
(*                                                                         *)
(* Abstracted: ciphertext, keys, attachments and the parental and          *)
(* compromise checks, all of which can only refuse the message (Refuse);   *)
(* forms that are invalid before the transaction begins.                   *)
(***************************************************************************)
EXTENDS Integers, FiniteSets

CONSTANTS
    Sends,     \* send requests, each with a client_message_id of its own
    Sender,    \* Sender[s] is the participant who makes request s
    Limit,     \* PM_MESSAGE_RATE_LIMIT_MESSAGES
    Window,    \* PM_MESSAGE_RATE_LIMIT_WINDOW_SECONDS
    MaxClock,  \* bound on the clock
    MaxFaults, \* bound on transactions that die
    NoSend     \* nobody holds the lock

ASSUME SendAssumption ==
    /\ IsFiniteSet(Sends)
    /\ NoSend \notin Sends
    /\ Limit \in Nat \ {0}
    /\ Window \in Nat
    /\ MaxClock \in Nat
    /\ MaxFaults \in Nat
    /\ DOMAIN Sender = Sends

VARIABLES
    clock,
    lock,       \* the request that holds the conversation row, or NoSend
    stage,      \* where each request is
    created,    \* created_at of a stored message, 0 before that
    committed,  \* messages other transactions can see
    faults

sendVars == <<clock, lock, stage, created, committed, faults>>

Open == {"allowed", "stored", "published"}
Stages == Open \union {"new", "sent", "refused", "aborted"}

Init ==
    /\ clock = 0
    /\ lock = NoSend
    /\ stage = [s \in Sends |-> "new"]
    /\ created = [s \in Sends |-> 0]
    /\ committed = {}
    /\ faults = 0

(* The values the state ranges over.                                       *)
SendTypeOK ==
    /\ clock \in 0..MaxClock
    /\ lock \in Sends \union {NoSend}
    /\ stage \in [Sends -> Stages]
    /\ created \in [Sends -> 0..MaxClock]
    /\ committed \subseteq Sends
    /\ faults \in 0..MaxFaults

Goto(s, label) == stage' = [stage EXCEPT ![s] = label]

Tick ==
    /\ clock < MaxClock
    /\ clock' = clock + 1
    /\ UNCHANGED <<lock, stage, created, committed, faults>>

(* The sender's committed messages in the window before time t.            *)
Recent(s, t) ==
    {m \in committed : Sender[m] = Sender[s] /\ created[m] >= t - Window}

(* Mutated Begin: the count is read without the lock.                      *)
BeginUnlocked(s) ==
    /\ stage[s] = "new"
    /\ IF Cardinality(Recent(s, clock)) >= Limit
       THEN Goto(s, "refused") /\ UNCHANGED lock
       ELSE Goto(s, "allowed") /\ lock' = s
    /\ UNCHANGED <<clock, created, committed, faults>>

(* Mutated Begin: one message more than the limit.                         *)
BeginOffByOne(s) ==
    /\ stage[s] = "new"
    /\ lock = NoSend
    /\ IF Cardinality(Recent(s, clock)) > Limit
       THEN Goto(s, "refused") /\ UNCHANGED lock
       ELSE Goto(s, "allowed") /\ lock' = s
    /\ UNCHANGED <<clock, created, committed, faults>>

(* Lock the conversation, count, and refuse (rolling back) at the limit.   *)
Begin(s) ==
    /\ stage[s] = "new"
    /\ lock = NoSend
    /\ IF Cardinality(Recent(s, clock)) >= Limit
       THEN Goto(s, "refused") /\ UNCHANGED lock
       ELSE Goto(s, "allowed") /\ lock' = s
    /\ UNCHANGED <<clock, created, committed, faults>>

(* INSERT of the envelope, created_at = now.                               *)
Store(s) ==
    /\ stage[s] = "allowed"
    /\ clock < MaxClock
    /\ clock' = clock + 1
    /\ created' = [created EXCEPT ![s] = clock + 1]
    /\ Goto(s, "stored")
    /\ UNCHANGED <<lock, committed, faults>>

(* Mutated Refuse: the attachments are checked after the event went out.   *)
RefuseAfterPublish(s) ==
    /\ stage[s] \in Open
    /\ Goto(s, "refused")
    /\ lock' = NoSend
    /\ created' = [created EXCEPT ![s] = 0]
    /\ UNCHANGED <<clock, committed, faults>>

(* A ValidationError before or after the INSERT rolls the message back.    *)
Refuse(s) ==
    /\ stage[s] \in {"allowed", "stored"}
    /\ Goto(s, "refused")
    /\ lock' = NoSend
    /\ created' = [created EXCEPT ![s] = 0]
    /\ UNCHANGED <<clock, committed, faults>>

(* The live-update event goes out while the transaction is still open.     *)
Publish(s) ==
    /\ stage[s] = "stored"
    /\ Goto(s, "published")
    /\ UNCHANGED <<clock, lock, created, committed, faults>>

Commit(s) ==
    /\ stage[s] = "published"
    /\ Goto(s, "sent")
    /\ lock' = NoSend
    /\ committed' = committed \union {s}
    /\ UNCHANGED <<clock, created, faults>>

(* The process, the connection or the commit fails.                        *)
Abort(s) ==
    /\ stage[s] \in Open
    /\ faults < MaxFaults
    /\ faults' = faults + 1
    /\ Goto(s, "aborted")
    /\ lock' = NoSend
    /\ UNCHANGED <<clock, created, committed>>

-----------------------------------------------------------------------------

SendNext ==
    \/ Tick
    \/ \E s \in Sends :
        Begin(s) \/ Store(s) \/ Refuse(s) \/ Publish(s) \/ Commit(s) \/ Abort(s)

SendSpec == Init /\ [][SendNext]_sendVars

-----------------------------------------------------------------------------

(***************************************************************************)
(* The rate limit holds for every window, not only the one that ended when *)
(* the count was taken: no participant ever has more than Limit committed  *)
(* messages in Window units of time.  Two requests that count before       *)
(* either inserts would break it.                                          *)
(***************************************************************************)
RateLimit ==
    \A m \in committed :
        Cardinality({n \in committed :
            /\ Sender[n] = Sender[m]
            /\ created[n] \in (created[m] - Window)..created[m]}) <= Limit

(***************************************************************************)
(* Messages become visible in the order of their created_at.  A reader     *)
(* that continues behind the newest message it has seen (the cursor of the *)
(* updates endpoint, last_read_at) relies on it: with a later commit of an *)
(* earlier created_at it would never see that message.                     *)
(***************************************************************************)
VisibleInOrder ==
    [][\A m \in committed' \ committed, n \in committed :
        created[n] < created'[m]]_sendVars
=============================================================================
