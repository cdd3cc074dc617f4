---------------------------- MODULE LiveUpdates ----------------------------
(***************************************************************************)
(* One participant's open conversation page, kept up to date by the        *)
(* updates endpoint (conversation_updates_view) and, where the feature is  *)
(* on, by the websocket consumer.  The page keeps one cursor, pollCursor,  *)
(* and the ids it knows (templates/private_messages/detail.html).          *)
(*                                                                         *)
(* Composes ConversationSend with the page: publishing an event is best    *)
(* effort, and happens before the message is committed.  The session ends  *)
(* when the page is loaded again.                                          *)
(*                                                                         *)
(* A cursor is the created_at of a message, 0 for the empty cursor.        *)
(***************************************************************************)
EXTENDS ConversationSend, Sequences, SequencesExt

CONSTANTS
    Viewer,          \* the participant whose page this is
    SocketEnabled,   \* FEATURE_PM_WEBSOCKET_ENABLED
    PageSize,        \* the limit of 100 envelopes per answer
    MaxLosses        \* bound on lost connections and failed polls

ASSUME PageAssumption ==
    /\ SocketEnabled \in BOOLEAN
    /\ PageSize \in Nat \ {0}
    /\ MaxLosses \in Nat

VARIABLES
    page,        \* "closed", "opening" (read marker set), "open"
    socket,      \* "none" before the only connection, "open", "closed"
    events,      \* events on their way to the page, in order
    known,       \* messages the page shows
    pollCursor,
    poll,        \* stage of the poll in flight
    sentCursor,  \* the cursor the poll was sent with
    batch,       \* envelopes of the answer, oldest first
    nextCursor,  \* next_cursor of the answer
    read,        \* incoming messages with read_at
    lastRead,    \* ConversationParticipant.last_read_at, 0 for none
    losses       \* connections and polls that failed so far

pageVars == <<page, socket, events, known, pollCursor, poll, sentCursor,
              batch, nextCursor, read, lastRead, losses>>

vars == <<sendVars, pageVars>>

PollStages == {"idle", "asked", "queried", "marked", "answered"}

(* The values the state ranges over; only committed messages are read.     *)
TypeOK ==
    /\ SendTypeOK
    /\ page \in {"closed", "opening", "open"}
    /\ socket \in {"none", "open", "closed"}
    /\ events \in Seq(Sends)
    /\ known \subseteq Sends
    /\ pollCursor \in 0..MaxClock
    /\ poll \in PollStages
    /\ sentCursor \in 0..MaxClock
    /\ batch \in Seq(Sends)
    /\ nextCursor \in 0..MaxClock
    /\ read \subseteq committed
    /\ lastRead \in 0..MaxClock
    /\ losses \in 0..MaxLosses

PageInit ==
    /\ Init
    /\ page = "closed"
    /\ socket = "none"
    /\ events = <<>>
    /\ known = {}
    /\ pollCursor = 0
    /\ poll = "idle"
    /\ sentCursor = 0
    /\ batch = <<>>
    /\ nextCursor = 0
    /\ read = {}
    /\ lastRead = 0
    /\ losses = 0

-----------------------------------------------------------------------------
(* The server side of sending, with the event it publishes.                *)

SendStep ==
    /\ \/ Tick
       \/ \E s \in Sends :
            Begin(s) \/ Store(s) \/ Refuse(s) \/ Commit(s) \/ Abort(s)
    /\ UNCHANGED pageVars

(* group_send reaches the page's channel, or fails and is only logged.     *)
PublishEvent(s) ==
    /\ Publish(s)
    /\ \/ socket = "open" /\ events' = Append(events, s)
       \/ UNCHANGED events
    /\ UNCHANGED <<page, socket, known, pollCursor, poll, sentCursor,
                   batch, nextCursor, read, lastRead, losses>>

-----------------------------------------------------------------------------
(* The page.                                                               *)

Incoming == {m \in committed : Sender[m] # Viewer}

Newest(S) == IF S = {} THEN 0 ELSE Max({created[m] : m \in S})

(* The messages of S, oldest first.                                        *)
ByTime(S) ==
    LET n == Cardinality(S)
    IN  CHOOSE q \in [1..n -> S] :
            \A i, j \in 1..n : i < j => created[q[i]] < created[q[j]]

(* mark_conversation_read: nothing when there is no incoming message up to *)
(* the given time, else the marker moves forward and the rows are stamped  *)
(* (its three statements in one step; the viewer has one page).            *)
MarkRead(through) ==
    LET seen == {m \in Incoming : created[m] <= through} IN
    /\ read' = read \union seen
    /\ lastRead' = IF lastRead < Newest(seen) THEN Newest(seen) ELSE lastRead

(* conversation_detail_view: the read marker, then the list of envelopes.  *)
OpenPage ==
    /\ page = "closed"
    /\ page' = "opening"
    /\ MarkRead(MaxClock)
    /\ UNCHANGED <<sendVars, socket, events, known, pollCursor, poll,
                   sentCursor, batch, nextCursor, losses>>

RenderPage ==
    /\ page = "opening"
    /\ page' = "open"
    /\ known' = committed
    /\ pollCursor' = Newest(committed)
    /\ UNCHANGED <<sendVars, socket, events, poll, sentCursor, batch,
                   nextCursor, read, lastRead, losses>>

ConnectSocket ==
    /\ SocketEnabled
    /\ page = "open"
    /\ socket = "none"
    /\ socket' = "open"
    /\ UNCHANGED <<sendVars, page, events, known, pollCursor, poll,
                   sentCursor, batch, nextCursor, read, lastRead, losses>>

(* The connection closes; what was on its way is lost.  The page does not  *)
(* connect again.                                                          *)
LoseSocket ==
    /\ socket = "open"
    /\ losses < MaxLosses
    /\ losses' = losses + 1
    /\ socket' = "closed"
    /\ events' = <<>>
    /\ UNCHANGED <<sendVars, page, known, pollCursor, poll, sentCursor, batch,
                   nextCursor, read, lastRead>>

(* handleIncomingEnvelope: a known message is ignored, a new one is shown  *)
(* and becomes the cursor.                                                 *)
Handle(m) ==
    /\ known' = known \union {m}
    /\ pollCursor' = IF m \in known THEN pollCursor ELSE created[m]

SocketEvent ==
    /\ socket = "open"
    /\ events # <<>>
    /\ Handle(Head(events))
    /\ events' = Tail(events)
    /\ UNCHANGED <<sendVars, page, socket, poll, sentCursor, batch,
                   nextCursor, read, lastRead, losses>>

(* One poll at a time (pollInFlight).                                      *)
StartPoll ==
    /\ page = "open"
    /\ poll = "idle"
    /\ poll' = "asked"
    /\ sentCursor' = pollCursor
    /\ UNCHANGED <<sendVars, page, socket, events, known, pollCursor,
                   batch, nextCursor, read, lastRead, losses>>

Behind(cursor) == {m \in committed : created[m] > cursor}

(* Mutated QueryUpdates: the newest page of the gap, not the oldest.       *)
QueryNewestUpdates ==
    /\ poll = "asked"
    /\ poll' = "queried"
    /\ LET all == ByTime(Behind(sentCursor)) IN
       batch' = IF Len(all) <= PageSize THEN all
                ELSE SubSeq(all, Len(all) - PageSize + 1, Len(all))
    /\ UNCHANGED <<sendVars, page, socket, events, known, pollCursor,
                   sentCursor, nextCursor, read, lastRead, losses>>

(* The first query: the oldest PageSize messages behind the cursor.        *)
QueryUpdates ==
    /\ poll = "asked"
    /\ poll' = "queried"
    /\ LET all == ByTime(Behind(sentCursor)) IN
       batch' = IF Len(all) <= PageSize THEN all ELSE SubSeq(all, 1, PageSize)
    /\ UNCHANGED <<sendVars, page, socket, events, known, pollCursor,
                   sentCursor, nextCursor, read, lastRead, losses>>

(* Mutated MarkAnswer: marks everything the conversation holds.            *)
MarkAnswerUnbounded ==
    /\ poll = "queried"
    /\ poll' = "marked"
    /\ MarkRead(MaxClock)
    /\ UNCHANGED <<sendVars, page, socket, events, known, pollCursor,
                   sentCursor, batch, nextCursor, losses>>

(* Mark read through the newest incoming message of the answer, if any.    *)
MarkAnswer ==
    /\ poll = "queried"
    /\ poll' = "marked"
    /\ LET incoming == ToSet(batch) \intersect Incoming IN
       IF incoming = {} THEN UNCHANGED <<read, lastRead>>
       ELSE MarkRead(Newest(incoming))
    /\ UNCHANGED <<sendVars, page, socket, events, known, pollCursor,
                   sentCursor, batch, nextCursor, losses>>

(* next_cursor: the last envelope of the answer; for an empty answer the   *)
(* newest message a second query finds.                                    *)
Answer ==
    /\ poll = "marked"
    /\ poll' = "answered"
    /\ nextCursor' = IF batch # <<>> THEN created[Last(batch)]
                     ELSE Newest(committed)
    /\ UNCHANGED <<sendVars, page, socket, events, known, pollCursor,
                   sentCursor, batch, read, lastRead, losses>>

(* The page handles the envelopes one by one; events may come between.     *)
HandleAnswered ==
    /\ poll = "answered"
    /\ batch # <<>>
    /\ Handle(Head(batch))
    /\ batch' = Tail(batch)
    /\ UNCHANGED <<sendVars, page, socket, events, poll, sentCursor,
                   nextCursor, read, lastRead, losses>>

(* Mutated FinishPoll: pollInFlight is not cleared.                        *)
FinishPollInFlight ==
    /\ poll = "answered"
    /\ batch = <<>>
    /\ pollCursor' = IF nextCursor # 0 THEN nextCursor ELSE pollCursor
    /\ UNCHANGED <<sendVars, page, socket, events, known, poll, batch,
                   sentCursor, nextCursor, read, lastRead, losses>>

(* Then it takes over next_cursor, unless that is empty.                   *)
FinishPoll ==
    /\ poll = "answered"
    /\ batch = <<>>
    /\ poll' = "idle"
    /\ pollCursor' = IF nextCursor # 0 THEN nextCursor ELSE pollCursor
    /\ sentCursor' = 0
    /\ nextCursor' = 0
    /\ UNCHANGED <<sendVars, page, socket, events, known, batch, read,
                   lastRead, losses>>

(* The answer is lost, or the request failed: the same cursor is sent      *)
(* again later.                                                            *)
PollFails ==
    /\ poll \notin {"idle", "answered"}
    /\ losses < MaxLosses
    /\ losses' = losses + 1
    /\ poll' = "idle"
    /\ batch' = <<>>
    /\ sentCursor' = 0
    /\ UNCHANGED <<sendVars, page, socket, events, known, pollCursor,
                   nextCursor, read, lastRead>>

PollStep ==
    \/ StartPoll \/ QueryUpdates \/ MarkAnswer \/ Answer
    \/ HandleAnswered \/ FinishPoll

PageStep ==
    \/ OpenPage \/ RenderPage \/ ConnectSocket \/ LoseSocket \/ SocketEvent
    \/ PollStep \/ PollFails

Next == SendStep \/ (\E s \in Sends : PublishEvent(s)) \/ PageStep

Spec == PageInit /\ [][Next]_vars

(* The poll timer is always armed while the page is open, and the server   *)
(* answers; requests in flight end; nobody has to send or open anything.   *)
FairSpec ==
    /\ Spec
    /\ WF_vars(RenderPage)
    /\ WF_vars(PollStep)
    /\ WF_vars(SocketEvent)

-----------------------------------------------------------------------------

(* What the page does not show although its cursor has passed it: no later *)
(* poll of this session returns it.                                        *)
Skipped ==
    IF page = "open"
    THEN {m \in committed \ known : created[m] <= pollCursor} ELSE {}

(***************************************************************************)
(* A message can be skipped in two ways only: an event moves the cursor    *)
(* past a message whose own event was lost, or an empty answer carries the *)
(* cursor of a message committed between the two queries of the endpoint.  *)
(* An answer with envelopes, however many pages the gap has, passes over   *)
(* nothing that was still ahead of the cursor the poll was sent with.      *)
(***************************************************************************)
OnlyKnownGaps ==
    [][\A m \in Skipped' \ Skipped :
        \/ SocketEvent
        \/ created[m] <= sentCursor
        \/ (FinishPoll /\ m \notin known /\ created[m] <= nextCursor
             /\ \A n \in known : created[n] # nextCursor)]_vars

(***************************************************************************)
(* An answer marks as read only the messages it holds, and what lies       *)
(* behind the cursor the page sent (which the page knows, or has skipped   *)
(* when it sent it).  Messages that are committed after the answer was     *)
(* put together, or that it has no room for, stay unread, also when they   *)
(* are there by the time the read marker is moved.                         *)
(***************************************************************************)
ReadWasGiven ==
    [][page = "open" =>
          \A m \in read' \ read : m \in ToSet(batch) \/ created[m] <= sentCursor]_vars

(***************************************************************************)
(* The page shows nothing that the sender did not send: what it shows is   *)
(* committed, or about to be, unless a transaction died after publishing.  *)
(***************************************************************************)
NoPhantom ==
    faults = 0 => \A m \in known : m \in committed \/ stage[m] = "published"

(***************************************************************************)
(* An open page catches up again and again with what has been committed,   *)
(* but for the messages it has skipped.                                    *)
(***************************************************************************)
CatchesUp ==
    []<>(page = "open" => committed \subseteq known \union Skipped)

-----------------------------------------------------------------------------

(***************************************************************************)
(* "Fall back to polling recovery": a message whose event did not reach    *)
(* the page is still fetched by a later poll, so an event never moves the  *)
(* page past a message it has not shown.                                   *)
(***************************************************************************)
PollingRecovers ==
    [][SocketEvent => Skipped' \subseteq Skipped]_vars
=============================================================================
