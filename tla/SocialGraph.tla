---------------------------- MODULE SocialGraph ----------------------------
(***************************************************************************)
(* Follows, follow requests, blocks and the notices they send              *)
(* (apps/social/services.py, views.py, api_views.py,                       *)
(* apps/notifications/services.py).                                        *)
(*                                                                         *)
(* Nothing here runs in a transaction, so a view is several actions, one   *)
(* per statement that others can get in between; what a request has read   *)
(* stays in its slot.  A slot is a web process.                            *)
(*                                                                         *)
(* Abstracted: the two SELECTs for a block are one step; abuse control,    *)
(* which may refuse a follow before anything is read, is in Engagement;    *)
(* notices counts the FOLLOW notifications of the last dedupe_seconds.     *)
(* Left out: the default update (PUT, PATCH) of FollowViewSet, which moves *)
(* a row with its state to another followee.                               *)
(***************************************************************************)
EXTENDS Naturals, FiniteSets

CONSTANTS
    Actors,
    Slots,          \* web processes
    InitialFollows, \* what the follow table may hold in the beginning
    MaxRequests,    \* bound on requests
    MaxDeaths       \* bound on processes that die

Pairs == {p \in Actors \X Actors : p[1] # p[2]}

FollowState == {"none", "pending", "accepted", "rejected", "removed"}

ASSUME GraphAssumption ==
    /\ IsFiniteSet(Slots)
    /\ InitialFollows \subseteq [Pairs -> FollowState]
    /\ MaxRequests \in Nat
    /\ MaxDeaths \in Nat

VARIABLES
    active,   \* actors in state ACTIVE
    private,  \* actors with is_private_account
    follow,   \* follow[<<a, b>>]: the row of follower a and followee b
    blocks,   \* <<a, b>>: a blocks b
    notices,  \* notices[<<a, b>>]: recent notices to a about b
    req,      \* what the process in a slot is doing
    started,  \* requests so far
    died,     \* processes that died so far
    strays    \* history: live rows across a block, left by a request that had
              \* begun before it or by a blocking one that died

tables == <<active, private, follow, blocks, notices>>
bounds == <<started, died>>
vars == <<tables, req, bounds, strays>>

Labels == {"decide", "store", "fetch", "approve", "reject",
           "look", "insert", "cut", "cutback"}

(* pair: the row a request is about; was: the state it has loaded, or has  *)
(* decided to store; note: the notice it may send, recipient first.        *)
(* History: clear, no block stood when it began; open, the followee was    *)
(* public when it read the profile.                                        *)
Request == [pc : Labels, pair : Pairs, was : FollowState, note : Pairs,
            clear : BOOLEAN, open : BOOLEAN]

Idle == [pc |-> "idle"]

GraphTypeOK ==
    /\ active \subseteq Actors
    /\ private \subseteq Actors
    /\ follow \in [Pairs -> FollowState]
    /\ blocks \subseteq Pairs
    /\ notices \in [Pairs -> Nat]
    /\ req \in [Slots -> Request \union {Idle}]
    /\ started \in 0..MaxRequests
    /\ died \in 0..MaxDeaths
    /\ strays \subseteq Pairs

Reverse(p) == <<p[2], p[1]>>

(* _is_blocked_either_way                                                  *)
Blocked(p) == p \in blocks \/ Reverse(p) \in blocks

Live(state) == state \in {"pending", "accepted"}

Init ==
    /\ active = Actors
    /\ private \in SUBSET Actors
    /\ follow \in InitialFollows
    /\ blocks = {}
    /\ notices = [p \in Pairs |-> 0]
    /\ req = [s \in Slots |-> Idle]
    /\ started = 0
    /\ died = 0
    /\ strays = {}

-----------------------------------------------------------------------------

Count == started < MaxRequests /\ started' = started + 1 /\ UNCHANGED died

At(s, label) == req[s].pc = label

Goto(s, label) == req' = [req EXCEPT ![s].pc = label]

(* The request has answered; its slot forgets what it has read.            *)
Done(s) == req' = [req EXCEPT ![s] = Idle]

(* A request about row p begins in slot s.                                 *)
Begin(s, p, label) ==
    /\ At(s, "idle")
    /\ Count
    /\ req' = [req EXCEPT ![s] = [pc |-> label, pair |-> p, was |-> follow[p], note |-> Reverse(p),
                                  clear |-> ~Blocked(p), open |-> FALSE]]

(* follow_view and FollowViewSet.create: can_follow_actor,                 *)
FollowBegin(s, p) ==
    /\ p[2] \in active
    /\ ~Blocked(p)
    /\ Begin(s, p, "decide")
    /\ UNCHANGED <<tables, strays>>

(* Mutated FollowDecide: every follow is accepted.                         *)
FollowDecideAlways(s) ==
    /\ At(s, "decide")
    /\ req' = [req EXCEPT ![s].pc = "store", ![s].was = "accepted",
                          ![s].open = req[s].pair[2] \notin private]
    /\ UNCHANGED <<tables, bounds, strays>>

(* follow_actor reads the followee's profile,                              *)
FollowDecide(s) ==
    /\ At(s, "decide")
    /\ req' = [req EXCEPT
          ![s].pc = "store", ![s].open = req[s].pair[2] \notin private,
          ![s].was = IF req[s].pair[2] \in private THEN "pending" ELSE "accepted"]
    /\ UNCHANGED <<tables, bounds, strays>>

(* update_or_create; the API answers now, the web view goes on             *)
FollowStore(s) ==
    /\ At(s, "store")
    /\ follow' = [follow EXCEPT ![req[s].pair] = req[s].was]
    /\ strays' = IF Blocked(req[s].pair) /\ req[s].clear
                 THEN strays \union {req[s].pair} ELSE strays
    /\ Goto(s, "fetch") \/ Done(s)
    /\ UNCHANGED <<active, private, blocks, notices, bounds>>

(* to read the row again: Follow.objects.get, a 404 when it is gone.       *)
FollowFetch(s) ==
    /\ At(s, "fetch")
    /\ IF follow[req[s].pair] = "accepted" THEN Goto(s, "look") ELSE Done(s)
    /\ UNCHANGED <<tables, bounds, strays>>

(* Mutated Look: create_notification_if_new without the first query.       *)
LookNowhere(s) ==
    /\ At(s, "look")
    /\ Goto(s, "insert")
    /\ UNCHANGED <<tables, bounds, strays>>

(* create_notification_if_new looks for a recent notice                    *)
Look(s) ==
    /\ At(s, "look")
    /\ IF notices[req[s].note] > 0 THEN Done(s) ELSE Goto(s, "insert")
    /\ UNCHANGED <<tables, bounds, strays>>

(* and creates one.                                                        *)
Insert(s) ==
    /\ At(s, "insert")
    /\ notices' = [notices EXCEPT ![req[s].note] = @ + 1]
    /\ Done(s)
    /\ UNCHANGED <<active, private, follow, blocks, bounds, strays>>

-----------------------------------------------------------------------------

(* approve_follow_request_view, reject_follow_request_view and the API's   *)
(* approve and reject: the followee loads a pending request.               *)
AnswerBegin(s, p) ==
    /\ follow[p] = "pending"
    /\ \E label \in {"approve", "reject"} : Begin(s, p, label)
    /\ UNCHANGED <<tables, strays>>

(* save(update_fields=["state"]), which raises when the loaded row is gone *)
(* (was is none then).                                                     *)
Answer(s, state) ==
    LET p == req[s].pair
    IN  IF req[s].was = "none"
        THEN UNCHANGED <<follow, strays>>
        ELSE /\ follow' = [follow EXCEPT ![p] = state]
             /\ strays' = IF Blocked(p) /\ ~Live(follow[p]) /\ Live(state)
                          THEN strays \union {p} ELSE strays

(* The web view tells the follower next.                                   *)
Approve(s) ==
    /\ At(s, "approve")
    /\ Answer(s, "accepted")
    /\ \/ /\ req[s].was # "none"
          /\ req' = [req EXCEPT ![s].pc = "look", ![s].note = req[s].pair]
       \/ Done(s)
    /\ UNCHANGED <<active, private, blocks, notices, bounds>>

Reject(s) ==
    /\ At(s, "reject")
    /\ Answer(s, "rejected")
    /\ Done(s)
    /\ UNCHANGED <<active, private, blocks, notices, bounds>>

-----------------------------------------------------------------------------

(* unfollow_actor: one UPDATE.                                             *)
Cut(p) ==
    /\ follow' = [follow EXCEPT ![p] = IF @ = "none" THEN @ ELSE "removed"]
    /\ strays' = strays \ {p}

(* unfollow_view                                                           *)
Unfollow(p) ==
    /\ Count
    /\ Cut(p)
    /\ UNCHANGED <<active, private, blocks, notices, req>>

(* The destroy of FollowViewSet, for follower or followee: whoever has     *)
(* loaded the row has lost it.                                             *)
Destroy(p) ==
    /\ Count
    /\ follow[p] # "none"
    /\ follow' = [follow EXCEPT ![p] = "none"]
    /\ strays' = strays \ {p}
    /\ req' = [s \in Slots |->
                 IF req[s].pc \in {"approve", "reject"} /\ req[s].pair = p
                 THEN [req[s] EXCEPT !.was = "none"] ELSE req[s]]
    /\ UNCHANGED <<active, private, blocks, notices>>

-----------------------------------------------------------------------------

(* block_view: get_or_create,                                              *)
Block(s, p) ==
    /\ Begin(s, p, "cut")
    /\ blocks' = blocks \union {p}
    /\ UNCHANGED <<active, private, follow, notices, strays>>

(* unfollow_actor(blocker, blocked),                                       *)
CutThere(s) ==
    /\ At(s, "cut")
    /\ Cut(req[s].pair)
    /\ Goto(s, "cutback")
    /\ UNCHANGED <<active, private, blocks, notices, bounds>>

(* Mutated CutBack: the blocked actor keeps following.                     *)
CutBackSame(s) ==
    /\ At(s, "cutback")
    /\ Cut(req[s].pair)
    /\ Done(s)
    /\ UNCHANGED <<active, private, blocks, notices, bounds>>

(* unfollow_actor(blocked, blocker).                                       *)
CutBack(s) ==
    /\ At(s, "cutback")
    /\ Cut(Reverse(req[s].pair))
    /\ Done(s)
    /\ UNCHANGED <<active, private, blocks, notices, bounds>>

(* unblock_view                                                            *)
Unblock(p) ==
    /\ p \in blocks
    /\ Count
    /\ blocks' = blocks \ {p}
    /\ UNCHANGED <<active, private, follow, notices, req, strays>>

(* The account becomes private or public: a save of the profile.           *)
SwitchPrivacy(a) ==
    /\ Count
    /\ private' = (private \ {a}) \union ({a} \ private)
    /\ UNCHANGED <<active, follow, blocks, notices, req, strays>>

(* The state of an actor is set in the admin, and nowhere else.            *)
SetActive(a) ==
    /\ Count
    /\ active' = (active \ {a}) \union ({a} \ active)
    /\ UNCHANGED <<private, follow, blocks, notices, req, strays>>

(* A blocking request is going to cut row p.                               *)
Cutting(s, p) ==
    \/ At(s, "cut") /\ p = req[s].pair
    \/ req[s].pc \in {"cut", "cutback"} /\ p = Reverse(req[s].pair)

(* The process in slot s dies; rows it was about to cut are left.          *)
Die(s) ==
    /\ ~At(s, "idle")
    /\ died < MaxDeaths
    /\ died' = died + 1
    /\ strays' = strays \union {p \in Pairs : Cutting(s, p) /\ Live(follow[p])}
    /\ Done(s)
    /\ UNCHANGED <<tables, started>>

(* dedupe_seconds go by.                                                   *)
NoticesAge == notices' = [p \in Pairs |-> 0]

FollowStep(s) ==
    \/ \E p \in Pairs : FollowBegin(s, p)
    \/ FollowDecide(s) \/ FollowStore(s) \/ FollowFetch(s) \/ Look(s) \/ Insert(s)

AnswerStep(s) == (\E p \in Pairs : AnswerBegin(s, p)) \/ Approve(s) \/ Reject(s)

BlockStep(s) == (\E p \in Pairs : Block(s, p)) \/ CutThere(s) \/ CutBack(s)

GraphNext ==
    \/ \E s \in Slots : FollowStep(s) \/ AnswerStep(s) \/ BlockStep(s) \/ Die(s)
    \/ \E p \in Pairs : Unfollow(p) \/ Destroy(p) \/ Unblock(p)
    \/ \E a \in Actors : SwitchPrivacy(a) \/ SetActive(a)

Tick == NoticesAge /\ UNCHANGED <<active, private, follow, blocks, req, bounds, strays>>

Next == GraphNext \/ Tick

Spec == Init /\ [][Next]_vars

-----------------------------------------------------------------------------

(* Request s approves row p, which is still the request it has loaded.     *)
Approval(s, p) ==
    At(s, "approve") /\ req[s].pair = p /\ follow[p] = "pending"

(* What request s writes to row p was right for what the tables held when  *)
(* it read them, and is not any more.                                      *)
Outdated(s, p) ==
    /\ \/ At(s, "store") /\ req[s].open /\ p[2] \in private
       \/ At(s, "approve") /\ req[s].was = "pending" /\ follow[p] # "pending"
    /\ req[s].pair = p

(***************************************************************************)
(* "Optional private account mode with follow-request approval/rejection   *)
(* flow" (README.md:66): a follow of a private account becomes accepted by *)
(* an approval of a request that is pending at that moment.  The only      *)
(* exceptions are a follow that was decided before the account became      *)
(* private and an approval that saves a request cancelled, rejected or     *)
(* cut off since it was loaded (services.py:39).                           *)
(***************************************************************************)
FollowNeedsConsent ==
    [][\A p \in Pairs :
         follow[p] # "accepted" /\ follow'[p] = "accepted" /\ p[2] \in private =>
            \E s \in Slots : /\ Approval(s, p) \/ Outdated(s, p)
                             /\ req'[s].pc # req[s].pc]_vars

(***************************************************************************)
(* "Also unfollow in both directions" (views.py:226): while a block stands *)
(* no follow or follow request between the two survives, in either         *)
(* direction, once the blocking request is through.  Left over can only be *)
(* what a follow or an answer stored that had read the tables before the   *)
(* block, or what a blocking request did not get to because it died.       *)
(***************************************************************************)
BlockCutsFollow ==
    \A p \in Pairs :
        Blocked(p) /\ Live(follow[p]) => p \in strays \/ \E s \in Slots : Cutting(s, p)

(***************************************************************************)
(* dedupe_seconds (notifications/services.py:20): however follows,         *)
(* unfollows and approvals alternate, one actor gets no more FOLLOW        *)
(* notices about another within the window than there are processes to     *)
(* race past the first query together.                                     *)
(***************************************************************************)
NoticesBounded == \A p \in Pairs : notices[p] <= Cardinality(Slots)
=============================================================================
