---------------------------- MODULE SocialProofs ----------------------------
(***************************************************************************)
(* Theorems about Social, for any actors, any number of processes, any     *)
(* follow table and any posts, however many requests there are.            *)
(***************************************************************************)
EXTENDS Social, FiniteSetTheorems, TLAPS

-----------------------------------------------------------------------------
(* Types.                                                                  *)

LEMMA PairsReverse ==
    \A p \in Pairs : Reverse(p) \in Pairs /\ Reverse(Reverse(p)) = p
BY DEF Pairs, Reverse

(* A process that is at some statement has a request.                      *)
LEMMA Busy ==
    ASSUME GraphTypeOK, NEW s \in Slots, req[s].pc # "idle"
    PROVE  req[s] \in Request
BY DEF GraphTypeOK, Idle

LEMMA Relabelled ==
    ASSUME NEW R \in Request, NEW label \in Labels
    PROVE  [R EXCEPT !.pc = label] \in Request
BY DEF Request

LEMMA DoneTyped ==
    ASSUME GraphTypeOK, NEW s \in Slots, Done(s)
    PROVE  req' \in [Slots -> Request \union {Idle}]
BY DEF GraphTypeOK, Done

LEMMA GotoTyped ==
    ASSUME GraphTypeOK, NEW s \in Slots, NEW label \in Labels,
           req[s].pc # "idle", Goto(s, label)
    PROVE  req' \in [Slots -> Request \union {Idle}]
BY Busy, Relabelled DEF GraphTypeOK, Goto

LEMMA BeginTyped ==
    ASSUME GraphTypeOK, NEW s \in Slots, NEW p \in Pairs, NEW label \in Labels,
           Begin(s, p, label)
    PROVE  /\ req' \in [Slots -> Request \union {Idle}]
           /\ started' \in 0..MaxRequests /\ died' \in 0..MaxDeaths
<1>1. [pc |-> label, pair |-> p, was |-> follow[p], note |-> Reverse(p),
       clear |-> ~Blocked(p), open |-> FALSE] \in Request
  BY PairsReverse DEF GraphTypeOK, Request, Blocked
<1> QED
  BY <1>1, GraphAssumption DEF GraphTypeOK, Begin, Count

(* Every step of the social graph keeps its types.                         *)
LEMMA GraphTypeStep == GraphTypeOK /\ GraphNext => GraphTypeOK'
<1> SUFFICES ASSUME GraphTypeOK, GraphNext PROVE GraphTypeOK'
  OBVIOUS
<1> USE DEF GraphTypeOK, tables, bounds
<1>1. ASSUME NEW s \in Slots, NEW p \in Pairs, FollowBegin(s, p) PROVE GraphTypeOK'
  BY <1>1, BeginTyped DEF FollowBegin, Labels
<1>2. ASSUME NEW s \in Slots, FollowDecide(s) PROVE GraphTypeOK'
  <2>1. req[s] \in Request
    BY <1>2, Busy DEF FollowDecide, At
  <2>2. \A w \in FollowState, o \in BOOLEAN :
           [req[s] EXCEPT !.pc = "store", !.open = o, !.was = w] \in Request
    BY <2>1 DEF Request, Labels
  <2>3. req' \in [Slots -> Request \union {Idle}]
    BY <1>2, <2>2 DEF FollowDecide, FollowState
  <2> QED
    BY <1>2, <2>3 DEF FollowDecide
<1>3. ASSUME NEW s \in Slots, FollowStore(s) PROVE GraphTypeOK'
  <2>1. req[s] \in Request
    BY <1>3, Busy DEF FollowStore, At
  <2>2. req' \in [Slots -> Request \union {Idle}]
    BY <1>3, GotoTyped, DoneTyped DEF FollowStore, At, Labels
  <2>3. follow' \in [Pairs -> FollowState] /\ strays' \subseteq Pairs
    BY <1>3, <2>1 DEF FollowStore, Request
  <2> QED
    BY <1>3, <2>2, <2>3 DEF FollowStore
<1>4. ASSUME NEW s \in Slots, FollowFetch(s) PROVE GraphTypeOK'
  BY <1>4, GotoTyped, DoneTyped DEF FollowFetch, At, Labels
<1>5. ASSUME NEW s \in Slots, Look(s) PROVE GraphTypeOK'
  BY <1>5, GotoTyped, DoneTyped DEF Look, At, Labels
<1>6. ASSUME NEW s \in Slots, Insert(s) PROVE GraphTypeOK'
  <2>1. req[s] \in Request
    BY <1>6, Busy DEF Insert, At
  <2>2. notices' \in [Pairs -> Nat]
    BY <1>6, <2>1 DEF Insert, Request
  <2> QED
    BY <1>6, <2>2, DoneTyped DEF Insert
<1>7. ASSUME NEW s \in Slots, NEW p \in Pairs, AnswerBegin(s, p) PROVE GraphTypeOK'
  BY <1>7, BeginTyped DEF AnswerBegin, Labels
<1>8. ASSUME NEW s \in Slots, NEW state \in FollowState, req[s] \in Request, Answer(s, state)
      PROVE  follow' \in [Pairs -> FollowState] /\ strays' \subseteq Pairs
  BY <1>8 DEF Answer, Request
<1>9. ASSUME NEW s \in Slots, Approve(s) PROVE GraphTypeOK'
  <2>1. req[s] \in Request
    BY <1>9, Busy DEF Approve, At
  <2>2. [req[s] EXCEPT !.pc = "look", !.note = req[s].pair] \in Request
    BY <2>1 DEF Request, Labels
  <2>3. req' \in [Slots -> Request \union {Idle}]
    BY <1>9, <2>2, DoneTyped DEF Approve
  <2> QED
    BY <1>8, <1>9, <2>1, <2>3 DEF Approve, FollowState
<1>10. ASSUME NEW s \in Slots, Reject(s) PROVE GraphTypeOK'
  <2>1. req[s] \in Request
    BY <1>10, Busy DEF Reject, At
  <2> QED
    BY <1>8, <1>10, <2>1, DoneTyped DEF Reject, FollowState
<1>11. ASSUME NEW p \in Pairs, Cut(p)
       PROVE  follow' \in [Pairs -> FollowState] /\ strays' \subseteq Pairs
  BY <1>11 DEF Cut, FollowState
<1>12. ASSUME NEW s \in Slots, NEW p \in Pairs, Block(s, p) PROVE GraphTypeOK'
  BY <1>12, BeginTyped DEF Block, Labels
<1>13. ASSUME NEW s \in Slots, CutThere(s) PROVE GraphTypeOK'
  <2>1. req[s].pair \in Pairs
    BY <1>13, Busy DEF CutThere, At, Request
  <2> QED
    BY <1>11, <1>13, <2>1, GotoTyped DEF CutThere, At, Labels
<1>14. ASSUME NEW s \in Slots, CutBack(s) PROVE GraphTypeOK'
  <2>1. Reverse(req[s].pair) \in Pairs
    BY <1>14, Busy, PairsReverse DEF CutBack, At, Request
  <2> QED
    BY <1>11, <1>14, <2>1, DoneTyped DEF CutBack
<1>15. ASSUME NEW s \in Slots, Die(s) PROVE GraphTypeOK'
  BY <1>15, GraphAssumption, DoneTyped DEF Die
<1>16. ASSUME NEW p \in Pairs, Unfollow(p) PROVE GraphTypeOK'
  BY <1>11, <1>16, GraphAssumption DEF Unfollow, Count
<1>17. ASSUME NEW p \in Pairs, Destroy(p) PROVE GraphTypeOK'
  <2>1. \A s \in Slots : req[s].pc \in {"approve", "reject"} =>
           [req[s] EXCEPT !.was = "none"] \in Request
    BY Busy DEF Request, FollowState
  <2>2. req' \in [Slots -> Request \union {Idle}]
    BY <1>17, <2>1 DEF Destroy
  <2> QED
    BY <1>17, <2>2, GraphAssumption DEF Destroy, Count, FollowState
<1>18. ASSUME NEW p \in Pairs, Unblock(p) PROVE GraphTypeOK'
  BY <1>18, GraphAssumption DEF Unblock, Count
<1>19. ASSUME NEW a \in Actors, SwitchPrivacy(a) \/ SetActive(a) PROVE GraphTypeOK'
  BY <1>19, GraphAssumption DEF SwitchPrivacy, SetActive, Count
<1> QED
  BY <1>1, <1>2, <1>3, <1>4, <1>5, <1>6, <1>7, <1>9, <1>10, <1>12, <1>13, <1>14, <1>15,
     <1>16, <1>17, <1>18, <1>19
  DEF GraphNext, FollowStep, AnswerStep, BlockStep

-----------------------------------------------------------------------------
(* The types of DirectChat.                                                *)

LEMMA BusyOpening ==
    ASSUME ChatTypeOK, NEW c \in Slots, chat[c].pc \in {"lookup", "legacy", "adopt", "create"}
    PROVE  chat[c] \in Opening
BY DEF ChatTypeOK, Opening, Keying, KeyLabels, Idle

LEMMA BusyKeying ==
    ASSUME ChatTypeOK, NEW c \in Slots, chat[c].pc \in KeyLabels
    PROVE  chat[c] \in Keying
BY DEF ChatTypeOK, Opening, Keying, KeyLabels, Idle

(* What a request about keys refers to stays in the table.                 *)
Refers(C, n) == C \in Keying => C.key \in 0..n /\ C.seen \subseteq 1..n

LEMMA IdleRefers ==
    ASSUME NEW n \in Nat
    PROVE  Refers(Idle, n) /\ \A C \in Opening : Refers(C, n)
BY DEF Refers, Idle, Keying, KeyLabels, Opening

LEMMA KeyKept ==
    ASSUME NEW k \in Key
    PROVE  /\ [k EXCEPT !.active = FALSE, !.cooling = TRUE] \in Key
           /\ [k EXCEPT !.cooling = FALSE] \in Key
BY DEF Key

(* The keys that are retired keep their places.                            *)
LEMMA RetiredKeeps ==
    ASSUME ChatTypeOK
    PROVE  \A set : Retired(set) \in Seq(Key) /\ Len(Retired(set)) = Len(keys)
<1> TAKE set
<1>1. /\ Len(keys) \in Nat
      /\ DOMAIN keys = 1..Len(keys)
      /\ \A i \in 1..Len(keys) : keys[i] \in Key
  BY DEF ChatTypeOK
<1>2. Retired(set) \in [1..Len(keys) -> Key]
  BY <1>1, KeyKept DEF Retired
<1> QED
  BY <1>1, <1>2

(* A step of one process that only lets the table of keys grow.            *)
LEMMA OneChange ==
    ASSUME ChatTypeOK, NEW c \in Slots, NEW C \in Opening \union Keying \union {Idle},
           chat' = [chat EXCEPT ![c] = C],
           keys' \in Seq(Key), Len(keys') >= Len(keys), Refers(C, Len(keys')),
           keyed' \subseteq Couples, legacy' \in [Couples -> Nat], raced' \subseteq Actors
    PROVE  ChatTypeOK'
<1>1. chat' \in [Slots -> Opening \union Keying \union {Idle}]
  BY DEF ChatTypeOK
<1>2. ASSUME NEW d \in Slots PROVE Refers(chat'[d], Len(keys'))
  <2>1. CASE d = c
    BY <2>1 DEF ChatTypeOK
  <2>2. CASE d # c
    <3>1. chat'[d] = chat[d]
      BY <2>2 DEF ChatTypeOK
    <3>2. Len(keys) \in Nat /\ Len(keys') \in Nat
      BY DEF ChatTypeOK
    <3> QED
      BY <3>1, <3>2 DEF ChatTypeOK, Refers
  <2> QED
    BY <2>1, <2>2
<1> QED
  BY <1>1, <1>2 DEF ChatTypeOK, Refers

(* With the table of keys left alone,                                      *)
LEMMA ChatChange ==
    ASSUME ChatTypeOK, NEW c \in Slots, NEW C \in Opening \union {Idle},
           chat' = [chat EXCEPT ![c] = C], keys' = keys,
           keyed' \subseteq Couples, legacy' \in [Couples -> Nat], raced' = raced
    PROVE  ChatTypeOK'
<1>1. Len(keys) \in Nat /\ keys \in Seq(Key) /\ raced \subseteq Actors
  BY DEF ChatTypeOK
<1>2. Len(keys') >= Len(keys) /\ Refers(C, Len(keys')) /\ raced' \subseteq Actors
  BY <1>1, IdleRefers
<1> QED
  BY <1>1, <1>2, OneChange

(* A thread that is to get the key is there.                               *)
RowFound == \A c \in Slots : chat[c].pc = "adopt" => chat[c].row >= 1

(* Opening a conversation.                                                 *)
LEMMA OpenChatTyped ==
    ASSUME ChatTypeOK, RowFound, NEW c \in Slots, OpenChat(c)
    PROVE  ChatTypeOK'
<1>1. keyed \subseteq Couples /\ legacy \in [Couples -> Nat]
  BY DEF ChatTypeOK
<1>2. ASSUME NEW p \in Pairs, StartChat(c, p) PROVE ChatTypeOK'
  <2> DEFINE C == [pc |-> "lookup", couple |-> {p[1], p[2]}, row |-> 0, clear |-> ~Blocked(p)]
  <2>1. C \in Opening
    BY DEF Opening, Couples, Blocked
  <2>2. chat' = [chat EXCEPT ![c] = C] /\ UNCHANGED <<keys, keyed, legacy, raced>>
    BY <1>2 DEF StartChat
  <2> HIDE DEF C
  <2> QED
    BY <1>1, <2>1, <2>2, ChatChange
<1>3. ASSUME Lookup(c) PROVE ChatTypeOK'
  <2>1. chat[c] \in Opening /\ UNCHANGED <<keys, keyed, legacy, raced>>
    BY <1>3, BusyOpening DEF Lookup, Is
  <2>2. CASE Finish(c)
    BY <1>1, <2>1, <2>2, ChatChange DEF Finish
  <2>3. CASE Step(c, "legacy")
    <3>1. [chat[c] EXCEPT !.pc = "legacy"] \in Opening
      BY <2>1 DEF Opening
    <3> QED
      BY <1>1, <2>1, <2>3, <3>1, ChatChange DEF Step
  <2> QED
    BY <1>3, <2>2, <2>3 DEF Lookup
<1>4. ASSUME LookupLegacy(c) PROVE ChatTypeOK'
  <2>1. chat[c] \in Opening /\ legacy[chat[c].couple] \in Nat
    BY <1>1, <1>4, BusyOpening DEF LookupLegacy, Is, Opening
  <2>2. \A label \in {"adopt", "create"} :
           [chat[c] EXCEPT !.pc = label, !.row = legacy[chat[c].couple]] \in Opening
    BY <2>1 DEF Opening
  <2>3. \E C \in Opening : chat' = [chat EXCEPT ![c] = C]
    BY <1>4, <2>2 DEF LookupLegacy
  <2> QED
    BY <1>1, <1>4, <2>3, ChatChange DEF LookupLegacy
<1>5. ASSUME Adopt(c) PROVE ChatTypeOK'
  <2>1. chat[c].couple \in Couples /\ chat[c].row - 1 \in Nat
    BY <1>5, BusyOpening DEF Adopt, Is, Opening, RowFound
  <2>2. keyed' \subseteq Couples /\ legacy' \in [Couples -> Nat]
    BY <1>1, <1>5, <2>1 DEF Adopt
  <2> QED
    BY <1>5, <2>2, ChatChange DEF Adopt, Finish
<1>6. ASSUME Create(c) PROVE ChatTypeOK'
  <2>1. chat[c].couple \in Couples
    BY <1>6, BusyOpening DEF Create, Is, Opening
  <2>2. keyed' \subseteq Couples /\ legacy' \in [Couples -> Nat]
    BY <1>1, <1>6, <2>1 DEF Create
  <2> QED
    BY <1>6, <2>2, ChatChange DEF Create, Finish
<1> QED
  BY <1>2, <1>3, <1>4, <1>5, <1>6 DEF OpenChat

LEMMA BeginKeyTyped ==
    ASSUME ChatTypeOK, NEW c \in Slots, NEW a \in Actors, NEW k \in 0..Len(keys),
           NEW label \in KeyLabels, BeginKey(c, a, k, label)
    PROVE  ChatTypeOK'
<1>1. Len(keys) \in Nat
  BY DEF ChatTypeOK
<1> DEFINE C == [pc |-> label, actor |-> a, key |-> k, seen |-> {}, alone |-> Others(c, a) = {}]
<1>2. C \in Keying /\ Refers(C, Len(keys))
  BY <1>1 DEF Keying, Refers
<1>3. ASSUME NEW d \in Slots
      PROVE  chat'[d] \in Opening \union Keying \union {Idle} /\ Refers(chat'[d], Len(keys))
  <2>1. CASE d = c
    BY <1>2, <2>1 DEF BeginKey, ChatTypeOK
  <2>2. CASE d \in Others(c, a)
    <3>1. chat[d] \in Keying
      BY <2>2, BusyKeying DEF Others
    <3>2. chat'[d] = [chat[d] EXCEPT !.alone = FALSE]
      BY <2>2 DEF BeginKey, Others
    <3>3. /\ [chat[d] EXCEPT !.alone = FALSE] \in Keying
          /\ [chat[d] EXCEPT !.alone = FALSE].key = chat[d].key
          /\ [chat[d] EXCEPT !.alone = FALSE].seen = chat[d].seen
      BY <3>1 DEF Keying
    <3> QED
      BY <3>1, <3>2, <3>3 DEF ChatTypeOK, Refers
  <2>3. CASE d # c /\ d \notin Others(c, a)
    <3>1. chat'[d] = chat[d]
      BY <2>3 DEF BeginKey
    <3> QED
      BY <3>1 DEF ChatTypeOK, Refers
  <2> QED
    BY <2>1, <2>2, <2>3
<1>4. chat' \in [Slots -> Opening \union Keying \union {Idle}]
  <2>1. DOMAIN chat' = Slots /\ chat' = [d \in Slots |-> chat'[d]]
    BY DEF BeginKey
  <2> QED
    BY <1>3, <2>1
<1>5. raced' \subseteq Actors
  BY DEF BeginKey, ChatTypeOK
<1> QED
  BY <1>3, <1>4, <1>5 DEF ChatTypeOK, BeginKey, Refers

(* Managing keys.                                                          *)
LEMMA ManageKeysTyped ==
    ASSUME ChatTypeOK, NEW c \in Slots, ManageKeys(c)
    PROVE  ChatTypeOK'
<1>1. /\ keys \in Seq(Key) /\ Len(keys) \in Nat /\ DOMAIN keys = 1..Len(keys)
      /\ keyed \subseteq Couples /\ legacy \in [Couples -> Nat] /\ raced \subseteq Actors
  BY DEF ChatTypeOK
<1>2. \A a \in Actors : ActiveKeys(a) \subseteq 1..Len(keys)
  BY <1>1 DEF ActiveKeys
<1>3. \A a \in Actors : Fresh(a) \in Key
  BY DEF Fresh, Key
<1>4. ASSUME NEW a \in Actors, Bootstrap(c, a) PROVE ChatTypeOK'
  BY <1>1, <1>4, BeginKeyTyped DEF Bootstrap, KeyLabels
<1>5. ASSUME NEW a \in Actors, Register(c, a) PROVE ChatTypeOK'
  <2>1. PICK k \in 0..Len(keys) : BeginKey(c, a, k, "deactivate")
    BY <1>1, <1>5 DEF Register
  <2> QED
    BY <2>1, BeginKeyTyped DEF KeyLabels
<1>6. ASSUME Retire(c) PROVE ChatTypeOK'
  <2>1. chat[c] \in Keying /\ Refers(chat[c], Len(keys))
    BY <1>6, BusyKeying DEF Retire, Is, KeyLabels, ChatTypeOK, Refers
  <2> DEFINE C == [chat[c] EXCEPT !.pc = "issue"]
  <2>2. C \in Keying /\ C.key = chat[c].key /\ C.seen = chat[c].seen
    BY <2>1 DEF Keying, KeyLabels
  <2>3. keys' \in Seq(Key) /\ Len(keys') = Len(keys)
    BY <1>6, RetiredKeeps DEF Retire
  <2>4. /\ Refers(C, Len(keys')) /\ Len(keys') >= Len(keys) /\ chat' = [chat EXCEPT ![c] = C]
        /\ UNCHANGED <<keyed, legacy, raced>>
    BY <1>1, <1>6, <2>1, <2>2, <2>3 DEF Refers, Retire, Step
  <2> HIDE DEF C
  <2> QED
    BY <1>1, <2>2, <2>3, <2>4, OneChange
<1>7. ASSUME Issue(c) PROVE ChatTypeOK'
  <2>1. chat[c].actor \in Actors
    BY <1>7, BusyKeying DEF Issue, Is, Keying, KeyLabels
  <2>2. keys' \in Seq(Key) /\ Len(keys') = Len(keys) + 1
    BY <1>1, <1>3, <1>7, <2>1 DEF Issue
  <2>3. /\ chat' = [chat EXCEPT ![c] = Idle] /\ raced' \subseteq Actors
        /\ UNCHANGED <<keyed, legacy>>
    BY <1>1, <1>7 DEF Issue, Finish, Settled
  <2>4. Refers(Idle, Len(keys')) /\ Len(keys') >= Len(keys)
    BY <1>1, <2>2, IdleRefers
  <2> QED
    BY <1>1, <2>2, <2>3, <2>4, OneChange
<1>8. ASSUME Deactivate(c) PROVE ChatTypeOK'
  <2>1. chat[c] \in Keying /\ Refers(chat[c], Len(keys))
    BY <1>8, BusyKeying DEF Deactivate, Is, KeyLabels, ChatTypeOK, Refers
  <2>2. UNCHANGED <<keys, keyed, legacy, raced>>
    BY <1>8 DEF Deactivate
  <2>3. CASE Finish(c)
    BY <1>1, <2>2, <2>3, ChatChange DEF Finish
  <2>4. CASE chat' = [chat EXCEPT ![c].pc = "commit", ![c].seen = ActiveKeys(chat[c].actor)]
    <3> DEFINE S == ActiveKeys(chat[c].actor)
               C == [chat[c] EXCEPT !.pc = "commit", !.seen = S]
    <3>1. S \subseteq 1..Len(keys) /\ S \in SUBSET Nat
      BY <1>1, <1>2, <2>1 DEF Keying
    <3>2. chat' = [chat EXCEPT ![c] = C]
      BY <2>4
    <3> HIDE DEF S
    <3>3. C \in Keying /\ C.key = chat[c].key /\ C.seen = S
      BY <2>1, <3>1 DEF Keying, KeyLabels
    <3>4. keys' = keys
      BY <2>2
    <3>5. Refers(C, Len(keys')) /\ Len(keys') >= Len(keys)
      BY <1>1, <2>1, <3>1, <3>3, <3>4 DEF Refers
    <3> HIDE DEF C
    <3> QED
      BY <1>1, <2>2, <3>2, <3>3, <3>5, OneChange
  <2> QED
    BY <1>8, <2>3, <2>4 DEF Deactivate
<1>9. ASSUME CommitKey(c) PROVE ChatTypeOK'
  <2>1. chat[c] \in Keying /\ chat[c].key \in 0..Len(keys) /\ chat[c].actor \in Actors
    BY <1>9, BusyKeying DEF CommitKey, Is, KeyLabels, ChatTypeOK, Keying
  <2>2. /\ Retired(chat[c].seen) \in Seq(Key) /\ Len(Retired(chat[c].seen)) = Len(keys)
        /\ Fresh(chat[c].actor) \in Key
    BY <1>3, <2>1, RetiredKeeps
  <2>3. keys' \in Seq(Key) /\ Len(keys') >= Len(keys)
    BY <1>1, <1>9, <2>1, <2>2 DEF CommitKey
  <2>4. /\ chat' = [chat EXCEPT ![c] = Idle] /\ raced' \subseteq Actors
        /\ UNCHANGED <<keyed, legacy>>
    BY <1>1, <1>9 DEF CommitKey, Finish, Settled
  <2>5. Refers(Idle, Len(keys'))
    BY <2>3, IdleRefers
  <2> QED
    BY <1>1, <2>3, <2>4, <2>5, OneChange
<1> QED
  BY <1>4, <1>5, <1>6, <1>7, <1>8, <1>9 DEF ManageKeys

(* Only LookupLegacy sends a request to adopt a thread.                    *)
LEMMA OnlyLegacyAdopts ==
    ASSUME ChatTypeOK, NEW c \in Slots, NEW d \in Slots,
           \/ ManageKeys(c) \/ Refuse(c) \/ Lookup(c) \/ Adopt(c) \/ Create(c)
           \/ \E p \in Pairs : StartChat(c, p),
           chat'[d].pc = "adopt"
    PROVE  chat'[d] = chat[d]
<1> USE DEF ChatTypeOK, Idle
<1>1. ASSUME NEW a \in Actors, NEW k, NEW label \in KeyLabels, BeginKey(c, a, k, label)
      PROVE  chat'[d] = chat[d]
  BY <1>1 DEF BeginKey, Others, KeyLabels
<1>2. CASE \E a \in Actors : Bootstrap(c, a) \/ Register(c, a)
  BY <1>1, <1>2 DEF Bootstrap, Register, KeyLabels
<1>3. CASE Finish(c) \/ \E p \in Pairs : StartChat(c, p)
  BY <1>3 DEF Finish, StartChat
<1>4. CASE chat[c].pc \in KeyLabels /\ (Retire(c) \/ Deactivate(c))
  BY <1>4, BusyKeying DEF Retire, Deactivate, Step, Finish, Keying
<1>5. CASE chat[c].pc = "lookup" /\ Step(c, "legacy")
  BY <1>5, BusyOpening DEF Step, Opening
<1> QED
  BY <1>2, <1>3, <1>4, <1>5
  DEF ManageKeys, Retire, Issue, Deactivate, CommitKey, Refuse, Lookup, Adopt, Create, Is, KeyLabels

LEMMA RowFoundStep == ChatTypeOK /\ RowFound /\ ChatNext => RowFound'
<1> SUFFICES ASSUME ChatTypeOK, RowFound, ChatNext,
                    NEW d \in Slots, chat'[d].pc = "adopt"
             PROVE  chat'[d].row >= 1
  BY DEF RowFound
<1>1. PICK c \in Slots : OpenChat(c) \/ ManageKeys(c) \/ Refuse(c)
  BY DEF ChatNext
<1>2. CASE LookupLegacy(c)
  <2>1. CASE d = c
    <3>1. chat[c] \in Opening /\ legacy[chat[c].couple] \in Nat
      BY <1>2, BusyOpening DEF LookupLegacy, Is, Opening, ChatTypeOK
    <3> QED
      BY <1>2, <2>1, <3>1 DEF LookupLegacy, ChatTypeOK, Opening
  <2>2. CASE d # c
    BY <1>2, <2>2 DEF LookupLegacy, ChatTypeOK, RowFound
  <2> QED
    BY <2>1, <2>2
<1>3. CASE ~LookupLegacy(c)
  <2>1. chat'[d] = chat[d]
    BY <1>1, <1>3, OnlyLegacyAdopts DEF OpenChat
  <2> QED
    BY <2>1 DEF RowFound
<1> QED
  BY <1>2, <1>3

LEMMA ChatTypeStep == ChatTypeOK /\ RowFound /\ ChatNext => ChatTypeOK'
<1> SUFFICES ASSUME ChatTypeOK, RowFound, NEW c \in Slots,
                    OpenChat(c) \/ ManageKeys(c) \/ Refuse(c)
             PROVE  ChatTypeOK'
  BY DEF ChatNext
<1>1. CASE Refuse(c)
  <2>1. keyed \subseteq Couples /\ legacy \in [Couples -> Nat]
    BY DEF ChatTypeOK
  <2> QED
    BY <1>1, <2>1, ChatChange DEF Refuse, Finish
<1> QED
  BY <1>1, OpenChatTyped, ManageKeysTyped

(* Requests of DirectChat are counted with those of SocialGraph.           *)
LEMMA ChatBounds ==
    ASSUME GraphTypeOK, ChatNext
    PROVE  started' \in 0..MaxRequests /\ died' \in 0..MaxDeaths
BY GraphAssumption
DEF GraphTypeOK, ChatNext, OpenChat, ManageKeys, Refuse, StartChat, Lookup, LookupLegacy, Adopt,
    Create, Bootstrap, Register, BeginKey, Retire, Issue, Deactivate, CommitKey, Count, bounds

(* Types, with the fact they rest on.                                      *)
TypeInv == TypeOK /\ RowFound

LEMMA TypeInvInit == SocialInit => TypeInv
<1> SUFFICES ASSUME SocialInit PROVE TypeInv
  OBVIOUS
<1>1. GraphTypeOK
  BY GraphAssumption DEF SocialInit, Init, GraphTypeOK
<1>2. keys = <<>> /\ keys \in Seq(Key) /\ Len(keys) = 0
  BY DEF SocialInit, ChatInit
<1>3. \A c \in Slots : chat[c] = Idle /\ chat[c] \notin Keying
  BY DEF SocialInit, ChatInit, Idle, Keying, KeyLabels
<1>4. chat \in [Slots -> Opening \union Keying \union {Idle}]
  BY DEF SocialInit, ChatInit
<1>5. keyed \subseteq Couples /\ legacy \in [Couples -> Nat] /\ raced \subseteq Actors
  BY ChatAssumption DEF SocialInit, ChatInit
<1>6. ChatTypeOK
  BY <1>2, <1>3, <1>4, <1>5 DEF ChatTypeOK
<1>7. RowFound
  BY DEF SocialInit, ChatInit, RowFound, Idle
<1> QED
  BY <1>1, <1>6, <1>7 DEF TypeInv, TypeOK

LEMMA TypeInvStep == TypeInv /\ [SocialNext]_<<vars, chatVars>> => TypeInv'
<1> SUFFICES ASSUME TypeInv, [SocialNext]_<<vars, chatVars>> PROVE TypeInv'
  OBVIOUS
<1>1. CASE GraphNext /\ UNCHANGED chatVars
  <2>1. GraphTypeOK'
    BY <1>1, GraphTypeStep DEF TypeInv, TypeOK
  <2>2. ChatTypeOK' /\ RowFound'
    BY <1>1 DEF TypeInv, TypeOK, ChatTypeOK, RowFound, chatVars
  <2> QED
    BY <2>1, <2>2 DEF TypeInv, TypeOK
<1>2. CASE ChatNext /\ UNCHANGED <<tables, req, strays>>
  <2>1. ChatTypeOK' /\ RowFound'
    BY <1>2, ChatTypeStep, RowFoundStep DEF TypeInv, TypeOK
  <2>2. GraphTypeOK'
    BY <1>2, ChatBounds DEF TypeInv, TypeOK, GraphTypeOK, tables
  <2> QED
    BY <2>1, <2>2 DEF TypeInv, TypeOK
<1>3. CASE FiveMinutes
  <2>1. GraphTypeOK'
    BY <1>3 DEF FiveMinutes, NoticesAge, TypeInv, TypeOK, GraphTypeOK, bounds
  <2>2. /\ Len(keys) \in Nat /\ DOMAIN keys = 1..Len(keys)
        /\ \A i \in 1..Len(keys) : keys[i] \in Key
    BY DEF TypeInv, TypeOK, ChatTypeOK
  <2>3. keys' \in [1..Len(keys) -> Key]
    BY <1>3, <2>2, KeyKept DEF FiveMinutes, Cooled
  <2>4. keys' \in Seq(Key) /\ Len(keys') = Len(keys)
    BY <2>2, <2>3
  <2>5. ChatTypeOK' /\ RowFound'
    BY <1>3, <2>4 DEF FiveMinutes, TypeInv, TypeOK, ChatTypeOK, RowFound
  <2> QED
    BY <2>1, <2>5 DEF TypeInv, TypeOK
<1>4. CASE UNCHANGED <<vars, chatVars>>
  BY <1>4 DEF vars, tables, bounds, chatVars, TypeInv, TypeOK, GraphTypeOK, ChatTypeOK, RowFound,
              Blocked
<1> QED
  BY <1>1, <1>2, <1>3, <1>4 DEF SocialNext

(***************************************************************************)
(* The state stays within its types; in particular a thread that gets the  *)
(* key is one that is there, so the number of threads is never negative.   *)
(***************************************************************************)
THEOREM SocialTypeCorrect == SocialSpec => []TypeOK
<1>1. TypeInv => TypeOK
  BY DEF TypeInv
<1> QED
  BY <1>1, TypeInvInit, TypeInvStep, PTL DEF SocialSpec

-----------------------------------------------------------------------------
(* Blocks.                                                                 *)

(* A follow is decided in a request that began with no block, as accepted  *)
(* only for an open account; what is approved was pending when it was      *)
(* loaded, unless it is gone.                                              *)
Sound(R) ==
    /\ R.pc \in {"decide", "store"} => R.clear
    /\ R.pc = "store" /\ R.was = "accepted" => R.open
    /\ R.pc = "approve" => R.was \in {"pending", "none"}

AllSound == \A s \in Slots : Sound(req[s])

LEMMA AllSoundStep == GraphTypeOK /\ AllSound /\ GraphNext => AllSound'
<1> SUFFICES ASSUME GraphTypeOK, AllSound, GraphNext, NEW t \in Slots,
                    req'[t].pc \in {"decide", "store", "approve"}
             PROVE  Sound(req'[t])
  BY DEF AllSound, Sound
<1> USE DEF GraphTypeOK, Idle
<1>0. \A s \in Slots : req[s].pc # "idle" => req[s] \in Request
  BY Busy
<1>1. CASE req'[t] = req[t]
  BY <1>1 DEF AllSound
<1>2. ASSUME NEW p \in Pairs, FollowBegin(t, p) \/ AnswerBegin(t, p)
      PROVE  Sound(req'[t])
  <2>1. CASE FollowBegin(t, p)
    BY <2>1 DEF FollowBegin, Begin, Sound
  <2>2. CASE AnswerBegin(t, p)
    BY <2>2 DEF AnswerBegin, Begin, Sound
  <2> QED
    BY <1>2, <2>1, <2>2
<1>3. ASSUME FollowDecide(t) PROVE Sound(req'[t])
  <2>1. req[t] \in Request /\ req[t].clear
    BY <1>0, <1>3 DEF FollowDecide, At, AllSound, Sound
  <2>2. /\ req'[t].pc = "store" /\ req'[t].clear = req[t].clear
        /\ req'[t].open = (req[t].pair[2] \notin private)
        /\ req'[t].was = IF req[t].pair[2] \in private THEN "pending" ELSE "accepted"
    BY <1>3, <2>1 DEF FollowDecide, Request
  <2> QED
    BY <2>1, <2>2 DEF Sound
<1>4. ASSUME NEW s \in Slots, NEW p \in Pairs, Block(s, p) PROVE req'[t] = req[t]
  BY <1>4 DEF Block, Begin
<1>5. ASSUME NEW s \in Slots, s = t \/ req'[t] = req[t],
             NEW label \in {"fetch", "look", "insert", "cutback"}, Goto(s, label),
             req[s].pc # "idle"
      PROVE  req'[t] = req[t]
  BY <1>0, <1>5 DEF Goto, Request
<1>6. ASSUME NEW s \in Slots, Done(s) PROVE req'[t] = req[t]
  BY <1>6 DEF Done
<1>7. ASSUME NEW s \in Slots, \/ FollowStore(s) \/ FollowFetch(s) \/ Look(s) \/ Insert(s)
                              \/ Reject(s) \/ CutThere(s) \/ CutBack(s) \/ Die(s)
      PROVE  req'[t] = req[t]
  <2>1. \/ Done(s)
        \/ req[s].pc # "idle" /\ \E label \in {"fetch", "look", "insert", "cutback"} : Goto(s, label)
    BY <1>7 DEF FollowStore, FollowFetch, Look, Insert, Reject, CutThere, CutBack, Die, At
  <2>2. s = t \/ req'[t] = req[t]
    BY <2>1 DEF Done, Goto
  <2> QED
    BY <1>5, <1>6, <2>1, <2>2
<1>8. ASSUME NEW s \in Slots, Approve(s) PROVE req'[t] = req[t]
  <2>1. req[s] \in Request
    BY <1>0, <1>8 DEF Approve, At
  <2> QED
    BY <1>6, <1>8, <2>1 DEF Approve, Request
<1>9. ASSUME NEW p \in Pairs, Destroy(p) PROVE Sound(req'[t])
  <2>1. CASE req[t].pc \in {"approve", "reject"} /\ req[t].pair = p
    <3>1. req[t] \in Request
      BY <1>0, <2>1
    <3>2. req'[t].was = "none" /\ req'[t].pc = req[t].pc
      BY <1>9, <2>1, <3>1 DEF Destroy, Request
    <3> QED
      BY <2>1, <3>2 DEF Sound
  <2>2. CASE ~(req[t].pc \in {"approve", "reject"} /\ req[t].pair = p)
    BY <1>1, <1>9, <2>2 DEF Destroy
  <2> QED
    BY <2>1, <2>2
<1>10. ASSUME NEW s \in Slots, s # t,
              (\E p \in Pairs : FollowBegin(s, p) \/ AnswerBegin(s, p)) \/ FollowDecide(s)
       PROVE  req'[t] = req[t]
  BY <1>10 DEF FollowBegin, AnswerBegin, Begin, FollowDecide
<1> QED
  BY <1>1, <1>2, <1>3, <1>4, <1>7, <1>8, <1>9, <1>10
  DEF GraphNext, FollowStep, AnswerStep, BlockStep, Unfollow, Unblock, SwitchPrivacy, SetActive

-----------------------------------------------------------------------------
(* Blocks.                                                                 *)

(* A step of a request that is not blocking anybody does not touch what    *)
(* others are about to cut.                                                *)
LEMMA CuttingGoesOn ==
    ASSUME GraphTypeOK, NEW s \in Slots, req[s].pc \notin {"cut", "cutback"},
           NEW t \in Slots, NEW p \in Pairs, Cutting(t, p),
           \A u \in Slots \ {s} : req'[u] = req[u]
    PROVE  Cutting(t, p)'
<1>1. t # s
  BY DEF Cutting, At
<1> QED
  BY <1>1 DEF Cutting, At

LEMMA CutNotLive ==
    ASSUME GraphTypeOK, NEW p \in Pairs, Cut(p)
    PROVE  /\ ~Live(follow'[p])
           /\ \A q \in Pairs \ {p} : follow'[q] = follow[q]
           /\ strays' = strays \ {p}
BY DEF Cut, Live, GraphTypeOK

(* What BlockCutsFollow says of one row.                                   *)
CutAt(p) == Blocked(p) /\ Live(follow[p]) => p \in strays \/ \E s \in Slots : Cutting(s, p)

LEMMA BlockStepHolds ==
    ASSUME GraphTypeOK, AllSound, BlockCutsFollow, GraphNext
    PROVE  BlockCutsFollow'
<1> SUFFICES ASSUME NEW p \in Pairs PROVE CutAt(p)'
  BY DEF BlockCutsFollow, CutAt
<1>1. CutAt(p)
  BY DEF BlockCutsFollow, CutAt
<1>2. \A s \in Slots : req[s].pc # "idle" => req[s] \in Request
  BY Busy
<1>3. Reverse(p) \in Pairs /\ Reverse(Reverse(p)) = p /\ Reverse(p) # p
  BY PairsReverse DEF Pairs, Reverse
<1>4. ASSUME NEW s \in Slots, req[s].pc \notin {"cut", "cutback"},
             \A u \in Slots \ {s} : req'[u] = req[u],
             UNCHANGED blocks,
             \/ follow'[p] = follow[p] /\ (p \in strays => p \in strays')
             \/ ~Live(follow'[p])
             \/ Live(follow[p]) /\ (p \in strays => p \in strays')
             \/ Blocked(p) => p \in strays'
      PROVE  CutAt(p)'
  BY <1>1, <1>4, CuttingGoesOn DEF CutAt, Blocked
<1>5. ASSUME NEW s \in Slots, FollowStore(s) PROVE CutAt(p)'
  <2>1. req[s] \in Request /\ req[s].clear
    BY <1>2, <1>5 DEF FollowStore, At, AllSound, Sound
  <2>2. CASE p = req[s].pair
    <3>1. Blocked(p) => p \in strays'
      BY <1>5, <2>1, <2>2 DEF FollowStore
    <3> QED
      BY <1>4, <1>5, <3>1 DEF FollowStore, At, Goto, Done, GraphTypeOK
  <2>3. CASE p # req[s].pair
    <3>1. follow'[p] = follow[p] /\ (p \in strays => p \in strays')
      BY <1>5, <2>3 DEF FollowStore, GraphTypeOK
    <3> QED
      BY <1>4, <1>5, <3>1 DEF FollowStore, At, Goto, Done, GraphTypeOK
  <2> QED
    BY <2>2, <2>3
<1>6. ASSUME NEW s \in Slots, NEW state \in {"accepted", "rejected"}, Answer(s, state)
      PROVE  \/ follow'[p] = follow[p] /\ (p \in strays => p \in strays')
             \/ ~Live(follow'[p])
             \/ Live(follow[p]) /\ (p \in strays => p \in strays')
             \/ Blocked(p) => p \in strays'
  BY <1>6 DEF Answer, Live, GraphTypeOK
<1>7. ASSUME NEW s \in Slots, Approve(s) \/ Reject(s) PROVE CutAt(p)'
  <2>1. UNCHANGED blocks /\ req[s].pc \notin {"cut", "cutback"}
    BY <1>7 DEF Approve, Reject, At
  <2>2. \A u \in Slots \ {s} : req'[u] = req[u]
    BY <1>7 DEF Approve, Reject, Done, GraphTypeOK
  <2> QED
    BY <1>4, <1>6, <1>7, <2>1, <2>2 DEF Approve, Reject
<1>8. ASSUME NEW s \in Slots, NEW q \in Pairs, Block(s, q) PROVE CutAt(p)'
  <2>1. /\ req'[s].pc = "cut" /\ req'[s].pair = q
        /\ \A u \in Slots \ {s} : req'[u] = req[u]
        /\ blocks' = blocks \union {q} /\ UNCHANGED <<follow, strays>>
        /\ req[s].pc = "idle"
    BY <1>8 DEF Block, Begin, At, GraphTypeOK
  <2>2. CASE p = q \/ p = Reverse(q)
    BY <2>1, <2>2 DEF CutAt, Cutting, At
  <2>3. CASE p # q /\ p # Reverse(q)
    <3>1. Reverse(p) # q
      BY <1>3, <2>3, PairsReverse
    <3>2. Blocked(p)' => Blocked(p)
      BY <2>1, <2>3, <3>1 DEF Blocked
    <3> QED
      BY <1>1, <2>1, <3>2, CuttingGoesOn DEF CutAt
  <2> QED
    BY <2>2, <2>3
<1>9. ASSUME NEW s \in Slots, CutThere(s) PROVE CutAt(p)'
  <2>1. req[s] \in Request /\ req[s].pc = "cut" /\ req[s].pair \in Pairs
    BY <1>2, <1>9 DEF CutThere, At, Request
  <2>2. /\ req'[s].pc = "cutback" /\ req'[s].pair = req[s].pair
        /\ \A u \in Slots \ {s} : req'[u] = req[u]
    BY <1>9, <2>1 DEF CutThere, Goto, GraphTypeOK, Request
  <2>3. CASE p = req[s].pair
    BY <1>9, <2>1, <2>3, CutNotLive DEF CutThere, CutAt
  <2>4. CASE p # req[s].pair
    <3>1. follow'[p] = follow[p] /\ (p \in strays => p \in strays') /\ UNCHANGED blocks
      BY <1>9, <2>1, <2>4, CutNotLive DEF CutThere
    <3>2. \A t \in Slots : Cutting(t, p) => Cutting(t, p)'
      BY <2>1, <2>2, <2>4 DEF Cutting, At
    <3> QED
      BY <1>1, <3>1, <3>2 DEF CutAt, Blocked
  <2> QED
    BY <2>3, <2>4
<1>10. ASSUME NEW s \in Slots, CutBack(s) PROVE CutAt(p)'
  <2>1. req[s] \in Request /\ req[s].pc = "cutback" /\ Reverse(req[s].pair) \in Pairs
    BY <1>2, <1>10, PairsReverse DEF CutBack, At, Request
  <2>2. \A u \in Slots \ {s} : req'[u] = req[u]
    BY <1>10 DEF CutBack, Done, GraphTypeOK
  <2>3. CASE p = Reverse(req[s].pair)
    BY <1>10, <2>1, <2>3, CutNotLive DEF CutBack, CutAt
  <2>4. CASE p # Reverse(req[s].pair)
    <3>1. follow'[p] = follow[p] /\ (p \in strays => p \in strays') /\ UNCHANGED blocks
      BY <1>10, <2>1, <2>4, CutNotLive DEF CutBack
    <3>2. \A t \in Slots : Cutting(t, p) => Cutting(t, p)'
      BY <2>1, <2>2, <2>4 DEF Cutting, At
    <3> QED
      BY <1>1, <3>1, <3>2 DEF CutAt, Blocked
  <2> QED
    BY <2>3, <2>4
<1>11. ASSUME NEW s \in Slots, Die(s) PROVE CutAt(p)'
  <2>1. /\ \A u \in Slots \ {s} : req'[u] = req[u]
        /\ UNCHANGED <<follow, blocks>>
    BY <1>11 DEF Die, Done, GraphTypeOK, tables
  <2>2. /\ p \in strays => p \in strays'
        /\ Cutting(s, p) /\ Live(follow[p]) => p \in strays'
    BY <1>11 DEF Die
  <2>3. \A t \in Slots \ {s} : Cutting(t, p) => Cutting(t, p)'
    BY <2>1 DEF Cutting, At
  <2> QED
    BY <1>1, <2>1, <2>2, <2>3 DEF CutAt, Blocked
<1>12. ASSUME NEW q \in Pairs, Unfollow(q) PROVE CutAt(p)'
  <2>1. UNCHANGED <<blocks, req>> /\ Cut(q)
    BY <1>12 DEF Unfollow
  <2> QED
    BY <1>1, <2>1, CutNotLive DEF CutAt, Blocked, Cutting, At
<1>13. ASSUME NEW q \in Pairs, Destroy(q) PROVE CutAt(p)'
  <2>1. \A t \in Slots : Cutting(t, p) => Cutting(t, p)'
    BY <1>13 DEF Destroy, Cutting, At, GraphTypeOK
  <2>2. UNCHANGED blocks /\ (p # q => (p \in strays => p \in strays') /\ follow'[p] = follow[p])
    BY <1>13 DEF Destroy, GraphTypeOK
  <2>3. p = q => ~Live(follow'[p])
    BY <1>13 DEF Destroy, GraphTypeOK, Live
  <2> QED
    BY <1>1, <2>1, <2>2, <2>3 DEF CutAt, Blocked
<1>14. ASSUME NEW q \in Pairs, Unblock(q) PROVE CutAt(p)'
  BY <1>1, <1>14 DEF Unblock, CutAt, Blocked, Cutting, At
<1>15. ASSUME NEW a \in Actors, SwitchPrivacy(a) \/ SetActive(a) PROVE CutAt(p)'
  BY <1>1, <1>15 DEF SwitchPrivacy, SetActive, CutAt, Blocked, Cutting, At
<1>16. ASSUME NEW s \in Slots, NEW q \in Pairs, FollowBegin(s, q) \/ AnswerBegin(s, q)
       PROVE  CutAt(p)'
  BY <1>4, <1>16 DEF FollowBegin, AnswerBegin, Begin, At, tables, GraphTypeOK
<1>17. ASSUME NEW s \in Slots, FollowDecide(s) \/ FollowFetch(s) \/ Look(s) \/ Insert(s)
       PROVE  CutAt(p)'
  BY <1>4, <1>17 DEF FollowDecide, FollowFetch, Look, Insert, At, Goto, Done, tables, GraphTypeOK
<1> QED
  BY <1>5, <1>7, <1>8, <1>9, <1>10, <1>11, <1>12, <1>13, <1>14, <1>15, <1>16, <1>17
  DEF GraphNext, FollowStep, AnswerStep, BlockStep

(* Types, what requests know, and the cuts.                                *)
SocialInv == TypeInv /\ AllSound /\ BlockCutsFollow

LEMMA SocialInvariant == SocialSpec => []SocialInv
<1>1. SocialInit => SocialInv
  <2> SUFFICES ASSUME SocialInit PROVE SocialInv
    OBVIOUS
  <2>1. AllSound
    BY DEF SocialInit, Init, AllSound, Sound, Idle
  <2>2. BlockCutsFollow
    BY PairsReverse DEF SocialInit, Init, BlockCutsFollow, Blocked
  <2> QED
    BY <2>1, <2>2, TypeInvInit DEF SocialInv
<1>2. SocialInv /\ [SocialNext]_<<vars, chatVars>> => SocialInv'
  <2> SUFFICES ASSUME SocialInv, [SocialNext]_<<vars, chatVars>> PROVE SocialInv'
    OBVIOUS
  <2>1. TypeInv'
    BY TypeInvStep DEF SocialInv
  <2>2. CASE GraphNext
    BY <2>1, <2>2, AllSoundStep, BlockStepHolds DEF SocialInv, TypeInv, TypeOK
  <2>3. CASE UNCHANGED <<follow, blocks, req, strays>>
    BY <2>1, <2>3 DEF SocialInv, AllSound, BlockCutsFollow, Blocked, Cutting, At
  <2>4. GraphNext \/ UNCHANGED <<follow, blocks, req, strays>>
    BY DEF SocialNext, FiveMinutes, vars, tables
  <2> QED
    BY <2>2, <2>3, <2>4
<1> QED
  BY <1>1, <1>2, PTL DEF SocialSpec

(***************************************************************************)
(* BlockCutsFollow, for every interleaving of any number of requests.      *)
(***************************************************************************)
THEOREM BlocksCutFollows == SocialSpec => []BlockCutsFollow
<1>1. SocialInv => BlockCutsFollow
  BY DEF SocialInv
<1> QED
  BY <1>1, SocialInvariant, PTL

-----------------------------------------------------------------------------
(* Consent.                                                                *)

(* What FollowNeedsConsent says of one row.                                *)
Consent(p) ==
    follow[p] # "accepted" /\ follow'[p] = "accepted" /\ p[2] \in private =>
        \E s \in Slots : /\ Approval(s, p) \/ Outdated(s, p)
                         /\ req'[s].pc # req[s].pc

LEMMA ConsentStep ==
    ASSUME GraphTypeOK, AllSound, GraphNext, NEW p \in Pairs
    PROVE  Consent(p)
<1> SUFFICES ASSUME follow[p] # "accepted", follow'[p] = "accepted", p[2] \in private
             PROVE  \E s \in Slots : /\ Approval(s, p) \/ Outdated(s, p)
                                     /\ req'[s].pc # req[s].pc
  BY DEF Consent
<1>1. \A s \in Slots : req[s].pc # "idle" => req[s] \in Request
  BY Busy
<1>2. ASSUME NEW s \in Slots, FollowStore(s)
      PROVE  Outdated(s, p) /\ req'[s].pc # req[s].pc
  <2>1. req[s] \in Request /\ req[s].pc = "store"
    BY <1>1, <1>2 DEF FollowStore, At
  <2>2. p = req[s].pair /\ req[s].was = "accepted"
    BY <1>2, <2>1 DEF FollowStore, GraphTypeOK, Request
  <2>3. req[s].open
    BY <2>1, <2>2 DEF AllSound, Sound
  <2>4. req'[s].pc \in {"fetch", "idle"}
    BY <1>2, <2>1 DEF FollowStore, Goto, Done, Idle, GraphTypeOK, Request
  <2> QED
    BY <2>1, <2>2, <2>3, <2>4 DEF Outdated, At
<1>3. ASSUME NEW s \in Slots, Approve(s)
      PROVE  (Approval(s, p) \/ Outdated(s, p)) /\ req'[s].pc # req[s].pc
  <2>1. req[s] \in Request /\ req[s].pc = "approve"
    BY <1>1, <1>3 DEF Approve, At
  <2>2. p = req[s].pair /\ req[s].was # "none"
    BY <1>3, <2>1 DEF Approve, Answer, GraphTypeOK, Request
  <2>3. req[s].was = "pending"
    BY <2>1, <2>2 DEF AllSound, Sound
  <2>4. req'[s].pc \in {"look", "idle"}
    BY <1>3, <2>1 DEF Approve, Done, Idle, GraphTypeOK, Request
  <2> QED
    BY <2>1, <2>2, <2>3, <2>4 DEF Approval, Outdated, At
<1>4. ASSUME NEW q \in Pairs, Cut(q) PROVE FALSE
  BY <1>4 DEF Cut, GraphTypeOK
<1>5. ASSUME NEW s \in Slots, Reject(s) PROVE FALSE
  BY <1>5 DEF Reject, Answer, GraphTypeOK
<1>6. ASSUME NEW q \in Pairs, Destroy(q) PROVE FALSE
  BY <1>6 DEF Destroy, GraphTypeOK
<1>7. ASSUME NEW s \in Slots, CutThere(s) \/ CutBack(s) PROVE FALSE
  <2>1. req[s].pair \in Pairs /\ Reverse(req[s].pair) \in Pairs
    BY <1>1, <1>7, PairsReverse DEF CutThere, CutBack, At, Request
  <2> QED
    BY <1>4, <1>7, <2>1 DEF CutThere, CutBack
<1>8. follow' # follow
  OBVIOUS
<1> QED
  BY <1>2, <1>3, <1>4, <1>5, <1>6, <1>7, <1>8
  DEF GraphNext, FollowStep, AnswerStep, BlockStep, FollowBegin, FollowDecide, FollowFetch, Look,
      Insert, AnswerBegin, Block, Die, Unfollow, Unblock, SwitchPrivacy, SetActive, tables

(***************************************************************************)
(* FollowNeedsConsent: nobody follows a private account unasked, but for   *)
(* the two stale saves that the property names.                            *)
(***************************************************************************)
THEOREM FollowsNeedConsent == SocialSpec => FollowNeedsConsent
<1>1. SocialInv /\ [SocialNext]_<<vars, chatVars>> => [\A p \in Pairs : Consent(p)]_vars
  <2> SUFFICES ASSUME SocialInv, SocialNext, NEW p \in Pairs PROVE Consent(p)
    BY DEF vars, tables, bounds
  <2>1. CASE GraphNext
    BY <2>1, ConsentStep DEF SocialInv, TypeInv, TypeOK
  <2>2. CASE UNCHANGED follow
    BY <2>2 DEF Consent
  <2> QED
    BY <2>1, <2>2 DEF SocialNext, FiveMinutes, tables
<1>2. [\A p \in Pairs : Consent(p)]_vars <=>
      [\A p \in Pairs :
         follow[p] # "accepted" /\ follow'[p] = "accepted" /\ p[2] \in private =>
            \E s \in Slots : /\ Approval(s, p) \/ Outdated(s, p)
                             /\ req'[s].pc # req[s].pc]_vars
  BY DEF Consent
<1> QED
  BY <1>1, <1>2, SocialInvariant, PTL DEF SocialSpec, FollowNeedsConsent

-----------------------------------------------------------------------------
(* Visibility.                                                             *)

(* The two notations for a block agree, nobody is blocked by himself, and  *)
(* a visitor follows nobody.                                               *)
LEMMA BlockNotations ==
    ASSUME GraphTypeOK, NEW a \in Actors, NEW v \in Actors \union {Anonymous}
    PROVE  /\ Blocked(<<v, a>>) <=> ~NoBlock(v, a)
           /\ v = a => NoBlock(v, a)
           /\ v = Anonymous => ~Accepted(v, a) /\ v # a
BY VisibilityAssumption DEF GraphTypeOK, Pairs, Blocked, Reverse, NoBlock, Accepted

LEMMA ActorListsAgree ==
    ASSUME GraphTypeOK, NEW a \in Actors, NEW v \in Actors \union {Anonymous}
    PROVE  /\ SearchedActors(v, a) <=> CanViewActor(v, a)
           /\ ApiActors(v, a) <=> CanViewActor(v, a)
           /\ ActorPage(v, a) <=> CanViewActor(v, a)
BY BlockNotations DEF SearchedActors, ApiActors, ActorPage, CanViewActor, OpenTo

LEMMA PostListsAgree ==
    ASSUME GraphTypeOK, NEW a \in Actors, NEW v \in Actors \union {Anonymous}, NEW x \in Post
    PROVE  LET viewer == v # Anonymous
               may == PostPage(v, a, x)
               normal == x.moderation = "normal"
               public == x.visibility = "public"
               spared == viewer => ~x.hidden
           IN  /\ VisiblePosts(v, a, x) <=> may /\ normal /\ spared
               /\ PublicPage(v, a, x) <=> may /\ normal /\ public /\ spared
               /\ SearchedPosts(v, a, x) <=> may /\ normal /\ public
               /\ ApiPosts(v, a, x) <=>
                     \/ v = a /\ ~x.deleted
                     \/ may /\ normal /\ public /\ spared
               /\ viewer => /\ BookmarksPage(v, a, x) <=> x.bookmarked /\ may /\ spared
                            /\ HiddenPage(v, a, x) <=> x.hidden /\ may
               /\ viewer /\ v # a /\ x.visibility # "private" =>
                     (HomePage(v, a, x) <=> Accepted(v, a) /\ may /\ spared)
               /\ ActorTab(v, a, x) /\ v # a /\ viewer =>
                     ~Blocked(<<v, a>>) /\ (a \in private => Accepted(v, a))
<1>1. /\ Blocked(<<v, a>>) <=> ~NoBlock(v, a)
      /\ v = a => NoBlock(v, a)
      /\ v = Anonymous => ~Accepted(v, a) /\ v # a
  BY BlockNotations
<1>2. /\ x.visibility \in {"public", "unlisted", "followers_only", "private"}
      /\ x.moderation \in {"normal", "limited", "hidden", "taken_down"}
      /\ x.deleted \in BOOLEAN /\ x.bookmarked \in BOOLEAN /\ x.hidden \in BOOLEAN
  BY DEF Post
<1> DEFINE viewer == v # Anonymous
           may == PostPage(v, a, x)
           normal == x.moderation = "normal"
           public == x.visibility = "public"
           spared == viewer => ~x.hidden
<1>3. VisiblePosts(v, a, x) <=> may /\ normal /\ spared
  BY <1>1, <1>2 DEF VisiblePosts, PostPage, CanViewPost, Listed, Withdrawn, OpenTo
<1>4. VisiblePublicPosts(v, a, x) <=> may /\ normal /\ public /\ spared
  BY <1>1, <1>2 DEF VisiblePublicPosts, PostPage, CanViewPost, Listed, Withdrawn, OpenTo
<1>5. SearchedPosts(v, a, x) <=> may /\ normal /\ public
  BY <1>1, <1>2 DEF SearchedPosts, PostPage, CanViewPost, Listed, Withdrawn, OpenTo
<1>6. viewer => /\ BookmarksPage(v, a, x) <=> x.bookmarked /\ may /\ spared
                /\ HiddenPage(v, a, x) <=> x.hidden /\ may
  BY <1>1, <1>2 DEF BookmarksPage, HiddenPage, Shown, PostPage, CanViewPost, Withdrawn
<1>7. viewer /\ v # a /\ x.visibility # "private" =>
         (HomePage(v, a, x) <=> Accepted(v, a) /\ may /\ spared)
  BY <1>1, <1>2 DEF HomePage, VisibleHomePosts, PostPage, CanViewPost, Withdrawn
<1>8. ActorTab(v, a, x) /\ v # a /\ viewer =>
         ~Blocked(<<v, a>>) /\ (a \in private => Accepted(v, a))
  BY <1>1 DEF ActorTab, ActorPage, CanViewActor
<1> QED
  BY <1>3, <1>4, <1>5, <1>6, <1>7, <1>8 DEF ApiPosts, PublicPage

(***************************************************************************)
(* ListsAgree, for every follow table, every set of blocks and every post: *)
(* the queries written out one by one say what the rule says.              *)
(***************************************************************************)
THEOREM ListsFollowTheRule == SocialSpec => []ListsAgree
<1>1. GraphTypeOK => ListsAgree
  <2> SUFFICES ASSUME GraphTypeOK PROVE ListsAgree
    OBVIOUS
  <2>1. Posts \subseteq Post
    BY VisibilityAssumption
  <2> QED
    BY <2>1, ActorListsAgree, PostListsAgree DEF ListsAgree
<1>2. TypeOK => GraphTypeOK
  BY DEF TypeOK
<1> QED
  BY <1>1, <1>2, SocialTypeCorrect, PTL

-----------------------------------------------------------------------------
(* Conversations.                                                          *)

(* No block stood when the request began; it creates a conversation only   *)
(* for two who have none without the key, and the thread it is going to    *)
(* adopt is the oldest there is, unless another request came first.        *)
Informed(C, withKey, without) ==
    /\ C.pc \in {"lookup", "legacy", "adopt", "create"} => C.clear
    /\ C.pc = "create" => without[C.couple] = 0
    /\ C.pc = "adopt" => C.couple \in withKey \/ C.row = without[C.couple]

AllInformed == \A c \in Slots : Informed(chat[c], keyed, legacy)

(* One request makes a step and the tables keep what others know.          *)
LEMMA InformedStep ==
    ASSUME ChatTypeOK, AllInformed, NEW c \in Slots,
           NEW C, chat' = [chat EXCEPT ![c] = C], Informed(C, keyed', legacy'),
           keyed \subseteq keyed',
           \A P \in Couples : legacy'[P] = legacy[P] \/ (legacy[P] # 0 /\ P \in keyed')
    PROVE  AllInformed'
<1> SUFFICES ASSUME NEW d \in Slots PROVE Informed(chat'[d], keyed', legacy')
  BY DEF AllInformed, Informed
<1>1. CASE d = c
  BY <1>1 DEF ChatTypeOK
<1>2. CASE d # c
  <2>1. chat'[d] = chat[d] /\ Informed(chat[d], keyed, legacy)
    BY <1>2 DEF ChatTypeOK, AllInformed
  <2>2. chat[d].pc \in {"lookup", "legacy", "adopt", "create"} => chat[d].couple \in Couples
    BY BusyOpening DEF Opening
  <2> QED
    BY <2>1, <2>2 DEF Informed
<1> QED
  BY <1>1, <1>2

(* What the step of one process does to the threads of two actors.         *)
Created(P) ==
    Threads(P)' > Threads(P) =>
        /\ Threads(P) = 0
        /\ \E c \in Slots : Is(c, "create") /\ chat[c].couple = P /\ chat[c].clear
                            /\ chat'[c] # chat[c]

LEMMA SameThreads ==
    ASSUME ChatTypeOK, UNCHANGED <<keyed, legacy>>
    PROVE  \A P \in Couples : Created(P)
BY DEF Created, Threads, ChatTypeOK

LEMMA KeyRequestInformed ==
    ASSUME ChatTypeOK, AllInformed, NEW c \in Slots, ManageKeys(c)
    PROVE  AllInformed' /\ UNCHANGED <<keyed, legacy>>
<1>1. UNCHANGED <<keyed, legacy>>
  BY DEF ManageKeys, Bootstrap, Register, BeginKey, Retire, Issue, Deactivate, CommitKey
<1>2. ASSUME NEW d \in Slots PROVE Informed(chat'[d], keyed', legacy')
  <2>1. CASE chat'[d].pc \in KeyLabels \union {"idle"}
    BY <2>1 DEF Informed, KeyLabels
  <2>2. CASE chat'[d] = chat[d]
    BY <1>1, <2>2 DEF AllInformed, Informed
  <2>3. ASSUME NEW a \in Actors, NEW k, NEW label \in KeyLabels, BeginKey(c, a, k, label)
        PROVE  chat'[d] = chat[d] \/ chat'[d].pc \in KeyLabels
    <3>1. CASE d \in Others(c, a)
      <4>1. chat[d] \in Keying
        BY <3>1, BusyKeying DEF Others
      <4> QED
        BY <2>3, <3>1, <4>1 DEF BeginKey, Others, Keying
    <3>2. CASE d \notin Others(c, a)
      BY <2>3, <3>2 DEF BeginKey
    <3> QED
      BY <3>1, <3>2
  <2>4. CASE \E a \in Actors : Bootstrap(c, a) \/ Register(c, a)
    BY <2>1, <2>2, <2>3, <2>4 DEF Bootstrap, Register, KeyLabels
  <2>5. CASE Finish(c)
    BY <2>1, <2>2, <2>5 DEF Finish, Idle, ChatTypeOK
  <2>6. CASE Retire(c) \/ Deactivate(c)
    <3>1. chat[c] \in Keying
      BY <2>6, BusyKeying DEF Retire, Deactivate, Is, KeyLabels
    <3>2. chat'[d] = chat[d] \/ chat'[d].pc \in KeyLabels \union {"idle"}
      BY <2>6, <3>1 DEF Retire, Deactivate, Step, Finish, Idle, Keying, KeyLabels, ChatTypeOK
    <3> QED
      BY <2>1, <2>2, <3>2
  <2> QED
    BY <2>4, <2>5, <2>6 DEF ManageKeys, Issue, CommitKey
<1> QED
  BY <1>1, <1>2 DEF AllInformed, Informed

LEMMA ChatRequestInformed ==
    ASSUME ChatTypeOK, RowFound, AllInformed, NEW c \in Slots, OpenChat(c)
    PROVE  AllInformed' /\ \A P \in Couples : Created(P)
<1>1. keyed \subseteq Couples /\ legacy \in [Couples -> Nat] /\ Idle.pc = "idle"
  BY DEF ChatTypeOK, Idle
<1>2. ASSUME NEW p \in Pairs, StartChat(c, p) PROVE AllInformed' /\ \A P \in Couples : Created(P)
  <2> DEFINE C == [pc |-> "lookup", couple |-> {p[1], p[2]}, row |-> 0, clear |-> ~Blocked(p)]
  <2>1. /\ chat' = [chat EXCEPT ![c] = C] /\ UNCHANGED <<keyed, legacy>>
        /\ C.pc = "lookup" /\ C.clear
    BY <1>2 DEF StartChat
  <2> HIDE DEF C
  <2>2. Informed(C, keyed', legacy')
    BY <2>1 DEF Informed
  <2> QED
    BY <2>1, <2>2, InformedStep, SameThreads
<1>3. ASSUME Lookup(c) PROVE AllInformed' /\ \A P \in Couples : Created(P)
  <2>1. UNCHANGED <<keyed, legacy>> /\ chat[c] \in Opening /\ Informed(chat[c], keyed, legacy)
    BY <1>3, BusyOpening DEF Lookup, Is, AllInformed
  <2>2. CASE Finish(c)
    <3>1. Informed(Idle, keyed', legacy')
      BY <1>1 DEF Informed
    <3> QED
      BY <2>1, <2>2, <3>1, InformedStep, SameThreads DEF Finish
  <2>3. CASE Step(c, "legacy")
    <3> DEFINE C == [chat[c] EXCEPT !.pc = "legacy"]
    <3>1. C.pc = "legacy" /\ C.clear /\ chat' = [chat EXCEPT ![c] = C]
      BY <1>3, <2>1, <2>3 DEF Step, Opening, Informed, Lookup, Is
    <3> HIDE DEF C
    <3>2. Informed(C, keyed', legacy')
      BY <3>1 DEF Informed
    <3> QED
      BY <2>1, <3>1, <3>2, InformedStep, SameThreads
  <2> QED
    BY <1>3, <2>2, <2>3 DEF Lookup
<1>4. ASSUME LookupLegacy(c) PROVE AllInformed' /\ \A P \in Couples : Created(P)
  <2>1. /\ UNCHANGED <<keyed, legacy>> /\ chat[c] \in Opening /\ Informed(chat[c], keyed, legacy)
        /\ chat[c].pc = "legacy" /\ legacy[chat[c].couple] \in Nat
    BY <1>1, <1>4, BusyOpening DEF LookupLegacy, Is, AllInformed, Opening
  <2> DEFINE n == legacy[chat[c].couple]
             C == [chat[c] EXCEPT !.pc = IF n > 0 THEN "adopt" ELSE "create", !.row = n]
  <2>2. /\ C.pc = (IF n > 0 THEN "adopt" ELSE "create") /\ C.row = n /\ C.couple = chat[c].couple
        /\ C.clear /\ chat' = [chat EXCEPT ![c] = C]
    BY <1>4, <2>1 DEF LookupLegacy, Opening, Informed
  <2> HIDE DEF C
  <2>3. Informed(C, keyed', legacy')
    BY <2>1, <2>2 DEF Informed
  <2> QED
    BY <2>1, <2>2, <2>3, InformedStep, SameThreads
<1>5. ASSUME Adopt(c) PROVE AllInformed' /\ \A P \in Couples : Created(P)
  <2>1. /\ chat[c] \in Opening /\ chat[c].couple \in Couples /\ chat[c].row \in Nat
        /\ Informed(chat[c], keyed, legacy) /\ chat[c].pc = "adopt" /\ chat[c].row >= 1
        /\ Finish(c)
    BY <1>5, BusyOpening DEF Adopt, Is, AllInformed, Opening, RowFound
  <2>2. CASE chat[c].couple \in keyed
    <3>1. UNCHANGED <<keyed, legacy>> /\ Informed(Idle, keyed', legacy')
      BY <1>1, <1>5, <2>2 DEF Adopt, Informed
    <3> QED
      BY <2>1, <3>1, InformedStep, SameThreads DEF Finish
  <2>3. CASE chat[c].couple \notin keyed
    <3> DEFINE Q == chat[c].couple
    <3>1. /\ legacy[Q] = chat[c].row /\ legacy[Q] # 0
          /\ keyed' = keyed \union {Q} /\ legacy' = [legacy EXCEPT ![Q] = legacy[Q] - 1]
      BY <1>5, <2>1, <2>3 DEF Adopt, Informed
    <3>2. /\ Informed(Idle, keyed', legacy') /\ keyed \subseteq keyed'
          /\ \A P \in Couples : legacy'[P] = legacy[P] \/ (legacy[P] # 0 /\ P \in keyed')
      BY <1>1, <3>1 DEF Informed
    <3>3. AllInformed'
      BY <2>1, <3>2, InformedStep DEF Finish
    <3>4. ASSUME NEW P \in Couples PROVE Threads(P)' = Threads(P)
      <4>1. legacy[P] \in Nat
        BY <1>1
      <4>2. CASE P = Q
        <5>1. P \notin keyed /\ P \in keyed' /\ legacy'[P] = legacy[P] - 1
          BY <1>1, <2>1, <2>3, <3>1, <4>2
        <5> QED
          BY <4>1, <5>1 DEF Threads
      <4>3. CASE P # Q
        BY <1>1, <3>1, <4>3 DEF Threads
      <4> QED
        BY <4>2, <4>3
    <3>5. \A P \in Couples : Threads(P) \in Nat
      BY <1>1 DEF Threads
    <3> QED
      BY <3>3, <3>4, <3>5 DEF Created
  <2> QED
    BY <2>2, <2>3
<1>6. ASSUME Create(c) PROVE AllInformed' /\ \A P \in Couples : Created(P)
  <2>1. /\ chat[c] \in Opening /\ chat[c].couple \in Couples /\ chat[c].pc = "create"
        /\ chat[c].clear /\ legacy[chat[c].couple] = 0
    BY <1>6, BusyOpening DEF Create, Is, AllInformed, Opening, Informed
  <2>2. /\ Finish(c) /\ keyed' = keyed \union {chat[c].couple} /\ legacy' = legacy
        /\ Informed(Idle, keyed', legacy')
    BY <1>1, <1>6 DEF Create, Informed
  <2>3. AllInformed'
    BY <2>2, InformedStep DEF Finish
  <2>4. chat'[c].pc = "idle"
    BY <1>1, <2>2 DEF Finish, ChatTypeOK
  <2>5. ASSUME NEW P \in Couples PROVE Created(P)
    <3>1. CASE P = chat[c].couple
      <4>1. Threads(P)' > Threads(P) => Threads(P) = 0
        BY <1>1, <2>1, <2>2, <3>1 DEF Threads
      <4> QED
        BY <2>1, <2>4, <3>1, <4>1 DEF Created, Is
    <3>2. CASE P # chat[c].couple
      <4>1. Threads(P)' = Threads(P) /\ Threads(P) \in Nat
        BY <1>1, <2>2, <3>2 DEF Threads
      <4> QED
        BY <4>1 DEF Created
    <3> QED
      BY <3>1, <3>2
  <2> QED
    BY <2>3, <2>5
<1> QED
  BY <1>2, <1>3, <1>4, <1>5, <1>6 DEF OpenChat

LEMMA ConversationStep ==
    ASSUME ChatTypeOK, RowFound, AllInformed, [SocialNext]_<<vars, chatVars>>
    PROVE  AllInformed' /\ \A P \in Couples : Created(P)
<1>1. CASE UNCHANGED <<chat, keyed, legacy>>
  BY <1>1, SameThreads DEF AllInformed
<1>2. ASSUME NEW c \in Slots, Refuse(c) PROVE AllInformed' /\ \A P \in Couples : Created(P)
  <2>1. Finish(c) /\ UNCHANGED <<keyed, legacy>> /\ Informed(Idle, keyed', legacy')
    BY <1>2 DEF Refuse, Informed, Idle
  <2> QED
    BY <2>1, InformedStep, SameThreads DEF Finish
<1> QED
  BY <1>1, <1>2, ChatRequestInformed, KeyRequestInformed, SameThreads
  DEF SocialNext, ChatNext, FiveMinutes, chatVars

(***************************************************************************)
(* OneConversation: any number of requests that look up, adopt and create  *)
(* leave two actors with the conversations they had, or with their first.  *)
(***************************************************************************)
THEOREM ConversationsAreUnique == SocialSpec => OneConversation
<1>1. SocialInit => AllInformed
  BY DEF SocialInit, ChatInit, AllInformed, Informed, Idle
<1>2. TypeInv /\ AllInformed /\ [SocialNext]_<<vars, chatVars>>
        => AllInformed' /\ [\A P \in Couples : Created(P)]_<<vars, chatVars>>
  BY ConversationStep DEF TypeInv, TypeOK
<1>3. [\A P \in Couples : Created(P)]_<<vars, chatVars>> <=>
      [\A P \in Couples :
         Threads(P)' > Threads(P) =>
            /\ Threads(P) = 0
            /\ \E c \in Slots :
                  Is(c, "create") /\ chat[c].couple = P /\ chat[c].clear
                  /\ chat'[c] # chat[c]]_<<vars, chatVars>>
  BY DEF Created
<1> QED
  BY <1>1, <1>2, <1>3, TypeInvInit, TypeInvStep, PTL DEF SocialSpec, OneConversation

-----------------------------------------------------------------------------
(* Notices.                                                                *)

(* The requests that have found no recent notice n and are to send one.    *)
Inserters(n) == {s \in Slots : req[s].pc = "insert" /\ req[s].note = n}

(* A new one joins them only while there is no notice, so that the notices *)
(* sent and to be sent never outnumber the processes.                      *)
Outstanding == \A n \in Pairs : notices[n] + Cardinality(Inserters(n)) <= Cardinality(Slots)

LEMMA InsertersFinite ==
    /\ Cardinality(Slots) \in Nat
    /\ \A n : /\ IsFiniteSet(Inserters(n)) /\ Cardinality(Inserters(n)) \in Nat
              /\ Cardinality(Inserters(n)) <= Cardinality(Slots)
<1>1. \A n : Inserters(n) \subseteq Slots
  BY DEF Inserters
<1> QED
  BY <1>1, GraphAssumption, FS_Subset, FS_CardinalityType

LEMMA FewerInserters ==
    ASSUME Outstanding, NEW n \in Pairs, notices \in [Pairs -> Nat], notices'[n] = notices[n],
           Inserters(n)' \subseteq Inserters(n)
    PROVE  notices'[n] + Cardinality(Inserters(n)') <= Cardinality(Slots)
<1>1. /\ Cardinality(Inserters(n)') <= Cardinality(Inserters(n))
      /\ Cardinality(Inserters(n)') \in Nat
  BY InsertersFinite, FS_Subset, FS_CardinalityType
<1> QED
  BY <1>1, InsertersFinite DEF Outstanding

(* Only Look sends a request to insert a notice.                           *)
LEMMA OnlyLookInserts ==
    ASSUME GraphTypeOK, GraphNext, NEW t \in Slots, ~Look(t), req'[t].pc = "insert"
    PROVE  req'[t] = req[t]
<1> USE DEF GraphTypeOK, Idle
<1>0. \A s \in Slots : req[s].pc # "idle" => req[s] \in Request
  BY Busy
<1>1. ASSUME NEW s \in Slots, NEW p \in Pairs, NEW label \in Labels \ {"insert"},
             Begin(s, p, label)
      PROVE  req'[t] = req[t]
  BY <1>1 DEF Begin
<1>2. ASSUME NEW s \in Slots,
             \/ Done(s)
             \/ req[s].pc # "idle" /\ \E label \in {"fetch", "look", "cutback"} : Goto(s, label)
      PROVE  req'[t] = req[t]
  BY <1>0, <1>2 DEF Done, Goto, Request
<1>3. ASSUME NEW s \in Slots, FollowDecide(s) \/ Approve(s) PROVE req'[t] = req[t]
  <2>1. req[s] \in Request
    BY <1>0, <1>3 DEF FollowDecide, Approve, At
  <2> QED
    BY <1>2, <1>3, <2>1 DEF FollowDecide, Approve, Request
<1>4. ASSUME NEW s \in Slots, s # t, Look(s) PROVE req'[t] = req[t]
  BY <1>4 DEF Look, Goto, Done
<1>5. ASSUME NEW p \in Pairs, Destroy(p) PROVE req'[t] = req[t]
  BY <1>0, <1>5 DEF Destroy, Request
<1> QED
  BY <1>1, <1>2, <1>3, <1>4, <1>5
  DEF GraphNext, FollowStep, AnswerStep, BlockStep, FollowBegin, FollowStore, FollowFetch, Insert,
      AnswerBegin, Reject, Block, CutThere, CutBack, Die, Unfollow, Unblock, SwitchPrivacy,
      SetActive, At, Labels

LEMMA OutstandingStep ==
    ASSUME GraphTypeOK, Outstanding, GraphNext
    PROVE  Outstanding'
<1> SUFFICES ASSUME NEW n \in Pairs
             PROVE  notices'[n] + Cardinality(Inserters(n)') <= Cardinality(Slots)
  BY DEF Outstanding
<1>1. notices \in [Pairs -> Nat]
  BY DEF GraphTypeOK
<1>2. ASSUME NEW s \in Slots, Insert(s), n = req[s].note
      PROVE  notices'[n] + Cardinality(Inserters(n)') <= Cardinality(Slots)
  <2>1. notices'[n] = notices[n] + 1
    BY <1>1, <1>2 DEF Insert
  <2>2. s \in Inserters(n) /\ Inserters(n)' = Inserters(n) \ {s}
    BY <1>2 DEF Insert, Inserters, Done, Idle, At, GraphTypeOK
  <2>3. Cardinality(Inserters(n)') = Cardinality(Inserters(n)) - 1
    BY <2>2, InsertersFinite, FS_RemoveElement
  <2> QED
    BY <1>1, <2>1, <2>3, InsertersFinite DEF Outstanding
<1>3. ASSUME NEW s \in Slots, Look(s), n = req[s].note, notices[n] = 0
      PROVE  notices'[n] + Cardinality(Inserters(n)') <= Cardinality(Slots)
  <2>1. notices'[n] = 0
    BY <1>3 DEF Look, tables
  <2>2. Inserters(n)' \subseteq Slots
    BY DEF Inserters
  <2>3. Cardinality(Inserters(n)') <= Cardinality(Slots) /\ Cardinality(Inserters(n)') \in Nat
    BY <2>2, GraphAssumption, FS_Subset, FS_CardinalityType
  <2> QED
    BY <2>1, <2>3
<1>4. CASE \A s \in Slots : ~(Insert(s) /\ n = req[s].note)
                             /\ ~(Look(s) /\ n = req[s].note /\ notices[n] = 0)
  <2>1. notices'[n] = notices[n]
    BY <1>1, <1>4 DEF GraphNext, FollowStep, AnswerStep, BlockStep, FollowBegin, FollowDecide,
      FollowStore, FollowFetch, Look, Insert, AnswerBegin, Approve, Reject, Block, CutThere,
      CutBack, Die, Unfollow, Destroy, Unblock, SwitchPrivacy, SetActive, tables
  <2>2. ASSUME NEW t \in Slots, t \in Inserters(n)' PROVE t \in Inserters(n)
    <3>1. CASE Look(t)
      <4>1. req[t] \in Request
        BY <3>1, Busy DEF Look, At
      <4> QED
        BY <1>1, <1>4, <2>2, <3>1, <4>1 DEF Look, Goto, Done, Idle, Inserters, Request, GraphTypeOK
    <3>2. CASE ~Look(t)
      BY <2>2, <3>2, OnlyLookInserts DEF Inserters
    <3> QED
      BY <3>1, <3>2
  <2>3. Inserters(n)' \subseteq Inserters(n)
    BY <2>2 DEF Inserters
  <2> QED
    BY <1>1, <2>1, <2>3, FewerInserters
<1> QED
  BY <1>2, <1>3, <1>4

(***************************************************************************)
(* NoticesBounded, for any number of processes.                            *)
(***************************************************************************)
THEOREM NoticesAreBounded == SocialSpec => []NoticesBounded
<1>1. SocialInit => Outstanding
  BY InsertersFinite DEF SocialInit, Init, Outstanding
<1>2. TypeInv /\ Outstanding /\ [SocialNext]_<<vars, chatVars>> => Outstanding'
  <2> SUFFICES ASSUME TypeInv, Outstanding, [SocialNext]_<<vars, chatVars>> PROVE Outstanding'
    OBVIOUS
  <2>1. CASE GraphNext
    BY <2>1, OutstandingStep DEF TypeInv, TypeOK
  <2>2. CASE UNCHANGED <<notices, req>>
    BY <2>2 DEF Outstanding, Inserters
  <2>3. CASE FiveMinutes
    <3>1. \A n \in Pairs : notices'[n] = 0 /\ Inserters(n)' = Inserters(n)
      BY <2>3 DEF FiveMinutes, NoticesAge, Inserters
    <3> QED
      BY <3>1, InsertersFinite DEF Outstanding
  <2> QED
    BY <2>1, <2>2, <2>3 DEF SocialNext, vars, tables
<1>3. TypeInv /\ Outstanding => NoticesBounded
  BY InsertersFinite DEF TypeInv, TypeOK, GraphTypeOK, Outstanding, NoticesBounded
<1> QED
  BY <1>1, <1>2, <1>3, TypeInvInit, TypeInvStep, PTL DEF SocialSpec

-----------------------------------------------------------------------------
(* Identity keys.                                                          *)

(* A request about keys that is alone has no rival and knows the active    *)
(* keys: none is left when it issues one, and a transaction has seen them  *)
(* all.  Who is not alone is among the raced.                              *)
KnowsKeys(c) ==
    LET C == chat[c]
    IN  C.pc \in KeyLabels =>
          IF C.alone
          THEN /\ Others(c, C.actor) = {}
               /\ C.pc = "issue" => ActiveKeys(C.actor) = {}
               /\ C.pc = "commit" => ActiveKeys(C.actor) \subseteq C.seen
          ELSE C.actor \in raced

KeyInv ==
    /\ \A c \in Slots : KnowsKeys(c)
    /\ \A a \in Actors \ raced : \A i, j \in ActiveKeys(a) : i = j

(* What one process does about one actor's keys leaves what others know.   *)
LEMMA OthersKnow ==
    ASSUME ChatTypeOK, KeyInv, NEW c \in Slots, NEW C, chat' = [chat EXCEPT ![c] = C],
           C.pc \in KeyLabels =>
               chat[c].pc \in KeyLabels /\ C.actor = chat[c].actor,
           \A b \in Actors : \/ ActiveKeys(b)' \subseteq ActiveKeys(b) /\ (b \in raced => b \in raced')
                             \/ chat[c].pc \in KeyLabels /\ b = chat[c].actor
                                /\ (b \in raced => b \in raced' \/ chat[c].alone),
           NEW d \in Slots \ {c}
    PROVE  KnowsKeys(d)'
<1> SUFFICES ASSUME chat[d].pc \in KeyLabels PROVE KnowsKeys(d)'
  BY DEF KnowsKeys, ChatTypeOK
<1>1. chat'[d] = chat[d] /\ chat[d] \in Keying /\ chat[d].actor \in Actors
  BY BusyKeying DEF ChatTypeOK, Keying
<1>2. Others(d, chat[d].actor)' \subseteq Others(d, chat[d].actor)
  BY <1>1 DEF Others, ChatTypeOK
<1>3. CASE chat[d].alone
  <2>1. Others(d, chat[d].actor) = {}
    BY <1>3 DEF KeyInv, KnowsKeys
  <2>2. ~(chat[c].pc \in KeyLabels /\ chat[d].actor = chat[c].actor)
    BY <2>1 DEF Others
  <2>3. ActiveKeys(chat[d].actor)' \subseteq ActiveKeys(chat[d].actor)
    BY <1>1, <2>2
  <2> QED
    BY <1>1, <1>2, <1>3, <2>1, <2>3 DEF KeyInv, KnowsKeys
<1>4. CASE ~chat[d].alone
  <2>1. chat[d].actor \in raced
    BY <1>4 DEF KeyInv, KnowsKeys
  <2>2. ~(chat[c].pc \in KeyLabels /\ chat[d].actor = chat[c].actor /\ chat[c].alone)
    BY DEF KeyInv, KnowsKeys, Others
  <2>3. chat[d].actor \in raced'
    BY <1>1, <2>1, <2>2
  <2> QED
    BY <1>1, <1>4, <2>3 DEF KnowsKeys
<1> QED BY <1>3, <1>4

LEMMA RetiredActive ==
    ASSUME ChatTypeOK, NEW set, NEW i \in DOMAIN keys
    PROVE  /\ i \in DOMAIN Retired(set) /\ Retired(set)[i].owner = keys[i].owner
           /\ Retired(set)[i].active <=> keys[i].active /\ i \notin set
<1>1. keys[i] \in Key
  BY DEF ChatTypeOK
<1> QED BY <1>1 DEF Retired, Key

(* Retiring, and cooling down, activate no key.                            *)
LEMMA NoKeyActivated ==
    ASSUME ChatTypeOK, NEW c \in Slots,
           keys' = keys \/ Retire(c) \/ Cooled, NEW b \in Actors
    PROVE  ActiveKeys(b)' \subseteq ActiveKeys(b)
<1>1. CASE keys' = keys
  BY <1>1 DEF ActiveKeys
<1>2. CASE Retire(c)
  <2>1. DOMAIN keys' = DOMAIN keys
    BY <1>2 DEF Retire, Retired
  <2>2. \A i \in DOMAIN keys : keys'[i].owner = keys[i].owner /\ (keys'[i].active => keys[i].active)
    BY <1>2, RetiredActive DEF Retire
  <2> QED BY <2>1, <2>2 DEF ActiveKeys
<1>3. CASE Cooled
  <2>1. \A i \in DOMAIN keys : keys[i] \in Key
    BY DEF ChatTypeOK
  <2> QED BY <1>3, <2>1 DEF Cooled, ActiveKeys, Key
<1> QED BY <1>1, <1>2, <1>3

(* A step that activates no key, and does not forget a race.               *)
LEMMA QuietKeyStep ==
    ASSUME ChatTypeOK, KeyInv, NEW c \in Slots, NEW C, chat' = [chat EXCEPT ![c] = C],
           C.pc \in KeyLabels =>
               chat[c].pc \in KeyLabels /\ C.actor = chat[c].actor,
           \A b \in Actors : ActiveKeys(b)' \subseteq ActiveKeys(b),
           raced' = raced, KnowsKeys(c)'
    PROVE  KeyInv'
<1>1. \A d \in Slots : KnowsKeys(d)'
  BY OthersKnow
<1> QED BY <1>1 DEF KeyInv

(* One key is made active, those in gone are not any more.                 *)
LEMMA OneActivated ==
    ASSUME NEW a, NEW n, NEW gone, keys'[n].owner = a,
           \A i \in DOMAIN keys' \ {n} :
               /\ i \in DOMAIN keys
               /\ keys'[i].owner = keys[i].owner
               /\ keys'[i].active => keys[i].active /\ i \notin gone
    PROVE  /\ \A b \in Actors \ {a} : ActiveKeys(b)' \subseteq ActiveKeys(b)
           /\ ActiveKeys(a)' \subseteq {n} \union (ActiveKeys(a) \ gone)
BY DEF ActiveKeys

(* The key that a request makes active.                                    *)
Gone(c) == IF Is(c, "commit") THEN chat[c].seen ELSE {}

LEMMA ActivatedKey ==
    ASSUME ChatTypeOK, NEW c \in Slots, Issue(c) \/ CommitKey(c), NEW a, a = chat[c].actor
    PROVE  \E n, gone :
              /\ gone = Gone(c)
              /\ \A b \in Actors \ {a} : ActiveKeys(b)' \subseteq ActiveKeys(b)
              /\ ActiveKeys(a)' \subseteq {n} \union (ActiveKeys(a) \ gone)
<1>1. /\ Len(keys) \in Nat /\ DOMAIN keys = 1..Len(keys)
      /\ \A i \in 1..Len(keys) : keys[i] \in Key
  BY DEF ChatTypeOK
<1>2. chat[c] \in Keying /\ a \in Actors /\ chat[c].key \in 0..Len(keys) /\ Fresh(a).owner = a
  BY BusyKeying DEF Issue, CommitKey, Is, Keying, KeyLabels, ChatTypeOK, Fresh
<1>3. PICK k, last, gone : k = chat[c].key /\ last = Len(keys) + 1 /\ gone = Gone(c)
  OBVIOUS
<1>4. CASE Issue(c)
  <2>1. /\ DOMAIN keys' = 1..last /\ keys'[last] = Fresh(a)
        /\ \A i \in 1..Len(keys) : keys'[i] = keys[i]
    BY <1>1, <1>3, <1>4 DEF Issue, ChatTypeOK
  <2>2. /\ keys'[last].owner = a
        /\ \A i \in DOMAIN keys' \ {last} :
               /\ i \in DOMAIN keys
               /\ keys'[i].owner = keys[i].owner
               /\ keys'[i].active => keys[i].active /\ i \notin gone
    BY <1>1, <1>2, <1>3, <1>4, <2>1 DEF Gone, Issue, Is
  <2>3. /\ \A b \in Actors \ {a} : ActiveKeys(b)' \subseteq ActiveKeys(b)
        /\ ActiveKeys(a)' \subseteq {last} \union (ActiveKeys(a) \ gone)
    BY <2>2, OneActivated
  <2> QED BY <1>3, <2>3
<1>5. CASE CommitKey(c)
  <2>1. PICK old : old = Retired(chat[c].seen)
    OBVIOUS
  <2>2. /\ old \in Seq(Key) /\ Len(old) = Len(keys) /\ DOMAIN old = 1..Len(keys)
        /\ \A i \in 1..Len(keys) : /\ old[i].owner = keys[i].owner
                                   /\ old[i].active => keys[i].active /\ i \notin gone
    BY <1>1, <1>3, <1>5, <2>1, RetiredKeeps, RetiredActive DEF Gone, CommitKey, Is
  <2>3. keys' = IF k = 0 THEN Append(old, Fresh(a)) ELSE [old EXCEPT ![k] = Fresh(a)]
    BY <1>3, <1>5, <2>1 DEF CommitKey
  <2>4. PICK m : m = IF k = 0 THEN last ELSE k
    OBVIOUS
  <2>5. /\ keys'[m] = Fresh(a)
        /\ \A i \in DOMAIN keys' \ {m} : i \in 1..Len(keys) /\ keys'[i] = old[i]
    BY <1>1, <1>2, <1>3, <2>2, <2>3, <2>4
  <2>6. /\ keys'[m].owner = a
        /\ \A i \in DOMAIN keys' \ {m} :
               /\ i \in DOMAIN keys
               /\ keys'[i].owner = keys[i].owner
               /\ keys'[i].active => keys[i].active /\ i \notin gone
    BY <1>1, <1>2, <2>2, <2>5
  <2>7. /\ \A b \in Actors \ {a} : ActiveKeys(b)' \subseteq ActiveKeys(b)
        /\ ActiveKeys(a)' \subseteq {m} \union (ActiveKeys(a) \ gone)
    BY <2>6, OneActivated
  <2> QED BY <1>3, <2>7
<1> QED BY <1>4, <1>5

(* A key request begins.                                                   *)
LEMMA BeginKeyKnows ==
    ASSUME ChatTypeOK, KeyInv, NEW c \in Slots, NEW a \in Actors, NEW k,
           NEW label \in {"retire", "issue", "deactivate"}, BeginKey(c, a, k, label),
           label = "issue" => ActiveKeys(a) = {}
    PROVE  KeyInv'
<1>1. \A b : ActiveKeys(b)' = ActiveKeys(b)
  BY DEF BeginKey, ActiveKeys
<1>2. raced \subseteq raced' /\ (Others(c, a) # {} => a \in raced')
  BY DEF BeginKey
<1>3. /\ chat'[c].pc = label /\ chat'[c].actor = a
      /\ chat'[c].alone <=> Others(c, a) = {}
      /\ label \in KeyLabels
  BY DEF BeginKey, KeyLabels
<1>4. ASSUME NEW d \in Slots \ {c}
      PROVE  IF d \in Others(c, a)
             THEN /\ chat[d].pc \in KeyLabels /\ chat'[d].pc = chat[d].pc /\ ~chat'[d].alone
                  /\ chat'[d].actor = chat[d].actor
             ELSE chat'[d] = chat[d]
  <2>1. d \in Others(c, a) => chat[d] \in Keying
    BY <1>4, BusyKeying DEF Others
  <2> QED BY <2>1 DEF BeginKey, Keying, Others
<1>5. KnowsKeys(c)'
  <2>1. Others(c, a)' \subseteq Others(c, a)
    BY <1>4 DEF Others
  <2>2. CASE Others(c, a) = {}
    <3>1. /\ chat'[c].alone /\ Others(c, a)' = {} /\ chat'[c].pc # "commit"
          /\ chat'[c].pc = "issue" => ActiveKeys(a)' = {}
      BY <1>1, <1>3, <2>1, <2>2
    <3> QED BY <1>3, <3>1 DEF KnowsKeys
  <2>3. CASE Others(c, a) # {}
    BY <1>2, <1>3, <2>3 DEF KnowsKeys
  <2> QED BY <2>2, <2>3
<1>6. ASSUME NEW d \in Slots \ {c} PROVE KnowsKeys(d)'
  <2>1. CASE d \in Others(c, a)
    BY <1>2, <1>4, <2>1 DEF KnowsKeys, Others
  <2>2. CASE d \notin Others(c, a)
    <3> SUFFICES ASSUME chat[d].pc \in KeyLabels PROVE KnowsKeys(d)'
      BY <1>4, <2>2 DEF KnowsKeys
    <3>1. PICK b : b = chat[d].actor
      OBVIOUS
    <3>2. chat'[d] = chat[d] /\ b # a
      BY <1>4, <1>6, <2>2, <3>1 DEF Others
    <3>3. ASSUME NEW e \in Slots \ {d}, chat'[e].pc \in KeyLabels, chat'[e].actor = b
          PROVE  e \in Others(d, b)
      <4>1. e # c
        BY <1>3, <3>2, <3>3
      <4> QED BY <1>4, <3>3, <4>1 DEF Others
    <3>4. Others(d, b)' \subseteq Others(d, b)
      BY <3>3 DEF Others
    <3> QED BY <1>1, <1>2, <3>1, <3>2, <3>4 DEF KeyInv, KnowsKeys
  <2> QED BY <2>1, <2>2
<1> QED BY <1>1, <1>2, <1>5, <1>6 DEF KeyInv

(* A key request goes on.                                                  *)
LEMMA KeyRequestKnows ==
    ASSUME ChatTypeOK, KeyInv, NEW c \in Slots, ManageKeys(c)
    PROVE  KeyInv'
<1>1. ASSUME NEW a \in Actors, Bootstrap(c, a) \/ Register(c, a) PROVE KeyInv'
  BY <1>1, BeginKeyKnows DEF Bootstrap, Register
<1>2. ASSUME Retire(c) PROVE KeyInv'
  <2>0. PICK C : C = [chat[c] EXCEPT !.pc = "issue"]
    OBVIOUS
  <2>1. chat[c] \in Keying /\ chat[c].pc = "retire"
    BY <1>2, BusyKeying DEF Retire, Is, KeyLabels
  <2>2. /\ C.pc = "issue" /\ C.actor = chat[c].actor /\ C.alone = chat[c].alone
        /\ chat' = [chat EXCEPT ![c] = C] /\ chat'[c] = C
    BY <1>2, <2>0, <2>1 DEF Retire, Step, Keying, ChatTypeOK
  <2>3. \A b \in Actors : ActiveKeys(b)' \subseteq ActiveKeys(b)
    BY <1>2, NoKeyActivated
  <2>4. ActiveKeys(C.actor)' = {}
    <3>1. DOMAIN keys' = DOMAIN keys
      BY <1>2 DEF Retire, Retired
    <3>2. \A i \in DOMAIN keys : /\ keys'[i].owner = keys[i].owner
                                 /\ keys'[i].active => keys[i].active /\ i \notin ActiveKeys(C.actor)
      BY <1>2, <2>2, RetiredActive DEF Retire
    <3> QED BY <3>1, <3>2 DEF ActiveKeys
  <2>5. Others(c, C.actor)' = Others(c, C.actor)
    BY <2>2 DEF Others, ChatTypeOK
  <2>6. KnowsKeys(c)'
    BY <1>2, <2>1, <2>2, <2>4, <2>5 DEF KnowsKeys, KeyInv, Retire, KeyLabels
  <2> QED BY <1>2, <2>1, <2>2, <2>3, <2>6, QuietKeyStep DEF Retire, KeyLabels
<1>3. ASSUME Deactivate(c) PROVE KeyInv'
  <2>1. chat[c] \in Keying /\ chat[c].pc = "deactivate"
    BY <1>3, BusyKeying DEF Deactivate, Is, KeyLabels
  <2>2. raced' = raced /\ \A b : ActiveKeys(b)' = ActiveKeys(b)
    BY <1>3 DEF Deactivate, ActiveKeys
  <2>3. CASE Finish(c)
    <3>1. chat' = [chat EXCEPT ![c] = Idle] /\ Idle.pc \notin KeyLabels /\ chat'[c] = Idle
      BY <2>3 DEF Finish, Idle, KeyLabels, ChatTypeOK
    <3>2. KnowsKeys(c)'
      BY <3>1 DEF KnowsKeys
    <3> QED BY <2>2, <3>1, <3>2, QuietKeyStep
  <2>4. CASE chat' = [chat EXCEPT ![c].pc = "commit", ![c].seen = ActiveKeys(chat[c].actor)]
    <3>0. PICK S, C : /\ S = ActiveKeys(chat[c].actor)
                      /\ C = [chat[c] EXCEPT !.pc = "commit", !.seen = S]
      OBVIOUS
    <3>1. chat' = [chat EXCEPT ![c] = C]
      BY <2>4, <3>0
    <3>2. /\ C.pc = "commit" /\ C.actor = chat[c].actor /\ C.alone = chat[c].alone /\ C.seen = S
          /\ chat'[c] = C
      BY <2>1, <3>0, <3>1 DEF Keying, ChatTypeOK
    <3>3. Others(c, C.actor)' = Others(c, C.actor)
      BY <3>1, <3>2 DEF Others, ChatTypeOK
    <3>4. ActiveKeys(C.actor)' = C.seen
      BY <2>2, <3>0, <3>2
    <3>5. KnowsKeys(c)'
      BY <2>1, <2>2, <3>2, <3>3, <3>4 DEF KnowsKeys, KeyInv, KeyLabels
    <3> QED BY <2>1, <2>2, <3>1, <3>2, <3>5, QuietKeyStep DEF KeyLabels
  <2> QED BY <1>3, <2>3, <2>4 DEF Deactivate
<1>4. ASSUME Issue(c) \/ CommitKey(c) PROVE KeyInv'
  <2>0. PICK a : a = chat[c].actor
    OBVIOUS
  <2>1. chat[c] \in Keying /\ chat[c].pc \in {"issue", "commit"} /\ a \in Actors
    BY <1>4, <2>0, BusyKeying DEF Issue, CommitKey, Is, KeyLabels, Keying
  <2>2. /\ chat' = [chat EXCEPT ![c] = Idle] /\ Idle.pc \notin KeyLabels /\ chat'[c] = Idle
        /\ raced' = IF chat[c].alone THEN raced \ {a} ELSE raced
    BY <1>4, <2>0 DEF Issue, CommitKey, Settled, Finish, Idle, KeyLabels, ChatTypeOK
  <2>3. PICK n, gone : /\ gone = Gone(c)
                       /\ \A b \in Actors \ {a} : ActiveKeys(b)' \subseteq ActiveKeys(b)
                       /\ ActiveKeys(a)' \subseteq {n} \union (ActiveKeys(a) \ gone)
    BY <1>4, <2>0, ActivatedKey
  <2>4. \A d \in Slots \ {c} : KnowsKeys(d)'
    <3>1. \A b \in Actors : \/ ActiveKeys(b)' \subseteq ActiveKeys(b) /\ (b \in raced => b \in raced')
                            \/ chat[c].pc \in KeyLabels /\ b = chat[c].actor
                               /\ (b \in raced => b \in raced' \/ chat[c].alone)
      BY <2>0, <2>1, <2>2, <2>3 DEF KeyLabels
    <3> QED BY <2>2, <3>1, OthersKnow
  <2>5. KnowsKeys(c)'
    BY <2>2 DEF KnowsKeys
  <2>6. ASSUME NEW b \in Actors, b \notin raced' PROVE \A i, j \in ActiveKeys(b)' : i = j
    <3>1. CASE b # a
      BY <2>2, <2>3, <2>6, <3>1 DEF KeyInv
    <3>2. CASE b = a
      <4>1. chat[c].alone
        BY <2>0, <2>1, <2>2, <2>6, <3>2 DEF KeyInv, KnowsKeys, KeyLabels
      <4>2. ActiveKeys(a) \ gone = {}
        BY <2>0, <2>1, <2>3, <4>1 DEF KeyInv, KnowsKeys, KeyLabels, Gone, Is
      <4> QED BY <2>3, <3>2, <4>2
    <3> QED BY <3>1, <3>2
  <2> QED BY <2>4, <2>5, <2>6 DEF KeyInv
<1> QED BY <1>1, <1>2, <1>3, <1>4 DEF ManageKeys

(* Opening a conversation, and whatever ends a request, is no key request. *)
LEMMA NoKeyRequest ==
    ASSUME ChatTypeOK, KeyInv, NEW c \in Slots, OpenChat(c) \/ Refuse(c)
    PROVE  KeyInv'
<1>1. keys' = keys /\ raced' = raced
  BY DEF OpenChat, Refuse, StartChat, Lookup, LookupLegacy, Adopt, Create
<1>2. \E C : chat' = [chat EXCEPT ![c] = C] /\ C.pc \notin KeyLabels
  <2>1. CASE Finish(c)
    <3>1. Idle.pc \notin KeyLabels
      BY DEF Idle, KeyLabels
    <3> QED BY <2>1, <3>1 DEF Finish
  <2>2. ASSUME NEW p \in Pairs, StartChat(c, p)
        PROVE  \E C : chat' = [chat EXCEPT ![c] = C] /\ C.pc \notin KeyLabels
    <3>1. PICK C, P, clear : /\ C = [pc |-> "lookup", couple |-> P, row |-> 0, clear |-> clear]
                             /\ chat' = [chat EXCEPT ![c] = C]
      BY <2>2 DEF StartChat
    <3>2. C.pc = "lookup"
      BY <3>1
    <3> QED BY <3>1, <3>2 DEF KeyLabels
  <2>3. CASE Is(c, "lookup") /\ Step(c, "legacy")
    <3>1. PICK C : C = [chat[c] EXCEPT !.pc = "legacy"]
      OBVIOUS
    <3>2. chat[c] \in Opening
      BY <2>3, BusyOpening DEF Is
    <3>3. C.pc = "legacy"
      BY <3>1, <3>2 DEF Opening
    <3> QED BY <2>3, <3>1, <3>3 DEF Step, KeyLabels
  <2>4. CASE LookupLegacy(c)
    <3>1. PICK next, C : /\ next = IF legacy[chat[c].couple] > 0 THEN "adopt" ELSE "create"
                         /\ C = [chat[c] EXCEPT !.pc = next, !.row = legacy[chat[c].couple]]
                         /\ chat' = [chat EXCEPT ![c] = C]
      BY <2>4 DEF LookupLegacy
    <3>2. chat[c] \in Opening
      BY <2>4, BusyOpening DEF LookupLegacy, Is
    <3>3. C.pc = next
      BY <3>1, <3>2 DEF Opening
    <3>4. next \notin KeyLabels
      BY <3>1 DEF KeyLabels
    <3> QED BY <3>1, <3>3, <3>4
  <2> QED BY <2>1, <2>2, <2>3, <2>4 DEF OpenChat, Refuse, Lookup, Adopt, Create
<1>3. KnowsKeys(c)'
  BY <1>2 DEF KnowsKeys, ChatTypeOK
<1>4. \A b \in Actors : ActiveKeys(b)' \subseteq ActiveKeys(b)
  BY <1>1, NoKeyActivated
<1> QED BY <1>1, <1>2, <1>3, <1>4, QuietKeyStep

LEMMA KeyInvStep ==
    ASSUME ChatTypeOK, KeyInv, [SocialNext]_<<vars, chatVars>>
    PROVE  KeyInv'
<1>1. CASE UNCHANGED chatVars
  BY <1>1 DEF KeyInv, KnowsKeys, Others, ActiveKeys, chatVars
<1>2. CASE FiveMinutes
  <2>1. UNCHANGED <<chat, raced>> /\ Cooled
    BY <1>2 DEF FiveMinutes
  <2>2. \A b \in Actors : ActiveKeys(b)' \subseteq ActiveKeys(b)
    <3>1. \A i \in DOMAIN keys : keys[i] \in Key
      BY DEF ChatTypeOK
    <3> QED BY <2>1, <3>1 DEF Cooled, ActiveKeys, Key
  <2>3. ASSUME NEW d \in Slots PROVE KnowsKeys(d)'
    <3>1. chat[d].pc \in KeyLabels => chat[d].actor \in Actors
      BY BusyKeying DEF Keying
    <3> QED BY <2>1, <2>2, <3>1 DEF KeyInv, KnowsKeys, Others
  <2> QED BY <2>1, <2>2, <2>3 DEF KeyInv
<1> QED BY <1>1, <1>2, KeyRequestKnows, NoKeyRequest DEF SocialNext, ChatNext, chatVars

(***************************************************************************)
(* OneActiveKey, for any number of overlapping key requests.               *)
(***************************************************************************)
THEOREM KeysAreUnique == SocialSpec => []OneActiveKey
<1>1. SocialInit => KeyInv
  BY DEF SocialInit, ChatInit, KeyInv, KnowsKeys, Idle, KeyLabels, ActiveKeys
<1>2. TypeInv /\ KeyInv /\ [SocialNext]_<<vars, chatVars>> => KeyInv'
  BY KeyInvStep DEF TypeInv, TypeOK
<1>3. KeyInv => OneActiveKey
  <2> SUFFICES ASSUME KeyInv, NEW a \in Actors \ raced
               PROVE  Cardinality(ActiveKeys(a)) <= 1
    BY DEF OneActiveKey
  <2>1. CASE ActiveKeys(a) = {}
    BY <2>1, FS_EmptySet
  <2>2. CASE ActiveKeys(a) # {}
    <3>1. PICK i : i \in ActiveKeys(a)
      BY <2>2
    <3>2. ActiveKeys(a) = {i}
      BY <3>1 DEF KeyInv
    <3>3. Cardinality({i}) = 1
      BY FS_Singleton
    <3> QED BY <3>2, <3>3
  <2> QED BY <2>1, <2>2
<1> QED
  BY <1>1, <1>2, <1>3, TypeInvInit, TypeInvStep, PTL DEF SocialSpec
=============================================================================
