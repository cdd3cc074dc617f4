------------------------- MODULE LiveUpdatesProofs -------------------------
(***************************************************************************)
(* Theorems about ConversationSend, for every set of requests, every       *)
(* limit and every window.  The inductive invariant says what the lock on  *)
(* the conversation row protects: while a request holds it, the messages   *)
(* it counted are the committed ones, and all of them are older than the   *)
(* message it stores.                                                      *)
(*                                                                         *)
(* The page only reads what sending writes: every behaviour of LiveUpdates *)
(* is one of ConversationSend, so the theorems hold of the composition.    *)
(*                                                                         *)
(* Theorems about the page follow, for every size of an answer and every   *)
(* number of lost events and polls.  Their invariant, PageInv, says that   *)
(* the cursors of the page lie before every message that is still to be    *)
(* committed and not shown, and that an answer is an unbroken stretch      *)
(* behind the cursor it was asked for.                                     *)
(***************************************************************************)
EXTENDS LiveUpdates, FiniteSetTheorems, TLAPS

(* The request that holds the lock is the one with an open transaction.    *)
LockIsHeld == \A s \in Sends : stage[s] \in Open <=> lock = s

(* A committed message belongs to a request that is over.                  *)
CommittedIsSent == \A s \in committed : stage[s] = "sent"

(* Nothing is stored in the future, and a stored message that is not       *)
(* committed yet is younger than every committed one.                      *)
StoredInOrder ==
    /\ \A s \in Sends : created[s] <= clock
    /\ \A s \in Sends, n \in committed :
        stage[s] \in {"stored", "published"} => created[n] < created[s]

(* The end of the window that request s has to keep to.                    *)
SentAt(s) == IF stage[s] = "allowed" THEN clock ELSE created[s]

(* An open request has room for its message.                               *)
RoomLeft ==
    \A s \in Sends :
        stage[s] \in Open => Cardinality(Recent(s, SentAt(s))) < Limit

Serialized == SendTypeOK /\ LockIsHeld /\ CommittedIsSent /\ StoredInOrder

-----------------------------------------------------------------------------

LEMMA SendNextCases ==
    ASSUME [SendNext]_sendVars
    PROVE  \/ Tick
           \/ \E s \in Sends : Begin(s)
           \/ \E s \in Sends : Store(s)
           \/ \E s \in Sends : Refuse(s)
           \/ \E s \in Sends : Publish(s)
           \/ \E s \in Sends : Commit(s)
           \/ \E s \in Sends : Abort(s)
           \/ UNCHANGED sendVars
  BY DEF SendNext

LEMMA SerializedInit == Init => Serialized
  BY SendAssumption DEF Init, Serialized, SendTypeOK, LockIsHeld,
     CommittedIsSent, StoredInOrder, Stages, Open

LEMMA SerializedStep == Serialized /\ [SendNext]_sendVars => Serialized'
  <1> SUFFICES ASSUME Serialized, [SendNext]_sendVars PROVE Serialized'
      OBVIOUS
  <1> USE SendAssumption DEF Serialized, SendTypeOK, LockIsHeld,
          CommittedIsSent, StoredInOrder, Goto, Stages, Open
  <1>1. CASE Tick
    BY <1>1 DEF Tick
  <1>2. ASSUME NEW s \in Sends, Begin(s) PROVE Serialized'
    <2>1. s \notin committed
      BY <1>2 DEF Begin
    <2> QED BY <1>2, <2>1 DEF Begin
  <1>3. ASSUME NEW s \in Sends, Store(s) PROVE Serialized'
    <2>1. s \notin committed
      BY <1>3 DEF Store
    <2>2. lock = s
      BY <1>3 DEF Store
    <2>3. SendTypeOK'
      BY <1>3 DEF Store
    <2>4. LockIsHeld' /\ CommittedIsSent'
      BY <1>3, <2>1, <2>2 DEF Store
    <2>5. StoredInOrder'
      BY <1>3, <2>1, <2>2 DEF Store
    <2> QED BY <2>3, <2>4, <2>5
  <1>4. ASSUME NEW s \in Sends, Refuse(s) PROVE Serialized'
    <2>1. s \notin committed
      BY <1>4 DEF Refuse
    <2> QED BY <1>4, <2>1 DEF Refuse
  <1>5. ASSUME NEW s \in Sends, Publish(s) PROVE Serialized'
    BY <1>5 DEF Publish
  <1>6. ASSUME NEW s \in Sends, Commit(s) PROVE Serialized'
    BY <1>6 DEF Commit
  <1>7. ASSUME NEW s \in Sends, Abort(s) PROVE Serialized'
    BY <1>7 DEF Abort
  <1>8. CASE UNCHANGED sendVars
    BY <1>8 DEF sendVars
  <1> QED BY SendNextCases, <1>1, <1>2, <1>3, <1>4, <1>5, <1>6, <1>7, <1>8

(* The state of the send transactions keeps to its types.                  *)
THEOREM SendTypeCorrect == SendSpec => []SendTypeOK
  <1>1. Serialized => SendTypeOK
    BY DEF Serialized
  <1> QED BY <1>1, SerializedInit, SerializedStep, PTL DEF SendSpec

-----------------------------------------------------------------------------

(* What a step makes visible is younger than everything visible before.    *)
LEMMA VisibleStep ==
    ASSUME Serialized, [SendNext]_sendVars,
           NEW m \in committed' \ committed, NEW n \in committed
    PROVE  created[n] < created'[m]
  <1>1. PICK s \in Sends : Commit(s)
    BY SendNextCases DEF Tick, Begin, Store, Refuse, Publish, Abort, sendVars
  <1>2. m = s /\ created' = created
    BY <1>1 DEF Commit
  <1> QED BY <1>1, <1>2 DEF Serialized, StoredInOrder, Commit

(* Messages become visible in the order of created_at: the lock is held    *)
(* from before the message is stored until it is committed.                *)
THEOREM MessagesAppearInOrder == SendSpec => VisibleInOrder
  <1>1. Serialized /\ [SendNext]_sendVars =>
            [\A m \in committed' \ committed, n \in committed :
                created[n] < created'[m]]_sendVars
    BY VisibleStep
  <1> QED BY <1>1, SerializedInit, SerializedStep, PTL
          DEF SendSpec, VisibleInOrder

-----------------------------------------------------------------------------

(* Sets of messages are finite, and counting is monotone.                  *)
LEMMA Counting ==
    ASSUME NEW S \in SUBSET Sends, NEW T \in SUBSET S
    PROVE  /\ IsFiniteSet(S)
           /\ Cardinality(S) \in Nat
           /\ Cardinality(T) \in Nat
           /\ Cardinality(T) <= Cardinality(S)
  BY SendAssumption, FS_Subset, FS_CardinalityType

(* A step that keeps what is committed leaves room where room was: the end *)
(* of the window of an open request never moves back.                      *)
LEMMA RoomKept ==
    ASSUME Serialized, Serialized', NEW s \in Sends,
           committed' = committed,
           \A n \in committed : created'[n] = created[n],
           NEW t \in Int, NEW u \in Int, t <= u,
           Cardinality(Recent(s, t)) < Limit
    PROVE  Cardinality({m \in committed' :
                Sender[m] = Sender[s] /\ created'[m] >= u - Window}) < Limit
  <1> DEFINE new == {m \in committed' :
                        Sender[m] = Sender[s] /\ created'[m] >= u - Window}
  <1>1. new \subseteq Recent(s, t)
    BY SendAssumption DEF Recent, Serialized, SendTypeOK
  <1>2. Recent(s, t) \subseteq Sends
    BY DEF Recent, Serialized, SendTypeOK
  <1>3. Cardinality(new) \in Nat /\ Cardinality(Recent(s, t)) \in Nat
        /\ Cardinality(new) <= Cardinality(Recent(s, t))
    BY <1>1, <1>2, Counting
  <1>4. Cardinality(new) < Limit
    BY <1>3, SendAssumption
  <1> QED BY <1>4

LEMMA RoomStep ==
    Serialized /\ Serialized' /\ RoomLeft /\ [SendNext]_sendVars => RoomLeft'
  <1> SUFFICES ASSUME Serialized, Serialized', RoomLeft, [SendNext]_sendVars,
                      NEW s \in Sends, stage'[s] \in Open
               PROVE  Cardinality(Recent(s, SentAt(s))') < Limit
      BY DEF RoomLeft
  <1> DEFINE u == SentAt(s)'
  <1>1. Recent(s, SentAt(s))' = {m \in committed' :
            Sender[m] = Sender[s] /\ created'[m] >= u - Window}
    BY DEF Recent
  <1>2. /\ clock \in Int /\ clock' \in Int
        /\ created[s] \in Int /\ created'[s] \in Int
    BY SendAssumption DEF Serialized, SendTypeOK
  <1>3. u \in Int /\ SentAt(s) \in Int
    BY <1>2 DEF SentAt
  <1>4. ASSUME stage[s] \in Open, committed' = committed,
               \A n \in committed : created'[n] = created[n], SentAt(s) <= u
        PROVE  Cardinality(Recent(s, SentAt(s))') < Limit
    <2>1. Cardinality(Recent(s, SentAt(s))) < Limit
      BY <1>4 DEF RoomLeft
    <2> QED BY <1>1, <1>3, <1>4, <2>1, RoomKept
  <1>5. CASE Tick
    BY <1>2, <1>4, <1>5 DEF Tick, SentAt
  <1>6. ASSUME NEW r \in Sends, Begin(r)
        PROVE  Cardinality(Recent(s, SentAt(s))') < Limit
    <2>1. CASE stage[s] \in Open
      <3>1. r # s /\ stage'[s] = stage[s]
        BY <1>6, <2>1 DEF Begin, Goto, Open, Serialized, SendTypeOK
      <3> QED BY <1>2, <1>4, <1>6, <2>1, <3>1 DEF Begin, SentAt
    <2>2. CASE stage[s] \notin Open
      <3>1. r = s /\ stage'[s] = "allowed"
            /\ ~(Cardinality(Recent(s, clock)) >= Limit)
        BY <1>6, <2>2 DEF Begin, Goto, Open, Serialized, SendTypeOK
      <3>2. Cardinality(Recent(s, clock)) \in Nat
        BY Counting DEF Recent, Serialized, SendTypeOK
      <3>3. Cardinality(Recent(s, clock)) < Limit
        BY <3>1, <3>2, SendAssumption
      <3>4. u = clock
        BY <1>6, <3>1 DEF SentAt, Begin
      <3> QED BY <1>1, <1>2, <1>6, <3>3, <3>4, RoomKept DEF Begin
    <2> QED BY <2>1, <2>2
  <1>7. ASSUME NEW r \in Sends, Store(r)
        PROVE  Cardinality(Recent(s, SentAt(s))') < Limit
    <2>1. r = s
      BY <1>7 DEF Store, Goto, Open, Serialized, SendTypeOK, LockIsHeld
    <2>2. r \notin committed
      BY <1>7 DEF Store, Serialized, CommittedIsSent
    <2>3. \A n \in committed : created'[n] = created[n]
      BY <1>7, <2>2 DEF Store, Serialized, SendTypeOK
    <2>4. SentAt(s) = clock /\ u = clock + 1
      BY <1>7, <2>1 DEF Store, Goto, SentAt, Serialized, SendTypeOK
    <2> QED BY <1>2, <1>4, <1>7, <2>1, <2>3, <2>4 DEF Store, Open
  <1>8. ASSUME NEW r \in Sends, Refuse(r) \/ Abort(r)
        PROVE  Cardinality(Recent(s, SentAt(s))') < Limit
    <2>1. r # s /\ stage'[s] = stage[s]
      BY <1>8 DEF Refuse, Abort, Goto, Open, Serialized, SendTypeOK
    <2>2. r \notin committed
      BY <1>8 DEF Refuse, Abort, Open, Serialized, CommittedIsSent
    <2>3. /\ \A n \in committed : created'[n] = created[n]
          /\ created'[s] = created[s] /\ clock' = clock
      BY <1>8, <2>1, <2>2 DEF Refuse, Abort, Serialized, SendTypeOK
    <2>4. u = SentAt(s)
      BY <2>1, <2>3 DEF SentAt
    <2> QED BY <1>3, <1>4, <1>8, <2>1, <2>3, <2>4 DEF Refuse, Abort
  <1>9. ASSUME NEW r \in Sends, Publish(r)
        PROVE  Cardinality(Recent(s, SentAt(s))') < Limit
    <2>1. stage[s] \in Open
      BY <1>9 DEF Publish, Goto, Open, Serialized, SendTypeOK
    <2>2. u = SentAt(s)
      BY <1>9 DEF Publish, Goto, SentAt, Serialized, SendTypeOK
    <2> QED BY <1>3, <1>4, <1>9, <2>1, <2>2 DEF Publish
  <1>10. ASSUME NEW r \in Sends, Commit(r)
         PROVE  Cardinality(Recent(s, SentAt(s))') < Limit
    <2>1. r # s /\ stage[s] \in Open
      BY <1>10 DEF Commit, Goto, Open, Serialized, SendTypeOK
    <2> QED BY <1>10, <2>1 DEF Commit, Open, Serialized, LockIsHeld
  <1>11. CASE UNCHANGED sendVars
    <2>1. u = SentAt(s)
      BY <1>11 DEF sendVars, SentAt
    <2> QED BY <1>3, <1>4, <1>11, <2>1 DEF sendVars
  <1> QED BY SendNextCases, <1>5, <1>6, <1>7, <1>8, <1>9, <1>10, <1>11

-----------------------------------------------------------------------------

(* The messages of the sender of m in the window that ends with m.         *)
InWindow(m) ==
    {n \in committed :
        /\ Sender[n] = Sender[m]
        /\ created[n] \in (created[m] - Window)..created[m]}

LEMMA RateStep ==
    Serialized /\ RoomLeft /\ RateLimit /\ [SendNext]_sendVars => RateLimit'
  <1> SUFFICES ASSUME Serialized, RoomLeft, RateLimit, [SendNext]_sendVars,
                      NEW m \in committed'
               PROVE  Cardinality(InWindow(m)') <= Limit
      BY DEF RateLimit, InWindow
  <1>1. InWindow(m)' = {n \in committed' :
            /\ Sender[n] = Sender[m]
            /\ created'[n] \in (created'[m] - Window)..created'[m]}
    BY DEF InWindow
  <1>2. CASE committed' = committed /\ \A n \in committed : created'[n] = created[n]
    <2>1. InWindow(m)' = InWindow(m)
      BY <1>1, <1>2 DEF InWindow
    <2> QED BY <1>2, <2>1 DEF RateLimit, InWindow
  <1>3. ASSUME NEW s \in Sends, Commit(s)
        PROVE  Cardinality(InWindow(m)') <= Limit
    <2>1. /\ committed' = committed \union {s} /\ created' = created
          /\ stage[s] = "published"
      BY <1>3 DEF Commit
    <2>2. created \in [Sends -> Int] /\ committed \subseteq Sends
      BY SendAssumption DEF Serialized, SendTypeOK
    <2>3. \A n \in committed : created[n] < created[s]
      BY <2>1 DEF Serialized, StoredInOrder
    <2>4. CASE m = s
      <3> DEFINE R == Recent(s, created[s])
      <3>1. Cardinality(R) < Limit
        BY <2>1 DEF RoomLeft, SentAt, Open
      <3>2. R \subseteq Sends /\ IsFiniteSet(R) /\ Cardinality(R) \in Nat
        BY <2>2, Counting DEF Recent
      <3>3. InWindow(m)' \subseteq R \union {s}
        BY <1>1, <2>1, <2>2, <2>4, SendAssumption DEF Recent
      <3>4. /\ Cardinality(R \union {s}) \in Nat
            /\ Cardinality(InWindow(m)') \in Nat
            /\ Cardinality(InWindow(m)') <= Cardinality(R \union {s})
        BY <3>2, <3>3, Counting
      <3>5. Cardinality(R \union {s}) <= Cardinality(R) + 1
        <4> HIDE DEF R
        <4>1. Cardinality(R \union {s}) =
                IF s \in R THEN Cardinality(R) ELSE Cardinality(R) + 1
          BY <3>2, FS_AddElement, Zenon
        <4> QED BY <3>2, <4>1
      <3> QED BY <3>1, <3>2, <3>4, <3>5, SendAssumption
    <2>5. CASE m # s
      <3>1. m \in committed
        BY <2>1, <2>5
      <3>2. s \notin InWindow(m)'
        BY <1>1, <2>1, <2>2, <2>3, <3>1, SendAssumption
      <3>3. InWindow(m)' = InWindow(m)
        BY <1>1, <2>1, <3>2 DEF InWindow
      <3> QED BY <3>1, <3>3 DEF RateLimit, InWindow
    <2> QED BY <2>4, <2>5
  <1>4. CASE Tick
    BY <1>2, <1>4 DEF Tick
  <1>5. ASSUME NEW s \in Sends, Begin(s) PROVE Cardinality(InWindow(m)') <= Limit
    BY <1>2, <1>5 DEF Begin
  <1>6. ASSUME NEW s \in Sends, Store(s) \/ Refuse(s) \/ Abort(s)
        PROVE  Cardinality(InWindow(m)') <= Limit
    <2>1. s \notin committed
      BY <1>6 DEF Store, Refuse, Abort, Open, Serialized, CommittedIsSent
    <2>2. committed' = committed /\ \A n \in committed : created'[n] = created[n]
      BY <1>6, <2>1 DEF Store, Refuse, Abort, Serialized, SendTypeOK
    <2> QED BY <1>2, <2>2
  <1>7. ASSUME NEW s \in Sends, Publish(s) PROVE Cardinality(InWindow(m)') <= Limit
    BY <1>2, <1>7 DEF Publish
  <1>8. CASE UNCHANGED sendVars
    BY <1>2, <1>8 DEF sendVars
  <1> QED BY SendNextCases, <1>3, <1>4, <1>5, <1>6, <1>7, <1>8

(* No participant ever has more than Limit committed messages in a window: *)
(* the count and the commit are under one lock, and the windows of earlier *)
(* messages end before the new one.                                        *)
THEOREM RateIsLimited == SendSpec => []RateLimit
  <1> DEFINE IInv == Serialized /\ RoomLeft /\ RateLimit
  <1>1. Init => IInv
    <2>1. Init => RoomLeft /\ RateLimit
      BY DEF Init, RoomLeft, RateLimit, Open
    <2> QED BY <2>1, SerializedInit
  <1>2. IInv /\ [SendNext]_sendVars => IInv'
    BY SerializedStep, RoomStep, RateStep
  <1> QED BY <1>1, <1>2, PTL DEF SendSpec

-----------------------------------------------------------------------------

LEMMA PageLeavesSending == [Next]_vars => [SendNext]_sendVars
  <1> SUFFICES ASSUME [Next]_vars, ~UNCHANGED sendVars PROVE SendNext
      OBVIOUS
  <1>1. CASE SendStep
    BY <1>1 DEF SendStep, SendNext
  <1>2. CASE \E s \in Sends : PublishEvent(s)
    BY <1>2 DEF PublishEvent, SendNext
  <1>3. ASSUME PageStep PROVE UNCHANGED sendVars
    BY <1>3 DEF PageStep, PollStep, OpenPage, RenderPage, ConnectSocket,
       LoseSocket, SocketEvent, StartPoll, QueryUpdates, MarkAnswer, Answer,
       HandleAnswered, FinishPoll, PollFails
  <1>4. CASE UNCHANGED vars
    BY <1>4 DEF vars
  <1> QED BY <1>1, <1>2, <1>3, <1>4 DEF Next

(* The composition implements the sending part alone.                      *)
THEOREM SendingIsUndisturbed == Spec => SendSpec
  <1>1. PageInit => Init
    BY DEF PageInit
  <1> QED BY <1>1, PageLeavesSending, PTL DEF Spec, SendSpec

(* What a reader of the conversation relies on, with the page in the       *)
(* picture: the order in which messages appear, and the rate limit.        *)
THEOREM PageSeesMessagesInOrder == Spec => VisibleInOrder
  BY SendingIsUndisturbed, MessagesAppearInOrder, PTL

THEOREM RateIsLimitedWithPage == Spec => []RateLimit
  BY SendingIsUndisturbed, RateIsLimited, PTL

-----------------------------------------------------------------------------
(***************************************************************************)
(* Sorting by time.  Messages with different times have one order: that    *)
(* there is a sequence that sorts them is shown by counting, for each, the *)
(* messages that are not younger.                                          *)
(***************************************************************************)
Sorted(q) == \A i, j \in DOMAIN q : i < j => created[q[i]] < created[q[j]]

DifferentTimes(S) == \A m, n \in S : created[m] = created[n] => m = n

LEMMA SortExists ==
    ASSUME SendTypeOK, NEW S \in SUBSET Sends, DifferentTimes(S)
    PROVE  /\ Cardinality(S) \in Nat
           /\ \E q \in [1..Cardinality(S) -> S] :
                 \A i, j \in 1..Cardinality(S) : i < j => created[q[i]] < created[q[j]]
  <1>1. PICK N \in Nat : N = Cardinality(S)
    BY Counting
  <1>2. \A m \in S : created[m] \in Nat
    BY DEF SendTypeOK
  <1> DEFINE upTo(m) == {n \in S : created[n] <= created[m]}
             rank == [m \in S |-> Cardinality(upTo(m))]
  <1>3. ASSUME NEW m \in S PROVE upTo(m) \subseteq S /\ m \in upTo(m)
    BY <1>2
  <1>4. ASSUME NEW m \in S PROVE rank[m] \in 1..N
    <2>1. /\ IsFiniteSet(upTo(m)) /\ Cardinality(upTo(m)) \in Nat
          /\ Cardinality(upTo(m)) <= N
      BY <1>1, <1>3, Counting
    <2>2. Cardinality(upTo(m)) # 0
      BY <1>3, <2>1, FS_EmptySet
    <2> QED BY <1>1, <2>1, <2>2
  <1>5. ASSUME NEW m \in S, NEW n \in S, created[m] < created[n]
        PROVE  rank[m] < rank[n]
    <2>1. upTo(m) \subseteq upTo(n) /\ n \notin upTo(m) /\ n \in upTo(n)
      BY <1>2, <1>5
    <2>2. /\ IsFiniteSet(upTo(n)) /\ Cardinality(upTo(n)) \in Nat
          /\ Cardinality(upTo(m)) \in Nat
          /\ Cardinality(upTo(m)) <= Cardinality(upTo(n))
      BY <1>3, <2>1, Counting
    <2>3. Cardinality(upTo(m)) # Cardinality(upTo(n))
      BY <2>1, <2>2, FS_Subset
    <2> QED BY <2>2, <2>3
  <1>6. ASSUME NEW m \in S, NEW n \in S, m # n PROVE rank[m] # rank[n]
    <2>1. created[m] < created[n] \/ created[n] < created[m]
      BY <1>2, <1>6 DEF DifferentTimes
    <2>2. rank[m] < rank[n] \/ rank[n] < rank[m]
      BY <1>5, <2>1
    <2> QED BY <1>4, <2>2
  <1>7. rank \in Injection(S, 1..N)
    BY <1>4, <1>6 DEF Injection, IsInjective
  <1>8. IsFiniteSet(1..N) /\ Cardinality(1..N) = N
    BY <1>1, FS_Interval
  <1>9. rank \in Surjection(S, 1..N)
    BY <1>1, <1>7, <1>8, FS_Injection
  <1> HIDE DEF rank
  <1> DEFINE q == [i \in 1..N |-> CHOOSE m \in S : rank[m] = i]
  <1>10. ASSUME NEW i \in 1..N PROVE q[i] \in S /\ rank[q[i]] = i
    BY <1>9 DEF Surjection
  <1>11. ASSUME NEW i \in 1..N, NEW j \in 1..N, i < j
         PROVE  created[q[i]] < created[q[j]]
    <2>1. q[i] \in S /\ q[j] \in S /\ rank[q[i]] = i /\ rank[q[j]] = j
      BY <1>10
    <2>2. created[q[i]] \in Nat /\ created[q[j]] \in Nat
      BY <1>2, <2>1
    <2>3. created[q[i]] # created[q[j]]
      BY <1>11, <2>1 DEF DifferentTimes
    <2>4. CASE created[q[j]] < created[q[i]]
      <3>1. rank[q[j]] < rank[q[i]]
        BY <1>5, <2>1, <2>4
      <3> QED BY <1>11, <2>1, <3>1
    <2> QED BY <2>2, <2>3, <2>4
  <1>12. q \in [1..N -> S]
    BY <1>10
  <1> HIDE DEF q
  <1> QED BY <1>1, <1>11, <1>12

LEMMA ByTimeFacts ==
    ASSUME SendTypeOK, NEW S \in SUBSET Sends, DifferentTimes(S)
    PROVE  /\ ByTime(S) \in Seq(S)
           /\ Len(ByTime(S)) = Cardinality(S)
           /\ Sorted(ByTime(S))
           /\ ToSet(ByTime(S)) = S
  <1>1. PICK N \in Nat : N = Cardinality(S)
    BY Counting
  <1> DEFINE Sorts(p) == \A i, j \in 1..N : i < j => created[p[i]] < created[p[j]]
  <1>2. \E p \in [1..N -> S] : Sorts(p)
    BY <1>1, SortExists
  <1>3. PICK q : q = ByTime(S)
    OBVIOUS
  <1>4. q = CHOOSE p \in [1..N -> S] : Sorts(p)
    BY <1>1, <1>3 DEF ByTime
  <1>5. q \in [1..N -> S] /\ Sorts(q)
    BY <1>2, <1>4
  <1>6. q \in Seq(S) /\ Len(q) = N /\ DOMAIN q = 1..N
    BY <1>5
  <1>7. \A i, j \in 1..N : i # j => q[i] # q[j]
    <2>1. \A i \in 1..N : q[i] \in S /\ created[q[i]] \in Nat
      BY <1>5 DEF SendTypeOK
    <2> SUFFICES ASSUME NEW i \in 1..N, NEW j \in 1..N, i # j PROVE q[i] # q[j]
      OBVIOUS
    <2>2. i < j \/ j < i
      OBVIOUS
    <2> QED BY <1>5, <2>1, <2>2
  <1>8. q \in Injection(1..N, S)
    BY <1>5, <1>7 DEF Injection, IsInjective
  <1>9. Cardinality(1..N) = N /\ IsFiniteSet(S)
    <2>1. Cardinality(1..N) = N
      BY <1>1, FS_Interval
    <2> QED BY <2>1, Counting
  <1>10. q \in Surjection(1..N, S)
    BY <1>1, <1>8, <1>9, FS_Injection
  <1>11. ToSet(q) = S
    BY <1>5, <1>6, <1>10 DEF ToSet, Surjection
  <1> QED BY <1>1, <1>3, <1>5, <1>6, <1>11 DEF Sorted

-----------------------------------------------------------------------------
(* Out: what a page may have been given.                                   *)
Out == {"published", "sent", "aborted"}
Pending == {"stored", "published"}

TimesInv ==
    /\ \A m, n \in Sends : created[m] = created[n] /\ created[m] # 0 => m = n
    /\ \A s \in Sends : stage[s] \in Pending =>
          \A n \in Sends \ {s} : created[n] < created[s]
    /\ \A s \in Sends : stage[s] \in Pending \union {"sent"} => created[s] > 0
    /\ \A s \in Sends : stage[s] = "aborted" => faults > 0
    /\ \A s \in Sends : stage[s] = "sent" <=> s \in committed

Past(c) ==
    /\ c <= clock
    /\ \A s \in Sends \ known : stage[s] \in Pending => c < created[s]

Quiet ==
    /\ page # "open" => known = {} /\ poll = "idle" /\ socket = "none"
    /\ socket # "open" => events = <<>>
    /\ poll \in {"idle", "asked"} => batch = <<>>

GivenInv ==
    /\ \A m \in known \union ToSet(events) : stage[m] \in Out
    /\ Sorted(events)
    /\ Past(pollCursor) /\ Past(sentCursor) /\ Past(nextCursor)

BatchInv ==
    /\ Sorted(batch)
    /\ \A m \in ToSet(batch) : m \in committed /\ sentCursor < created[m]

Between(a, b) == {m \in committed : a < created[m] /\ created[m] <= b}

Settled ==
    \A n \in known, m \in committed \ known :
        sentCursor < created[m] /\ created[m] < created[n] =>
            /\ created[n] <= pollCursor
            /\ \A e \in ToSet(events) : created[n] < created[e]

AnswerInv ==
    /\ poll \in {"queried", "marked"} /\ batch # <<>> =>
          Between(sentCursor, created[Last(batch)]) \subseteq ToSet(batch)
    /\ poll \in {"queried", "marked"} /\ batch = <<>> => Settled
    /\ poll = "answered" =>
          \/ /\ \A m \in ToSet(batch) : created[m] <= nextCursor
             /\ Between(sentCursor, nextCursor) \subseteq known \union ToSet(batch)
          \/ batch = <<>> /\ Settled


PageInv == Serialized /\ TypeOK /\ TimesInv /\ Quiet /\ GivenInv /\ BatchInv /\ AnswerInv

LEMMA TimesInit == Init => TimesInv
  BY DEF Init, TimesInv, Pending

LEMMA TimesStep ==
    ASSUME Serialized, TimesInv, [SendNext]_sendVars
    PROVE  TimesInv'
  <1> USE SendAssumption DEF Serialized, SendTypeOK, TimesInv, Pending, Goto, Stages, Open
  <1>1. CASE Tick \/ UNCHANGED sendVars
    BY <1>1 DEF Tick, sendVars
  <1>2. ASSUME NEW s \in Sends, Begin(s) PROVE TimesInv'
    BY <1>2 DEF Begin
  <1>3. ASSUME NEW s \in Sends, Store(s) PROVE TimesInv'
    <2>1. \A n \in Sends : created[n] \in Nat /\ created[n] <= clock
      BY DEF StoredInOrder
    <2>2. lock = s /\ \A n \in Sends \ {s} : stage[n] \notin Open
      BY <1>3 DEF Store, LockIsHeld
    <2>3. /\ created'[s] = clock + 1
          /\ \A n \in Sends \ {s} : created'[n] = created[n] /\ stage'[n] = stage[n]
          /\ stage'[s] = "stored" /\ committed' = committed /\ faults' = faults
          /\ clock \in Nat
      BY <1>3 DEF Store
    <2>4. stage[s] = "allowed"
      BY <1>3 DEF Store
    <2> HIDE DEF Serialized, SendTypeOK
    <2> QED BY <2>1, <2>2, <2>3, <2>4
  <1>4. ASSUME NEW s \in Sends, Refuse(s) PROVE TimesInv'
    BY <1>4 DEF Refuse
  <1>5. ASSUME NEW s \in Sends, Publish(s) PROVE TimesInv'
    BY <1>5 DEF Publish
  <1>6. ASSUME NEW s \in Sends, Commit(s) PROVE TimesInv'
    BY <1>6 DEF Commit
  <1>7. ASSUME NEW s \in Sends, Abort(s) PROVE TimesInv'
    BY <1>7 DEF Abort
  <1> QED BY SendNextCases, <1>1, <1>2, <1>3, <1>4, <1>5, <1>6, <1>7

(* What a step of sending leaves alone: what has gone out keeps its time,  *)
(* and a message is stored later than everything so far.                   *)
SendFrame ==
    /\ clock \in Nat /\ clock' \in Nat /\ clock <= clock'
    /\ \A m \in Sends : stage[m] \in Out => stage'[m] \in Out /\ created'[m] = created[m]
    /\ \A s \in Sends : stage'[s] \in Pending =>
          \/ stage[s] \in Pending /\ created'[s] = created[s]
          \/ created'[s] = clock + 1
    /\ committed \subseteq committed'
    /\ \A m \in committed' \ committed : m \in Sends /\ stage[m] = "published"

LEMMA SendFrameHolds ==
    ASSUME Serialized, TimesInv, [SendNext]_sendVars
    PROVE  SendFrame
  <1> USE SendAssumption DEF SendFrame, Serialized, SendTypeOK, TimesInv, Pending, Out,
          Goto, Stages, Open
  <1>1. CASE Tick \/ UNCHANGED sendVars
    BY <1>1 DEF Tick, sendVars
  <1>2. ASSUME NEW s \in Sends, Begin(s) PROVE SendFrame
    BY <1>2 DEF Begin
  <1>3. ASSUME NEW s \in Sends, Store(s) PROVE SendFrame
    BY <1>3 DEF Store
  <1>4. ASSUME NEW s \in Sends, Refuse(s) PROVE SendFrame
    BY <1>4 DEF Refuse
  <1>5. ASSUME NEW s \in Sends, Publish(s) PROVE SendFrame
    BY <1>5 DEF Publish
  <1>6. ASSUME NEW s \in Sends, Commit(s) PROVE SendFrame
    BY <1>6 DEF Commit
  <1>7. ASSUME NEW s \in Sends, Abort(s) PROVE SendFrame
    BY <1>7 DEF Abort
  <1> QED BY SendNextCases, <1>1, <1>2, <1>3, <1>4, <1>5, <1>6, <1>7

LEMMA SendCases ==
    ASSUME [Next]_vars
    PROVE  \/ UNCHANGED sendVars /\ (PageStep \/ UNCHANGED pageVars)
           \/ [SendNext]_sendVars /\ UNCHANGED pageVars
           \/ \E s \in Sends : PublishEvent(s)
  <1>1. CASE SendStep
    BY <1>1 DEF SendStep, SendNext
  <1>2. ASSUME PageStep PROVE UNCHANGED sendVars
    BY <1>2 DEF PageStep, PollStep, OpenPage, RenderPage, ConnectSocket,
       LoseSocket, SocketEvent, StartPoll, QueryUpdates, MarkAnswer, Answer,
       HandleAnswered, FinishPoll, PollFails
  <1>3. CASE UNCHANGED vars
    BY <1>3 DEF vars
  <1> QED BY <1>1, <1>2, <1>3 DEF Next

LEMMA InSeq ==
    ASSUME NEW S, NEW q \in Seq(S)
    PROVE  /\ ToSet(q) \subseteq S
           /\ \A i \in DOMAIN q : q[i] \in ToSet(q) /\ q[i] \in S
           /\ \A m \in ToSet(q) : \E i \in DOMAIN q : q[i] = m
           /\ DOMAIN q = 1..Len(q) /\ Len(q) \in Nat
           /\ q # <<>> => Last(q) = q[Len(q)] /\ Len(q) \in DOMAIN q /\ 1 \in DOMAIN q
  BY DEF ToSet, Last

LEMMA CursorType ==
    ASSUME TypeOK
    PROVE  /\ pollCursor \in Nat /\ sentCursor \in Nat /\ nextCursor \in Nat
           /\ clock \in Nat /\ clock <= MaxClock /\ MaxClock \in Nat
           /\ \A m \in Sends : created[m] \in Nat
  BY SendAssumption DEF TypeOK, SendTypeOK

(* Sending changes nothing that the page relies on.                        *)
LEMMA PastKept ==
    ASSUME TypeOK, TypeOK', SendFrame, known' = known, NEW c \in Nat, Past(c)
    PROVE  Past(c)'
  BY CursorType DEF Past, SendFrame

EventsGrow ==
    \/ events' = events
    \/ /\ socket = "open"
       /\ \E s \in Sends : /\ stage[s] = "stored" /\ stage'[s] = "published"
                           /\ created'[s] = created[s] /\ events' = Append(events, s)

LEMMA NewEvents ==
    ASSUME TypeOK, TypeOK', EventsGrow, NEW e \in ToSet(events)'
    PROVE  e \in ToSet(events) \/ (e \in Sends /\ stage[e] = "stored"
               /\ stage'[e] = "published" /\ created'[e] = created[e])
  <1>1. PICK i \in DOMAIN events' : e = events'[i]
    BY InSeq DEF TypeOK, ToSet
  <1>2. CASE events' = events
    BY <1>1, <1>2 DEF ToSet
  <1>3. ASSUME NEW s \in Sends, events' = Append(events, s)
        PROVE  e = s \/ e \in ToSet(events)
    BY <1>1, <1>3 DEF TypeOK, ToSet
  <1> QED BY <1>2, <1>3 DEF EventsGrow

LEMMA SettledKept ==
    ASSUME TypeOK, TypeOK', TimesInv, GivenInv, SendFrame, Settled,
           UNCHANGED <<known, pollCursor, sentCursor>>, EventsGrow
    PROVE  Settled'
  <1>1. ASSUME NEW n \in known PROVE n \in Sends /\ stage[n] \in Out
    BY DEF GivenInv, TypeOK
  <1>2. ASSUME NEW e \in ToSet(events) PROVE e \in Sends /\ stage[e] \in Out
    BY InSeq DEF GivenInv, TypeOK
  <1>3. ASSUME NEW n \in known, NEW m \in committed' \ known,
               sentCursor < created'[m], created'[m] < created'[n]
        PROVE  m \in committed /\ created[m] = created'[m] /\ created[n] = created'[n]
    <2>1. created'[n] = created[n] /\ stage[n] \in Out /\ n \in Sends
      BY <1>1 DEF SendFrame
    <2>2. CASE m \in committed
      <3>1. m \in Sends /\ stage[m] = "sent"
        BY <2>2 DEF TimesInv, TypeOK, SendTypeOK
      <3> QED BY <2>1, <2>2, <3>1 DEF SendFrame, Out
    <2>3. CASE m \notin committed
      <3>1. m \in Sends /\ stage[m] = "published"
        BY <2>3 DEF SendFrame
      <3>2. created'[m] = created[m] /\ n # m
        BY <3>1 DEF SendFrame, Out
      <3>3. created[n] < created[m]
        BY <2>1, <3>1, <3>2 DEF TimesInv, Pending
      <3>4. created[n] \in Nat /\ created[m] \in Nat
        BY <2>1, <3>1, CursorType
      <3> QED BY <1>3, <2>1, <3>2, <3>3, <3>4
    <2> QED BY <2>2, <2>3
  <1>4. ASSUME NEW n \in known, NEW m \in committed \ known, NEW e \in ToSet(events)',
               sentCursor < created[m], created[m] < created[n]
        PROVE  created'[n] < created'[e]
    <2>1. created'[n] = created[n]
      BY <1>1 DEF SendFrame
    <2>2. CASE e \in ToSet(events)
      <3>1. created'[e] = created[e]
        BY <1>2, <2>2 DEF SendFrame
      <3>2. created[n] < created[e]
        BY <1>4, <2>2 DEF Settled
      <3> QED BY <2>1, <3>1, <3>2
    <2>3. CASE e \in Sends /\ stage[e] = "stored" /\ created'[e] = created[e]
      <3>1. n # e /\ n \in Sends
        BY <1>1, <2>3 DEF Out
      <3>2. created[n] < created[e]
        BY <2>3, <3>1 DEF TimesInv, Pending
      <3> QED BY <2>1, <2>3, <3>2
    <2> QED BY <2>2, <2>3, NewEvents
  <1>5. \A n \in known : created'[n] = created[n]
    BY <1>1 DEF SendFrame
  <1> QED BY <1>3, <1>4, <1>5 DEF Settled

LEMMA SendKeeps ==
    ASSUME PageInv, TypeOK', Serialized', TimesInv', SendFrame, EventsGrow,
           UNCHANGED <<page, socket, known, pollCursor, poll, sentCursor, batch, nextCursor>>
    PROVE  PageInv'
  <1> USE DEF PageInv
  <1>1. UNCHANGED <<page, socket, known, pollCursor, poll, sentCursor, batch, nextCursor>>
    OBVIOUS
  <1>2. Quiet'
    BY <1>1 DEF Quiet, EventsGrow
  <1>3. \A m \in ToSet(events) : m \in Sends /\ stage[m] \in Out
    BY InSeq DEF GivenInv, TypeOK
  <1>4. \A m \in ToSet(batch) : m \in Sends /\ m \in committed /\ stage[m] \in Out
    BY InSeq DEF BatchInv, TypeOK, TimesInv, Out
  <1>5. GivenInv'
    <2>1. Past(pollCursor)' /\ Past(sentCursor)' /\ Past(nextCursor)'
      <3>1. \A c \in Nat : Past(c) => Past(c)'
        BY <1>1, PastKept
      <3>2. Past(pollCursor) /\ Past(sentCursor) /\ Past(nextCursor)
        BY DEF GivenInv
      <3> QED BY <1>1, <3>1, <3>2, CursorType DEF Past
    <2>2. Sorted(events)'
      <3>1. CASE events' = events
        BY <1>3, <3>1, InSeq DEF GivenInv, Sorted, SendFrame, TypeOK
      <3>2. ASSUME NEW s \in Sends, stage[s] = "stored", created'[s] = created[s],
                   events' = Append(events, s)
            PROVE  Sorted(events)'
        <4>1. /\ DOMAIN events = 1..Len(events) /\ Len(events) \in Nat
              /\ \A i \in DOMAIN events : events[i] \in ToSet(events)
          BY InSeq DEF TypeOK
        <4>2. /\ DOMAIN events' = 1..(Len(events) + 1)
              /\ \A i \in 1..Len(events) : events'[i] = events[i]
              /\ events'[Len(events) + 1] = s
          BY <3>2, <4>1 DEF TypeOK
        <4>3. \A i \in 1..Len(events) : created'[events[i]] = created[events[i]]
          BY <1>3, <4>1 DEF SendFrame
        <4>4. \A i \in 1..Len(events) : created[events[i]] < created[s]
          <5>1. \A i \in 1..Len(events) : events[i] \in Sends \ {s}
            BY <1>3, <3>2, <4>1 DEF Out
          <5> QED BY <3>2, <5>1 DEF TimesInv, Pending
        <4>5. \A i, j \in 1..Len(events) : i < j => created[events[i]] < created[events[j]]
          BY <4>1 DEF GivenInv, Sorted
        <4>6. ASSUME NEW i \in DOMAIN events', NEW j \in DOMAIN events', i < j
              PROVE  created'[events'[i]] < created'[events'[j]]
          <5>1. i \in 1..Len(events)
            BY <4>1, <4>2, <4>6
          <5>2. CASE j = Len(events) + 1
            BY <3>2, <4>2, <4>3, <4>4, <5>1, <5>2
          <5>3. CASE j \in 1..Len(events)
            BY <4>2, <4>3, <4>5, <4>6, <5>1, <5>3
          <5> QED BY <4>1, <4>2, <5>2, <5>3
        <4> QED BY <4>6 DEF Sorted
      <3> QED BY <3>1, <3>2 DEF EventsGrow
    <2>3. \A m \in known : stage'[m] \in Out
      BY DEF GivenInv, SendFrame, TypeOK
    <2>4. \A m \in ToSet(events)' : stage'[m] \in Out
      BY <1>3, NewEvents DEF SendFrame, Out
    <2> QED BY <1>1, <2>1, <2>2, <2>3, <2>4 DEF GivenInv
  <1>6. BatchInv'
    <2>1. Sorted(batch)'
      BY <1>1, <1>4, InSeq DEF BatchInv, Sorted, SendFrame, TypeOK
    <2> QED BY <1>1, <1>4, <2>1 DEF BatchInv, SendFrame
  <1>7. Settled => Settled'
    BY SettledKept
  <1>8. ASSUME NEW a \in Nat, NEW b \in Nat, NEW m \in Between(a, b)'
        PROVE  \/ m \in Between(a, b)
               \/ /\ m \in Sends /\ stage[m] = "published"
                  /\ created'[m] = created[m] /\ created[m] <= b
    <2>1. CASE m \in committed
      <3>1. m \in Sends /\ stage[m] \in Out
        BY <2>1 DEF TimesInv, TypeOK, SendTypeOK, Out
      <3>2. created'[m] = created[m]
        BY <3>1 DEF SendFrame
      <3>3. a < created'[m] /\ created'[m] <= b
        BY <1>8 DEF Between
      <3>4. a < created[m] /\ created[m] <= b
        BY <3>2, <3>3
      <3>5. m \in Between(a, b)
        BY <2>1, <3>4 DEF Between
      <3> QED BY <3>5
    <2>2. CASE m \notin committed
      <3>1. m \in Sends /\ stage[m] = "published"
        BY <1>8, <2>2 DEF Between, SendFrame
      <3> QED BY <1>8, <3>1 DEF Between, SendFrame, Out
    <2> QED BY <2>1, <2>2
  <1>9. ASSUME poll \in {"queried", "marked"}, batch # <<>>
        PROVE  Between(sentCursor, created[Last(batch)])' \subseteq ToSet(batch)
    <2>1. PICK l \in ToSet(batch) : l = Last(batch)
      BY <1>9, InSeq DEF TypeOK
    <2>2. l \in Sends /\ stage[l] = "sent" /\ created'[l] = created[l]
      BY <1>4, <2>1 DEF TimesInv, SendFrame
    <2>3. PICK b \in Nat : b = created[l]
      BY <2>2, CursorType
    <2>4. Between(sentCursor, b) \subseteq ToSet(batch)
      BY <1>9, <2>1, <2>3 DEF AnswerInv
    <2>5. ASSUME NEW m \in Between(sentCursor, b)' PROVE m \in ToSet(batch)
      <3>1. \/ m \in Between(sentCursor, b)
            \/ m \in Sends /\ stage[m] = "published" /\ created[m] <= b
        BY <1>1, <1>8, <2>5, CursorType DEF Between
      <3>2. ASSUME m \in Sends, stage[m] = "published" PROVE b < created[m]
        BY <2>2, <2>3, <3>2 DEF TimesInv, Pending
      <3> QED BY <2>3, <2>4, <3>1, <3>2, CursorType
    <2> QED BY <1>1, <2>1, <2>2, <2>3, <2>5 DEF Between
  <1>10. ASSUME Between(sentCursor, nextCursor) \subseteq known \union ToSet(batch)
         PROVE  Between(sentCursor, nextCursor)' \subseteq known \union ToSet(batch)
    <2>1. ASSUME NEW m \in Between(sentCursor, nextCursor)'
          PROVE  m \in known \union ToSet(batch)
      <3>1. \/ m \in Between(sentCursor, nextCursor)
            \/ m \in Sends /\ stage[m] = "published" /\ created[m] <= nextCursor
        BY <1>1, <1>8, <2>1, CursorType DEF Between
      <3>2. ASSUME m \in Sends, stage[m] = "published", m \notin known
            PROVE  nextCursor < created[m]
        BY <3>2 DEF GivenInv, Past, Pending
      <3> QED BY <1>10, <3>1, <3>2, CursorType
    <2> QED BY <2>1
  <1>11. (\A m \in ToSet(batch) : created[m] <= nextCursor)
            => (\A m \in ToSet(batch) : created'[m] <= nextCursor)
    BY <1>4 DEF SendFrame
  <1>12. AnswerInv'
    BY <1>1, <1>7, <1>9, <1>10, <1>11 DEF AnswerInv
  <1> QED BY <1>2, <1>5, <1>6, <1>12

-----------------------------------------------------------------------------
LEMMA CommittedTimes ==
    ASSUME TypeOK, TimesInv, NEW S \in SUBSET committed
    PROVE  S \subseteq Sends /\ DifferentTimes(S) /\ \A m \in S : created[m] > 0
  <1>1. \A m \in S : m \in Sends /\ created[m] > 0
    BY DEF TypeOK, SendTypeOK, TimesInv
  <1>2. \A m \in S : created[m] # 0
    BY <1>1, CursorType
  <1> QED BY <1>1, <1>2 DEF DifferentTimes, TimesInv

(* Newest is the time of a youngest message.                               *)
LEMMA NewestFacts ==
    ASSUME TypeOK, TimesInv, Serialized, NEW S \in SUBSET committed
    PROVE  /\ Newest(S) \in 0..MaxClock /\ Newest(S) <= clock
           /\ S = {} => Newest(S) = 0
           /\ S # {} => \E m \in S : Newest(S) = created[m]
           /\ \A m \in S : created[m] <= Newest(S)
  <1>1. S \subseteq Sends /\ DifferentTimes(S)
    BY CommittedTimes
  <1>2. \A m \in S : /\ created[m] \in Nat /\ created[m] <= clock
                     /\ created[m] \in 0..MaxClock
    <2> SUFFICES ASSUME NEW m \in S
                 PROVE  /\ created[m] \in Nat /\ created[m] <= clock
                        /\ created[m] \in 0..MaxClock
      OBVIOUS
    <2>1. m \in Sends
      BY <1>1
    <2>2. created[m] <= clock
      BY <2>1 DEF Serialized, StoredInOrder
    <2>3. created[m] \in 0..MaxClock /\ created[m] \in Nat
      BY <2>1, CursorType DEF TypeOK, SendTypeOK
    <2> QED BY <2>2, <2>3
  <1>3. CASE S = {}
    BY <1>3, CursorType DEF Newest
  <1>4. CASE S # {}
    <2>1. PICK q : q = ByTime(S)
      OBVIOUS
    <2>2. q \in Seq(S) /\ Sorted(q) /\ ToSet(q) = S
      BY <1>1, <2>1, ByTimeFacts DEF TypeOK
    <2>3. /\ \A m \in S : \E i \in DOMAIN q : q[i] = m
          /\ \A i \in DOMAIN q : q[i] \in S
          /\ DOMAIN q = 1..Len(q) /\ Len(q) \in Nat
      BY <2>2, InSeq
    <2>4. Len(q) \in DOMAIN q
      BY <1>4, <2>3
    <2>5. \A i \in DOMAIN q : created[q[i]] <= created[q[Len(q)]]
      <3> SUFFICES ASSUME NEW i \in DOMAIN q PROVE created[q[i]] <= created[q[Len(q)]]
        OBVIOUS
      <3>1. i = Len(q) \/ i < Len(q)
        BY <2>3
      <3>2. created[q[i]] \in Nat /\ created[q[Len(q)]] \in Nat
        BY <1>2, <2>3, <2>4
      <3> QED BY <2>2, <2>4, <3>1, <3>2 DEF Sorted
    <2>6. PICK x \in S : \A m \in S : created[m] <= created[x]
      BY <2>3, <2>4, <2>5
    <2> DEFINE T == {created[m] : m \in S}
    <2>7. \A t \in T : t \in Nat
      BY <1>2
    <2>8. created[x] \in T /\ \A t \in T : created[x] >= t
      BY <1>2, <2>6
    <2>9. Max(T) \in T /\ \A t \in T : Max(T) >= t
      BY <2>8 DEF Max
    <2>10. Newest(S) = Max(T)
      BY <1>4 DEF Newest
    <2> QED BY <1>2, <1>4, <2>9, <2>10
  <1> QED BY <1>3, <1>4

LEMMA ReadSubset ==
    ASSUME TypeOK, TimesInv, Serialized, NEW t \in Nat, MarkRead(t)
    PROVE  read' \subseteq committed /\ lastRead' \in 0..MaxClock
  <1>1. {m \in Incoming : created[m] <= t} \in SUBSET committed
    BY DEF Incoming
  <1>2. Newest({m \in Incoming : created[m] <= t}) \in 0..MaxClock
    BY <1>1, NewestFacts
  <1> QED BY <1>1, <1>2 DEF MarkRead, TypeOK

(* The answer to a query is the beginning of what lies behind the cursor.  *)
LEMMA QueryFacts ==
    ASSUME TypeOK, TimesInv, QueryUpdates
    PROVE  /\ batch' \in Seq(Sends)
           /\ ToSet(batch)' \subseteq Behind(sentCursor)
           /\ Sorted(batch')
           /\ batch' # <<>> =>
                 Between(sentCursor, created[Last(batch')]) \subseteq ToSet(batch)'
           /\ batch' = <<>> => Behind(sentCursor) = {}
  <1> DEFINE S == Behind(sentCursor)
  <1>1. S \in SUBSET committed /\ S \in SUBSET Sends /\ DifferentTimes(S)
    BY CommittedTimes DEF Behind
  <1>2. PICK q : q = ByTime(S)
    OBVIOUS
  <1>3. q \in Seq(S) /\ Sorted(q) /\ ToSet(q) = S
    BY <1>1, <1>2, ByTimeFacts DEF TypeOK
  <1>4. /\ DOMAIN q = 1..Len(q) /\ Len(q) \in Nat
        /\ \A i \in DOMAIN q : q[i] \in S /\ q[i] \in Sends
        /\ \A m \in S : \E i \in DOMAIN q : q[i] = m
    BY <1>1, <1>3, InSeq
  <1> HIDE DEF S
  <1>a. PICK k : k = IF Len(q) <= PageSize THEN Len(q) ELSE PageSize
    OBVIOUS
  <1>5. k \in Nat /\ k <= Len(q)
    BY <1>4, <1>a, PageAssumption
  <1>6. batch' = IF Len(q) <= PageSize THEN q ELSE SubSeq(q, 1, PageSize)
    BY <1>2 DEF QueryUpdates, S
  <1>7. /\ batch' \in Seq(Sends) /\ Len(batch') = k /\ DOMAIN batch' = 1..k
        /\ \A i \in 1..k : batch'[i] = q[i] /\ i \in DOMAIN q
    <2>1. q \in Seq(Sends)
      BY <1>1, <1>3
    <2>2. CASE Len(q) <= PageSize
      BY <1>4, <1>5, <1>6, <1>a, <2>1, <2>2
    <2>3. CASE ~(Len(q) <= PageSize)
      <3>1. batch' = SubSeq(q, 1, k)
        BY <1>6, <1>a, <2>3
      <3>2. batch' = [i \in 1..k |-> q[i]]
        BY <1>4, <1>5, <2>1, <3>1
      <3>3. \A i \in 1..k : i \in DOMAIN q /\ q[i] \in Sends
        BY <1>4, <1>5
      <3>4. batch' \in Seq(Sends) /\ Len(batch') = k /\ DOMAIN batch' = 1..k
        BY <1>5, <3>2, <3>3
      <3> QED BY <3>2, <3>3, <3>4
    <2> QED BY <2>2, <2>3
  <1>8. ToSet(batch)' = {q[i] : i \in 1..k}
    BY <1>7 DEF ToSet
  <1>9. ToSet(batch)' \subseteq S
    BY <1>4, <1>7, <1>8
  <1>10. Sorted(batch')
    BY <1>3, <1>7 DEF Sorted
  <1>11. ASSUME batch' # <<>>, NEW m \in Between(sentCursor, created[Last(batch')])
         PROVE  m \in ToSet(batch)'
    <2>1. k >= 1 /\ Last(batch') = q[k] /\ k \in DOMAIN q
      BY <1>7, <1>11, InSeq DEF Last
    <2>2. m \in S
      BY <1>11 DEF Between, Behind, S
    <2>3. PICK i \in DOMAIN q : q[i] = m
      BY <1>4, <2>2
    <2>4. created[q[i]] <= created[q[k]]
      BY <1>11, <2>1, <2>3 DEF Between
    <2>5. created[q[i]] \in Nat /\ created[q[k]] \in Nat
      BY <1>4, <2>1, <2>3, CursorType
    <2>6. ~(k < i)
      BY <1>3, <2>1, <2>3, <2>4, <2>5 DEF Sorted
    <2>7. i \in 1..k
      BY <1>4, <1>5, <2>3, <2>6
    <2> QED BY <1>8, <2>3, <2>7
  <1>12. batch' = <<>> => S = {}
    <2> SUFFICES ASSUME batch' = <<>> PROVE S = {}
      OBVIOUS
    <2>1. k = 0
      BY <1>7
    <2>2. Len(q) = 0
      BY <1>4, <1>5, <1>a, <2>1, PageAssumption
    <2> QED BY <1>4, <2>2
  <1> QED BY <1>7, <1>9, <1>10, <1>11, <1>12 DEF S

-----------------------------------------------------------------------------
LEMMA PageTypeStep ==
    ASSUME PageInv, Serialized', [Next]_vars
    PROVE  TypeOK'
  <1> USE DEF PageInv
  <1>0. SendTypeOK' /\ committed \subseteq committed'
    <2>1. SendTypeOK' /\ [SendNext]_sendVars
      BY PageLeavesSending DEF Serialized
    <2> QED BY <2>1, SendFrameHolds DEF SendFrame
  <1> USE <1>0, PageAssumption DEF TypeOK, PollStages
  <1>1. CASE UNCHANGED pageVars
    BY <1>1 DEF pageVars
  <1>2. ASSUME NEW s \in Sends, PublishEvent(s) PROVE TypeOK'
    BY <1>2 DEF PublishEvent
  <1>3. CASE OpenPage
    <2>1. read' \subseteq committed /\ lastRead' \in 0..MaxClock
      BY <1>3, ReadSubset, CursorType DEF OpenPage
    <2> QED BY <1>3, <2>1 DEF OpenPage
  <1>4. CASE RenderPage
    <2>1. Newest(committed) \in 0..MaxClock
      BY NewestFacts
    <2>2. known' \subseteq Sends
      BY <1>4 DEF RenderPage, SendTypeOK
    <2> QED BY <1>4, <2>1, <2>2 DEF RenderPage
  <1>5. CASE ConnectSocket
    BY <1>5 DEF ConnectSocket
  <1>6. CASE LoseSocket
    BY <1>6 DEF LoseSocket
  <1>7. CASE SocketEvent
    <2>1. Head(events) \in Sends /\ events' \in Seq(Sends)
      BY <1>7 DEF SocketEvent
    <2>2. known' \subseteq Sends /\ pollCursor' \in 0..MaxClock
      BY <1>7, <2>1 DEF SocketEvent, Handle, SendTypeOK
    <2> QED BY <1>7, <2>1, <2>2 DEF SocketEvent
  <1>8. CASE StartPoll
    BY <1>8 DEF StartPoll
  <1>9. CASE QueryUpdates
    <2>1. batch' \in Seq(Sends)
      BY <1>9, QueryFacts
    <2> QED BY <1>9, <2>1 DEF QueryUpdates
  <1>10. CASE MarkAnswer
    <2>1. read' \subseteq committed /\ lastRead' \in 0..MaxClock
      <3>1. ToSet(batch) \intersect Incoming \in SUBSET committed
        BY DEF Incoming
      <3>2. Newest(ToSet(batch) \intersect Incoming) \in Nat
        BY <3>1, NewestFacts, CursorType
      <3>3. CASE MarkRead(Newest(ToSet(batch) \intersect Incoming))
        BY <3>2, <3>3, ReadSubset
      <3>4. CASE UNCHANGED <<read, lastRead>>
        BY <3>4
      <3> QED BY <1>10, <3>3, <3>4 DEF MarkAnswer
    <2> QED BY <1>10, <2>1 DEF MarkAnswer
  <1>11. CASE Answer
    <2>1. nextCursor' \in 0..MaxClock
      <3>1. Newest(committed) \in 0..MaxClock
        BY NewestFacts
      <3>2. batch # <<>> => created[Last(batch)] \in 0..MaxClock
        BY InSeq DEF SendTypeOK
      <3> QED BY <1>11, <3>1, <3>2 DEF Answer
    <2> QED BY <1>11, <2>1 DEF Answer
  <1>12. CASE HandleAnswered
    <2>1. Head(batch) \in Sends /\ batch' \in Seq(Sends)
      BY <1>12 DEF HandleAnswered
    <2>2. known' \subseteq Sends /\ pollCursor' \in 0..MaxClock
      BY <1>12, <2>1 DEF HandleAnswered, Handle, SendTypeOK
    <2> QED BY <1>12, <2>1, <2>2 DEF HandleAnswered
  <1>13. CASE FinishPoll
    <2>1. pollCursor' \in 0..MaxClock
      BY <1>13 DEF FinishPoll
    <2>2. 0 \in 0..MaxClock
      BY SendAssumption
    <2> QED BY <1>13, <2>1, <2>2 DEF FinishPoll
  <1>14. CASE PollFails
    <2>1. 0 \in 0..MaxClock
      BY SendAssumption
    <2> QED BY <1>14, <2>1 DEF PollFails
  <1> QED
    BY <1>1, <1>2, <1>3, <1>4, <1>5, <1>6, <1>7, <1>8, <1>9, <1>10, <1>11, <1>12, <1>13,
       <1>14, SendCases DEF PageStep, PollStep

(* A sequence without its first element.                                   *)
LEMMA TailFacts ==
    ASSUME NEW S, NEW q \in Seq(S), q # <<>>
    PROVE  /\ Tail(q) \in Seq(S) /\ Head(q) \in ToSet(q)
           /\ ToSet(q) \subseteq {Head(q)} \union ToSet(Tail(q))
           /\ ToSet(Tail(q)) \subseteq ToSet(q)
           /\ Head(q) = q[1]
           /\ DOMAIN Tail(q) = 1..(Len(q) - 1) /\ Len(q) \in Nat \ {0}
           /\ \A i \in DOMAIN Tail(q) : Tail(q)[i] = q[i + 1]
           /\ DOMAIN q = 1..Len(q)
  <1>1. /\ Len(q) \in Nat \ {0} /\ DOMAIN q = 1..Len(q) /\ Head(q) = q[1]
        /\ Tail(q) \in Seq(S) /\ Len(Tail(q)) = Len(q) - 1
    OBVIOUS
  <1>2. DOMAIN Tail(q) = 1..(Len(q) - 1)
    BY <1>1
  <1>3. \A i \in DOMAIN Tail(q) : Tail(q)[i] = q[i + 1]
    BY <1>1, <1>2
  <1>4. Head(q) \in ToSet(q)
    BY <1>1 DEF ToSet
  <1>5. ASSUME NEW m \in ToSet(q), m # Head(q) PROVE m \in ToSet(Tail(q))
    <2>1. PICK i \in 1..Len(q) : m = q[i]
      BY <1>1, <1>5 DEF ToSet
    <2>2. i - 1 \in DOMAIN Tail(q) /\ Tail(q)[i - 1] = m
      BY <1>1, <1>2, <1>3, <1>5, <2>1
    <2> QED BY <2>2 DEF ToSet
  <1>6. ASSUME NEW m \in ToSet(Tail(q)) PROVE m \in ToSet(q)
    <2>1. PICK i \in DOMAIN Tail(q) : m = Tail(q)[i]
      BY <1>6 DEF ToSet
    <2>2. i + 1 \in 1..Len(q) /\ m = q[i + 1]
      BY <1>1, <1>2, <1>3, <2>1
    <2> QED BY <1>1, <2>2 DEF ToSet
  <1> QED BY <1>1, <1>2, <1>3, <1>4, <1>5, <1>6

LEMMA SortedTail ==
    ASSUME TypeOK, NEW q \in Seq(Sends), q # <<>>, Sorted(q)
    PROVE  /\ Sorted(Tail(q))
           /\ \A m \in ToSet(Tail(q)) : created[Head(q)] < created[m]
           /\ \A m \in ToSet(q) : created[Head(q)] <= created[m]
  <1>1. /\ DOMAIN Tail(q) = 1..(Len(q) - 1) /\ Len(q) \in Nat \ {0}
        /\ \A i \in DOMAIN Tail(q) : Tail(q)[i] = q[i + 1]
        /\ DOMAIN q = 1..Len(q) /\ Head(q) = q[1] /\ Head(q) \in Sends
    BY TailFacts
  <1>2. \A i \in 1..(Len(q) - 1) : i + 1 \in 1..Len(q) /\ 1 < i + 1
    BY <1>1
  <1>3. Sorted(Tail(q))
    <2> SUFFICES ASSUME NEW i \in DOMAIN Tail(q), NEW j \in DOMAIN Tail(q), i < j
                 PROVE  created[Tail(q)[i]] < created[Tail(q)[j]]
      BY DEF Sorted
    <2>1. i + 1 \in DOMAIN q /\ j + 1 \in DOMAIN q /\ i + 1 < j + 1
      BY <1>1, <1>2
    <2>2. created[q[i + 1]] < created[q[j + 1]]
      BY <2>1 DEF Sorted
    <2> QED BY <1>1, <2>2
  <1>4. ASSUME NEW m \in ToSet(Tail(q)) PROVE created[Head(q)] < created[m]
    <2>1. PICK i \in DOMAIN Tail(q) : m = Tail(q)[i]
      BY <1>4 DEF ToSet
    <2>2. i + 1 \in DOMAIN q /\ 1 \in DOMAIN q /\ 1 < i + 1 /\ m = q[i + 1]
      BY <1>1, <1>2, <2>1
    <2> QED BY <1>1, <2>2 DEF Sorted
  <1>5. ASSUME NEW m \in ToSet(q) PROVE created[Head(q)] <= created[m]
    <2>1. m = Head(q) \/ m \in ToSet(Tail(q))
      BY TailFacts
    <2>2. created[Head(q)] \in Nat /\ created[m] \in Nat
      BY <1>1, InSeq, CursorType
    <2> QED BY <1>4, <2>1, <2>2
  <1> QED BY <1>3, <1>4, <1>5

-----------------------------------------------------------------------------
(* What is handed to the page leaves no pending message behind its cursor. *)
LEMMA PastOut ==
    ASSUME PageInv, NEW m \in Sends, stage[m] \in Out
    PROVE  /\ created[m] <= clock
           /\ \A s \in Sends \ (known \union {m}) :
                 stage[s] \in Pending => created[m] < created[s]
  BY DEF PageInv, Serialized, StoredInOrder, TimesInv, Pending

LEMMA PastNewest ==
    ASSUME PageInv
    PROVE  /\ Newest(committed) <= clock /\ Newest(committed) \in Nat
           /\ \A s \in Sends \ committed :
                 stage[s] \in Pending => Newest(committed) < created[s]
  <1> USE DEF PageInv
  <1>1. /\ Newest(committed) <= clock /\ Newest(committed) \in 0..MaxClock
        /\ committed = {} => Newest(committed) = 0
        /\ committed # {} => \E m \in committed : Newest(committed) = created[m]
    BY NewestFacts
  <1>2. Newest(committed) \in Nat
    BY <1>1, CursorType
  <1>3. ASSUME NEW s \in Sends \ committed, stage[s] \in Pending
        PROVE  Newest(committed) < created[s]
    <2>1. CASE committed = {}
      BY <1>1, <1>3, <2>1 DEF TimesInv
    <2>2. CASE committed # {}
      <3>1. PICK m \in committed : Newest(committed) = created[m]
        BY <1>1, <2>2
      <3>2. m \in Sends /\ m # s
        BY <1>3 DEF TypeOK, SendTypeOK
      <3> QED BY <1>3, <3>1, <3>2 DEF TimesInv
    <2> QED BY <2>1, <2>2
  <1> QED BY <1>1, <1>2, <1>3

(* A step of the page that leaves the page's cursor where it was, and what *)
(* it knows.                                                               *)
LEMMA CursorKept ==
    ASSUME GivenInv, UNCHANGED sendVars, known' = known, events' = events,
           UNCHANGED pollCursor,
           sentCursor' = 0 \/ sentCursor' = pollCursor \/ sentCursor' = sentCursor,
           nextCursor' = 0 \/ nextCursor' = nextCursor, Past(0)
    PROVE  GivenInv'
  <1>1. UNCHANGED <<clock, stage, created, committed>>
    BY DEF sendVars
  <1>2. Past(pollCursor) /\ Past(sentCursor) /\ Past(nextCursor) /\ Past(0)
    BY DEF GivenInv
  <1>3. Past(pollCursor)' /\ Past(sentCursor)' /\ Past(nextCursor)'
    BY <1>1, <1>2 DEF Past
  <1> QED BY <1>1, <1>3 DEF GivenInv, Sorted

LEMMA PageStepKeeps ==
    ASSUME PageInv, TypeOK', PageStep \/ UNCHANGED pageVars, UNCHANGED sendVars
    PROVE  PageInv'
  <1> USE DEF PageInv
  <1>1. UNCHANGED <<clock, stage, created, committed, faults, lock>>
    BY DEF sendVars
  <1>2. Serialized' /\ TimesInv'
    BY <1>1 DEF Serialized, TimesInv, SendTypeOK, LockIsHeld, CommittedIsSent, StoredInOrder
  <1>3. Past(0)
    BY DEF Past, TimesInv, TypeOK, SendTypeOK
  <1>4. \A m \in committed : m \in Sends /\ stage[m] \in Out
    BY DEF TimesInv, TypeOK, SendTypeOK, Out
  <1>5. CASE UNCHANGED pageVars
    BY <1>1, <1>2, <1>5 DEF pageVars, Quiet, GivenInv, Past, BatchInv, AnswerInv,
       Settled, Between, Sorted
  <1>6. ASSUME OpenPage \/ ConnectSocket \/ MarkAnswer PROVE PageInv'
    <2>1. UNCHANGED <<events, known, pollCursor, sentCursor, batch, nextCursor>>
      BY <1>6 DEF OpenPage, ConnectSocket, MarkAnswer
    <2>2. Quiet'
      BY <1>6 DEF Quiet, OpenPage, ConnectSocket, MarkAnswer
    <2>3. GivenInv' /\ BatchInv'
      BY <1>1, <1>3, <2>1, CursorKept DEF BatchInv, Sorted
    <2>4. AnswerInv'
      <3>1. Settled => Settled'
        BY <1>1, <2>1 DEF Settled
      <3>2. \/ poll' = poll
            \/ poll = "queried" /\ poll' = "marked"
        BY <1>6 DEF OpenPage, ConnectSocket, MarkAnswer
      <3> QED BY <1>1, <2>1, <3>1, <3>2 DEF AnswerInv, Between
    <2> QED BY <1>2, <2>2, <2>3, <2>4
  <1>7. CASE RenderPage
    <2>1. known = {} /\ poll = "idle" /\ batch = <<>>
      BY <1>7 DEF RenderPage, Quiet
    <2>2. /\ known' = committed /\ pollCursor' = Newest(committed)
          /\ UNCHANGED <<events, poll, sentCursor, batch, nextCursor, socket>>
          /\ page' = "open"
      BY <1>7 DEF RenderPage
    <2>3. Past(pollCursor)'
      BY <1>1, <2>2, PastNewest DEF Past
    <2>4. Past(sentCursor)' /\ Past(nextCursor)'
      BY <1>1, <2>1, <2>2 DEF GivenInv, Past
    <2>5. GivenInv'
      BY <1>1, <1>4, <2>2, <2>3, <2>4 DEF GivenInv, Sorted
    <2>6. Quiet' /\ BatchInv' /\ AnswerInv'
      BY <1>1, <2>1, <2>2 DEF Quiet, BatchInv, AnswerInv, Sorted
    <2> QED BY <1>2, <2>5, <2>6
  <1>8. CASE LoseSocket
    <2>1. /\ UNCHANGED <<page, known, pollCursor, poll, sentCursor, batch, nextCursor>>
          /\ events' = <<>> /\ socket' = "closed" /\ socket = "open"
      BY <1>8 DEF LoseSocket
    <2>2. Past(pollCursor)' /\ Past(sentCursor)' /\ Past(nextCursor)'
      BY <1>1, <2>1 DEF GivenInv, Past
    <2>3. ToSet(events)' = {}
      BY <2>1 DEF ToSet
    <2>4. GivenInv'
      BY <1>1, <2>1, <2>2, <2>3 DEF GivenInv, Sorted
    <2>5. Quiet' /\ BatchInv'
      BY <1>1, <2>1 DEF Quiet, BatchInv, Sorted
    <2>6. Settled => Settled'
      BY <1>1, <2>1, <2>3 DEF Settled
    <2>7. AnswerInv'
      BY <1>1, <2>1, <2>6 DEF AnswerInv, Between
    <2> QED BY <1>2, <2>4, <2>5, <2>7
  <1>9. CASE SocketEvent
    <2>1. PICK h : h = Head(events)
      OBVIOUS
    <2>2. /\ UNCHANGED <<page, socket, poll, sentCursor, batch, nextCursor>>
          /\ socket = "open" /\ events # <<>> /\ events' = Tail(events)
          /\ known' = known \union {h}
          /\ pollCursor' = IF h \in known THEN pollCursor ELSE created[h]
      BY <1>9, <2>1 DEF SocketEvent, Handle
    <2>3. /\ h \in ToSet(events) /\ h \in Sends /\ ToSet(events)' \subseteq ToSet(events)
          /\ \A e \in ToSet(events)' : created[h] < created[e]
          /\ Sorted(events') /\ ToSet(events) \subseteq {h} \union ToSet(events)'
      <3>1. events \in Seq(Sends) /\ Sorted(events)
        BY DEF TypeOK, GivenInv
      <3>2. /\ h \in ToSet(events) /\ ToSet(events') \subseteq ToSet(events)
            /\ ToSet(events) \subseteq {h} \union ToSet(events')
        BY <2>1, <2>2, <3>1, TailFacts
      <3>3. Sorted(events') /\ \A e \in ToSet(events') : created[h] < created[e]
        BY <2>1, <2>2, <3>1, SortedTail
      <3>4. h \in Sends
        BY <3>1, <3>2, InSeq
      <3> QED BY <3>2, <3>3, <3>4
    <2>4. stage[h] \in Out
      BY <2>3 DEF GivenInv
    <2>5. \A c \in {pollCursor, sentCursor, nextCursor, created[h]} :
            c <= clock /\ \A s \in Sends \ known' : stage[s] \in Pending => c < created[s]
      <3>1. Past(pollCursor) /\ Past(sentCursor) /\ Past(nextCursor)
        BY DEF GivenInv
      <3>2. /\ created[h] <= clock
            /\ \A s \in Sends \ known' : stage[s] \in Pending => created[h] < created[s]
        BY <2>2, <2>3, <2>4, PastOut
      <3> QED BY <2>2, <3>1, <3>2 DEF Past
    <2>6. GivenInv'
      <3>1. Past(pollCursor)' /\ Past(sentCursor)' /\ Past(nextCursor)'
        BY <1>1, <2>2, <2>5 DEF Past
      <3>2. Sorted(events)'
        BY <1>1, <2>3 DEF Sorted
      <3>3. \A m \in known' \union ToSet(events)' : stage'[m] \in Out
        BY <1>1, <2>2, <2>3, <2>4 DEF GivenInv
      <3> QED BY <3>1, <3>2, <3>3 DEF GivenInv
    <2>7. Quiet' /\ BatchInv'
      BY <1>1, <2>2 DEF Quiet, BatchInv, Sorted
    <2>8. Settled => Settled'
      <3> SUFFICES ASSUME Settled, NEW n \in known', NEW m \in committed \ known',
                          sentCursor < created[m], created[m] < created[n]
                   PROVE  /\ created[n] <= pollCursor'
                          /\ \A e \in ToSet(events)' : created[n] < created[e]
        BY <1>1, <2>2 DEF Settled
      <3>1. m \in committed \ known
        BY <2>2
      <3>2. CASE n = h
        BY <2>2, <2>3, <3>1, <3>2, CursorType DEF Settled
      <3>3. CASE n # h
        <4>1. n \in known
          BY <2>2, <3>3
        <4>2. created[n] <= pollCursor /\ created[n] < created[h]
              /\ \A e \in ToSet(events)' : created[n] < created[e]
          BY <2>3, <3>1, <4>1 DEF Settled
        <4>3. created[n] \in Nat /\ created[h] \in Nat
          BY <2>3, <4>1, CursorType DEF TypeOK
        <4>4. created[n] <= pollCursor'
          BY <2>2, <4>2, <4>3
        <4> QED BY <4>2, <4>4
      <3> QED BY <3>2, <3>3
    <2>9. AnswerInv'
      BY <1>1, <2>2, <2>8 DEF AnswerInv, Between
    <2> QED BY <1>2, <2>6, <2>7, <2>9
  <1>10. CASE StartPoll
    <2>1. /\ UNCHANGED <<page, socket, events, known, pollCursor, batch, nextCursor>>
          /\ poll = "idle" /\ poll' = "asked" /\ sentCursor' = pollCursor /\ page = "open"
      BY <1>10 DEF StartPoll
    <2>2. batch = <<>>
      BY <2>1 DEF Quiet
    <2>3. GivenInv'
      BY <1>1, <1>3, <2>1, CursorKept
    <2>4. Quiet' /\ BatchInv' /\ AnswerInv'
      BY <1>1, <2>1, <2>2 DEF Quiet, BatchInv, AnswerInv, Sorted, ToSet
    <2> QED BY <1>2, <2>3, <2>4
  <1>11. CASE QueryUpdates
    <2>1. /\ UNCHANGED <<page, socket, events, known, pollCursor, sentCursor, nextCursor>>
          /\ poll = "asked" /\ poll' = "queried"
      BY <1>11 DEF QueryUpdates
    <2>2. /\ ToSet(batch') \subseteq Behind(sentCursor) /\ Sorted(batch')
          /\ batch' # <<>> =>
                Between(sentCursor, created[Last(batch')]) \subseteq ToSet(batch')
          /\ batch' = <<>> => Behind(sentCursor) = {}
      BY <1>11, QueryFacts
    <2>3. GivenInv'
      BY <1>1, <1>3, <2>1, CursorKept
    <2>4. BatchInv'
      BY <1>1, <2>1, <2>2 DEF BatchInv, Sorted, Behind
    <2>5. batch' = <<>> => Settled'
      BY <1>1, <2>1, <2>2 DEF Settled, Behind
    <2>6. AnswerInv'
      BY <1>1, <2>1, <2>2, <2>5 DEF AnswerInv, Between
    <2>7. Quiet'
      BY <2>1 DEF Quiet
    <2> QED BY <1>2, <2>3, <2>4, <2>6, <2>7
  <1>12. CASE Answer
    <2>1. /\ UNCHANGED <<page, socket, events, known, pollCursor, sentCursor, batch>>
          /\ poll = "marked" /\ poll' = "answered"
          /\ nextCursor' = IF batch # <<>> THEN created[Last(batch)] ELSE Newest(committed)
      BY <1>12 DEF Answer
    <2>2. batch # <<>> => Last(batch) \in ToSet(batch) /\ Last(batch) \in Sends
                          /\ Last(batch) \in committed
      BY InSeq DEF TypeOK, BatchInv
    <2>3. /\ nextCursor' <= clock
          /\ \A s \in Sends \ known : stage[s] \in Pending => nextCursor' < created[s]
      <3>1. CASE batch = <<>>
        <4>1. \A s \in Sends : stage[s] \in Pending => s \notin committed
          BY DEF TimesInv, Pending
        <4> QED BY <2>1, <3>1, <4>1, PastNewest
      <3>2. ASSUME batch # <<>>, NEW l, l = Last(batch)
            PROVE  /\ created[l] <= clock
                   /\ \A s \in Sends \ known : stage[s] \in Pending => created[l] < created[s]
        <4>1. l \in Sends /\ stage[l] = "sent"
          BY <2>2, <3>2 DEF TimesInv
        <4>2. \A s \in Sends : stage[s] \in Pending => s # l
          BY <4>1 DEF Pending
        <4> QED BY <4>1, <4>2, PastOut DEF Out
      <3> QED BY <2>1, <3>1, <3>2
    <2>4. GivenInv'
      <3>1. Past(pollCursor)' /\ Past(sentCursor)' /\ Past(nextCursor)'
        BY <1>1, <2>1, <2>3 DEF Past, GivenInv
      <3> QED BY <1>1, <2>1, <3>1 DEF GivenInv, Sorted
    <2>5. Quiet' /\ BatchInv'
      BY <1>1, <2>1 DEF Quiet, BatchInv, Sorted
    <2>6. batch # <<>> => \A m \in ToSet(batch) : created[m] <= created[Last(batch)]
      <3> SUFFICES ASSUME batch # <<>>, NEW m \in ToSet(batch)
                   PROVE  created[m] <= created[Last(batch)]
        OBVIOUS
      <3>1. /\ Last(batch) = batch[Len(batch)] /\ Len(batch) \in DOMAIN batch
            /\ DOMAIN batch = 1..Len(batch) /\ Len(batch) \in Nat
        BY InSeq DEF TypeOK
      <3>2. PICK i \in DOMAIN batch : batch[i] = m
        BY InSeq DEF TypeOK
      <3>3. i = Len(batch) \/ i < Len(batch)
        BY <3>1
      <3>4. created[batch[i]] \in Nat /\ created[batch[Len(batch)]] \in Nat
        BY <3>1, InSeq, CursorType DEF TypeOK
      <3> QED BY <3>1, <3>2, <3>3, <3>4 DEF BatchInv, Sorted
    <2>7. Settled => Settled'
      BY <1>1, <2>1 DEF Settled
    <2>8. AnswerInv'
      <3>1. CASE batch # <<>>
        <4>1. Between(sentCursor, nextCursor') \subseteq ToSet(batch)
          BY <2>1, <3>1 DEF AnswerInv
        <4>2. \A m \in ToSet(batch) : created[m] <= nextCursor'
          BY <2>1, <2>6, <3>1
        <4> QED BY <1>1, <2>1, <4>1, <4>2 DEF AnswerInv, Between
      <3>2. CASE batch = <<>>
        BY <2>1, <2>7, <3>2 DEF AnswerInv
      <3> QED BY <3>1, <3>2
    <2> QED BY <1>2, <2>4, <2>5, <2>8
  <1>13. CASE HandleAnswered
    <2>1. PICK h : h = Head(batch)
      OBVIOUS
    <2>2. /\ UNCHANGED <<page, socket, events, poll, sentCursor, nextCursor>>
          /\ poll = "answered" /\ batch # <<>> /\ batch' = Tail(batch)
          /\ known' = known \union {h}
          /\ pollCursor' = IF h \in known THEN pollCursor ELSE created[h]
      BY <1>13, <2>1 DEF HandleAnswered, Handle
    <2>3. /\ h \in ToSet(batch) /\ h \in Sends /\ ToSet(batch') \subseteq ToSet(batch)
          /\ Sorted(batch') /\ ToSet(batch) \subseteq {h} \union ToSet(batch')
      <3>1. batch \in Seq(Sends) /\ Sorted(batch)
        BY DEF TypeOK, BatchInv
      <3>2. /\ h \in ToSet(batch) /\ ToSet(batch') \subseteq ToSet(batch)
            /\ ToSet(batch) \subseteq {h} \union ToSet(batch')
        BY <2>1, <2>2, <3>1, TailFacts
      <3>3. Sorted(batch')
        BY <2>1, <2>2, <3>1, SortedTail
      <3>4. h \in Sends
        BY <3>1, <3>2, InSeq
      <3> QED BY <3>2, <3>3, <3>4
    <2>4. h \in committed /\ stage[h] \in Out
      BY <1>4, <2>3 DEF BatchInv
    <2>5. \A c \in {pollCursor, sentCursor, nextCursor, created[h]} :
            c <= clock /\ \A s \in Sends \ known' : stage[s] \in Pending => c < created[s]
      <3>1. Past(pollCursor) /\ Past(sentCursor) /\ Past(nextCursor)
        BY DEF GivenInv
      <3>2. /\ created[h] <= clock
            /\ \A s \in Sends \ known' : stage[s] \in Pending => created[h] < created[s]
        BY <2>2, <2>3, <2>4, PastOut
      <3> QED BY <2>2, <3>1, <3>2 DEF Past
    <2>6. GivenInv'
      <3>1. Past(pollCursor)' /\ Past(sentCursor)' /\ Past(nextCursor)'
        BY <1>1, <2>2, <2>5 DEF Past
      <3> QED BY <1>1, <2>2, <2>4, <3>1 DEF GivenInv, Sorted
    <2>7. Quiet' /\ BatchInv'
      <3>1. Quiet'
        BY <2>2 DEF Quiet
      <3>2. BatchInv'
        BY <1>1, <2>2, <2>3 DEF BatchInv, Sorted
      <3> QED BY <3>1, <3>2
    <2>8. AnswerInv'
      <3>1. /\ \A m \in ToSet(batch) : created[m] <= nextCursor
            /\ Between(sentCursor, nextCursor) \subseteq known \union ToSet(batch)
        BY <2>2 DEF AnswerInv
      <3>2. /\ \A m \in ToSet(batch') : created[m] <= nextCursor
            /\ Between(sentCursor, nextCursor) \subseteq known' \union ToSet(batch')
        BY <2>2, <2>3, <3>1
      <3> QED BY <1>1, <2>2, <3>2 DEF AnswerInv, Between
    <2> QED BY <1>2, <2>6, <2>7, <2>8
  <1>14. CASE FinishPoll
    <2>1. /\ UNCHANGED <<page, socket, events, known, batch>>
          /\ batch = <<>> /\ poll' = "idle" /\ sentCursor' = 0 /\ nextCursor' = 0
          /\ pollCursor' = pollCursor \/ pollCursor' = nextCursor
          /\ poll = "answered"
      BY <1>14 DEF FinishPoll
    <2>2. Past(pollCursor)' /\ Past(sentCursor)' /\ Past(nextCursor)'
      BY <1>1, <1>3, <2>1 DEF GivenInv, Past
    <2>3. GivenInv'
      BY <1>1, <2>1, <2>2 DEF GivenInv, Sorted
    <2>4. Quiet' /\ BatchInv' /\ AnswerInv'
      BY <1>1, <2>1 DEF Quiet, BatchInv, AnswerInv, Sorted, ToSet
    <2> QED BY <1>2, <2>3, <2>4
  <1>15. CASE PollFails
    <2>1. /\ UNCHANGED <<page, socket, events, known, pollCursor, nextCursor>>
          /\ batch' = <<>> /\ poll' = "idle" /\ sentCursor' = 0
      BY <1>15 DEF PollFails
    <2>2. GivenInv'
      BY <1>1, <1>3, <2>1, CursorKept
    <2>3. Quiet' /\ BatchInv' /\ AnswerInv'
      BY <1>1, <2>1 DEF Quiet, BatchInv, AnswerInv, Sorted, ToSet
    <2> QED BY <1>2, <2>2, <2>3
  <1> QED BY <1>5, <1>6, <1>7, <1>8, <1>9, <1>10, <1>11, <1>12, <1>13, <1>14, <1>15
          DEF PageStep, PollStep

-----------------------------------------------------------------------------
LEMMA PageStart == PageInit => PageInv
  <1> SUFFICES ASSUME PageInit PROVE PageInv
    OBVIOUS
  <1> USE DEF PageInit
  <1>1. Serialized /\ TimesInv
    BY SerializedInit, TimesInit
  <1>2. TypeOK
    BY <1>1, SendAssumption, PageAssumption DEF TypeOK, PollStages, Serialized
  <1>3. stage = [s \in Sends |-> "new"] /\ clock = 0
    BY DEF Init
  <1>4. Past(0)
    BY <1>3 DEF Past, Pending
  <1>5. Quiet /\ GivenInv /\ BatchInv /\ AnswerInv
    BY <1>4 DEF Quiet, GivenInv, BatchInv, AnswerInv, Sorted, ToSet
  <1> QED BY <1>1, <1>2, <1>5 DEF PageInv

LEMMA PageInvStep == PageInv /\ [Next]_vars => PageInv'
  <1> SUFFICES ASSUME PageInv, [Next]_vars PROVE PageInv'
    OBVIOUS
  <1>1. [SendNext]_sendVars
    BY PageLeavesSending
  <1>2. Serialized' /\ TimesInv' /\ SendFrame
    BY <1>1, SerializedStep, TimesStep, SendFrameHolds DEF PageInv
  <1>3. TypeOK'
    BY <1>2, PageTypeStep
  <1>4. ASSUME UNCHANGED pageVars PROVE PageInv'
    BY <1>2, <1>3, <1>4, SendKeeps DEF pageVars, EventsGrow
  <1>5. ASSUME NEW s \in Sends, PublishEvent(s) PROVE PageInv'
    <2>1. /\ stage[s] = "stored" /\ stage'[s] = "published" /\ created' = created
          /\ UNCHANGED <<page, socket, known, pollCursor, poll, sentCursor, batch, nextCursor>>
      BY <1>5 DEF PublishEvent, Publish, Goto, PageInv, TypeOK, SendTypeOK
    <2>2. EventsGrow
      BY <1>5, <2>1 DEF PublishEvent, EventsGrow
    <2> QED BY <1>2, <1>3, <2>1, <2>2, SendKeeps
  <1>6. ASSUME UNCHANGED sendVars, PageStep \/ UNCHANGED pageVars PROVE PageInv'
    BY <1>3, <1>6, PageStepKeeps
  <1> QED BY <1>4, <1>5, <1>6, SendCases

(* The page, its answers and its cursors keep to their types; only         *)
(* committed messages are marked as read.                                  *)
THEOREM PageTypeCorrect == Spec => []TypeOK
  <1>1. PageInv => TypeOK
    BY DEF PageInv
  <1> QED BY <1>1, PageStart, PageInvStep, PTL DEF Spec

(* What the page relies on: its cursors are in the past of everything that *)
(* is still to be committed and not shown, an answer is an unbroken        *)
(* stretch behind the cursor it was asked for, and handling it closes the  *)
(* stretch.                                                                *)
THEOREM PageInvariant == Spec => []PageInv
  BY PageStart, PageInvStep, PTL DEF Spec

(* What the page shows was sent: the event goes out before the commit, so  *)
(* only a transaction that died leaves a message nobody else can read.     *)
THEOREM PageShowsWhatWasSent == Spec => []NoPhantom
  <1>1. ASSUME PageInv PROVE NoPhantom
    <2> SUFFICES ASSUME faults = 0, NEW m \in known
                 PROVE  m \in committed \/ stage[m] = "published"
      BY DEF NoPhantom
    <2>1. m \in Sends /\ stage[m] \in Out
      BY <1>1 DEF PageInv, TypeOK, GivenInv
    <2>2. stage[m] # "aborted"
      BY <1>1, <2>1 DEF PageInv, TimesInv, TypeOK, SendTypeOK
    <2> QED BY <1>1, <2>1, <2>2 DEF PageInv, TimesInv, Out
  <1> QED BY <1>1, PageInvariant, PTL

-----------------------------------------------------------------------------
LEMMA ReadStep ==
    ASSUME PageInv, [Next]_vars, page = "open", NEW m \in read' \ read
    PROVE  m \in ToSet(batch) \/ created[m] <= sentCursor
  <1> USE DEF PageInv
  <1>1. MarkAnswer
    BY SendCases DEF PageStep, PollStep, OpenPage, RenderPage, ConnectSocket,
       LoseSocket, SocketEvent, StartPoll, QueryUpdates, MarkAnswer, Answer,
       HandleAnswered, FinishPoll, PollFails, PublishEvent, pageVars
  <1> DEFINE incoming == ToSet(batch) \intersect Incoming
  <1>2. /\ poll = "queried" /\ incoming # {}
        /\ m \in Incoming /\ created[m] <= Newest(incoming)
    BY <1>1 DEF MarkAnswer, MarkRead
  <1>3. incoming \in SUBSET committed
    BY DEF Incoming
  <1> HIDE DEF incoming
  <1>4. PICK b \in incoming : Newest(incoming) = created[b]
    BY <1>2, <1>3, NewestFacts
  <1>5. b \in ToSet(batch) /\ b \in Sends /\ m \in committed /\ m \in Sends
    BY <1>2, <1>3 DEF incoming, Incoming, TypeOK, SendTypeOK
  <1>6. batch # <<>> /\ Last(batch) \in Sends /\ created[b] <= created[Last(batch)]
    <2>1. batch # <<>>
      BY <1>5 DEF ToSet
    <2>2. /\ Last(batch) = batch[Len(batch)] /\ Len(batch) \in DOMAIN batch
          /\ DOMAIN batch = 1..Len(batch) /\ Len(batch) \in Nat
          /\ batch[Len(batch)] \in Sends
      BY <2>1, InSeq DEF TypeOK
    <2>3. PICK i \in DOMAIN batch : batch[i] = b
      BY <1>5, InSeq DEF TypeOK
    <2>4. i = Len(batch) \/ i < Len(batch)
      BY <2>2
    <2>5. created[b] \in Nat /\ created[batch[Len(batch)]] \in Nat
      BY <1>5, <2>2, CursorType
    <2> QED BY <2>1, <2>2, <2>3, <2>4, <2>5 DEF BatchInv, Sorted
  <1>7. ASSUME ~(created[m] <= sentCursor) PROVE m \in ToSet(batch)
    <2>1. /\ created[m] \in Nat /\ created[b] \in Nat /\ created[Last(batch)] \in Nat
          /\ sentCursor \in Nat
      BY <1>5, <1>6, CursorType
    <2>2. sentCursor < created[m] /\ created[m] <= created[Last(batch)]
      BY <1>2, <1>4, <1>6, <1>7, <2>1
    <2>3. m \in Between(sentCursor, created[Last(batch)])
      BY <1>5, <2>2 DEF Between
    <2> QED BY <1>2, <1>6, <2>3 DEF AnswerInv
  <1> QED BY <1>7

(* The read marker goes no further than the answer it belongs to: a        *)
(* message that arrives while the answer is on its way stays unread.       *)
THEOREM AnswersReadWhatTheyHold == Spec => ReadWasGiven
  <1>1. PageInv /\ [Next]_vars =>
          [page = "open" =>
             \A m \in read' \ read : m \in ToSet(batch) \/ created[m] <= sentCursor]_vars
    BY ReadStep
  <1> QED BY <1>1, PageStart, PageInvStep, PTL DEF Spec, ReadWasGiven

-----------------------------------------------------------------------------
LEMMA GapStep ==
    ASSUME PageInv, [Next]_vars, NEW m \in Skipped' \ Skipped
    PROVE  \/ SocketEvent
           \/ created[m] <= sentCursor
           \/ (FinishPoll /\ m \notin known /\ created[m] <= nextCursor
                /\ \A n \in known : created[n] # nextCursor)
  <1> USE DEF PageInv
  <1>1. page' = "open" /\ m \in committed' \ known' /\ created'[m] <= pollCursor'
    BY DEF Skipped
  <1>2. /\ pollCursor \in Nat /\ sentCursor \in Nat /\ nextCursor \in Nat
        /\ \A n \in Sends : created[n] \in Nat
    BY CursorType
  <1>3. CASE UNCHANGED <<page, known, pollCursor>>
    <2>1. m \notin committed
      <3>1. m \in committed => m \in Sends /\ stage[m] = "sent"
        BY DEF TypeOK, SendTypeOK, TimesInv
      <3>2. [SendNext]_sendVars
        BY PageLeavesSending
      <3>3. m \in committed => created'[m] = created[m]
        BY <3>1, <3>2, SendFrameHolds DEF SendFrame, Out
      <3> QED BY <1>1, <1>3, <3>3 DEF Skipped
    <2>2. m \in Sends /\ stage[m] = "published" /\ created'[m] = created[m]
      BY <1>1, <2>1, PageLeavesSending, SendFrameHolds DEF SendFrame, Out
    <2>3. pollCursor < created[m]
      BY <1>1, <1>3, <2>2 DEF GivenInv, Past, Pending
    <2> QED BY <1>1, <1>2, <1>3, <2>2, <2>3
  <1>4. CASE SocketEvent
    BY <1>4
  <1>5. CASE RenderPage
    BY <1>1, <1>5 DEF RenderPage, sendVars
  <1>6. ASSUME UNCHANGED sendVars, page = "open"
        PROVE  /\ m \in committed /\ m \in Sends /\ m \notin known'
               /\ created[m] <= pollCursor' /\ created' = created
    BY <1>1, <1>6 DEF sendVars, TypeOK, SendTypeOK
  <1>7. ASSUME HandleAnswered, sentCursor < created[m] PROVE FALSE
    <2>1. /\ page = "open" /\ UNCHANGED sendVars /\ poll = "answered" /\ batch # <<>>
          /\ known' = known \union {Head(batch)}
          /\ pollCursor' \in {pollCursor, created[Head(batch)]}
      BY <1>1, <1>7 DEF HandleAnswered, Handle
    <2>2. m \notin known /\ m # Head(batch) /\ ~(created[m] <= pollCursor)
      BY <1>1, <1>6, <2>1 DEF Skipped
    <2>3. created[m] <= created[Head(batch)]
      BY <1>6, <2>1, <2>2
    <2>4. batch \in Seq(Sends) /\ Head(batch) \in ToSet(batch) /\ Head(batch) \in Sends
      BY <2>1, TailFacts DEF TypeOK
    <2>5. created[Head(batch)] <= nextCursor
      BY <2>1, <2>4 DEF AnswerInv
    <2>6. m \in Between(sentCursor, nextCursor)
      BY <1>2, <1>6, <1>7, <2>1, <2>3, <2>4, <2>5 DEF Between
    <2>7. m \in ToSet(batch)
      BY <2>1, <2>2, <2>6 DEF AnswerInv
    <2>8. m \in ToSet(Tail(batch))
      BY <2>1, <2>2, <2>4, <2>7, TailFacts
    <2>9. created[Head(batch)] < created[m]
      BY <2>1, <2>4, <2>8, SortedTail DEF BatchInv
    <2> QED BY <1>2, <1>6, <2>1, <2>3, <2>4, <2>9
  <1>8. ASSUME FinishPoll, sentCursor < created[m]
        PROVE  /\ m \notin known /\ created[m] <= nextCursor
               /\ \A n \in known : created[n] # nextCursor
    <2>1. /\ page = "open" /\ UNCHANGED sendVars /\ poll = "answered" /\ batch = <<>>
          /\ known' = known /\ pollCursor' \in {pollCursor, nextCursor}
      BY <1>1, <1>8 DEF FinishPoll
    <2>2. m \notin known /\ ~(created[m] <= pollCursor)
      BY <1>1, <1>6, <2>1 DEF Skipped
    <2>3. created[m] <= nextCursor
      BY <1>6, <2>1, <2>2
    <2>4. m \in Between(sentCursor, nextCursor)
      BY <1>6, <1>8, <2>1, <2>3 DEF Between
    <2>5. Settled
      <3>1. ToSet(batch) = {}
        BY <2>1 DEF ToSet
      <3> QED BY <2>1, <2>2, <2>4, <3>1 DEF AnswerInv
    <2>6. ASSUME NEW n \in known, created[n] = nextCursor PROVE FALSE
      <3>1. n \in Sends /\ n # m
        BY <2>2, <2>6 DEF TypeOK
      <3>2. created[m] # 0
        BY <1>2, <1>6, <1>8, <2>1
      <3>3. created[m] # created[n]
        BY <1>6, <2>1, <3>1, <3>2 DEF TimesInv
      <3>4. created[m] < created[n]
        BY <1>2, <1>6, <2>1, <2>3, <2>6, <3>1, <3>3
      <3>5. created[n] <= pollCursor
        BY <1>6, <1>8, <2>1, <2>2, <2>5, <3>4 DEF Settled
      <3> QED BY <1>2, <1>6, <2>1, <2>2, <3>1, <3>4, <3>5
    <2> QED BY <2>2, <2>3, <2>6
  <1>9. \/ UNCHANGED <<page, known, pollCursor>>
        \/ OpenPage
        \/ RenderPage \/ SocketEvent
        \/ (HandleAnswered \/ FinishPoll) /\ page = "open"
    <2>1. page' = page /\ ~RenderPage => page = "open"
      BY <1>1
    <2> QED BY <2>1, SendCases DEF PageStep, PollStep, ConnectSocket,
       LoseSocket, StartPoll, QueryUpdates, MarkAnswer, Answer,
       HandleAnswered, FinishPoll, PollFails, PublishEvent, pageVars
  <1>10. ~OpenPage
    BY <1>1 DEF OpenPage
  <1>11. created[m] <= sentCursor \/ sentCursor < created[m] \/ m \notin Sends
    BY <1>2
  <1>12. ASSUME UNCHANGED sendVars PROVE m \in Sends
    BY <1>1, <1>12 DEF sendVars, TypeOK, SendTypeOK
  <1>13. HandleAnswered \/ FinishPoll => UNCHANGED sendVars
    BY DEF HandleAnswered, FinishPoll
  <1> QED BY <1>3, <1>4, <1>5, <1>7, <1>8, <1>9, <1>10, <1>11, <1>12, <1>13

(* The only two ways in which a page passes over a message it does not     *)
(* show.                                                                   *)
THEOREM GapsAreKnown == Spec => OnlyKnownGaps
  <1>1. PageInv /\ [Next]_vars =>
          [\A m \in Skipped' \ Skipped :
             \/ SocketEvent
             \/ created[m] <= sentCursor
             \/ (FinishPoll /\ m \notin known /\ created[m] <= nextCursor
                  /\ \A n \in known : created[n] # nextCursor)]_vars
    BY GapStep
  <1> QED BY <1>1, PageStart, PageInvStep, PTL DEF Spec, OnlyKnownGaps
=============================================================================
