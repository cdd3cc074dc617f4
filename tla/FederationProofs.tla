-------------------------- MODULE FederationProofs --------------------------
(***************************************************************************)
(* Theorems about FederationDelivery, for every set of workers, every      *)
(* retry limit and any number of faults, and about what an instance sends, *)
(* for any number of activities, processes and deaths.                     *)
(***************************************************************************)
EXTENDS Federation, FiniteSetTheorems, TLAPS

LEMMA NextCases ==
    ASSUME [Next]_vars
    PROVE  \/ CreateDelivery \/ RequestDelivery \/ RequestLost \/ Redeliver
           \/ \E w \in Workers : Receive(w)
           \/ \E w \in Workers : CreateExecution(w)
           \/ \E w \in Workers : FetchExecution(w)
           \/ \E w \in Workers : ResumeExecution(w)
           \/ \E w \in Workers : LoadDelivery(w)
           \/ \E w \in Workers : Post(w)
           \/ \E w \in Workers : SaveDelivery(w)
           \/ \E w \in Workers : MarkSucceeded(w)
           \/ \E w \in Workers : UpdateState(w)
           \/ \E w \in Workers : MarkFailed(w)
           \/ \E w \in Workers : RecordFailure(w)
           \/ \E w \in Workers : Retry(w)
           \/ \E w \in Workers : BrokerError(w)
           \/ \E w \in Workers : DatabaseError(w)
           \/ \E w \in Workers : Crash(w)
           \/ UNCHANGED vars
  BY DEF Next, Body

LEMMA RetryNumbers == 0 \in Retries /\ SlowRetries \subseteq Retries
  BY LimitAssumption DEF Retries

(* A fault is counted within its bound.                                    *)
LEMMA FaultType == faults \in 0..MaxFaults /\ Fault => faults' \in 0..MaxFaults
  BY LimitAssumption DEF Fault

(* The three ways in which a worker moves keep the labels and the paths.   *)
WorkerTypeOK ==
    /\ pc \in [Workers -> Labels]
    /\ path \in [Workers -> Paths]
    /\ \A w \in Workers :
        pc[w] \in {"state", "exec", "row", "retry"} <=> path[w] # "none"

LEMMA WorkerType ==
    ASSUME WorkerTypeOK, NEW w \in Workers,
           \/ Finish(w)
           \/ \E how \in {"permanent", "response", "exception"} : Record(w, how)
           \/ \E label \in Labels :
                /\ Goto(w, label)
                /\ label \in {"state", "exec", "row", "retry"} <=> path[w] # "none"
           \/ UNCHANGED <<pc, path>>
    PROVE  WorkerTypeOK'
  <1>1. CASE Finish(w)
    BY <1>1 DEF WorkerTypeOK, Finish, Labels, Paths
  <1>2. ASSUME NEW how \in {"permanent", "response", "exception"}, Record(w, how)
        PROVE  WorkerTypeOK'
    BY <1>2 DEF WorkerTypeOK, Record, Labels, Paths
  <1>3. ASSUME NEW label \in Labels, Goto(w, label),
               label \in {"state", "exec", "row", "retry"} <=> path[w] # "none"
        PROVE  WorkerTypeOK'
    BY <1>3 DEF WorkerTypeOK, Goto
  <1>4. CASE UNCHANGED <<pc, path>>
    BY <1>4 DEF WorkerTypeOK
  <1> QED BY <1>1, <1>2, <1>3, <1>4

(* The rest of TypeOK.                                                     *)
DataTypeOK ==
    /\ delivery \in {"absent", "pending", "retrying", "success", "failed"}
    /\ execution \in {"absent", "started", "succeeded", "failed"}
    /\ rows \subseteq [retries: Retries, terminal: BOOLEAN]
    /\ queue \in [Retries -> Nat]
    /\ published \in [Retries -> Nat]
    /\ retries \in [Workers -> Retries]
    /\ accepted \in Nat
    /\ requested \in BOOLEAN
    /\ faults \in 0..MaxFaults

LEMMA TypeParts == TypeOK <=> WorkerTypeOK /\ DataTypeOK
  BY DEF TypeOK, WorkerTypeOK, DataTypeOK

(* A failure row, whatever its terminal flag, is one.                      *)
LEMMA FailureRowType ==
    ASSUME NEW r \in Retries, NEW t
    PROVE  [retries |-> r, terminal |-> (t = TRUE)] \in [retries: Retries, terminal: BOOLEAN]
  OBVIOUS

(* Counting one more message keeps the type, whatever its retry number.    *)
LEMMA NextRetry ==
    ASSUME NEW q \in [Retries -> Nat], NEW r
    PROVE  [q EXCEPT ![r] = @ + 1] \in [Retries -> Nat]
  <1>1. ASSUME NEW x \in Retries PROVE [q EXCEPT ![r] = @ + 1][x] \in Nat
    <2>1. CASE x = r
      BY <2>1
    <2>2. CASE x # r
      BY <2>2
    <2> QED BY <2>1, <2>2
  <1> QED BY <1>1

LEMMA TypeStep == TypeOK /\ [Next]_vars => TypeOK'
  <1> SUFFICES ASSUME WorkerTypeOK, DataTypeOK, [Next]_vars
               PROVE  WorkerTypeOK' /\ DataTypeOK'
      BY TypeParts DEF TypeOK, WorkerTypeOK, DataTypeOK
  <1>1. WorkerTypeOK'
    <2> USE DEF Labels
    <2>1. CASE CreateDelivery \/ RequestDelivery \/ RequestLost \/ Redeliver
               \/ UNCHANGED vars
      BY <2>1 DEF CreateDelivery, RequestDelivery, RequestLost, Redeliver, vars, WorkerTypeOK
    <2>2. ASSUME NEW w \in Workers, Receive(w) PROVE WorkerTypeOK'
      BY <2>2, WorkerType DEF Receive, WorkerTypeOK
    <2>3. ASSUME NEW w \in Workers, CreateExecution(w) PROVE WorkerTypeOK'
      BY <2>3, WorkerType DEF CreateExecution, WorkerTypeOK
    <2>4. ASSUME NEW w \in Workers, FetchExecution(w) PROVE WorkerTypeOK'
      BY <2>4, WorkerType DEF FetchExecution, WorkerTypeOK
    <2>5. ASSUME NEW w \in Workers, ResumeExecution(w) PROVE WorkerTypeOK'
      BY <2>5, WorkerType DEF ResumeExecution, WorkerTypeOK
    <2>6. ASSUME NEW w \in Workers, LoadDelivery(w) PROVE WorkerTypeOK'
      BY <2>6, WorkerType DEF LoadDelivery, WorkerTypeOK
    <2>7. ASSUME NEW w \in Workers, Post(w) PROVE WorkerTypeOK'
      BY <2>7, WorkerType DEF Post, WorkerTypeOK
    <2>8. ASSUME NEW w \in Workers, SaveDelivery(w) PROVE WorkerTypeOK'
      BY <2>8, WorkerType DEF SaveDelivery, WorkerTypeOK
    <2>9. ASSUME NEW w \in Workers, MarkSucceeded(w) PROVE WorkerTypeOK'
      BY <2>9, WorkerType DEF MarkSucceeded, WorkerTypeOK
    <2>10. ASSUME NEW w \in Workers, UpdateState(w) PROVE WorkerTypeOK'
      BY <2>10, WorkerType DEF UpdateState, WorkerTypeOK
    <2>11. ASSUME NEW w \in Workers, MarkFailed(w) PROVE WorkerTypeOK'
      BY <2>11, WorkerType DEF MarkFailed, WorkerTypeOK
    <2>12. ASSUME NEW w \in Workers, RecordFailure(w) PROVE WorkerTypeOK'
      BY <2>12, WorkerType DEF RecordFailure, WorkerTypeOK
    <2>13. ASSUME NEW w \in Workers, Retry(w) PROVE WorkerTypeOK'
      BY <2>13, WorkerType DEF Retry, WorkerTypeOK, AfterRetry
    <2>14. ASSUME NEW w \in Workers, BrokerError(w) PROVE WorkerTypeOK'
      BY <2>14, WorkerType DEF BrokerError, WorkerTypeOK, AfterRetry
    <2>15. ASSUME NEW w \in Workers, DatabaseError(w) PROVE WorkerTypeOK'
      BY <2>15, WorkerType DEF DatabaseError, WorkerTypeOK
    <2>16. ASSUME NEW w \in Workers, Crash(w) PROVE WorkerTypeOK'
      BY <2>16, WorkerType DEF Crash, WorkerTypeOK
    <2> QED BY NextCases, <2>1, <2>2, <2>3, <2>4, <2>5, <2>6, <2>7, <2>8,
               <2>9, <2>10, <2>11, <2>12, <2>13, <2>14, <2>15, <2>16
  <1>2. DataTypeOK'
    <2> USE DEF DataTypeOK
    <2>1. CASE CreateDelivery \/ RequestDelivery \/ RequestLost \/ Redeliver
               \/ UNCHANGED vars
      <3>1. CASE CreateDelivery
        BY <3>1 DEF CreateDelivery
      <3>2. CASE RequestDelivery
        BY <3>2, RetryNumbers DEF RequestDelivery
      <3>3. CASE RequestLost
        BY <3>3, FaultType DEF RequestLost
      <3>4. CASE Redeliver
        <4>1. queue' \in [Retries -> Nat]
          BY <3>4, RetryNumbers DEF Redeliver
        <4> QED BY <3>4, <4>1, FaultType DEF Redeliver
      <3>5. CASE UNCHANGED vars
        BY <3>5 DEF vars
      <3> QED BY <2>1, <3>1, <3>2, <3>3, <3>4, <3>5
    <2>2. ASSUME NEW w \in Workers, Receive(w) PROVE DataTypeOK'
      BY <2>2 DEF Receive
    <2>3. ASSUME NEW w \in Workers, CreateExecution(w) PROVE DataTypeOK'
      BY <2>3 DEF CreateExecution
    <2>4. ASSUME NEW w \in Workers, FetchExecution(w) PROVE DataTypeOK'
      BY <2>4 DEF FetchExecution
    <2>5. ASSUME NEW w \in Workers, ResumeExecution(w) PROVE DataTypeOK'
      BY <2>5 DEF ResumeExecution
    <2>6. ASSUME NEW w \in Workers, LoadDelivery(w) PROVE DataTypeOK'
      BY <2>6 DEF LoadDelivery
    <2>7. ASSUME NEW w \in Workers, Post(w) PROVE DataTypeOK'
      BY <2>7 DEF Post
    <2>8. ASSUME NEW w \in Workers, SaveDelivery(w) PROVE DataTypeOK'
      BY <2>8 DEF SaveDelivery
    <2>9. ASSUME NEW w \in Workers, MarkSucceeded(w) PROVE DataTypeOK'
      BY <2>9 DEF MarkSucceeded
    <2>10. ASSUME NEW w \in Workers, UpdateState(w) PROVE DataTypeOK'
      BY <2>10 DEF UpdateState
    <2>11. ASSUME NEW w \in Workers, MarkFailed(w) PROVE DataTypeOK'
      BY <2>11 DEF MarkFailed
    <2>12. ASSUME NEW w \in Workers, RecordFailure(w) PROVE DataTypeOK'
      <3> DEFINE row == [retries |-> retries[w],
                         terminal |-> path[w] = "permanent" \/ Exhausted(w)]
      <3>1. row \in [retries: Retries, terminal: BOOLEAN]
        BY FailureRowType
      <3>2. rows' = rows \union {row}
        BY <2>12 DEF RecordFailure
      <3>3. rows' \subseteq [retries: Retries, terminal: BOOLEAN]
        BY <3>1, <3>2
      <3> QED BY <2>12, <3>3 DEF RecordFailure
    <2>13. ASSUME NEW w \in Workers, Retry(w) PROVE DataTypeOK'
      <3>1. queue' \in [Retries -> Nat] /\ published' \in [Retries -> Nat]
        BY <2>13, NextRetry DEF Retry
      <3> QED BY <2>13, <3>1 DEF Retry
    <2>14. ASSUME NEW w \in Workers, BrokerError(w) PROVE DataTypeOK'
      BY <2>14, FaultType DEF BrokerError
    <2>15. ASSUME NEW w \in Workers, DatabaseError(w) PROVE DataTypeOK'
      BY <2>15, FaultType DEF DatabaseError
    <2>16. ASSUME NEW w \in Workers, Crash(w) PROVE DataTypeOK'
      BY <2>16, FaultType DEF Crash
    <2> QED BY NextCases, <2>1, <2>2, <2>3, <2>4, <2>5, <2>6, <2>7, <2>8,
               <2>9, <2>10, <2>11, <2>12, <2>13, <2>14, <2>15, <2>16
  <1> QED BY <1>1, <1>2

(* The state of the delivery, its execution and the workers keeps to its   *)
(* types.                                                                  *)
THEOREM TypeCorrect == Spec => []TypeOK
  <1>1. Init => DataTypeOK
    <2>1. 0 \in 0..MaxFaults
      BY LimitAssumption
    <2>2. ASSUME Init
          PROVE  /\ queue \in [Retries -> Nat] /\ published \in [Retries -> Nat]
                 /\ retries \in [Workers -> Retries]
      BY <2>2, RetryNumbers DEF Init
    <2>3. ASSUME Init
          PROVE  /\ rows \subseteq [retries: Retries, terminal: BOOLEAN]
                 /\ accepted \in Nat /\ requested \in BOOLEAN
                 /\ faults \in 0..MaxFaults
                 /\ delivery = "absent" /\ execution = "absent"
      BY <2>1, <2>3 DEF Init
    <2> QED BY <2>2, <2>3 DEF DataTypeOK
  <1>2. Init => WorkerTypeOK
    BY DEF Init, WorkerTypeOK, Labels, Paths
  <1>3. Init => TypeOK
    BY <1>1, <1>2, TypeParts
  <1> QED BY <1>3, TypeStep, PTL DEF Spec

-----------------------------------------------------------------------------

(***************************************************************************)
(* SuccessWasAccepted is inductive with one more fact: a worker is about   *)
(* to save or to mark a success only after an accepted POST, its own or    *)
(* the one behind the successful delivery it loaded.                       *)
(***************************************************************************)
SuccessBacked ==
    /\ SuccessWasAccepted
    /\ \A w \in Workers : pc[w] \in {"save", "mark"} => accepted > 0

LEMMA SuccessStep ==
    TypeOK /\ SuccessBacked /\ [Next]_vars => SuccessBacked'
  <1> SUFFICES ASSUME TypeOK, SuccessBacked, [Next]_vars
               PROVE  SuccessBacked'
      OBVIOUS
  <1> USE DEF SuccessBacked, SuccessWasAccepted
  <1>0. accepted \in Nat /\ pc \in [Workers -> Labels]
    BY DEF TypeOK
  <1>1. CASE CreateDelivery \/ RequestDelivery \/ RequestLost \/ Redeliver
               \/ UNCHANGED vars
    BY <1>1 DEF CreateDelivery, RequestDelivery, RequestLost, Redeliver, vars
  <1>2. ASSUME NEW w \in Workers, Receive(w) PROVE SuccessBacked'
    BY <1>0, <1>2 DEF Receive, Goto, Record, Finish
  <1>3. ASSUME NEW w \in Workers, CreateExecution(w) PROVE SuccessBacked'
    BY <1>0, <1>3 DEF CreateExecution, Goto, Record, Finish
  <1>4. ASSUME NEW w \in Workers, FetchExecution(w) PROVE SuccessBacked'
    BY <1>0, <1>4 DEF FetchExecution, Goto, Record, Finish
  <1>5. ASSUME NEW w \in Workers, ResumeExecution(w) PROVE SuccessBacked'
    BY <1>0, <1>5 DEF ResumeExecution, Goto, Record, Finish
  <1>6. ASSUME NEW w \in Workers, LoadDelivery(w) PROVE SuccessBacked'
    BY <1>0, <1>6 DEF LoadDelivery, Goto, Record, Finish
  <1>7. ASSUME NEW w \in Workers, Post(w) PROVE SuccessBacked'
    BY <1>0, <1>7 DEF Post, Goto, Record, Finish
  <1>8. ASSUME NEW w \in Workers, SaveDelivery(w) PROVE SuccessBacked'
    BY <1>0, <1>8 DEF SaveDelivery, Goto, Record, Finish
  <1>9. ASSUME NEW w \in Workers, MarkSucceeded(w) PROVE SuccessBacked'
    BY <1>0, <1>9 DEF MarkSucceeded, Goto, Record, Finish
  <1>10. ASSUME NEW w \in Workers, UpdateState(w) PROVE SuccessBacked'
    BY <1>0, <1>10 DEF UpdateState, Goto, Record, Finish
  <1>11. ASSUME NEW w \in Workers, MarkFailed(w) PROVE SuccessBacked'
    BY <1>0, <1>11 DEF MarkFailed, Goto, Record, Finish
  <1>12. ASSUME NEW w \in Workers, RecordFailure(w) PROVE SuccessBacked'
    BY <1>0, <1>12 DEF RecordFailure, Goto, Record, Finish
  <1>13. ASSUME NEW w \in Workers, Retry(w) PROVE SuccessBacked'
    BY <1>0, <1>13 DEF Retry, Goto, Record, Finish, AfterRetry
  <1>14. ASSUME NEW w \in Workers, BrokerError(w) PROVE SuccessBacked'
    BY <1>0, <1>14 DEF BrokerError, Goto, Record, Finish, AfterRetry
  <1>15. ASSUME NEW w \in Workers, DatabaseError(w) PROVE SuccessBacked'
    BY <1>0, <1>15 DEF DatabaseError, Goto, Record, Finish
  <1>16. ASSUME NEW w \in Workers, Crash(w) PROVE SuccessBacked'
    BY <1>0, <1>16 DEF Crash, Goto, Record, Finish
  <1> QED BY NextCases, <1>1, <1>2, <1>3, <1>4, <1>5, <1>6, <1>7, <1>8,
             <1>9, <1>10, <1>11, <1>12, <1>13, <1>14, <1>15, <1>16

(* No success is recorded without an accepted POST, whatever duplicates,   *)
(* deaths and overwrites there were.                                       *)
THEOREM SuccessIsBacked == Spec => []SuccessWasAccepted
  <1>1. Init => SuccessBacked
    BY DEF Init, SuccessBacked, SuccessWasAccepted
  <1>2. SuccessBacked => SuccessWasAccepted
    BY DEF SuccessBacked
  <1> QED BY <1>1, <1>2, TypeCorrect, SuccessStep, PTL DEF Spec

-----------------------------------------------------------------------------

(* Once latched, no step POSTs again or undoes the latch.                  *)
LEMMA LatchedStep ==
    ASSUME TypeOK, Latched, [Next]_vars
    PROVE  Latched' /\ accepted' = accepted
  <1> USE DEF Latched, Harmless
  <1>0. pc \in [Workers -> Labels] /\ path \in [Workers -> Paths]
    BY DEF TypeOK
  <1>1. CASE CreateDelivery \/ RequestDelivery \/ RequestLost \/ Redeliver
               \/ UNCHANGED vars
    BY <1>1 DEF CreateDelivery, RequestDelivery, RequestLost, Redeliver, vars
  <1>2. ASSUME NEW w \in Workers,
               \/ ResumeExecution(w) \/ LoadDelivery(w) \/ Post(w)
               \/ SaveDelivery(w) \/ MarkSucceeded(w) \/ UpdateState(w)
               \/ MarkFailed(w)
        PROVE  FALSE
    BY <1>2 DEF ResumeExecution, LoadDelivery, Post, SaveDelivery,
       MarkSucceeded, UpdateState, MarkFailed
  <1>3. ASSUME NEW w \in Workers, Receive(w)
        PROVE  Latched' /\ accepted' = accepted
    BY <1>0, <1>3 DEF Receive, Goto, Record, Finish
  <1>4. ASSUME NEW w \in Workers, CreateExecution(w)
        PROVE  Latched' /\ accepted' = accepted
    BY <1>0, <1>4 DEF CreateExecution, Goto, Record, Finish
  <1>5. ASSUME NEW w \in Workers, FetchExecution(w)
        PROVE  Latched' /\ accepted' = accepted
    BY <1>0, <1>5 DEF FetchExecution, Goto, Record, Finish
  <1>6. ASSUME NEW w \in Workers, RecordFailure(w)
        PROVE  Latched' /\ accepted' = accepted
    BY <1>0, <1>6 DEF RecordFailure, Goto, Record, Finish
  <1>7. ASSUME NEW w \in Workers, Retry(w)
        PROVE  Latched' /\ accepted' = accepted
    BY <1>0, <1>7 DEF Retry, Goto, Record, Finish, AfterRetry
  <1>8. ASSUME NEW w \in Workers, BrokerError(w)
        PROVE  Latched' /\ accepted' = accepted
    BY <1>0, <1>8 DEF BrokerError, Goto, Record, Finish, AfterRetry
  <1>9. ASSUME NEW w \in Workers, DatabaseError(w)
        PROVE  Latched' /\ accepted' = accepted
    BY <1>0, <1>9 DEF DatabaseError, Goto, Record, Finish
  <1>10. ASSUME NEW w \in Workers, Crash(w)
        PROVE  Latched' /\ accepted' = accepted
    BY <1>0, <1>10 DEF Crash, Goto, Record, Finish
  <1> QED BY NextCases, <1>1, <1>2, <1>3, <1>4, <1>5, <1>6, <1>7, <1>8, <1>9, <1>10

(* A POST is accepted once per attempt, and the attempt still has to say   *)
(* how it went: that step does not latch the job.                          *)
LEMMA EffectStep ==
    ASSUME TypeOK, [Next]_vars
    PROVE  accepted' = accepted \/ (accepted' = accepted + 1 /\ ~Latched')
  <1>1. ASSUME NEW w \in Workers, Post(w), accepted' # accepted
        PROVE  accepted' = accepted + 1 /\ ~Latched'
    <2>1. accepted' = accepted + 1 /\ pc'[w] \in {"save", "state"}
      BY <1>1 DEF Post, Goto, Record, TypeOK
    <2> QED BY <2>1 DEF Latched, Harmless
  <1>2. ASSUME \A w \in Workers : ~Post(w)
        PROVE  accepted' = accepted
    BY <1>2, NextCases DEF CreateDelivery, RequestDelivery, RequestLost,
       Redeliver, Receive, CreateExecution, FetchExecution, ResumeExecution,
       LoadDelivery, SaveDelivery, MarkSucceeded, UpdateState, MarkFailed,
       RecordFailure, Retry, BrokerError, DatabaseError, Crash, vars
  <1> QED BY <1>1, <1>2

(***************************************************************************)
(* The delivery implements the abstract idempotent job although self.retry *)
(* doubles messages and the broker repeats them: a success recorded while  *)
(* nobody is past the skip test ends the POSTs.                            *)
(***************************************************************************)
THEOREM DeliveryImplementsJob == Spec => ImplementsJob
  <1>1. Init => SuccessBacked /\ Job!JobInit
    BY DEF Init, SuccessBacked, SuccessWasAccepted, Latched, Job!JobInit
  <1>2. TypeOK /\ SuccessBacked /\ SuccessBacked' /\ [Next]_vars
            => [Job!JobNext]_(Job!jobVars)
    <2> SUFFICES ASSUME TypeOK, SuccessBacked', [Next]_vars
                 PROVE  [Job!JobNext]_(Job!jobVars)
        OBVIOUS
    <2>1. CASE Latched
      BY <2>1, LatchedStep DEF Job!jobVars
    <2>2. CASE ~Latched /\ accepted' # accepted
      BY <2>2, EffectStep DEF Job!JobNext, Job!Perform
    <2>3. CASE ~Latched /\ accepted' = accepted /\ Latched'
      <3>1. accepted > 0
        BY <2>3 DEF SuccessBacked, SuccessWasAccepted, Latched
      <3> QED BY <2>3, <3>1 DEF Job!JobNext, Job!Latch
    <2>4. CASE ~Latched /\ accepted' = accepted /\ ~Latched'
      BY <2>4 DEF Job!jobVars
    <2> QED BY <2>1, <2>2, <2>3, <2>4
  <1>3. Spec => [](TypeOK /\ SuccessBacked)
    BY <1>1, TypeCorrect, SuccessStep, PTL DEF Spec
  <1> QED BY <1>1, <1>2, <1>3, PTL DEF Spec, ImplementsJob, Job!JobSpec

-----------------------------------------------------------------------------
(***************************************************************************)
(* The retry tree.  What a worker may still publish is counted by two sets *)
(* of workers: those that hold a message with retry number r, and those of *)
(* them that have not come to the except clause and may publish twice.     *)
(***************************************************************************)
Holding(r) == {w \in Workers : pc[w] # "idle" /\ retries[w] = r}

Doubling(r) == {w \in Holding(r) : path[w] # "exception"}

Owed(r) == Cardinality(Holding(r)) + Cardinality(Doubling(r))

(* The messages with retry number r there have been.                       *)
Copies(r) == IF r = 0 THEN (IF requested THEN 1 ELSE 0) ELSE published[r]

(* Every message gives two of the next number, as long as nothing fails.   *)
TwoEach(r) ==
    /\ IsFiniteSet(Holding(r))
    /\ published[r + 1] + 2 * queue[r] + Owed(r) <= 2 * Copies(r)

Power(r) == 2^r

TreeInv ==
    faults = 0 =>
        /\ published[0] = 0
        /\ \A r \in 0..(MaxRetries - 1) : TwoEach(r)
        /\ \A r \in Retries : published[r] <= Power(r)

(* Powers of two, by counting subsets.                                     *)
LEMMA PowerCounts ==
    ASSUME NEW r \in Nat
    PROVE  /\ IsFiniteSet(SUBSET (1..r))
           /\ Cardinality(SUBSET (1..r)) = Power(r)
           /\ Power(r) \in Nat
  <1>1. IsFiniteSet(1..r) /\ Cardinality(1..r) = r
    BY FS_Interval
  <1>2. IsFiniteSet(SUBSET (1..r)) /\ Cardinality(SUBSET (1..r)) = 2^Cardinality(1..r)
    BY <1>1, FS_SUBSET
  <1>3. Cardinality(SUBSET (1..r)) \in Nat
    BY <1>2, FS_CardinalityType
  <1> QED BY <1>1, <1>2, <1>3 DEF Power

LEMMA PowerDoubles == ASSUME NEW r \in Nat PROVE Power(r + 1) = 2 * Power(r)
  <1> DEFINE P == SUBSET (1..r)
             Q == {T \union {r + 1} : T \in P}
             f == [T \in P |-> T \union {r + 1}]
  <1>1. SUBSET (1..(r + 1)) = P \union Q
    <2>1. ASSUME NEW T \in SUBSET (1..(r + 1)) PROVE T \in P \union Q
      <3>1. CASE r + 1 \notin T
        BY <3>1
      <3>2. CASE r + 1 \in T
        <4>1. T \ {r + 1} \in P
          OBVIOUS
        <4>2. T = (T \ {r + 1}) \union {r + 1}
          BY <3>2
        <4> QED BY <4>1, <4>2
      <3> QED BY <3>1, <3>2
    <2>2. \A T \in P \union Q : T \subseteq 1..(r + 1)
      OBVIOUS
    <2> QED BY <2>1, <2>2
  <1>2. P \intersect Q = {}
    <2>1. \A T \in P : r + 1 \notin T
      OBVIOUS
    <2>2. \A T \in Q : r + 1 \in T
      OBVIOUS
    <2> QED BY <2>1, <2>2
  <1>3. f \in Surjection(P, Q)
    BY DEF Surjection
  <1>4. f \in Injection(P, Q)
    <2>1. \A T \in P : r + 1 \notin T
      OBVIOUS
    <2>2. ASSUME NEW T \in P, NEW U \in P, f[T] = f[U] PROVE T = U
      <3>1. T \union {r + 1} = U \union {r + 1}
        BY <2>2
      <3>2. /\ (T \union {r + 1}) \ {r + 1} = T
            /\ (U \union {r + 1}) \ {r + 1} = U
        BY <2>1
      <3> QED BY <3>1, <3>2
    <2>3. f \in [P -> Q] /\ DOMAIN f = P
      OBVIOUS
    <2> HIDE DEF f, P, Q
    <2> QED BY <2>2, <2>3 DEF Injection, IsInjective
  <1>5. IsFiniteSet(P) /\ Cardinality(P) = Power(r) /\ Power(r) \in Nat
    BY PowerCounts
  <1>6. Cardinality(SUBSET (1..(r + 1))) = Power(r + 1)
    BY PowerCounts
  <1> HIDE DEF P, Q, f
  <1>7. IsFiniteSet(Q) /\ Cardinality(Q) = Cardinality(P)
    BY <1>3, <1>4, <1>5, FS_Surjection
  <1>8. Cardinality(P \union Q) = Cardinality(P) + Cardinality(Q) - Cardinality(P \intersect Q)
    BY <1>5, <1>7, FS_Union
  <1>9. Cardinality(P \intersect Q) = 0
    BY <1>2, FS_EmptySet
  <1>10. Power(r + 1) = Cardinality(P \union Q)
    BY <1>1, <1>6, Zenon
  <1> QED BY <1>5, <1>7, <1>8, <1>9, <1>10

LEMMA PowerStarts == Power(0) = 1
  BY SMT DEF Power

LEMMA OwedShrinks ==
    ASSUME NEW r, IsFiniteSet(Holding(r)),
           Holding(r)' \subseteq Holding(r), Doubling(r)' \subseteq Doubling(r)
    PROVE  /\ IsFiniteSet(Holding(r)') /\ Owed(r) \in Nat /\ Owed(r)' \in Nat
           /\ Owed(r)' <= Owed(r)
           /\ \/ Holding(r)' # Holding(r)
              \/ Doubling(r)' # Doubling(r)
              => Owed(r)' + 1 <= Owed(r)
  <1> DEFINE H == Holding(r)
             I == Holding(r)'
             D == Doubling(r)
             E == Doubling(r)'
  <1>1. Owed(r) = Cardinality(H) + Cardinality(D) /\ Owed(r)' = Cardinality(I) + Cardinality(E)
    BY DEF Owed
  <1>2. D \subseteq H /\ I \subseteq H /\ E \subseteq D
    BY DEF Doubling
  <1>3. IsFiniteSet(H)
    OBVIOUS
  <1> HIDE DEF H, I, D, E
  <1>4. IsFiniteSet(D) /\ IsFiniteSet(I)
    BY <1>2, <1>3, FS_Subset
  <1>5. IsFiniteSet(E)
    BY <1>2, <1>4, FS_Subset
  <1>6. /\ Cardinality(H) \in Nat /\ Cardinality(I) \in Nat
        /\ Cardinality(D) \in Nat /\ Cardinality(E) \in Nat
    BY <1>3, <1>4, <1>5, FS_CardinalityType
  <1>7. Cardinality(I) <= Cardinality(H) /\ (Cardinality(I) = Cardinality(H) => I = H)
    BY <1>2, <1>3, FS_Subset
  <1>8. Cardinality(E) <= Cardinality(D) /\ (Cardinality(E) = Cardinality(D) => E = D)
    BY <1>2, <1>4, FS_Subset
  <1>9. Owed(r) \in Nat /\ Owed(r)' \in Nat /\ Owed(r)' <= Owed(r)
    BY <1>1, <1>6, <1>7, <1>8
  <1>10. I # H \/ E # D => Owed(r)' + 1 <= Owed(r)
    <2>1. I # H => Cardinality(I) + 1 <= Cardinality(H)
      BY <1>6, <1>7
    <2>2. E # D => Cardinality(E) + 1 <= Cardinality(D)
      BY <1>6, <1>8
    <2> QED BY <1>1, <1>6, <1>7, <1>8, <2>1, <2>2
  <1>11. IsFiniteSet(I)
    BY <1>4
  <1> QED BY <1>9, <1>10, <1>11 DEF H, I, D, E

LEMMA OwedGrows ==
    ASSUME NEW r, NEW w, IsFiniteSet(Holding(r)),
           Holding(r)' \subseteq Holding(r) \union {w},
           Doubling(r)' \subseteq Doubling(r) \union {w}
    PROVE  /\ IsFiniteSet(Holding(r)') /\ Owed(r) \in Nat /\ Owed(r)' \in Nat
           /\ Owed(r)' <= Owed(r) + 2
  <1> DEFINE H == Holding(r)
             I == Holding(r)'
             D == Doubling(r)
             E == Doubling(r)'
  <1>1. Owed(r) = Cardinality(H) + Cardinality(D) /\ Owed(r)' = Cardinality(I) + Cardinality(E)
    BY DEF Owed
  <1>2. D \subseteq H /\ I \subseteq H \union {w} /\ E \subseteq D \union {w}
    BY DEF Doubling
  <1>3. IsFiniteSet(H)
    OBVIOUS
  <1> HIDE DEF H, I, D, E
  <1>4. IsFiniteSet(D)
    BY <1>2, <1>3, FS_Subset
  <1>5. /\ IsFiniteSet(H \union {w})
        /\ Cardinality(H \union {w}) = IF w \in H THEN Cardinality(H) ELSE Cardinality(H) + 1
    BY <1>3, FS_AddElement, Zenon
  <1>6. /\ IsFiniteSet(D \union {w})
        /\ Cardinality(D \union {w}) = IF w \in D THEN Cardinality(D) ELSE Cardinality(D) + 1
    BY <1>4, FS_AddElement, Zenon
  <1>7. IsFiniteSet(I) /\ Cardinality(I) <= Cardinality(H \union {w})
    BY <1>2, <1>5, FS_Subset
  <1>8. IsFiniteSet(E) /\ Cardinality(E) <= Cardinality(D \union {w})
    BY <1>2, <1>6, FS_Subset
  <1>9. /\ Cardinality(H) \in Nat /\ Cardinality(I) \in Nat
        /\ Cardinality(D) \in Nat /\ Cardinality(E) \in Nat
    BY <1>3, <1>4, <1>7, <1>8, FS_CardinalityType
  <1>10. Owed(r) \in Nat /\ Owed(r)' \in Nat /\ Owed(r)' <= Owed(r) + 2
    BY <1>1, <1>5, <1>6, <1>7, <1>8, <1>9
  <1> QED BY <1>7, <1>10 DEF H, I, D, E

(* A step of a worker that neither takes nor publishes a message.          *)
LEMMA TreeFrame ==
    ASSUME TypeOK, TreeInv, faults' = faults,
           UNCHANGED <<queue, published, retries, requested>>,
           NEW w \in Workers, \A v \in Workers \ {w} : pc'[v] = pc[v] /\ path'[v] = path[v],
           pc[w] # "idle", pc'[w] # "idle" /\ path[w] = "exception" => path'[w] = "exception"
    PROVE  TreeInv'
  <1> SUFFICES ASSUME faults = 0 PROVE TreeInv'
    BY DEF TreeInv
  <1>1. ASSUME NEW r \in 0..(MaxRetries - 1) PROVE TwoEach(r)'
    <2>1. TwoEach(r)
      BY DEF TreeInv
    <2>2. Holding(r)' \subseteq Holding(r) /\ Doubling(r)' \subseteq Doubling(r)
      BY DEF Holding, Doubling
    <2>3. /\ IsFiniteSet(Holding(r)') /\ Owed(r)' \in Nat /\ Owed(r) \in Nat
          /\ Owed(r)' <= Owed(r)
      BY <2>1, <2>2, OwedShrinks DEF TwoEach
    <2>4. /\ published[r + 1] \in Nat /\ queue[r] \in Nat /\ Copies(r) \in Nat
          /\ Copies(r)' = Copies(r)
      BY LimitAssumption DEF TypeOK, Retries, Copies
    <2> QED BY <2>1, <2>3, <2>4 DEF TwoEach
  <1> QED BY <1>1 DEF TreeInv

LEMMA TreeReceive ==
    ASSUME TypeOK, TreeInv, NEW w \in Workers, Receive(w)
    PROVE  TreeInv'
  <1> SUFFICES ASSUME faults = 0 PROVE TreeInv'
    BY DEF TreeInv, Receive
  <1>1. PICK n \in Retries : /\ queue[n] > 0 /\ queue' = [queue EXCEPT ![n] = @ - 1]
                             /\ retries' = [retries EXCEPT ![w] = n]
    BY DEF Receive
  <1>2. /\ pc[w] = "idle" /\ pc' = [pc EXCEPT ![w] = "create"] /\ path' = path
        /\ UNCHANGED <<published, requested, faults>>
    BY DEF Receive, Goto
  <1>3. /\ pc \in [Workers -> Labels] /\ retries \in [Workers -> Retries]
        /\ queue \in [Retries -> Nat]
    BY DEF TypeOK
  <1>4. ASSUME NEW r \in 0..(MaxRetries - 1) PROVE TwoEach(r)'
    <2>1. TwoEach(r)
      BY <1>4 DEF TreeInv
    <2>2. /\ published[r + 1] \in Nat /\ queue[r] \in Nat /\ Copies(r) \in Nat
          /\ Copies(r)' = Copies(r) /\ published'[r + 1] = published[r + 1]
          /\ r \in Retries
      BY <1>2, LimitAssumption DEF TypeOK, Retries, Copies
    <2>3. CASE r = n
      <3>1. /\ Holding(r)' \subseteq Holding(r) \union {w}
            /\ Doubling(r)' \subseteq Doubling(r) \union {w}
        BY <1>1, <1>2, <1>3 DEF Holding, Doubling
      <3>2. /\ IsFiniteSet(Holding(r)') /\ Owed(r)' \in Nat /\ Owed(r) \in Nat
            /\ Owed(r)' <= Owed(r) + 2
        BY <2>1, <3>1, OwedGrows DEF TwoEach
      <3>3. queue'[r] = queue[r] - 1
        BY <1>1, <1>3, <2>2, <2>3
      <3> QED BY <2>1, <2>2, <3>2, <3>3 DEF TwoEach
    <2>4. CASE r # n
      <3>1. Holding(r)' \subseteq Holding(r) /\ Doubling(r)' \subseteq Doubling(r)
        BY <1>1, <1>2, <1>3, <2>4 DEF Holding, Doubling
      <3>2. /\ IsFiniteSet(Holding(r)') /\ Owed(r)' \in Nat /\ Owed(r) \in Nat
            /\ Owed(r)' <= Owed(r)
        BY <2>1, <3>1, OwedShrinks DEF TwoEach
      <3>3. queue'[r] = queue[r]
        BY <1>1, <1>3, <2>2, <2>4
      <3> QED BY <2>1, <2>2, <3>2, <3>3 DEF TwoEach
    <2> QED BY <2>3, <2>4
  <1> QED BY <1>2, <1>4 DEF TreeInv

LEMMA TreeRetry ==
    ASSUME TypeOK, TreeInv, NEW w \in Workers, Retry(w)
    PROVE  TreeInv'
  <1> SUFFICES ASSUME faults = 0 PROVE TreeInv'
    BY DEF TreeInv, Retry
  <1>1. PICK n \in Retries : n = retries[w]
    BY DEF TypeOK
  <1>2. /\ pc[w] = "retry" /\ UNCHANGED <<retries, requested, faults>>
        /\ queue' = [queue EXCEPT ![n + 1] = @ + 1]
        /\ published' = [published EXCEPT ![n + 1] = @ + 1]
        /\ AfterRetry(w)
    BY <1>1 DEF Retry
  <1>3. /\ pc \in [Workers -> Labels] /\ path \in [Workers -> Paths]
        /\ queue \in [Retries -> Nat] /\ published \in [Retries -> Nat]
        /\ n \in Nat /\ MaxRetries \in Nat
    BY LimitAssumption DEF TypeOK, Retries
  <1>4. \/ path[w] # "exception" /\ path' = [path EXCEPT ![w] = "exception"]
           /\ pc' = [pc EXCEPT ![w] = "state"]
        \/ path' = [path EXCEPT ![w] = "none"] /\ pc' = [pc EXCEPT ![w] = "idle"]
    BY <1>2 DEF AfterRetry, Record, Finish
  <1>5. ASSUME NEW r \in 0..(MaxRetries - 1) PROVE TwoEach(r)'
    <2>1. TwoEach(r) /\ r \in Retries /\ r + 1 \in Retries /\ r \in Nat
      BY <1>3 DEF TreeInv, Retries
    <2>2. published[r + 1] \in Nat /\ queue[r] \in Nat /\ Copies(r) \in Nat
      BY <1>3, <2>1 DEF Copies
    <2>3. Holding(r)' \subseteq Holding(r) /\ Doubling(r)' \subseteq Doubling(r)
      BY <1>2, <1>3, <1>4 DEF Holding, Doubling
    <2>4. r = n => Holding(r)' # Holding(r) \/ Doubling(r)' # Doubling(r)
      <3>1. ASSUME r = n PROVE w \in Holding(r)
        BY <1>1, <1>2, <3>1 DEF Holding
      <3>2. ASSUME r = n, path[w] # "exception", path' = [path EXCEPT ![w] = "exception"]
            PROVE  w \in Doubling(r) \ Doubling(r)'
        BY <1>3, <3>1, <3>2 DEF Doubling
      <3>3. ASSUME r = n, pc' = [pc EXCEPT ![w] = "idle"] PROVE w \notin Holding(r)'
        BY <1>3, <3>3 DEF Holding
      <3> QED BY <1>4, <3>1, <3>2, <3>3
    <2>5. /\ IsFiniteSet(Holding(r)') /\ Owed(r)' \in Nat /\ Owed(r) \in Nat
          /\ Owed(r)' <= Owed(r) /\ (r = n => Owed(r)' + 1 <= Owed(r))
      BY <2>1, <2>3, <2>4, OwedShrinks DEF TwoEach
    <2>6. CASE r = n
      <3>1. published'[r + 1] = published[r + 1] + 1 /\ queue'[r] = queue[r]
        BY <1>2, <1>3, <2>1, <2>6
      <3>2. Copies(r)' = Copies(r)
        BY <1>2, <1>3, <2>1, <2>6 DEF Copies
      <3> QED BY <2>1, <2>2, <2>5, <2>6, <3>1, <3>2 DEF TwoEach
    <2>7. CASE r = n + 1
      <3>1. /\ published'[r + 1] = published[r + 1] /\ queue'[r] = queue[r] + 1
            /\ published'[r] = published[r] + 1 /\ r # 0
        BY <1>2, <1>3, <2>1, <2>7
      <3>2. Copies(r)' = Copies(r) + 1
        BY <3>1 DEF Copies
      <3> QED BY <2>1, <2>2, <2>5, <3>1, <3>2 DEF TwoEach
    <2>8. CASE r # n /\ r # n + 1
      <3>1. published'[r + 1] = published[r + 1] /\ queue'[r] = queue[r]
        BY <1>2, <1>3, <2>1, <2>8
      <3>2. Copies(r)' = Copies(r)
        BY <1>2, <1>3, <2>1, <2>8 DEF Copies
      <3> QED BY <2>1, <2>2, <2>5, <3>1, <3>2 DEF TwoEach
    <2> QED BY <2>6, <2>7, <2>8
  <1>6. published'[0] = 0
    BY <1>2, <1>3 DEF TreeInv
  <1>7. ASSUME NEW r \in Retries PROVE published'[r] <= Power(r)
    <2>1. CASE r # n + 1
      BY <1>2, <1>3, <2>1 DEF TreeInv
    <2>2. CASE r = n + 1
      <3>1. TwoEach(n)' /\ n \in 0..(MaxRetries - 1)
        BY <1>3, <1>5, <2>2 DEF Retries
      <3>2. /\ published'[n + 1] \in Nat /\ queue'[n] \in Nat
            /\ published' \in [Retries -> Nat]
        BY <1>2, <1>3, <3>1, NextRetry DEF Retries
      <3>3. Owed(n)' \in Nat
        <4>1. TwoEach(n)
          BY <3>1 DEF TreeInv
        <4>2. Holding(n)' \subseteq Holding(n) /\ Doubling(n)' \subseteq Doubling(n)
          BY <1>2, <1>3, <1>4 DEF Holding, Doubling
        <4> QED BY <4>1, <4>2, OwedShrinks DEF TwoEach
      <3>4. Copies(n)' <= Power(n) /\ Copies(n)' \in Nat /\ Power(n) \in Nat
        <4>1. Power(n) \in Nat
          BY <1>3, PowerCounts
        <4>2. CASE n = 0
          BY <4>1, <4>2, PowerStarts DEF Copies
        <4>3. CASE n # 0
          <5>1. published'[n] = published[n] /\ published[n] <= Power(n) /\ published[n] \in Nat
            BY <1>2, <1>3 DEF TreeInv
          <5> QED BY <4>1, <4>3, <5>1 DEF Copies
        <4> QED BY <4>2, <4>3
      <3>5. published'[n + 1] <= 2 * Copies(n)'
        BY <3>1, <3>2, <3>3, <3>4 DEF TwoEach
      <3>6. Power(r) = 2 * Power(n)
        BY <1>3, <2>2, PowerDoubles
      <3> QED BY <2>2, <3>2, <3>4, <3>5, <3>6
    <2> QED BY <2>1, <2>2
  <1> QED BY <1>5, <1>6, <1>7 DEF TreeInv

LEMMA TreeStep == TypeOK /\ TypeOK' /\ TreeInv /\ [Next]_vars => TreeInv'
  <1> SUFFICES ASSUME TypeOK, TypeOK', TreeInv, [Next]_vars PROVE TreeInv'
    OBVIOUS
  <1>0. pc \in [Workers -> Labels] /\ path \in [Workers -> Paths]
    BY DEF TypeOK
  <1>1. CASE CreateDelivery \/ UNCHANGED vars
    BY <1>1 DEF CreateDelivery, vars, TreeInv, TwoEach, Holding, Doubling, Owed, Copies
  <1>2. CASE RequestDelivery
    <2> SUFFICES ASSUME faults = 0 PROVE TreeInv'
      BY <1>2 DEF TreeInv, RequestDelivery
    <2>1. /\ UNCHANGED <<pc, path, retries, published, faults>> /\ ~requested /\ requested'
          /\ queue' = [queue EXCEPT ![0] = @ + 1] /\ queue \in [Retries -> Nat]
          /\ published \in [Retries -> Nat]
      BY <1>2 DEF RequestDelivery, TypeOK
    <2>2. ASSUME NEW r \in 0..(MaxRetries - 1) PROVE TwoEach(r)'
      <3>1. /\ TwoEach(r) /\ Owed(r)' = Owed(r) /\ Holding(r)' = Holding(r)
            /\ Doubling(r)' = Doubling(r)
            /\ r \in Retries /\ r + 1 \in Retries /\ 0 \in Retries
        BY <2>1, LimitAssumption DEF TreeInv, Owed, Holding, Doubling, Retries
      <3>2. Owed(r) \in Nat
        BY <3>1, OwedShrinks DEF TwoEach
      <3>3. CASE r = 0
        <4>1. queue'[r] = queue[r] + 1 /\ Copies(r) = 0 /\ Copies(r)' = 1
          BY <2>1, <3>1, <3>3 DEF Copies
        <4> QED BY <2>1, <3>1, <3>2, <4>1 DEF TwoEach
      <3>4. CASE r # 0
        <4>1. queue'[r] = queue[r] /\ Copies(r)' = Copies(r)
          BY <2>1, <3>1, <3>4 DEF Copies
        <4> QED BY <2>1, <3>1, <4>1 DEF TwoEach
      <3> QED BY <3>3, <3>4
    <2> QED BY <2>1, <2>2 DEF TreeInv
  <1>3. ASSUME faults' # 0 PROVE TreeInv'
    BY <1>3 DEF TreeInv
  <1>4. ASSUME Fault PROVE faults' # 0
    BY <1>4, LimitAssumption DEF Fault, TypeOK
  <1>5. CASE RequestLost \/ Redeliver
    BY <1>3, <1>4, <1>5 DEF RequestLost, Redeliver
  <1>6. ASSUME NEW w \in Workers, BrokerError(w) \/ DatabaseError(w) \/ Crash(w)
        PROVE  TreeInv'
    BY <1>3, <1>4, <1>6 DEF BrokerError, DatabaseError, Crash
  <1>7. ASSUME NEW w \in Workers, Receive(w) PROVE TreeInv'
    BY <1>7, TreeReceive
  <1>8. ASSUME NEW w \in Workers, Retry(w) PROVE TreeInv'
    BY <1>8, TreeRetry
  <1>9. ASSUME NEW w \in Workers,
               \/ CreateExecution(w) \/ FetchExecution(w) \/ ResumeExecution(w)
               \/ LoadDelivery(w) \/ Post(w) \/ SaveDelivery(w) \/ MarkSucceeded(w)
               \/ UpdateState(w) \/ MarkFailed(w) \/ RecordFailure(w)
        PROVE  TreeInv'
    <2> USE DEF CreateExecution, FetchExecution, ResumeExecution, LoadDelivery, Post,
            SaveDelivery, MarkSucceeded, UpdateState, MarkFailed, RecordFailure
    <2>1. UNCHANGED <<queue, published, retries, requested, faults>> /\ pc[w] # "idle"
      BY <1>9
    <2>2. \/ \E label \in Labels : pc' = [pc EXCEPT ![w] = label] /\ path' = path
          \/ /\ path[w] = "none"
             /\ \E how \in Paths : /\ path' = [path EXCEPT ![w] = how]
                                   /\ pc' = [pc EXCEPT ![w] = "state"]
          \/ path' = [path EXCEPT ![w] = "none"] /\ pc' = [pc EXCEPT ![w] = "idle"]
      BY <1>9 DEF Goto, Record, Finish, Labels, Paths, TypeOK
    <2> HIDE DEF CreateExecution, FetchExecution, ResumeExecution, LoadDelivery, Post,
            SaveDelivery, MarkSucceeded, UpdateState, MarkFailed, RecordFailure
    <2>3. \A v \in Workers \ {w} : pc'[v] = pc[v] /\ path'[v] = path[v]
      BY <1>0, <2>2
    <2>4. pc'[w] # "idle" /\ path[w] = "exception" => path'[w] = "exception"
      BY <1>0, <2>2
    <2> QED BY <2>1, <2>3, <2>4, TreeFrame
  <1> QED BY NextCases, <1>1, <1>2, <1>5, <1>6, <1>7, <1>8, <1>9

(* However many workers there are and however often the remote refuses: at *)
(* most 2^r messages are ever published with retry number r, as long as    *)
(* nothing fails.                                                          *)
THEOREM RetryTreeIsBounded == Spec => []RetryTreeBounded
  <1>1. Init => TreeInv
    <2> SUFFICES ASSUME Init PROVE TreeInv
      OBVIOUS
    <2>1. \A r \in Retries : published[r] = 0 /\ queue[r] = 0
      BY DEF Init
    <2>2. 0 \in Retries /\ \A r \in 0..(MaxRetries - 1) : r \in Retries /\ r + 1 \in Retries
      BY LimitAssumption DEF Retries
    <2>3. \A r : Holding(r) = {} /\ Doubling(r) = {}
      BY DEF Init, Holding, Doubling
    <2>4. \A r : IsFiniteSet(Holding(r)) /\ Owed(r) = 0
      BY <2>3, FS_EmptySet DEF Owed
    <2>5. \A r \in 0..(MaxRetries - 1) : Copies(r) = 0
      BY <2>1, <2>2 DEF Copies, Init
    <2>6. \A r \in 0..(MaxRetries - 1) : TwoEach(r)
      BY <2>1, <2>2, <2>4, <2>5 DEF TwoEach
    <2>7. ASSUME NEW r \in Retries PROVE Power(r) \in Nat
      <3>1. r \in Nat
        BY LimitAssumption DEF Retries
      <3> QED BY <3>1, PowerCounts
    <2> QED BY <2>1, <2>2, <2>6, <2>7 DEF TreeInv
  <1>2. TreeInv => RetryTreeBounded
    BY DEF TreeInv, RetryTreeBounded, Power
  <1>3. Spec => []TreeInv
    BY <1>1, TypeCorrect, TreeStep, PTL DEF Spec
  <1> QED BY <1>2, <1>3, PTL

-----------------------------------------------------------------------------

(* The two directions share the allowlist only: with the inbox in the      *)
(* picture a delivery behaves as it does alone.                            *)
THEOREM DeliveryIsUndisturbed == FederationSpec => Spec
  <1>1. FederationInit => Init
    BY DEF FederationInit
  <1>2. [Outbound \/ Inbound]_federationVars => [Next]_vars
    BY DEF Outbound, Inbound, federationVars
  <1> QED BY <1>1, <1>2, PTL DEF FederationSpec, Spec

(* What holds of a delivery holds beside the inbox: the bounded retries,   *)
(* the backed success, and the abstract job.                               *)
THEOREM DeliveryKeepsItsPromises ==
    FederationSpec => []RetryTreeBounded /\ []SuccessWasAccepted /\ ImplementsJob
  BY DeliveryIsUndisturbed, RetryTreeIsBounded, SuccessIsBacked,
     DeliveryImplementsJob, PTL
-----------------------------------------------------------------------------

(***************************************************************************)
(* The inbox.  Who serves a request about nothing fails, who saves a post  *)
(* has one.                                                                *)
(***************************************************************************)
Delivering == [at : {"fail", "actor", "post", "object"}, a : Activity]

Fetching ==
    [at : {"get"}, u : Uris] \union [at : {"author", "store"}, u : Uris, signed : Times]

Sound(r) ==
    \/ r = Waiting
    \/ r \in Fetching
    \/ /\ r \in Delivering
       /\ r.at = "fail" <=> AboutNothing(r.a)
       /\ r.at \in {"actor", "post"} => r.a.object # Null

PostType == [signed : Times, delivered : BOOLEAN]

ObjectType == [canonical : Externals, state : {"processed", "failed"}]

(* Only the row of the failures without a name is about Nowhere.           *)
InboxTypeOK ==
    /\ clock \in Nat /\ deaths \in Nat
    /\ posts \in [Uris -> PostType \union {Null}]
    /\ objects \in [Externals -> ObjectType \union {Null}]
    /\ objects[Nowhere] # Null => objects[Nowhere].canonical = Nowhere
    /\ inbound \in [Processes -> Delivering \union Fetching \union {Waiting}]
    /\ \A p \in Processes : Sound(inbound[p])

(* A step of a process changes what this one serves.                       *)
LEMMA StepType ==
    ASSUME inbound \in [Processes -> Delivering \union Fetching \union {Waiting}],
           \A q \in Processes : Sound(inbound[q]),
           NEW p \in Processes, NEW r, Sound(r), Step(p, r)
    PROVE  /\ inbound' \in [Processes -> Delivering \union Fetching \union {Waiting}]
           /\ \A q \in Processes : inbound'[q] = IF q = p THEN r ELSE inbound[q]
           /\ \A q \in Processes : Sound(inbound'[q])
  <1>1. r \in Delivering \union Fetching \union {Waiting}
    BY DEF Sound
  <1>2. inbound' = [inbound EXCEPT ![p] = r]
    BY DEF Step
  <1>3. \A q \in Processes : inbound'[q] = IF q = p THEN r ELSE inbound[q]
    BY <1>2
  <1> QED BY <1>1, <1>2, <1>3

(* What a label says of a sound request.                                   *)
LEMMA Labelled ==
    ASSUME NEW p \in Processes, Sound(inbound[p])
    PROVE  /\ inbound[p].at \in {"fail", "actor", "post", "object"} =>
                inbound[p] \in Delivering
           /\ inbound[p].at = "get" => inbound[p] \in [at : {"get"}, u : Uris]
           /\ inbound[p].at \in {"author", "store"} =>
                inbound[p] \in [at : {"author", "store"}, u : Uris, signed : Times]
           /\ inbound[p].at = "idle" => inbound[p] = Waiting
  BY DEF Sound, Waiting, Delivering, Fetching

(* An activity that is about something has a name and an object.           *)
LEMMA Names ==
    ASSUME NEW a \in Activity
    PROVE  /\ ~AboutNothing(a) => /\ NameOf(a) \in Externals \ {Nowhere}
                                  /\ ObjectOf(a) \in Externals \ {Nowhere}
           /\ AboutNothing(a) => Fallback(a) = Nowhere
           /\ a.object # Null => a.object \in Uris /\ ObjectOf(a) = a.object
  BY InboxAssumption, NameAssumption DEF Activity, NameOf, ObjectOf, AboutNothing, Fallback, Externals

LEMMA WindowIsPositive == Window \in Nat
  BY InboxAssumption DEF Window

LEMMA EnterType ==
    ASSUME objects \in [Externals -> ObjectType \union {Null}],
           NEW name \in Externals, NEW uri \in Externals,
           NEW outcome \in {"processed", "failed"}, Enter(name, uri, outcome)
    PROVE  /\ objects' \in [Externals -> ObjectType \union {Null}]
           /\ \A e \in Externals : objects'[e] =
                 IF e = name THEN [canonical |-> uri, state |-> outcome] ELSE objects[e]
  BY DEF Enter, ObjectType

LEMMA NowhereIsExternal == Nowhere \in Externals
  BY DEF Externals

LEMMA InboxTypeStep == InboxTypeOK /\ [InboxNext]_inboxVars => InboxTypeOK'
  <1> SUFFICES ASSUME InboxTypeOK, [InboxNext]_inboxVars PROVE InboxTypeOK'
      OBVIOUS
  <1> USE DEF At, Done
  <1>0. Sound(Waiting)
    BY DEF Sound
  <1>1. ASSUME NEW p \in Processes, Arrive(p) PROVE InboxTypeOK'
    <2>1. PICK a \in Activity :
              Step(p, [at |-> IF AboutNothing(a) THEN "fail"
                              ELSE IF a.note /\ a.object # Null THEN "actor" ELSE "object",
                       a |-> a])
      BY <1>1 DEF Arrive
    <2>2. Sound([at |-> IF AboutNothing(a) THEN "fail"
                        ELSE IF a.note /\ a.object # Null THEN "actor" ELSE "object",
                 a |-> a])
      BY DEF Sound, Delivering
    <2> QED BY <1>1, <2>1, <2>2, StepType DEF Arrive, InboxTypeOK
  <1>2. ASSUME NEW p \in Processes, SaveActor(p) PROVE InboxTypeOK'
    <2>1. inbound[p] \in Delivering /\ inbound[p].a.object # Null
      BY <1>2, Labelled DEF SaveActor, InboxTypeOK, Sound, Waiting, Fetching
    <2>2. Sound([inbound[p] EXCEPT !.at = "post"])
      BY <2>1 DEF Sound, Delivering, AboutNothing
    <2> QED BY <1>2, <2>2, StepType DEF SaveActor, InboxTypeOK
  <1>3. ASSUME NEW p \in Processes, SavePost(p) PROVE InboxTypeOK'
    <2>1. inbound[p] \in Delivering /\ inbound[p].a.object # Null
      BY <1>3, Labelled DEF SavePost, InboxTypeOK, Sound, Waiting, Fetching
    <2>2. Sound([inbound[p] EXCEPT !.at = "object"])
      BY <2>1 DEF Sound, Delivering, AboutNothing
    <2>3. [signed |-> inbound[p].a.signed, delivered |-> TRUE] \in PostType
      BY <2>1 DEF Delivering, Activity, PostType
    <2>4. posts' \in [Uris -> PostType \union {Null}]
      BY <1>3, <2>3 DEF SavePost, InboxTypeOK
    <2> QED BY <1>3, <2>2, <2>4, StepType DEF SavePost, InboxTypeOK
  <1>4. ASSUME NEW p \in Processes, SaveObject(p) PROVE InboxTypeOK'
    <2>1. inbound[p] \in Delivering /\ ~AboutNothing(inbound[p].a)
      BY <1>4, Labelled DEF SaveObject, InboxTypeOK, Sound, Waiting, Fetching
    <2>2. /\ NameOf(inbound[p].a) \in Externals \ {Nowhere}
          /\ ObjectOf(inbound[p].a) \in Externals \ {Nowhere}
      BY <2>1, Names DEF Delivering
    <2>3. /\ objects' \in [Externals -> ObjectType \union {Null}]
          /\ objects'[Nowhere] = objects[Nowhere]
      BY <1>4, <2>2, EnterType, NowhereIsExternal DEF SaveObject, InboxTypeOK
    <2> QED BY <1>0, <1>4, <2>3, StepType DEF SaveObject, InboxTypeOK
  <1>5. ASSUME NEW p \in Processes, SaveFailed(p) PROVE InboxTypeOK'
    <2>1. inbound[p] \in Delivering /\ AboutNothing(inbound[p].a)
      BY <1>5, Labelled DEF SaveFailed, InboxTypeOK, Sound, Waiting, Fetching
    <2>2. Fallback(inbound[p].a) = Nowhere
      BY <2>1, Names DEF Delivering
    <2>3. /\ objects' \in [Externals -> ObjectType \union {Null}]
          /\ objects'[Nowhere] # Null => objects'[Nowhere].canonical = Nowhere
      <3>1. CASE UNCHANGED objects
        BY <3>1 DEF InboxTypeOK
      <3>2. CASE Enter(Nowhere, Nowhere, "failed")
        <4>1. objects'[Nowhere] = [canonical |-> Nowhere, state |-> "failed"]
          BY <3>2, EnterType, NowhereIsExternal DEF InboxTypeOK
        <4>2. objects'[Nowhere].canonical = Nowhere
          BY <4>1
        <4>3. objects' \in [Externals -> ObjectType \union {Null}]
          BY <3>2, EnterType, NowhereIsExternal DEF InboxTypeOK
        <4> QED BY <4>2, <4>3
      <3> QED BY <1>5, <2>2, <3>1, <3>2 DEF SaveFailed
    <2> QED BY <1>0, <1>5, <2>3, StepType DEF SaveFailed, InboxTypeOK
  <1>6. ASSUME NEW p \in Processes, Fetch(p) PROVE InboxTypeOK'
    <2>1. PICK u \in Uris : Step(p, [at |-> "get", u |-> u])
      BY <1>6 DEF Fetch
    <2>2. Sound([at |-> "get", u |-> u])
      BY DEF Sound, Fetching
    <2> QED BY <1>6, <2>1, <2>2, StepType DEF Fetch, InboxTypeOK
  <1>7. ASSUME NEW p \in Processes, Document(p) PROVE InboxTypeOK'
    <2>1. CASE Done(p)
      BY <1>0, <1>7, <2>1, StepType DEF Document, InboxTypeOK
    <2>2. ASSUME NEW t \in Times,
                 Step(p, [at |-> "author", u |-> inbound[p].u, signed |-> t])
          PROVE  InboxTypeOK'
      <3>1. Sound([at |-> "author", u |-> inbound[p].u, signed |-> t])
        BY <1>7, Labelled DEF Document, InboxTypeOK, Sound, Fetching
      <3> QED BY <1>7, <2>2, <3>1, StepType DEF Document, InboxTypeOK
    <2> QED BY <1>7, <2>1, <2>2 DEF Document
  <1>8. ASSUME NEW p \in Processes, FetchAuthor(p) PROVE InboxTypeOK'
    <2>1. Sound([inbound[p] EXCEPT !.at = "store"])
      BY <1>8, Labelled DEF FetchAuthor, InboxTypeOK, Sound, Fetching
    <2> QED BY <1>0, <1>8, <2>1, StepType DEF FetchAuthor, InboxTypeOK
  <1>9. ASSUME NEW p \in Processes, StorePost(p) PROVE InboxTypeOK'
    <2>1. inbound[p] \in [at : {"author", "store"}, u : Uris, signed : Times]
      BY <1>9, Labelled DEF StorePost, InboxTypeOK
    <2>2. [signed |-> inbound[p].signed, delivered |-> FALSE] \in PostType
      BY <2>1 DEF PostType
    <2>3. posts' \in [Uris -> PostType \union {Null}]
      BY <1>9, <2>2 DEF StorePost, InboxTypeOK
    <2> QED BY <1>0, <1>9, <2>3, StepType DEF StorePost, InboxTypeOK
  <1>10. ASSUME NEW p \in Processes, Perish(p) PROVE InboxTypeOK'
    BY <1>0, <1>10, StepType DEF Perish, InboxTypeOK
  <1>11. CASE SetAllowed \/ Pass \/ UNCHANGED inboxVars
    BY <1>11 DEF SetAllowed, Pass, inboxVars, InboxTypeOK
  <1> QED
    BY <1>1, <1>2, <1>3, <1>4, <1>5, <1>6, <1>7, <1>8, <1>9, <1>10, <1>11 DEF InboxNext

LEMMA InboxTypeInit == InboxInit => InboxTypeOK
  <1> SUFFICES ASSUME InboxInit PROVE InboxTypeOK
      OBVIOUS
  <1>1. \A p \in Processes : Sound(inbound[p])
    BY DEF InboxInit, Sound
  <1> QED BY <1>1, NowhereIsExternal DEF InboxInit, InboxTypeOK

-----------------------------------------------------------------------------
(* OnRecord.                                                               *)

Recorded(u) ==
    \/ \E e \in Externals : objects[e] # Null /\ objects[e].canonical = u
    \/ \E p \in Processes : At(p, "object") /\ ObjectOf(inbound[p].a) = u
    \/ u \in moved

Delivered(u) == posts[u] # Null /\ posts[u].delivered

LEMMA OnRecordParts == OnRecord <=> (deaths = 0 => \A u \in Uris : Delivered(u) => Recorded(u))
  BY DEF OnRecord, Recorded, Delivered

(* A request about to save an object is still about it after a step of     *)
(* another process, and after one of its own that is not that one.         *)
LEMMA StillRecorded ==
    ASSUME InboxTypeOK, NEW u \in Uris, Recorded(u), NEW p \in Processes,
           NEW r, Step(p, r), Sound(r), ~At(p, "object"), UNCHANGED <<objects, moved>>
    PROVE  Recorded(u)'
  <1>1. \A q \in Processes : inbound'[q] = IF q = p THEN r ELSE inbound[q]
    BY StepType DEF InboxTypeOK
  <1>2. ASSUME NEW q \in Processes, At(q, "object"), ObjectOf(inbound[q].a) = u
        PROVE  Recorded(u)'
    <2>1. inbound'[q] = inbound[q]
      BY <1>1, <1>2 DEF At
    <2> QED BY <1>2, <2>1 DEF Recorded, At, ObjectOf
  <1> QED BY <1>2 DEF Recorded

LEMMA InboxMoves ==
    ASSUME [Outbound \/ Inbound]_federationVars
    PROVE  [InboxNext]_inboxVars
  BY DEF Outbound, Inbound, federationVars

LEMMA RecordStep ==
    ASSUME InboxTypeOK, InboxTypeOK', [InboxNext]_inboxVars, OnRecord
    PROVE  OnRecord'
  <1> SUFFICES ASSUME deaths' = 0, NEW u \in Uris, Delivered(u)'
               PROVE  Recorded(u)'
      BY DEF OnRecord, Recorded, Delivered
  <1>0. deaths = 0 => (Delivered(u) => Recorded(u))
    BY OnRecordParts
  <1>w. Sound(Waiting)
    BY DEF Sound
  <1>k. ASSUME UNCHANGED <<posts, deaths, objects, moved>>, NEW p \in Processes, NEW r,
               Step(p, r), Sound(r), ~At(p, "object")
        PROVE  Recorded(u)'
    <2>1. Recorded(u)
      BY <1>0, <1>k DEF Delivered
    <2> QED BY <1>k, <2>1, StillRecorded
  <1>s. ASSUME NEW p \in Processes, \E r : Step(p, r) PROVE Sound(inbound'[p]) /\ Step(p, inbound'[p])
    BY <1>s DEF Step, InboxTypeOK
  <1>1. ASSUME NEW p \in Processes,
               Arrive(p) \/ SaveActor(p) \/ Fetch(p) \/ Document(p) \/ FetchAuthor(p)
        PROVE  Recorded(u)'
    <2>1. \E r : Step(p, r)
      BY <1>1 DEF Arrive, SaveActor, Fetch, Document, FetchAuthor, Done
    <2>2. ~At(p, "object") /\ UNCHANGED <<posts, deaths, objects, moved>>
      BY <1>1 DEF Arrive, SaveActor, Fetch, Document, FetchAuthor, At
    <2> QED BY <1>k, <1>s, <2>1, <2>2
  <1>2. ASSUME NEW p \in Processes, SavePost(p) PROVE Recorded(u)'
    <2>1. inbound[p] \in Delivering /\ inbound[p].a.object # Null
      BY <1>2, Labelled DEF SavePost, At, InboxTypeOK, Sound, Waiting, Fetching
    <2>2. CASE u = inbound[p].a.object
      <3>1. inbound'[p] = [inbound[p] EXCEPT !.at = "object"]
        BY <1>2 DEF SavePost, Step, InboxTypeOK
      <3>2. inbound'[p].at = "object" /\ inbound'[p].a = inbound[p].a
        BY <2>1, <3>1 DEF Delivering
      <3> QED BY <2>1, <2>2, <3>2 DEF Recorded, At, ObjectOf
    <2>3. CASE u # inbound[p].a.object
      <3>1. posts'[u] = posts[u]
        BY <1>2, <2>3 DEF SavePost, InboxTypeOK
      <3>2. Recorded(u)
        BY <1>0, <1>2, <3>1 DEF Delivered, SavePost
      <3>3. \E r : Step(p, r)
        BY <1>2 DEF SavePost
      <3> QED BY <1>2, <1>s, <3>2, <3>3, StillRecorded DEF SavePost, At
    <2> QED BY <2>2, <2>3
  <1>3. ASSUME NEW p \in Processes, StorePost(p) PROVE Recorded(u)'
    <2>1. inbound[p].u # u
      <3>1. inbound[p].u = u => posts'[u] = [signed |-> inbound[p].signed, delivered |-> FALSE]
        BY <1>3 DEF StorePost, InboxTypeOK
      <3> QED BY <3>1 DEF Delivered
    <2>2. posts'[u] = posts[u]
      BY <1>3, <2>1 DEF StorePost, InboxTypeOK
    <2>3. Recorded(u)
      BY <1>0, <1>3, <2>2 DEF Delivered, StorePost
    <2> QED BY <1>3, <1>w, <2>3, StillRecorded DEF StorePost, At, Done
  <1>4. ASSUME NEW p \in Processes, SaveObject(p) PROVE Recorded(u)'
    <2> DEFINE name == NameOf(inbound[p].a)
               uri == ObjectOf(inbound[p].a)
    <2>1. inbound[p] \in Delivering /\ ~AboutNothing(inbound[p].a)
      BY <1>4, Labelled DEF SaveObject, At, InboxTypeOK, Sound, Waiting, Fetching
    <2>2. name \in Externals \ {Nowhere} /\ uri \in Externals \ {Nowhere}
      BY <2>1, Names DEF Delivering
    <2>3. Recorded(u)
      BY <1>0, <1>4 DEF Delivered, SaveObject
    <2>4. \A q \in Processes \ {p} : inbound'[q] = inbound[q]
      BY <1>4 DEF SaveObject, Done, Step, InboxTypeOK
    <2>5. ASSUME NEW q \in Processes, At(q, "object"), ObjectOf(inbound[q].a) = u, q # p
          PROVE  Recorded(u)'
      <3>1. inbound'[q] = inbound[q]
        BY <2>4, <2>5
      <3> QED BY <2>5, <3>1 DEF Recorded, At, ObjectOf
    <2>6. CASE Taken(name, uri)
      <3>1. UNCHANGED <<objects, moved>>
        BY <1>4, <2>6 DEF SaveObject
      <3>2. CASE u = uri
        BY <2>6, <3>1, <3>2 DEF Taken, Recorded
      <3>3. CASE u # uri
        BY <2>3, <2>5, <3>1, <3>3 DEF Recorded
      <3> QED BY <3>2, <3>3
    <2>7. CASE ~Taken(name, uri)
      <3>1. /\ Enter(name, uri, "processed")
            /\ moved' = (moved \union Forgotten(name, uri)) \ {uri}
        BY <1>4, <2>7 DEF SaveObject
      <3>2. \A e \in Externals : objects'[e] =
                IF e = name THEN [canonical |-> uri, state |-> "processed"] ELSE objects[e]
        BY <2>2, <3>1, EnterType DEF InboxTypeOK
      <3>3. CASE u = uri
        <4>1. objects'[name] = [canonical |-> uri, state |-> "processed"]
          BY <2>2, <3>2
        <4>2. objects'[name] # Null
          BY <2>2, <4>1, NameAssumption
        <4> QED BY <2>2, <3>3, <4>1, <4>2 DEF Recorded
      <3>4. CASE u # uri
        <4>1. CASE \E e \in Externals : objects[e] # Null /\ objects[e].canonical = u
          <5>1. PICK e \in Externals : objects[e] # Null /\ objects[e].canonical = u
            BY <4>1
          <5>2. CASE e = name
            BY <3>1, <3>4, <5>1, <5>2 DEF Forgotten, Recorded
          <5>3. CASE e # name
            <6>1. objects'[e] = objects[e]
              BY <3>2, <5>3
            <6> QED BY <5>1, <6>1 DEF Recorded
          <5> QED BY <5>2, <5>3
        <4>2. CASE u \in moved
          BY <3>1, <3>4, <4>2 DEF Recorded
        <4> QED BY <2>3, <2>5, <3>4, <4>1, <4>2 DEF Recorded
      <3> QED BY <3>3, <3>4
    <2> QED BY <2>6, <2>7
  <1>5. ASSUME NEW p \in Processes, SaveFailed(p) PROVE Recorded(u)'
    <2>1. inbound[p] \in Delivering /\ AboutNothing(inbound[p].a)
      BY <1>5, Labelled DEF SaveFailed, At, InboxTypeOK, Sound, Waiting, Fetching
    <2>2. Fallback(inbound[p].a) = Nowhere
      BY <2>1, Names DEF Delivering
    <2>3. Recorded(u) /\ ~At(p, "object")
      BY <1>0, <1>5 DEF Delivered, SaveFailed, At
    <2>4. CASE UNCHANGED objects
      BY <1>5, <1>w, <2>3, <2>4, StillRecorded DEF SaveFailed, Done
    <2>5. CASE Enter(Nowhere, Nowhere, "failed")
      <3>1. \A e \in Externals : e # Nowhere => objects'[e] = objects[e]
        BY <2>5, EnterType, NowhereIsExternal DEF InboxTypeOK
      <3>2. ASSUME NEW e \in Externals, objects[e] # Null, objects[e].canonical = u
            PROVE  Recorded(u)'
        <4>1. e # Nowhere
          BY <3>2, NameAssumption DEF InboxTypeOK
        <4>2. objects'[e] = objects[e]
          BY <3>1, <4>1
        <4> QED BY <3>2, <4>2 DEF Recorded
      <3>3. \A q \in Processes \ {p} : inbound'[q] = inbound[q]
        BY <1>5 DEF SaveFailed, Done, Step, InboxTypeOK
      <3>4. ASSUME NEW q \in Processes, At(q, "object"), ObjectOf(inbound[q].a) = u
            PROVE  Recorded(u)'
        <4>1. inbound'[q] = inbound[q]
          BY <2>3, <3>3, <3>4
        <4> QED BY <3>4, <4>1 DEF Recorded, At, ObjectOf
      <3>5. moved' = moved
        BY <1>5 DEF SaveFailed
      <3> QED BY <2>3, <3>2, <3>4, <3>5 DEF Recorded
    <2> QED BY <1>5, <2>2, <2>4, <2>5 DEF SaveFailed
  <1>6. ASSUME NEW p \in Processes, Perish(p) PROVE FALSE
    BY <1>6 DEF Perish, InboxTypeOK
  <1>7. CASE SetAllowed \/ Pass \/ UNCHANGED inboxVars
    <2>1. UNCHANGED <<posts, deaths, objects, moved, inbound>>
      BY <1>7 DEF SetAllowed, Pass, inboxVars
    <2>2. Recorded(u)
      BY <1>0, <2>1 DEF Delivered
    <2> QED BY <2>1, <2>2 DEF Recorded, At, ObjectOf
  <1> QED
    BY <1>1, <1>2, <1>3, <1>4, <1>5, <1>6, <1>7 DEF InboxNext

(***************************************************************************)
(* OnRecord, for any number of activities, processes and repeated sends:   *)
(* what was accepted and delivered is on record.                           *)
(***************************************************************************)
THEOREM DeliveriesAreOnRecord == FederationSpec => []OnRecord
  <1>1. FederationInit => InboxTypeOK /\ OnRecord
    BY InboxTypeInit DEF FederationInit, InboxInit, OnRecord
  <1>2. InboxTypeOK /\ OnRecord /\ [Outbound \/ Inbound]_federationVars
        => InboxTypeOK' /\ OnRecord'
    <2> SUFFICES ASSUME InboxTypeOK, OnRecord, [Outbound \/ Inbound]_federationVars
                 PROVE  InboxTypeOK' /\ OnRecord'
        OBVIOUS
    <2>1. [InboxNext]_inboxVars
      BY InboxMoves
    <2> QED BY <2>1, InboxTypeStep, RecordStep
  <1> QED BY <1>1, <1>2, PTL DEF FederationSpec

-----------------------------------------------------------------------------
(* ReplayIsRecent.                                                         *)

SignedAt(r) == IF r \in Delivering THEN r.a.signed ELSE r.signed

(* What is served was signed about now, and a tick earlier if overdue.     *)
Recent(p) ==
    inbound[p].at \notin {"idle", "get"} =>
        /\ SignedAt(inbound[p]) - clock <= Window
        /\ clock - SignedAt(inbound[p]) <= Window + 1
        /\ p \notin overdue => clock - SignedAt(inbound[p]) <= Window

RecentInv ==
    /\ \A u \in Uris : posts[u] # Null => posts[u].signed - clock <= Window
    /\ \A p \in Processes : Recent(p)

LEMMA SignedAtType ==
    ASSUME NEW r, Sound(r), r.at \notin {"idle", "get"}
    PROVE  SignedAt(r) \in Nat
  <1>1. CASE r \in Delivering
    BY <1>1, InboxAssumption DEF SignedAt, Delivering, Activity
  <1>2. CASE r \notin Delivering
    <2>1. r \in [at : {"author", "store"}, u : Uris, signed : Times]
      BY <1>2 DEF Sound, Fetching, Waiting
    <2> QED BY <1>2, <2>1, InboxAssumption DEF SignedAt
  <1> QED BY <1>1, <1>2

LEMMA RecentStep ==
    ASSUME InboxTypeOK, InboxTypeOK', [InboxNext]_inboxVars, RecentInv
    PROVE  RecentInv'
  <1>. USE WindowIsPositive
  <1>w. Sound(Waiting)
    BY DEF Sound
  (* A step of one process, not of the clock, after which it is recent.    *)
  <1>k. ASSUME NEW p \in Processes, NEW r, Step(p, r), Sound(r),
               UNCHANGED clock, overdue \subseteq overdue' \union {p},
               r.at \notin {"idle", "get"} =>
                   /\ SignedAt(r) - clock <= Window
                   /\ clock - SignedAt(r) <= Window + 1
                   /\ p \notin overdue' => clock - SignedAt(r) <= Window
        PROVE  \A q \in Processes : Recent(q)'
    <2>1. \A q \in Processes : inbound'[q] = IF q = p THEN r ELSE inbound[q]
      BY <1>k, StepType DEF InboxTypeOK
    <2>2. Recent(p)'
      <3>1. inbound'[p] = r
        BY <2>1
      <3> QED BY <1>k, <3>1 DEF Recent, SignedAt, Window
    <2>3. ASSUME NEW q \in Processes, q # p PROVE Recent(q)'
      <3>1. inbound'[q] = inbound[q] /\ Recent(q)
        BY <2>1, <2>3 DEF RecentInv
      <3> QED BY <1>k, <2>3, <3>1 DEF Recent, SignedAt, Window
    <2> QED BY <2>2, <2>3
  <1>p. ASSUME UNCHANGED <<posts, clock>>
        PROVE  \A u \in Uris : posts'[u] # Null => posts'[u].signed - clock' <= Window
    BY <1>p DEF RecentInv
  <1>v. RecentInv' <=>
          /\ \A u \in Uris : posts'[u] # Null => posts'[u].signed - clock' <= Window
          /\ \A p \in Processes : Recent(p)'
    BY DEF RecentInv, Window
  <1>1. ASSUME NEW p \in Processes, Arrive(p) PROVE RecentInv'
    <2>1. PICK a \in Activity : Fresh(a.signed) /\
              Step(p, [at |-> IF AboutNothing(a) THEN "fail"
                              ELSE IF a.note /\ a.object # Null THEN "actor" ELSE "object",
                       a |-> a])
      BY <1>1 DEF Arrive
    <2> DEFINE r == [at |-> IF AboutNothing(a) THEN "fail"
                            ELSE IF a.note /\ a.object # Null THEN "actor" ELSE "object",
                     a |-> a]
    <2>2. Sound(r) /\ r \in Delivering
      BY DEF Sound, Delivering
    <2>3. SignedAt(r) = a.signed
      BY <2>2 DEF SignedAt
    <2>4. a.signed \in Nat
      BY InboxAssumption DEF Activity
    <2>5. /\ SignedAt(r) - clock <= Window
          /\ clock - SignedAt(r) <= Window + 1
          /\ clock - SignedAt(r) <= Window
      BY <2>1, <2>3, <2>4 DEF Fresh, InboxTypeOK
    <2>6. Step(p, r) /\ UNCHANGED <<posts, clock>> /\ overdue \subseteq overdue' \union {p}
      BY <1>1, <2>1 DEF Arrive
    <2> HIDE DEF r
    <2> QED BY <1>k, <1>p, <1>v, <2>2, <2>5, <2>6
  <1>2. ASSUME NEW p \in Processes, SaveActor(p) PROVE RecentInv'
    <2>1. inbound[p] \in Delivering /\ inbound[p].a.object # Null
      BY <1>2, Labelled DEF SaveActor, At, InboxTypeOK, Sound, Waiting, Fetching
    <2> DEFINE r == [inbound[p] EXCEPT !.at = "post"]
    <2>2. /\ Sound(r) /\ r \in Delivering /\ SignedAt(r) = SignedAt(inbound[p])
      BY <2>1 DEF Sound, Delivering, AboutNothing, SignedAt
    <2>3. Recent(p) /\ inbound[p].at = "actor"
      BY <1>2 DEF RecentInv, SaveActor, At
    <2>4. Step(p, r) /\ UNCHANGED <<posts, clock, overdue>>
      BY <1>2 DEF SaveActor
    <2> HIDE DEF r
    <2> QED BY <1>k, <1>p, <1>v, <2>2, <2>3, <2>4 DEF Recent
  <1>3. ASSUME NEW p \in Processes, SavePost(p) PROVE RecentInv'
    <2>1. inbound[p] \in Delivering /\ inbound[p].a.object # Null
      BY <1>3, Labelled DEF SavePost, At, InboxTypeOK, Sound, Waiting, Fetching
    <2> DEFINE r == [inbound[p] EXCEPT !.at = "object"]
    <2>2. /\ Sound(r) /\ r \in Delivering /\ SignedAt(r) = SignedAt(inbound[p])
          /\ SignedAt(r) = inbound[p].a.signed
      BY <2>1 DEF Sound, Delivering, AboutNothing, SignedAt
    <2>3. Recent(p) /\ inbound[p].at = "post"
      BY <1>3 DEF RecentInv, SavePost, At
    <2>4. Step(p, r) /\ UNCHANGED <<clock, overdue>>
      BY <1>3 DEF SavePost
    <2>5. \A u \in Uris : posts'[u] # Null => posts'[u].signed - clock' <= Window
      <3>1. \A u \in Uris : posts'[u] = IF u = inbound[p].a.object
                THEN [signed |-> inbound[p].a.signed, delivered |-> TRUE] ELSE posts[u]
        BY <1>3 DEF SavePost, InboxTypeOK
      <3>2. inbound[p].a.signed - clock <= Window
        BY <2>2, <2>3 DEF Recent
      <3> QED BY <2>4, <3>1, <3>2 DEF RecentInv
    <2> HIDE DEF r
    <2> QED BY <1>k, <1>v, <2>2, <2>3, <2>4, <2>5 DEF Recent
  <1>4. ASSUME NEW p \in Processes, SaveObject(p) \/ SaveFailed(p) \/ Perish(p)
        PROVE  RecentInv'
    <2>1. Step(p, Waiting) /\ UNCHANGED <<posts, clock, overdue>>
      BY <1>4 DEF SaveObject, SaveFailed, Perish, Done
    <2> QED BY <1>k, <1>p, <1>v, <1>w, <2>1 DEF Waiting
  <1>5. ASSUME NEW p \in Processes, Fetch(p) PROVE RecentInv'
    <2>1. PICK u \in Uris : Step(p, [at |-> "get", u |-> u])
      BY <1>5 DEF Fetch
    <2>2. Sound([at |-> "get", u |-> u])
      BY DEF Sound, Fetching
    <2>3. UNCHANGED <<posts, clock>> /\ overdue \subseteq overdue' \union {p}
      BY <1>5 DEF Fetch
    <2> QED BY <1>k, <1>p, <1>v, <2>1, <2>2, <2>3
  <1>6. ASSUME NEW p \in Processes, Document(p) PROVE RecentInv'
    <2>0. UNCHANGED <<posts, clock, overdue>>
      BY <1>6 DEF Document
    <2>1. CASE Done(p)
      BY <1>k, <1>p, <1>v, <1>w, <2>0, <2>1 DEF Done, Waiting
    <2>2. ASSUME NEW t \in Times, Fresh(t),
                 Step(p, [at |-> "author", u |-> inbound[p].u, signed |-> t])
          PROVE  RecentInv'
      <3> DEFINE r == [at |-> "author", u |-> inbound[p].u, signed |-> t]
      <3>1. Sound(r)
        BY <1>6, Labelled DEF Document, At, InboxTypeOK, Sound, Fetching
      <3>2. SignedAt(r) = t
        BY DEF SignedAt, Delivering
      <3>3. /\ SignedAt(r) - clock <= Window
            /\ clock - SignedAt(r) <= Window + 1
            /\ clock - SignedAt(r) <= Window
        BY <2>2, <3>2, InboxAssumption DEF Fresh, InboxTypeOK
      <3>4. Step(p, r)
        BY <2>2
      <3> HIDE DEF r
      <3> QED BY <1>k, <1>p, <1>v, <2>0, <3>1, <3>3, <3>4
    <2> QED BY <1>6, <2>1, <2>2 DEF Document
  <1>7. ASSUME NEW p \in Processes, FetchAuthor(p) PROVE RecentInv'
    <2>0. UNCHANGED <<posts, clock, overdue>>
      BY <1>7 DEF FetchAuthor
    <2>1. CASE Done(p)
      BY <1>k, <1>p, <1>v, <1>w, <2>0, <2>1 DEF Done, Waiting
    <2>2. CASE Step(p, [inbound[p] EXCEPT !.at = "store"])
      <3> DEFINE r == [inbound[p] EXCEPT !.at = "store"]
      <3>0. inbound[p] \in [at : {"author", "store"}, u : Uris, signed : Times]
        BY <1>7, Labelled DEF FetchAuthor, At, InboxTypeOK
      <3>1. Sound(r) /\ SignedAt(r) = SignedAt(inbound[p])
        BY <3>0 DEF Sound, Fetching, SignedAt, Delivering
      <3>2. Recent(p) /\ inbound[p].at = "author"
        BY <1>7 DEF RecentInv, FetchAuthor, At
      <3>3. Step(p, r)
        BY <2>2
      <3> HIDE DEF r
      <3> QED BY <1>k, <1>p, <1>v, <2>0, <3>1, <3>2, <3>3 DEF Recent
    <2> QED BY <1>7, <2>1, <2>2 DEF FetchAuthor
  <1>8. ASSUME NEW p \in Processes, StorePost(p) PROVE RecentInv'
    <2>0. inbound[p] \in [at : {"author", "store"}, u : Uris, signed : Times]
      BY <1>8, Labelled DEF StorePost, At, InboxTypeOK
    <2>1. SignedAt(inbound[p]) = inbound[p].signed
      BY <2>0 DEF SignedAt, Delivering
    <2>2. Recent(p) /\ inbound[p].at = "store"
      BY <1>8 DEF RecentInv, StorePost, At
    <2>3. \A u \in Uris : posts'[u] # Null => posts'[u].signed - clock' <= Window
      <3>1. \A u \in Uris : posts'[u] = IF u = inbound[p].u
                THEN [signed |-> inbound[p].signed, delivered |-> FALSE] ELSE posts[u]
        BY <1>8 DEF StorePost, InboxTypeOK
      <3>2. inbound[p].signed - clock <= Window
        BY <2>1, <2>2 DEF Recent
      <3> QED BY <1>8, <3>1, <3>2 DEF RecentInv, StorePost
    <2>4. Step(p, Waiting) /\ UNCHANGED <<clock, overdue>>
      BY <1>8 DEF StorePost, Done
    <2> QED BY <1>k, <1>v, <1>w, <2>3, <2>4 DEF Waiting
  <1>9. CASE Pass
    <2>1. clock' = clock + 1 /\ UNCHANGED <<posts, inbound>> /\ overdue' = Serving
          /\ overdue \intersect Serving = {}
      BY <1>9 DEF Pass
    <2>2. \A u \in Uris : posts'[u] # Null => posts'[u].signed - clock' <= Window
      <3> SUFFICES ASSUME NEW u \in Uris, posts'[u] # Null
                   PROVE  posts'[u].signed - clock' <= Window
          OBVIOUS
      <3>1. posts'[u] = posts[u] /\ posts[u] # Null
        BY <2>1
      <3>2. posts[u].signed \in Nat /\ posts[u].signed - clock <= Window
        BY <3>1, InboxAssumption DEF RecentInv, InboxTypeOK, PostType
      <3> QED BY <2>1, <3>1, <3>2 DEF InboxTypeOK
    <2>3. ASSUME NEW p \in Processes PROVE Recent(p)'
      <3>1. CASE At(p, "idle")
        BY <2>1, <3>1 DEF Recent, At
      <3>2. CASE ~At(p, "idle")
        <4>1. p \notin overdue /\ p \in overdue'
          BY <2>1, <3>2 DEF Serving
        <4>2. Recent(p) /\ Sound(inbound[p])
          BY DEF RecentInv, InboxTypeOK
        <4>3. CASE inbound[p].at = "get"
          BY <2>1, <4>3 DEF Recent
        <4>4. CASE inbound[p].at # "get"
          <5>1. SignedAt(inbound[p]) \in Nat
            BY <3>2, <4>2, <4>4, SignedAtType DEF At
          <5>2. SignedAt(inbound[p]) - clock <= Window /\ clock - SignedAt(inbound[p]) <= Window
            BY <3>2, <4>1, <4>2, <4>4 DEF Recent, At
          <5>3. SignedAt(inbound[p]) - (clock + 1) <= Window /\ (clock + 1) - SignedAt(inbound[p]) <= Window + 1
            BY <5>1, <5>2 DEF InboxTypeOK
          <5> QED BY <2>1, <4>1, <5>3 DEF Recent, SignedAt, Window
        <4> QED BY <4>3, <4>4
      <3> QED BY <3>1, <3>2
    <2> QED BY <1>v, <2>2, <2>3
  <1>10. CASE SetAllowed \/ UNCHANGED inboxVars
    BY <1>10 DEF SetAllowed, inboxVars, RecentInv, Recent, SignedAt, Window
  <1> QED
    BY <1>1, <1>2, <1>3, <1>4, <1>5, <1>6, <1>7, <1>8, <1>9, <1>10 DEF InboxNext

LEMMA ReplayStep ==
    ASSUME InboxTypeOK, RecentInv, [InboxNext]_inboxVars, NEW u \in Uris, posts[u] # Null
    PROVE  posts[u].signed - posts'[u].signed <= 2 * Window + 1
  <1>. USE WindowIsPositive
  <1>1. posts[u].signed \in Nat /\ clock \in Nat /\ posts[u].signed - clock <= Window
    BY InboxAssumption DEF RecentInv, InboxTypeOK, PostType
  <1>2. CASE posts'[u] = posts[u]
    BY <1>1, <1>2
  <1>3. ASSUME NEW t \in Nat, clock - t <= Window + 1, posts'[u].signed = t
        PROVE  posts[u].signed - posts'[u].signed <= 2 * Window + 1
    BY <1>1, <1>3
  <1>4. ASSUME NEW p \in Processes, SavePost(p)
        PROVE  posts[u].signed - posts'[u].signed <= 2 * Window + 1
    <2>1. inbound[p] \in Delivering /\ inbound[p].at = "post"
      BY <1>4, Labelled DEF SavePost, At, InboxTypeOK
    <2>2. /\ Recent(p) /\ SignedAt(inbound[p]) = inbound[p].a.signed
          /\ inbound[p].a.signed \in Nat
      BY <2>1, InboxAssumption DEF RecentInv, SignedAt, Delivering, Activity
    <2>3. clock - inbound[p].a.signed <= Window + 1
      BY <2>1, <2>2 DEF Recent
    <2>4. posts'[u] = IF u = inbound[p].a.object
              THEN [signed |-> inbound[p].a.signed, delivered |-> TRUE] ELSE posts[u]
      BY <1>4 DEF SavePost, InboxTypeOK
    <2>5. posts'[u] = posts[u] \/ posts'[u].signed = inbound[p].a.signed
      BY <2>4
    <2> QED BY <1>2, <1>3, <2>2, <2>3, <2>5
  <1>5. ASSUME NEW p \in Processes, StorePost(p)
        PROVE  posts[u].signed - posts'[u].signed <= 2 * Window + 1
    <2>1. /\ inbound[p] \in [at : {"author", "store"}, u : Uris, signed : Times]
          /\ inbound[p].at = "store"
      BY <1>5, Labelled DEF StorePost, At, InboxTypeOK
    <2>2. /\ Recent(p) /\ SignedAt(inbound[p]) = inbound[p].signed
          /\ inbound[p].signed \in Nat
      BY <2>1, InboxAssumption DEF RecentInv, SignedAt, Delivering
    <2>3. clock - inbound[p].signed <= Window + 1
      BY <2>1, <2>2 DEF Recent
    <2>4. posts'[u] = IF u = inbound[p].u
              THEN [signed |-> inbound[p].signed, delivered |-> FALSE] ELSE posts[u]
      BY <1>5 DEF StorePost, InboxTypeOK
    <2>5. posts'[u] = posts[u] \/ posts'[u].signed = inbound[p].signed
      BY <2>4
    <2> QED BY <1>2, <1>3, <2>2, <2>3, <2>5
  <1>6. ASSUME UNCHANGED posts
        PROVE  posts[u].signed - posts'[u].signed <= 2 * Window + 1
    BY <1>2, <1>6
  <1> QED
    BY <1>4, <1>5, <1>6
       DEF InboxNext, inboxVars, Arrive, SaveActor, SaveObject, SaveFailed, Fetch, Document,
           FetchAuthor, Perish, SetAllowed, Pass

(***************************************************************************)
(* ReplayIsRecent, for any window, number of processes and copies held     *)
(* back: no replay undoes more than two windows of a post's history.       *)
(***************************************************************************)
THEOREM ReplaysAreRecent == FederationSpec => ReplayIsRecent
  <1>1. FederationInit => InboxTypeOK /\ RecentInv
    BY InboxTypeInit DEF FederationInit, InboxInit, RecentInv, Recent, Waiting
  <1>2. InboxTypeOK /\ RecentInv /\ [Outbound \/ Inbound]_federationVars
        => InboxTypeOK' /\ RecentInv'
           /\ \A u \in Uris : posts[u] # Null =>
                 posts[u].signed - posts'[u].signed <= 2 * Window + 1
    <2> SUFFICES ASSUME InboxTypeOK, RecentInv, [Outbound \/ Inbound]_federationVars
                 PROVE  InboxTypeOK' /\ RecentInv'
                        /\ \A u \in Uris : posts[u] # Null =>
                              posts[u].signed - posts'[u].signed <= 2 * Window + 1
        OBVIOUS
    <2>1. [InboxNext]_inboxVars
      BY InboxMoves
    <2> QED BY <2>1, InboxTypeStep, RecentStep, ReplayStep
  <1> QED BY <1>1, <1>2, PTL DEF FederationSpec, ReplayIsRecent
=============================================================================
