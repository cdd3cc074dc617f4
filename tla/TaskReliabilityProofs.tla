----------------------- MODULE TaskReliabilityProofs -----------------------
(***************************************************************************)
(* Theorems about TaskReliability and, from TaskTypeStep on, about its     *)
(* composition with the post tasks and the dead-letter commands, for every *)
(* set of workers and of operators, every set of requests, every number of *)
(* commands and every pair of retry limits of each task.                   *)
(***************************************************************************)
EXTENDS DeadLetter, FiniteSetTheorems, TLAPS

(* What every conjunct of Next is about, to split a step into its cases.   *)
LEMMA NextCases ==
    ASSUME Next
    PROVE  \/ \E id \in TaskIds : Request(id)
           \/ \E w \in Workers : Receive(w)
           \/ \E w \in Workers : CreateExecution(w)
           \/ \E w \in Workers : FetchExecution(w)
           \/ \E w \in Workers : ResumeExecution(w)
           \/ \E w \in Workers : Deliver(w)
           \/ \E w \in Workers : MarkSucceeded(w)
           \/ \E w \in Workers : MarkFailed(w)
           \/ \E w \in Workers : RecordFailure(w)
           \/ \E w \in Workers : AutoRetry(w)
           \/ \E w \in Workers : Crash(w)
           \/ \E w \in Workers : DatabaseError(w)
  BY DEF Next, Body

(* A message that autoretry publishes is a message, and keeps its id.      *)
LEMMA RetryMessage ==
    ASSUME task \in Tasks, NEW m \in Message, m.retries < RetryLimit[task]
    PROVE  /\ [m EXCEPT !.retries = @ + 1] \in Message
           /\ [m EXCEPT !.retries = @ + 1].id = m.id
           /\ [m EXCEPT !.retries = @ + 1].retries = m.retries + 1
  BY LimitAssumption DEF Message

LEMMA TypeStep == TypeOK /\ [Next]_vars => TypeOK'
  <1> SUFFICES ASSUME TypeOK, [Next]_vars PROVE TypeOK'
      OBVIOUS
  <1> USE LimitAssumption, NoMsgAssumption DEF TypeOK, Goto, Finish, PC,
          BeforeGuard, AfterGuard, Status
  <1>1. ASSUME NEW id \in TaskIds, Request(id) PROVE TypeOK'
    BY <1>1 DEF Request, Message
  <1>2. ASSUME NEW w \in Workers, Receive(w) PROVE TypeOK'
    BY <1>2 DEF Receive
  <1>3. ASSUME NEW w \in Workers, CreateExecution(w) PROVE TypeOK'
    BY <1>3 DEF CreateExecution
  <1>4. ASSUME NEW w \in Workers, FetchExecution(w) PROVE TypeOK'
    BY <1>4 DEF FetchExecution
  <1>5. ASSUME NEW w \in Workers, ResumeExecution(w) PROVE TypeOK'
    BY <1>5 DEF ResumeExecution
  <1>6. ASSUME NEW w \in Workers, Deliver(w) PROVE TypeOK'
    BY <1>6 DEF Deliver
  <1>7. ASSUME NEW w \in Workers, MarkSucceeded(w) PROVE TypeOK'
    BY <1>7 DEF MarkSucceeded
  <1>8. ASSUME NEW w \in Workers, MarkFailed(w) PROVE TypeOK'
    BY <1>8 DEF MarkFailed
  <1>9. ASSUME NEW w \in Workers, RecordFailure(w) PROVE TypeOK'
    <2>1. pc[w] # "idle" /\ msg[w] \in Message
      BY <1>9 DEF RecordFailure
    <2>2. FailureOf(msg[w], msg[w].retries >= RecordedMax[task]) \in FailureRow
      BY <2>1 DEF FailureOf, FailureRow, Message
    <2>3. FailureOf(msg[w], TRUE) \in FailureRow
      BY <2>1 DEF FailureOf, FailureRow, Message
    <2> QED BY <1>9, <2>1, <2>2, <2>3 DEF RecordFailure
  <1>10. ASSUME NEW w \in Workers, AutoRetry(w) PROVE TypeOK'
    <2>1. msg[w] \in Message
      BY <1>10 DEF AutoRetry
    <2>2. queue' \subseteq Message
      BY <1>10, <2>1, RetryMessage DEF AutoRetry
    <2> QED BY <1>10, <2>2 DEF AutoRetry
  <1>11. ASSUME NEW w \in Workers, Crash(w) PROVE TypeOK'
    BY <1>11 DEF Crash
  <1>12. ASSUME NEW w \in Workers, DatabaseError(w) PROVE TypeOK'
    BY <1>12 DEF DatabaseError
  <1>13. CASE UNCHANGED vars
    BY <1>13 DEF vars
  <1> QED
    BY <1>1, <1>2, <1>3, <1>4, <1>5, <1>6, <1>7, <1>8, <1>9, <1>10, <1>11,
       <1>12, <1>13, NextCases

(* Which task it is about never changes.                                   *)
LEMMA TaskKept == [Next]_vars => task' = task
  BY NextCases DEF vars, Request, Receive, CreateExecution, FetchExecution,
     ResumeExecution, Deliver, MarkSucceeded, MarkFailed, RecordFailure, AutoRetry,
     Crash, DatabaseError

(***************************************************************************)
(* Every state of the task layer is well typed; in particular a worker     *)
(* holds a message exactly while it is inside a task body.                 *)
(***************************************************************************)
THEOREM TypeCorrect == Spec => []TypeOK
  <1>1. Init => TypeOK
    BY LimitAssumption DEF Init, Begin, TypeOK, PC, BeforeGuard, Status, Tasks
  <1> QED BY <1>1, TypeStep, PTL DEF Spec

-----------------------------------------------------------------------------
(* The post tasks add two labels; what follows needs no more than this of  *)
(* the types, and so holds with the e-mail tasks and with theirs.          *)
TaskTypeOK ==
    /\ task \in Tasks
    /\ status \in Status
    /\ failures \subseteq FailureRow
    /\ queue \subseteq Message
    /\ issued \subseteq TaskIds
    /\ pc \in [Workers -> PC \union Busy]
    /\ msg \in [Workers -> Message \union {NoMsg}]
    /\ \A w \in Workers : pc[w] = "idle" <=> msg[w] = NoMsg
    /\ effects \in Nat
    /\ faults \in 0..MaxFaults

COROLLARY TaskTypeCorrect == Spec => []TaskTypeOK
  <1>1. TypeOK => TaskTypeOK
    BY DEF TypeOK, TaskTypeOK
  <1> QED BY <1>1, TypeCorrect, PTL

-----------------------------------------------------------------------------

(***************************************************************************)
(* What the refinement needs of a reachable state: a success is recorded,  *)
(* or about to be, only when the effect has been performed.                *)
(***************************************************************************)
SuccessHasEffect ==
    /\ status = "succeeded" => effects > 0
    /\ \A w \in Workers : pc[w] = "mark" => effects > 0

LEMMA SuccessStep ==
    TaskTypeOK /\ SuccessHasEffect /\ [Next]_vars => SuccessHasEffect'
  <1> SUFFICES ASSUME TaskTypeOK, SuccessHasEffect, [Next]_vars
               PROVE  SuccessHasEffect'
      OBVIOUS
  <1> USE DEF TaskTypeOK, SuccessHasEffect, Goto, Finish
  <1>1. ASSUME NEW id \in TaskIds, Request(id) PROVE SuccessHasEffect'
    BY <1>1 DEF Request
  <1>2. ASSUME NEW w \in Workers, Receive(w) PROVE SuccessHasEffect'
    BY <1>2 DEF Receive
  <1>3. ASSUME NEW w \in Workers, CreateExecution(w) PROVE SuccessHasEffect'
    BY <1>3 DEF CreateExecution
  <1>4. ASSUME NEW w \in Workers, FetchExecution(w) PROVE SuccessHasEffect'
    BY <1>4 DEF FetchExecution
  <1>5. ASSUME NEW w \in Workers, ResumeExecution(w) PROVE SuccessHasEffect'
    BY <1>5 DEF ResumeExecution
  <1>6. ASSUME NEW w \in Workers, Deliver(w) PROVE SuccessHasEffect'
    BY <1>6 DEF Deliver
  <1>7. ASSUME NEW w \in Workers, MarkSucceeded(w) PROVE SuccessHasEffect'
    BY <1>7 DEF MarkSucceeded
  <1>8. ASSUME NEW w \in Workers, MarkFailed(w) PROVE SuccessHasEffect'
    BY <1>8 DEF MarkFailed
  <1>9. ASSUME NEW w \in Workers, RecordFailure(w) PROVE SuccessHasEffect'
    BY <1>9 DEF RecordFailure
  <1>10. ASSUME NEW w \in Workers, AutoRetry(w) PROVE SuccessHasEffect'
    BY <1>10 DEF AutoRetry
  <1>11. ASSUME NEW w \in Workers, Crash(w) PROVE SuccessHasEffect'
    BY <1>11 DEF Crash
  <1>12. ASSUME NEW w \in Workers, DatabaseError(w) PROVE SuccessHasEffect'
    BY <1>12 DEF DatabaseError
  <1>13. CASE UNCHANGED vars
    BY <1>13 DEF vars
  <1> QED
    BY <1>1, <1>2, <1>3, <1>4, <1>5, <1>6, <1>7, <1>8, <1>9, <1>10, <1>11,
       <1>12, <1>13, NextCases

(* Once latched, no step performs the effect or undoes the latch.          *)
LEMMA LatchedStep ==
    ASSUME TaskTypeOK, Latched, [Next]_vars
    PROVE  Latched' /\ effects' = effects
  <1> USE DEF TaskTypeOK, Latched, Harmless, BeforeGuard, Goto, Finish
  <1>1. ASSUME NEW id \in TaskIds, Request(id)
        PROVE  Latched' /\ effects' = effects
    BY <1>1 DEF Request
  <1>2. ASSUME NEW w \in Workers, Receive(w)
        PROVE  Latched' /\ effects' = effects
    BY <1>2 DEF Receive
  <1>3. ASSUME NEW w \in Workers, CreateExecution(w)
        PROVE  Latched' /\ effects' = effects
    BY <1>3 DEF CreateExecution
  <1>4. ASSUME NEW w \in Workers, FetchExecution(w)
        PROVE  Latched' /\ effects' = effects
    BY <1>4 DEF FetchExecution
  <1>5. ASSUME NEW w \in Workers,
               \/ ResumeExecution(w) \/ Deliver(w)
               \/ MarkSucceeded(w) \/ MarkFailed(w)
        PROVE  FALSE
    BY <1>5 DEF ResumeExecution, Deliver, MarkSucceeded, MarkFailed
  <1>6. ASSUME NEW w \in Workers, RecordFailure(w)
        PROVE  Latched' /\ effects' = effects
    BY <1>6 DEF RecordFailure
  <1>7. ASSUME NEW w \in Workers, AutoRetry(w)
        PROVE  Latched' /\ effects' = effects
    BY <1>7 DEF AutoRetry
  <1>8. ASSUME NEW w \in Workers, Crash(w)
        PROVE  Latched' /\ effects' = effects
    BY <1>8 DEF Crash
  <1>9. ASSUME NEW w \in Workers, DatabaseError(w)
        PROVE  Latched' /\ effects' = effects
    BY <1>9 DEF DatabaseError
  <1>10. CASE UNCHANGED vars
    BY <1>10 DEF vars
  <1> QED
    BY <1>1, <1>2, <1>3, <1>4, <1>5, <1>6, <1>7, <1>8, <1>9, <1>10, NextCases

(* An attempt performs the effect at most once, and is then about to       *)
(* record how it went: the job cannot be latched by that step.             *)
LEMMA EffectStep ==
    ASSUME TaskTypeOK, [Next]_vars
    PROVE  effects' = effects \/ (effects' = effects + 1 /\ ~Latched')
  <1> USE DEF TaskTypeOK
  <1>1. ASSUME NEW w \in Workers, Deliver(w)
        PROVE  effects' = effects \/ (effects' = effects + 1 /\ ~Latched')
    <2>1. CASE effects' = effects
      BY <2>1
    <2>2. CASE effects' # effects
      <3>1. effects' = effects + 1 /\ pc'[w] \in {"mark", "fail"}
        BY <1>1, <2>2 DEF Deliver, Goto
      <3> QED BY <3>1 DEF Latched, Harmless, BeforeGuard
    <2> QED BY <2>1, <2>2
  <1>2. ASSUME \A w \in Workers : ~Deliver(w)
        PROVE  effects' = effects
    BY <1>2, NextCases DEF Request, Receive, CreateExecution,
       FetchExecution, ResumeExecution, MarkSucceeded, MarkFailed,
       RecordFailure, AutoRetry, Crash, DatabaseError, vars
  <1> QED BY <1>1, <1>2

(***************************************************************************)
(* The e-mail tasks implement the abstract idempotent job: nothing but the *)
(* attempts that were already past the skip test can repeat an e-mail      *)
(* whose success has been recorded.                                        *)
(***************************************************************************)
THEOREM TasksImplementJob == Spec => ImplementsJob
  <1>1. Init => SuccessHasEffect /\ Job!JobInit
    BY DEF Init, Begin, SuccessHasEffect, Latched, Job!JobInit
  <1>2. TaskTypeOK /\ SuccessHasEffect /\ SuccessHasEffect' /\ [Next]_vars
            => [Job!JobNext]_(Job!jobVars)
    <2> SUFFICES ASSUME TaskTypeOK, SuccessHasEffect', [Next]_vars
                 PROVE  [Job!JobNext]_(Job!jobVars)
        OBVIOUS
    <2>1. CASE Latched
      BY <2>1, LatchedStep DEF Job!jobVars
    <2>2. CASE ~Latched /\ effects' # effects
      BY <2>2, EffectStep DEF Job!JobNext, Job!Perform
    <2>3. CASE ~Latched /\ effects' = effects /\ Latched'
      <3>1. effects > 0
        BY <2>3 DEF SuccessHasEffect, Latched
      <3> QED BY <2>3, <3>1 DEF Job!JobNext, Job!Latch
    <2>4. CASE ~Latched /\ effects' = effects /\ ~Latched'
      BY <2>4 DEF Job!jobVars
    <2> QED BY <2>1, <2>2, <2>3, <2>4
  <1>3. Spec => [](TaskTypeOK /\ SuccessHasEffect)
    BY <1>1, TaskTypeCorrect, SuccessStep, PTL DEF Spec
  <1> QED BY <1>1, <1>2, <1>3, PTL DEF Spec, ImplementsJob, Job!JobSpec

-----------------------------------------------------------------------------

(***************************************************************************)
(* OneIncarnation is inductive with one more fact: whatever is waiting,    *)
(* being worked on or recorded was requested.                              *)
(***************************************************************************)
Requested ==
    /\ \A m \in queue : m.id \in issued
    /\ \A w \in Working : msg[w].id \in issued
    /\ \A f \in failures : f.id \in issued

OneIncarnationInv == OneIncarnation /\ Requested

(* Steps that move no message: working on it, or losing it.                *)
LEMMA SettlingStep ==
    ASSUME TaskTypeOK, OneIncarnationInv, NEW w \in Workers,
           queue' = queue, issued' = issued,
           \/ msg' = msg \/ msg' = [msg EXCEPT ![w] = NoMsg],
           \A f \in failures' : f \in failures \/ f.id \in issued
    PROVE  OneIncarnationInv'
  BY DEF TaskTypeOK, OneIncarnationInv, OneIncarnation, Requested, Working

LEMMA OneIncarnationStep ==
    TaskTypeOK /\ OneIncarnationInv /\ [Next]_vars => OneIncarnationInv'
  <1> SUFFICES ASSUME TaskTypeOK, OneIncarnationInv, [Next]_vars
               PROVE  OneIncarnationInv'
      OBVIOUS
  <1>1. ASSUME NEW id \in TaskIds, Request(id) PROVE OneIncarnationInv'
    BY <1>1 DEF Request, TaskTypeOK, OneIncarnationInv, OneIncarnation, Requested,
                Working
  <1>2. ASSUME NEW w \in Workers, Receive(w) PROVE OneIncarnationInv'
    <2>1. PICK m \in queue : queue' = queue \ {m} /\ msg' = [msg EXCEPT ![w] = m]
      BY <1>2 DEF Receive
    <2>2. m # NoMsg /\ msg[w] = NoMsg
      BY <1>2, NoMsgAssumption DEF Receive, TaskTypeOK
    <2>3. Working' = Working \union {w} /\ w \notin Working
      BY <2>1, <2>2 DEF Working, TaskTypeOK
    <2>4. /\ msg'[w] = m
          /\ \A v \in Working : msg'[v] = msg[v]
      BY <2>1, <2>3 DEF TaskTypeOK, Working
    <2>5. OneIncarnation'
      BY <2>1, <2>3, <2>4 DEF OneIncarnationInv, OneIncarnation
    <2>6. Requested'
      BY <1>2, <2>1, <2>3, <2>4 DEF OneIncarnationInv, Requested, Receive
    <2> QED BY <2>5, <2>6 DEF OneIncarnationInv
  <1>3. ASSUME NEW w \in Workers,
               \/ CreateExecution(w) \/ FetchExecution(w) \/ ResumeExecution(w)
               \/ Deliver(w) \/ MarkSucceeded(w) \/ MarkFailed(w)
               \/ Crash(w) \/ DatabaseError(w)
        PROVE  OneIncarnationInv'
    <2>1. /\ queue' = queue /\ issued' = issued /\ failures' = failures
          /\ msg' = msg \/ msg' = [msg EXCEPT ![w] = NoMsg]
      BY <1>3 DEF CreateExecution, FetchExecution, ResumeExecution, Deliver,
         MarkSucceeded, MarkFailed, Crash, DatabaseError, Finish
    <2> QED BY <2>1, SettlingStep
  <1>4. ASSUME NEW w \in Workers, RecordFailure(w) PROVE OneIncarnationInv'
    <2>1. w \in Working /\ msg[w].id \in issued
      BY <1>4 DEF RecordFailure, TaskTypeOK, Working, OneIncarnationInv, Requested
    <2>2. \A f \in failures' : f \in failures \/ f.id \in issued
      BY <1>4, <2>1 DEF RecordFailure, FailureOf
    <2>3. /\ queue' = queue /\ issued' = issued
          /\ msg' = msg \/ msg' = [msg EXCEPT ![w] = NoMsg]
      BY <1>4 DEF RecordFailure, Finish
    <2> QED BY <2>2, <2>3, SettlingStep
  <1>5. ASSUME NEW w \in Workers, AutoRetry(w) PROVE OneIncarnationInv'
    <2>1. w \in Working /\ msg[w] \in Message
      BY <1>5 DEF AutoRetry, TaskTypeOK, Working
    <2>2. msg' = [msg EXCEPT ![w] = NoMsg] /\ Working' = Working \ {w}
      BY <1>5 DEF AutoRetry, Finish, TaskTypeOK, Working
    <2>3. issued' = issued /\ failures' = failures
      BY <1>5 DEF AutoRetry
    <2>4. CASE queue' = queue
      BY <2>2, <2>3, <2>4, SettlingStep
    <2>5. CASE queue' # queue
      <3> DEFINE again == [msg[w] EXCEPT !.retries = @ + 1]
      <3>1. queue' = queue \union {again} /\ again.id = msg[w].id
        BY <1>5, <2>1, <2>5, RetryMessage DEF AutoRetry
      <3> HIDE DEF again
      <3>2. \A v \in Working' : v # w /\ v \in Working /\ msg'[v] = msg[v]
        BY <2>2 DEF TaskTypeOK, Working
      <3>3. OneIncarnation'
        BY <2>1, <3>1, <3>2 DEF OneIncarnationInv, OneIncarnation
      <3>4. Requested'
        BY <2>1, <2>3, <3>1, <3>2 DEF OneIncarnationInv, Requested
      <3> QED BY <3>3, <3>4 DEF OneIncarnationInv
    <2> QED BY <2>4, <2>5
  <1>6. CASE UNCHANGED vars
    BY <1>6 DEF vars, OneIncarnationInv, OneIncarnation, Requested, Working
  <1> QED BY <1>1, <1>2, <1>3, <1>4, <1>5, <1>6, NextCases

(***************************************************************************)
(* Attempts of one request never overlap, whatever dies or fails.          *)
(***************************************************************************)
THEOREM AttemptsDoNotOverlap == Spec => []OneIncarnation
  <1>1. Init => OneIncarnationInv
    BY DEF Init, Begin, OneIncarnationInv, OneIncarnation, Requested, Working
  <1>2. OneIncarnationInv => OneIncarnation
    BY DEF OneIncarnationInv
  <1> QED BY <1>1, <1>2, TaskTypeCorrect, OneIncarnationStep, PTL DEF Spec

-----------------------------------------------------------------------------

(***************************************************************************)
(* Why a terminal row is final: its request has no attempt left at all, as *)
(* after a refused recipient.  The other terminal rows are at or above the *)
(* limit they were compared with, which closes their request only if       *)
(* autoretry goes no further than that limit.                              *)
(***************************************************************************)
AtLimit(f) == f.retries >= RecordedMax[task]

TerminalInv ==
    \A f \in failures : f.terminal =>
        AtLimit(f) \/ \A m \in Live : m.id # f.id

(* A failure row says of its attempt what it was given.                    *)
LEMMA RowOfAttempt ==
    ASSUME NEW m, NEW limit
    PROVE  /\ FailureOf(m, m.retries >= limit).retries = m.retries
           /\ FailureOf(m, m.retries >= limit).terminal => m.retries >= limit
  BY Zenon DEF FailureOf

(* Steps that bring no attempt of a recorded request to life.              *)
LEMMA NoNewAttempt ==
    ASSUME TerminalInv,
           failures' = failures, task' = task,
           \A m \in Live' : m \in Live \/ \A f \in failures : m.id # f.id
    PROVE  TerminalInv'
  BY DEF TerminalInv, AtLimit

LEMMA TerminalStep ==
    TaskTypeOK /\ OneIncarnationInv /\ TerminalInv /\ [Next]_vars => TerminalInv'
  <1> SUFFICES ASSUME TaskTypeOK, OneIncarnationInv, TerminalInv, [Next]_vars
               PROVE  TerminalInv'
      OBVIOUS
  <1>t. task' = task
    BY TaskKept
  <1>1. ASSUME NEW id \in TaskIds, Request(id) PROVE TerminalInv'
    <2>1. \A m \in Live' : m \in Live \/ \A f \in failures : m.id # f.id
      BY <1>1 DEF Request, Live, Working, OneIncarnationInv, Requested
    <2> QED BY <1>1, <2>1, <1>t, NoNewAttempt DEF Request
  <1>2. ASSUME NEW w \in Workers, Receive(w) PROVE TerminalInv'
    <2>1. \A m \in Live' : m \in Live
      BY <1>2 DEF Receive, Live, Working, TaskTypeOK
    <2> QED BY <1>2, <2>1, <1>t, NoNewAttempt DEF Receive
  <1>3. ASSUME NEW w \in Workers,
               \/ CreateExecution(w) \/ FetchExecution(w) \/ ResumeExecution(w)
               \/ Deliver(w) \/ MarkSucceeded(w) \/ MarkFailed(w)
               \/ Crash(w) \/ DatabaseError(w)
        PROVE  TerminalInv'
    <2>1. /\ queue' = queue /\ failures' = failures
          /\ msg' = msg \/ msg' = [msg EXCEPT ![w] = NoMsg]
      BY <1>3 DEF CreateExecution, FetchExecution, ResumeExecution, Deliver,
         MarkSucceeded, MarkFailed, Crash, DatabaseError, Finish
    <2>2. \A m \in Live' : m \in Live
      BY <2>1 DEF Live, Working, TaskTypeOK
    <2> QED BY <2>1, <2>2, <1>t, NoNewAttempt
  <1>4. ASSUME NEW w \in Workers, RecordFailure(w) PROVE TerminalInv'
    <2>1. w \in Working /\ msg[w] \in Message
      BY <1>4 DEF RecordFailure, TaskTypeOK, Working
    <2>2. CASE pc[w] = "row"
      <3> DEFINE row == FailureOf(msg[w], msg[w].retries >= RecordedMax[task])
      <3>1. failures' = failures \union {row}
        BY <1>4, <2>2 DEF RecordFailure
      <3>2. Live' = Live
        BY <1>4, <2>2 DEF RecordFailure, Live, Working
      <3>3. /\ row.retries = msg[w].retries
            /\ row.terminal => msg[w].retries >= RecordedMax[task]
        BY RowOfAttempt
      <3>4. row.terminal => AtLimit(row)
        BY <3>3 DEF AtLimit
      <3> HIDE DEF row
      <3> QED BY <1>t, <3>1, <3>2, <3>4 DEF TerminalInv, AtLimit
    <2>3. CASE pc[w] = "refusedRow"
      <3>1. failures' = failures \union {FailureOf(msg[w], TRUE)}
        BY <1>4, <2>3 DEF RecordFailure
      <3>2. queue' = queue /\ msg' = [msg EXCEPT ![w] = NoMsg]
        BY <1>4, <2>3 DEF RecordFailure, Finish
      <3>3. \A m \in Live' : m \in Live /\ m.id # msg[w].id
        BY <2>1, <3>2 DEF Live, Working, TaskTypeOK, OneIncarnationInv,
                          OneIncarnation
      <3> QED BY <1>t, <3>1, <3>3 DEF TerminalInv, AtLimit, FailureOf
    <2> QED BY <1>4, <2>2, <2>3 DEF RecordFailure
  <1>5. ASSUME NEW w \in Workers, AutoRetry(w) PROVE TerminalInv'
    <2>1. w \in Working /\ msg[w] \in Message /\ msg[w] \in Live
      BY <1>5 DEF AutoRetry, TaskTypeOK, Working, Live
    <2>2. failures' = failures /\ msg' = [msg EXCEPT ![w] = NoMsg]
      BY <1>5 DEF AutoRetry, Finish
    <2>3. CASE queue' = queue
      BY <2>2, <2>3, <1>t, NoNewAttempt DEF Live, Working, TaskTypeOK
    <2>4. CASE queue' # queue
      <3> DEFINE again == [msg[w] EXCEPT !.retries = @ + 1]
      <3>1. /\ queue' = queue \union {again} /\ again.id = msg[w].id
            /\ msg[w].retries < RetryLimit[task]
        BY <1>5, <2>1, <2>4, RetryMessage DEF AutoRetry
      <3> HIDE DEF again
      <3>2. \A m \in Live' : m = again \/ m \in Live
        BY <2>2, <3>1 DEF Live, Working, TaskTypeOK
      <3> QED BY <1>t, <2>1, <2>2, <3>1, <3>2 DEF TerminalInv, AtLimit
    <2> QED BY <2>3, <2>4
  <1>6. CASE UNCHANGED vars
    BY <1>t, <1>6 DEF vars, TerminalInv, AtLimit, Live, Working
  <1> QED BY <1>1, <1>2, <1>3, <1>4, <1>5, <1>6, NextCases

-----------------------------------------------------------------------------
(***************************************************************************)
(* The composition that the operators work on: DeadLetter.  To the task    *)
(* layer a step of it is either one of its own or one that only moves a    *)
(* worker through the body of a post task, or counts a fault.              *)
(***************************************************************************)
PostMove ==
    \/ \E w \in Workers : PostBody(w)
    \/ \E w \in Workers : PostDatabaseError(w)
    \/ \E o \in Operators : CommandDies(o)

LEMMA MoveOrNext ==
    ASSUME TaskTypeOK, [DeadLetterNext]_deadLetterVars
    PROVE  [Next]_vars \/ PostMove
  <1>1. ASSUME Publish PROVE Next
    <2>1. (CHOOSE id \in TaskIds : id \notin issued) \in TaskIds
      BY <1>1 DEF Publish, TaskTypeOK
    <2> QED BY <1>1, <2>1 DEF Publish, Next
  <1>2. ASSUME NEW w \in Workers, Attempt(w) \/ Trouble(w)
        PROVE  Next \/ PostMove
    BY <1>2 DEF Attempt, Trouble, Next, PostMove
  <1>3. ASSUME NEW o \in Operators, Operate(o)
        PROVE  [Next]_vars \/ PostMove
    <2>1. CASE ReplayPublish(o)
      BY <1>1, <2>1 DEF ReplayPublish
    <2>2. CASE CommandDies(o)
      BY <2>2 DEF PostMove
    <2>3. CASE ReplayRead(o) \/ ReplaySave(o) \/ DismissRead(o) \/ DismissSave(o)
      BY <2>3 DEF ReplayRead, ReplaySave, DismissRead, DismissSave
    <2> QED BY <1>3, <2>1, <2>2, <2>3 DEF Operate
  <1>4. CASE CooldownOver
    BY <1>4 DEF CooldownOver
  <1>5. CASE UNCHANGED deadLetterVars
    BY <1>5 DEF deadLetterVars
  <1>6. ASSUME NEW w \in Workers, Receive(w) PROVE Next
    BY <1>6 DEF Next
  <1> QED BY <1>1, <1>2, <1>3, <1>4, <1>5, <1>6 DEF DeadLetterNext

(* What the moves leave to the task layer, and where they lead.            *)
LEMMA MoveFrame == PostMove => UNCHANGED <<task, status, failures, queue, issued, msg>>
  BY DEF PostMove, PostBody, Read, Save, Tell, PostDatabaseError, CommandDies

LEMMA TaskTypeStep == TaskTypeOK /\ ([Next]_vars \/ PostMove) => TaskTypeOK'
  <1> SUFFICES ASSUME TaskTypeOK, [Next]_vars \/ PostMove PROVE TaskTypeOK'
      OBVIOUS
  <1> USE LimitAssumption, NoMsgAssumption DEF TaskTypeOK, Goto, Finish, PC, Busy,
          BeforeGuard, AfterGuard, Status
  <1>1. ASSUME NEW id \in TaskIds, Request(id) PROVE TaskTypeOK'
    BY <1>1 DEF Request, Message
  <1>2. ASSUME NEW w \in Workers, Receive(w) PROVE TaskTypeOK'
    BY <1>2 DEF Receive
  <1>3. ASSUME NEW w \in Workers, CreateExecution(w) PROVE TaskTypeOK'
    BY <1>3 DEF CreateExecution
  <1>4. ASSUME NEW w \in Workers, FetchExecution(w) PROVE TaskTypeOK'
    BY <1>4 DEF FetchExecution
  <1>5. ASSUME NEW w \in Workers, ResumeExecution(w) PROVE TaskTypeOK'
    BY <1>5 DEF ResumeExecution
  <1>6. ASSUME NEW w \in Workers, Deliver(w) PROVE TaskTypeOK'
    BY <1>6 DEF Deliver
  <1>7. ASSUME NEW w \in Workers, MarkSucceeded(w) PROVE TaskTypeOK'
    BY <1>7 DEF MarkSucceeded
  <1>8. ASSUME NEW w \in Workers, MarkFailed(w) PROVE TaskTypeOK'
    BY <1>8 DEF MarkFailed
  <1>9. ASSUME NEW w \in Workers, RecordFailure(w) PROVE TaskTypeOK'
    <2>1. pc[w] # "idle" /\ msg[w] \in Message
      BY <1>9 DEF RecordFailure
    <2>2. FailureOf(msg[w], msg[w].retries >= RecordedMax[task]) \in FailureRow
      BY <2>1 DEF FailureOf, FailureRow, Message
    <2>3. FailureOf(msg[w], TRUE) \in FailureRow
      BY <2>1 DEF FailureOf, FailureRow, Message
    <2> QED BY <1>9, <2>1, <2>2, <2>3 DEF RecordFailure
  <1>10. ASSUME NEW w \in Workers, AutoRetry(w) PROVE TaskTypeOK'
    <2>1. msg[w] \in Message
      BY <1>10 DEF AutoRetry
    <2>2. queue' \subseteq Message
      BY <1>10, <2>1, RetryMessage DEF AutoRetry
    <2> QED BY <1>10, <2>2 DEF AutoRetry
  <1>11. ASSUME NEW w \in Workers, Crash(w) PROVE TaskTypeOK'
    BY <1>11 DEF Crash
  <1>12. ASSUME NEW w \in Workers, DatabaseError(w) PROVE TaskTypeOK'
    BY <1>12 DEF DatabaseError
  <1>13. CASE UNCHANGED vars
    BY <1>13 DEF vars
  <1>14. ASSUME NEW w \in Workers, Read(w) PROVE TaskTypeOK'
    BY <1>14 DEF Read
  <1>15. ASSUME NEW w \in Workers, Save(w) PROVE TaskTypeOK'
    BY <1>15 DEF Save
  <1>16. ASSUME NEW w \in Workers, Tell(w) PROVE TaskTypeOK'
    BY <1>16 DEF Tell
  <1>17. ASSUME NEW w \in Workers, PostDatabaseError(w) PROVE TaskTypeOK'
    BY <1>17 DEF PostDatabaseError
  <1>18. ASSUME NEW o \in Operators, CommandDies(o) PROVE TaskTypeOK'
    BY <1>18 DEF CommandDies
  <1> QED
    BY <1>1, <1>2, <1>3, <1>4, <1>5, <1>6, <1>7, <1>8, <1>9, <1>10, <1>11, <1>12, <1>13,
       <1>14, <1>15, <1>16, <1>17, <1>18, NextCases DEF PostMove, PostBody

LEMMA TaskTypeInit == task \in Tasks /\ Begin => TaskTypeOK
  BY LimitAssumption DEF Begin, TaskTypeOK, PC, BeforeGuard, Status

(* Only finitely many task ids have ever been requested.                   *)
LEMMA FinitelyMany ==
    ASSUME TaskTypeOK, IsFiniteSet(issued), [Next]_vars \/ PostMove
    PROVE  IsFiniteSet(issued')
  <1>1. ASSUME NEW id \in TaskIds, Request(id) PROVE IsFiniteSet(issued')
    BY <1>1, FS_AddElement DEF Request
  <1>2. CASE issued' = issued
    BY <1>2
  <1> QED
    BY <1>1, <1>2, NextCases, MoveFrame DEF vars, Receive, CreateExecution, FetchExecution,
       ResumeExecution, Deliver, MarkSucceeded, MarkFailed, RecordFailure, AutoRetry,
       Crash, DatabaseError

LEMMA OneIncarnationMove ==
    OneIncarnationInv /\ PostMove => OneIncarnationInv'
  BY MoveFrame DEF OneIncarnationInv, OneIncarnation, Requested, Working

(***************************************************************************)
(* What the task layer's own theorems rest on, in the composition.         *)
(***************************************************************************)
TaskInv == TaskTypeOK /\ IsFiniteSet(issued) /\ OneIncarnationInv

LEMMA TaskInvStep ==
    TaskInv /\ [DeadLetterNext]_deadLetterVars => TaskInv'
  BY MoveOrNext, TaskTypeStep, FinitelyMany, OneIncarnationStep, OneIncarnationMove
     DEF TaskInv

LEMMA TaskInvInit == DeadLetterInit => TaskInv
  BY TaskTypeInit, FS_EmptySet
     DEF DeadLetterInit, TaskInv, Begin, OneIncarnationInv, OneIncarnation, Requested, Working

(* An attempt is retried as often as autoretry allows its task.            *)
WithinLimit == \A m \in Live : m.retries <= RetryLimit[task]

LEMMA WithinLimitStep ==
    TaskTypeOK /\ WithinLimit /\ ([Next]_vars \/ PostMove) => WithinLimit'
  <1> SUFFICES ASSUME TaskTypeOK, WithinLimit, [Next]_vars \/ PostMove
               PROVE  WithinLimit'
      OBVIOUS
  <1>t. task' = task /\ RetryLimit[task] \in Nat
    BY TaskKept, MoveFrame, LimitAssumption DEF TaskTypeOK
  <1>1. ASSUME NEW id \in TaskIds, Request(id) PROVE WithinLimit'
    <2> DEFINE first == [id |-> id, retries |-> 0]
    <2>1. \A m \in Live' : m \in Live \/ m = first
      BY <1>1 DEF Request, Live, Working
    <2>2. first.retries <= RetryLimit[task]
      BY <1>t
    <2> HIDE DEF first
    <2> QED BY <1>t, <2>1, <2>2 DEF WithinLimit
  <1>2. ASSUME NEW w \in Workers, AutoRetry(w) PROVE WithinLimit'
    <2>1. msg[w] \in Message /\ msg' = [msg EXCEPT ![w] = NoMsg]
      BY <1>2 DEF AutoRetry, Finish, TaskTypeOK
    <2>2. CASE queue' = queue
      BY <1>t, <2>1, <2>2 DEF WithinLimit, Live, Working, TaskTypeOK
    <2>3. CASE queue' # queue
      <3> DEFINE again == [msg[w] EXCEPT !.retries = @ + 1]
      <3>1. queue' = queue \union {again} /\ msg[w].retries < RetryLimit[task]
        BY <1>2, <2>3 DEF AutoRetry
      <3>2. again.retries <= RetryLimit[task]
        BY <1>t, <2>1, <3>1, RetryMessage DEF Message, TaskTypeOK
      <3> HIDE DEF again
      <3>3. \A m \in Live' : m \in Live \/ m = again
        BY <2>1, <3>1 DEF Live, Working, TaskTypeOK
      <3> QED BY <1>t, <3>2, <3>3 DEF WithinLimit
    <2> QED BY <2>2, <2>3
  <1>3. ASSUME NEW w \in Workers, Receive(w) PROVE WithinLimit'
    <2>1. Live' \subseteq Live
      BY <1>3 DEF Receive, Live, Working, TaskTypeOK
    <2> QED BY <1>t, <2>1 DEF WithinLimit
  <1>4. ASSUME queue' = queue,
               \/ msg' = msg
               \/ \E w \in Workers : msg' = [msg EXCEPT ![w] = NoMsg]
        PROVE  WithinLimit'
    <2>1. Live' \subseteq Live
      BY <1>4 DEF Live, Working, TaskTypeOK
    <2> QED BY <1>t, <2>1 DEF WithinLimit
  <1> QED
    BY <1>1, <1>2, <1>3, <1>4, NextCases, MoveFrame DEF vars, CreateExecution,
       FetchExecution, ResumeExecution, Deliver, MarkSucceeded, MarkFailed,
       RecordFailure, Crash, DatabaseError, Finish

(* A terminal row closes its request with the post tasks as well.          *)
LEMMA TerminalMove == TerminalInv /\ PostMove => TerminalInv'
  BY MoveFrame DEF TerminalInv, AtLimit, Live, Working

-----------------------------------------------------------------------------
(* The refinement of the abstract job, in the composition.                 *)

(* An attachment or a preview that is there was worked on.                 *)
WorkHasEffect == work = "processed" => effects > 0

LEMMA SuccessMove ==
    ASSUME TaskTypeOK, SuccessHasEffect, WorkHasEffect, PostMove
    PROVE  SuccessHasEffect' /\ WorkHasEffect'
  <1> USE DEF TaskTypeOK, SuccessHasEffect, WorkHasEffect, Goto
  <1>1. ASSUME NEW w \in Workers, Read(w) PROVE SuccessHasEffect' /\ WorkHasEffect'
    BY <1>1 DEF Read, postVars
  <1>2. ASSUME NEW w \in Workers, Save(w) PROVE SuccessHasEffect' /\ WorkHasEffect'
    BY <1>2 DEF Save
  <1>3. ASSUME NEW w \in Workers, Tell(w) PROVE SuccessHasEffect' /\ WorkHasEffect'
    BY <1>3 DEF Tell
  <1>4. ASSUME NEW w \in Workers, PostDatabaseError(w)
        PROVE  SuccessHasEffect' /\ WorkHasEffect'
    BY <1>4 DEF PostDatabaseError, postVars
  <1>5. ASSUME NEW o \in Operators, CommandDies(o)
        PROVE  SuccessHasEffect' /\ WorkHasEffect'
    BY <1>5 DEF CommandDies, postVars
  <1> QED BY <1>1, <1>2, <1>3, <1>4, <1>5 DEF PostMove, PostBody

(* A step of the task layer leaves the work alone and undoes no effect.    *)
LEMMA WorkKept ==
    ASSUME TaskTypeOK, [DeadLetterNext]_deadLetterVars, [Next]_vars
    PROVE  PostMove \/ (UNCHANGED postVars /\ effects' \in Nat /\ effects' >= effects)
  <1>1. effects' = effects \/ effects' = effects + 1
    BY EffectStep
  <1>2. effects' \in Nat /\ effects' >= effects
    BY <1>1 DEF TaskTypeOK
  <1>3. PostMove \/ UNCHANGED postVars
    BY DEF DeadLetterNext, deadLetterVars, Attempt, Trouble, Operate, PostMove, ReplayRead,
       ReplayPublish, ReplaySave, DismissRead, DismissSave, CooldownOver
  <1> QED BY <1>2, <1>3

LEMMA LatchedMove ==
    ASSUME TaskTypeOK, Latched, PostMove
    PROVE  Latched' /\ effects' = effects
  <1> USE DEF TaskTypeOK, Latched, Harmless, BeforeGuard, Goto
  <1>1. ASSUME NEW w \in Workers, PostBody(w) \/ PostDatabaseError(w) PROVE FALSE
    BY <1>1 DEF PostBody, Read, Save, Tell, PostDatabaseError
  <1>2. ASSUME NEW o \in Operators, CommandDies(o) PROVE Latched' /\ effects' = effects
    BY <1>2 DEF CommandDies
  <1> QED BY <1>1, <1>2 DEF PostMove

LEMMA EffectMove ==
    ASSUME TaskTypeOK, PostMove
    PROVE  effects' = effects \/ (effects' = effects + 1 /\ ~Latched')
  <1>1. ASSUME NEW w \in Workers, Save(w)
        PROVE  effects' = effects \/ (effects' = effects + 1 /\ ~Latched')
    <2>1. CASE effects' = effects
      BY <2>1
    <2>2. CASE effects' # effects
      <3>1. effects' = effects + 1 /\ pc'[w] = "mark"
        BY <1>1, <2>2 DEF Save, Goto, TaskTypeOK
      <3> QED BY <3>1 DEF Latched, Harmless, BeforeGuard
    <2> QED BY <2>1, <2>2
  <1>2. ASSUME \A w \in Workers : ~Save(w) PROVE effects' = effects
    BY <1>2 DEF PostMove, PostBody, Read, Tell, PostDatabaseError, CommandDies
  <1> QED BY <1>1, <1>2

(***************************************************************************)
(* ImplementsJob in the composition: an attachment or a link that was      *)
(* recorded as worked off is not worked on again, however often operators  *)
(* replay its failures.                                                    *)
(***************************************************************************)
THEOREM ReplayedTasksImplementJob == DeadLetterSpec => ImplementsJob
  <1> DEFINE Inv == TaskInv /\ SuccessHasEffect /\ WorkHasEffect
  <1>1. DeadLetterInit => Inv /\ Job!JobInit
    BY TaskInvInit
       DEF DeadLetterInit, Begin, PostInit, SuccessHasEffect, WorkHasEffect, Latched, Job!JobInit
  <1>2. Inv /\ [DeadLetterNext]_deadLetterVars => Inv' /\ [Job!JobNext]_(Job!jobVars)
    <2> SUFFICES ASSUME Inv, [DeadLetterNext]_deadLetterVars
                 PROVE  Inv' /\ [Job!JobNext]_(Job!jobVars)
        OBVIOUS
    <2>0. TaskTypeOK /\ ([Next]_vars \/ PostMove)
      BY MoveOrNext DEF TaskInv
    <2>1. SuccessHasEffect'
      BY <2>0, SuccessStep, SuccessMove
    <2>2. WorkHasEffect'
      BY <2>0, WorkKept, SuccessMove DEF WorkHasEffect, postVars, TaskTypeOK
    <2>3. [Job!JobNext]_(Job!jobVars)
      <3>1. CASE Latched
        BY <2>0, <3>1, LatchedStep, LatchedMove DEF Job!jobVars
      <3>2. CASE ~Latched /\ effects' # effects
        BY <2>0, <3>2, EffectStep, EffectMove DEF Job!JobNext, Job!Perform
      <3>3. CASE ~Latched /\ effects' = effects /\ Latched'
        <4>1. effects > 0
          BY <2>1, <3>3 DEF SuccessHasEffect, Latched
        <4> QED BY <3>3, <4>1 DEF Job!JobNext, Job!Latch
      <3>4. CASE ~Latched /\ effects' = effects /\ ~Latched'
        BY <3>4 DEF Job!jobVars
      <3> QED BY <3>1, <3>2, <3>3, <3>4
    <2> QED BY <2>1, <2>2, <2>3, TaskInvStep
  <1> QED BY <1>1, <1>2, PTL DEF DeadLetterSpec, ImplementsJob, Job!JobSpec

-----------------------------------------------------------------------------
(***************************************************************************)
(* The trail of an attempt.  The attempt that is about to be published     *)
(* again either has left its row or was cut short by a fault that nobody   *)
(* else has counted: a fault strikes one worker.                           *)
(***************************************************************************)
Missing(rows, id, n) == {k \in 0..(n - 1) : \A f \in rows : f.id = id => f.retries # k}

TrailInv ==
    /\ \A m \in Live : Cardinality(Missing(failures, m.id, m.retries)) <= faults
    /\ \A w \in Workers : pc[w] = "retry" =>
          Cardinality(Missing(failures, msg[w].id, msg[w].retries + 1)) <= faults

LEMMA MissingIsFinite ==
    ASSUME NEW rows, NEW id, NEW n \in Nat
    PROVE  IsFiniteSet(Missing(rows, id, n)) /\ Cardinality(Missing(rows, id, n)) \in Nat
  <1>1. IsFiniteSet(0..(n - 1))
    BY FS_Interval
  <1>2. Missing(rows, id, n) \subseteq 0..(n - 1)
    BY DEF Missing
  <1> QED BY <1>1, <1>2, FS_Subset, FS_CardinalityType

(* Rows are never taken away.                                              *)
LEMMA MissingShrinks ==
    ASSUME NEW rows, NEW more, rows \subseteq more, NEW id, NEW n \in Nat
    PROVE  Cardinality(Missing(more, id, n)) <= Cardinality(Missing(rows, id, n))
  <1>1. Missing(more, id, n) \subseteq Missing(rows, id, n)
    BY DEF Missing
  <1> QED BY <1>1, MissingIsFinite, FS_Subset

(* One attempt more is one row more to miss, if it left none.              *)
LEMMA MissingNext ==
    ASSUME NEW rows, NEW id, NEW n \in Nat
    PROVE  /\ Cardinality(Missing(rows, id, n + 1)) <= Cardinality(Missing(rows, id, n)) + 1
           /\ (\E f \in rows : f.id = id /\ f.retries = n) =>
                Missing(rows, id, n + 1) = Missing(rows, id, n)
  <1>1. Missing(rows, id, n + 1) \subseteq Missing(rows, id, n) \union {n}
    BY DEF Missing
  <1>2. /\ IsFiniteSet(Missing(rows, id, n) \union {n})
        /\ Cardinality(Missing(rows, id, n) \union {n}) <= Cardinality(Missing(rows, id, n)) + 1
    BY MissingIsFinite, FS_AddElement
  <1>3. Cardinality(Missing(rows, id, n + 1)) <= Cardinality(Missing(rows, id, n) \union {n})
    BY <1>1, <1>2, FS_Subset
  <1>4. /\ Cardinality(Missing(rows, id, n)) \in Nat
        /\ Cardinality(Missing(rows, id, n + 1)) \in Nat
        /\ Cardinality(Missing(rows, id, n) \union {n}) \in Nat
    BY <1>2, MissingIsFinite, FS_CardinalityType
  <1>5. ASSUME NEW f \in rows, f.id = id, f.retries = n
        PROVE  Missing(rows, id, n + 1) = Missing(rows, id, n)
    BY <1>5 DEF Missing
  <1> QED BY <1>2, <1>3, <1>4, <1>5

LEMMA LiveMessages == TaskTypeOK => Live \subseteq Message
  BY DEF TaskTypeOK, Live, Working

LEMMA HeldIsLive ==
    ASSUME TaskTypeOK, NEW w \in Workers, pc[w] # "idle"
    PROVE  msg[w] \in Message /\ msg[w] \in Live
  BY DEF TaskTypeOK, Live, Working

(* What was bounded stays bounded by as many faults.                       *)
LEMMA BoundKept ==
    ASSUME TaskTypeOK, TaskTypeOK', failures \subseteq failures', faults <= faults',
           NEW id, NEW n \in Nat, Cardinality(Missing(failures, id, n)) <= faults
    PROVE  Cardinality(Missing(failures', id, n)) <= faults'
  <1>1. /\ Cardinality(Missing(failures, id, n)) \in Nat
        /\ Cardinality(Missing(failures', id, n)) \in Nat
        /\ Cardinality(Missing(failures', id, n)) <= Cardinality(Missing(failures, id, n))
    BY MissingIsFinite, MissingShrinks
  <1>2. faults \in Nat /\ faults' \in Nat
    BY LimitAssumption DEF TaskTypeOK
  <1> QED BY <1>1, <1>2

(* Steps that bring no attempt to life and let nobody retry but with its   *)
(* own trail.                                                              *)
LEMMA TrailKept ==
    ASSUME TaskTypeOK, TaskTypeOK', TrailInv,
           failures \subseteq failures', faults <= faults', Live' \subseteq Live,
           \A w \in Workers : pc'[w] = "retry" =>
              \/ pc[w] = "retry" /\ msg'[w] = msg[w]
              \/ Cardinality(Missing(failures', msg'[w].id, msg'[w].retries + 1)) <= faults'
    PROVE  TrailInv'
  <1>1. ASSUME NEW m \in Live' PROVE Cardinality(Missing(failures', m.id, m.retries)) <= faults'
    <2>1. m \in Live /\ m.retries \in Nat
      BY LiveMessages DEF Message
    <2> QED BY <2>1, BoundKept DEF TrailInv
  <1>2. ASSUME NEW w \in Workers, pc'[w] = "retry"
        PROVE  Cardinality(Missing(failures', msg'[w].id, msg'[w].retries + 1)) <= faults'
    <2>1. CASE pc[w] = "retry" /\ msg'[w] = msg[w]
      <3>1. msg[w].retries + 1 \in Nat
        BY <2>1, HeldIsLive DEF Message
      <3> QED BY <2>1, <3>1, BoundKept DEF TrailInv
    <2> QED BY <1>2, <2>1
  <1> QED BY <1>1, <1>2 DEF TrailInv

(* A fault that cuts an attempt short pays for the row it does not leave.  *)
LEMMA CutShort ==
    ASSUME TaskTypeOK, TrailInv, NEW w \in Workers, pc[w] # "idle"
    PROVE  Cardinality(Missing(failures, msg[w].id, msg[w].retries + 1)) <= faults + 1
  <1>1. msg[w] \in Live /\ msg[w].retries \in Nat
    BY HeldIsLive DEF Message
  <1>2. Cardinality(Missing(failures, msg[w].id, msg[w].retries)) <= faults
    BY <1>1 DEF TrailInv
  <1>3. Cardinality(Missing(failures, msg[w].id, msg[w].retries + 1))
          <= Cardinality(Missing(failures, msg[w].id, msg[w].retries)) + 1
    BY <1>1, MissingNext
  <1>4. msg[w].retries + 1 \in Nat /\ faults \in Nat
    BY <1>1, LimitAssumption DEF TaskTypeOK
  <1>5. /\ Cardinality(Missing(failures, msg[w].id, msg[w].retries + 1)) \in Nat
        /\ Cardinality(Missing(failures, msg[w].id, msg[w].retries)) \in Nat
    BY <1>1, <1>4, MissingIsFinite
  <1> QED BY <1>2, <1>3, <1>4, <1>5

(* A row that was left is not missed.                                      *)
LEMMA RowLeft ==
    ASSUME TaskTypeOK, TaskTypeOK', TrailInv, failures \subseteq failures', faults' = faults,
           NEW w \in Workers, pc[w] # "idle",
           NEW f \in failures', f.id = msg[w].id, f.retries = msg[w].retries
    PROVE  Cardinality(Missing(failures', msg[w].id, msg[w].retries + 1)) <= faults'
  <1>1. msg[w] \in Live /\ msg[w].retries \in Nat
    BY HeldIsLive DEF Message
  <1>2. Cardinality(Missing(failures', msg[w].id, msg[w].retries)) <= faults'
    <2>1. faults <= faults'
      BY LimitAssumption DEF TaskTypeOK
    <2> QED BY <1>1, <2>1, BoundKept DEF TrailInv
  <1>3. Missing(failures', msg[w].id, msg[w].retries + 1)
          = Missing(failures', msg[w].id, msg[w].retries)
    BY <1>1, MissingNext
  <1> QED BY <1>2, <1>3

LEMMA NoRetries ==
    ASSUME NEW rows, NEW id PROVE Cardinality(Missing(rows, id, 0)) = 0
  <1>1. Missing(rows, id, 0) = {}
    BY DEF Missing
  <1> QED BY <1>1, FS_EmptySet

LEMMA TrailStep ==
    TaskTypeOK /\ TaskTypeOK' /\ TrailInv /\ ([Next]_vars \/ PostMove) => TrailInv'
  <1> SUFFICES ASSUME TaskTypeOK, TaskTypeOK', TrailInv, [Next]_vars \/ PostMove
               PROVE  TrailInv'
      OBVIOUS
  <1>0. faults \in Nat /\ faults' \in Nat /\ pc \in [Workers -> PC \union Busy]
        /\ msg \in [Workers -> Message \union {NoMsg}]
    BY LimitAssumption DEF TaskTypeOK
  <1>1. ASSUME NEW id \in TaskIds, Request(id) PROVE TrailInv'
    <2> DEFINE first == [id |-> id, retries |-> 0]
    <2>1. \A m \in Live' : m \in Live \/ m = first
      BY <1>1 DEF Request, Live, Working
    <2>2. Cardinality(Missing(failures, first.id, first.retries)) <= faults
      BY <1>0, NoRetries
    <2>3. UNCHANGED <<failures, faults, pc, msg>>
      BY <1>1 DEF Request
    <2> HIDE DEF first
    <2> QED BY <2>1, <2>2, <2>3 DEF TrailInv
  <1>2. ASSUME NEW w \in Workers, Receive(w) PROVE TrailInv'
    <2>1. Live' \subseteq Live
      BY <1>2 DEF Receive, Live, Working, TaskTypeOK
    <2>2. \A v \in Workers : pc'[v] = "retry" => pc[v] = "retry" /\ msg'[v] = msg[v]
      BY <1>0, <1>2 DEF Receive, Goto
    <2> QED BY <1>0, <1>2, <2>1, <2>2, TrailKept DEF Receive
  <1>3. ASSUME NEW w \in Workers,
               \/ CreateExecution(w) \/ FetchExecution(w) \/ ResumeExecution(w)
               \/ Deliver(w) \/ MarkSucceeded(w) \/ MarkFailed(w) \/ Crash(w)
               \/ Read(w) \/ Save(w) \/ Tell(w)
        PROVE  TrailInv'
    <2>1. /\ queue' = queue /\ failures' = failures /\ faults <= faults'
          /\ msg' = msg \/ msg' = [msg EXCEPT ![w] = NoMsg]
      BY <1>0, <1>3 DEF CreateExecution, FetchExecution, ResumeExecution, Deliver,
         MarkSucceeded, MarkFailed, Crash, Finish, Read, Save, Tell
    <2>2. Live' \subseteq Live
      BY <1>0, <2>1 DEF Live, Working
    <2>3. pc'[w] # "retry" /\ \A v \in Workers \ {w} : pc'[v] = pc[v]
      BY <1>0, <1>3 DEF CreateExecution, FetchExecution, ResumeExecution, Deliver,
         MarkSucceeded, MarkFailed, Crash, Finish, Goto, Read, Save, Tell
    <2>4. \A v \in Workers \ {w} : msg'[v] = msg[v]
      BY <1>0, <2>1
    <2> QED BY <2>1, <2>2, <2>3, <2>4, TrailKept
  <1>4. ASSUME NEW w \in Workers, DatabaseError(w) \/ PostDatabaseError(w) PROVE TrailInv'
    <2>1. /\ UNCHANGED <<queue, failures, msg>> /\ faults' = faults + 1 /\ pc[w] # "idle"
          /\ \A v \in Workers \ {w} : pc'[v] = pc[v]
      BY <1>0, <1>4 DEF DatabaseError, PostDatabaseError, Goto
    <2>2. Live' = Live
      BY <2>1 DEF Live, Working
    <2>3. Cardinality(Missing(failures', msg'[w].id, msg'[w].retries + 1)) <= faults'
      BY <2>1, CutShort
    <2>4. faults <= faults'
      BY <1>0, <2>1
    <2> QED BY <2>1, <2>2, <2>3, <2>4, TrailKept
  <1>5. ASSUME NEW w \in Workers, RecordFailure(w) PROVE TrailInv'
    <2>1. /\ queue' = queue /\ faults' = faults /\ failures \subseteq failures'
          /\ msg' = msg \/ msg' = [msg EXCEPT ![w] = NoMsg]
          /\ \A v \in Workers \ {w} : pc'[v] = pc[v]
      BY <1>0, <1>5 DEF RecordFailure, Goto, Finish
    <2>2. Live' \subseteq Live
      BY <1>0, <2>1 DEF Live, Working
    <2>3. pc'[w] = "retry" =>
            Cardinality(Missing(failures', msg'[w].id, msg'[w].retries + 1)) <= faults'
      <3>1. CASE pc[w] = "row"
        <4>1. FailureOf(msg[w], msg[w].retries >= RecordedMax[task]) \in failures' /\ msg' = msg
          BY <1>5, <3>1 DEF RecordFailure
        <4>2. /\ FailureOf(msg[w], msg[w].retries >= RecordedMax[task]).id = msg[w].id
              /\ FailureOf(msg[w], msg[w].retries >= RecordedMax[task]).retries = msg[w].retries
          BY DEF FailureOf
        <4> QED BY <2>1, <3>1, <4>1, <4>2, RowLeft
      <3>2. CASE pc[w] # "row"
        BY <1>0, <1>5, <3>2 DEF RecordFailure, Finish
      <3> QED BY <3>1, <3>2
    <2>4. \A v \in Workers \ {w} : msg'[v] = msg[v]
      BY <1>0, <2>1
    <2>5. faults <= faults'
      BY <1>0, <2>1
    <2> QED BY <2>1, <2>2, <2>3, <2>4, <2>5, TrailKept
  <1>6. ASSUME NEW w \in Workers, AutoRetry(w) PROVE TrailInv'
    <2>1. msg[w] \in Message /\ pc[w] = "retry"
      BY <1>6, HeldIsLive DEF AutoRetry
    <2>2. /\ UNCHANGED <<failures, faults>> /\ msg' = [msg EXCEPT ![w] = NoMsg]
          /\ pc' = [pc EXCEPT ![w] = "idle"]
      BY <1>6 DEF AutoRetry, Finish
    <2>3. \A v \in Workers : pc'[v] = "retry" => pc[v] = "retry" /\ msg'[v] = msg[v]
      BY <1>0, <2>2
    <2>4. CASE queue' = queue
      <3>1. Live' \subseteq Live
        BY <1>0, <2>2, <2>4 DEF Live, Working
      <3> QED BY <1>0, <2>2, <2>3, <3>1, TrailKept
    <2>5. CASE queue' # queue
      <3> DEFINE again == [msg[w] EXCEPT !.retries = @ + 1]
      <3>1. /\ queue' = queue \union {again}
            /\ again.id = msg[w].id /\ again.retries = msg[w].retries + 1
        BY <1>6, <2>1, <2>5, RetryMessage DEF AutoRetry
      <3> HIDE DEF again
      <3>2. \A m \in Live' : m \in Live \/ m = again
        BY <1>0, <2>2, <3>1 DEF Live, Working
      <3>3. Cardinality(Missing(failures, again.id, again.retries)) <= faults
        BY <2>1, <3>1 DEF TrailInv
      <3> QED BY <2>2, <2>3, <3>2, <3>3 DEF TrailInv
    <2> QED BY <2>4, <2>5
  <1>7. ASSUME NEW o \in Operators, CommandDies(o) PROVE TrailInv'
    <2>1. UNCHANGED <<failures, queue, pc, msg>> /\ faults <= faults'
      BY <1>0, <1>7 DEF CommandDies
    <2>2. Live' = Live
      BY <2>1 DEF Live, Working
    <2> QED BY <2>1, <2>2, TrailKept
  <1>8. CASE UNCHANGED vars
    <2>1. UNCHANGED <<failures, queue, pc, msg, faults>>
      BY <1>8 DEF vars
    <2> QED BY <2>1 DEF TrailInv, Live, Working
  <1> QED
    BY <1>1, <1>2, <1>3, <1>4, <1>5, <1>6, <1>7, <1>8, NextCases DEF PostMove, PostBody

(***************************************************************************)
(* AttemptTrail, for any number of attempts, workers, requests and faults, *)
(* with e-mails or post tasks, and under replays: no attempt is made       *)
(* before each earlier one of its request has left its row, but for one    *)
(* row for each database error.                                            *)
(***************************************************************************)
THEOREM TrailIsComplete == DeadLetterSpec => []AttemptTrail
  <1>1. DeadLetterInit => TaskInv /\ TrailInv
    <2>1. Begin => TrailInv
      BY DEF Begin, TrailInv, Live, Working
    <2> QED BY <2>1, TaskInvInit DEF DeadLetterInit
  <1>2. TaskInv /\ TrailInv /\ [DeadLetterNext]_deadLetterVars => TaskInv' /\ TrailInv'
    BY TaskInvStep, MoveOrNext, TrailStep DEF TaskInv
  <1>3. TrailInv => AttemptTrail
    BY DEF TrailInv, AttemptTrail, Missing
  <1> QED BY <1>1, <1>2, <1>3, PTL DEF DeadLetterSpec

-----------------------------------------------------------------------------
(***************************************************************************)
(* What a recorded success shows.  Served says that whoever is about to    *)
(* record a success has the result behind it.  Two things protect it: only *)
(* a fault makes an attempt tell of a failure over a result (Undisturbed), *)
(* and attempts of one request do not overlap, so that such an attempt is  *)
(* no longer about to record anything (Alone).                             *)
(***************************************************************************)
Excused == faults > 0 /\ \E a, b \in issued : a # b

PostTypeOK ==
    /\ valid \in BOOLEAN /\ work \in Works
    /\ task # "media" => valid

(* A refused attachment is never processed.                                *)
Refused ==
    ~valid => /\ work # "processed" /\ status # "succeeded"
              /\ \A w \in Workers : pc[w] \notin {"save", "mark"}

Undisturbed == faults = 0 => \A w \in Workers : pc[w] = "tell" => ~valid

Served ==
    /\ \A w \in Workers : pc[w] = "mark" => work = "processed"
    /\ status = "succeeded" => work = "processed"

(* One request that has been worked off has no attempt left.               *)
WorkedOff ==
    /\ status = "succeeded" => issued # {}
    /\ status = "succeeded" /\ (\A a, b \in issued : a = b) => Live = {}

ServedInv ==
    /\ PostTypeOK
    /\ task # "mail" => Refused /\ Undisturbed /\ (Excused \/ (Served /\ WorkedOff))

(* An excuse remains one.                                                  *)
LEMMA ExcuseKept ==
    ASSUME TaskTypeOK, TaskTypeOK', [Next]_vars \/ PostMove, Excused
    PROVE  Excused'
  <1>1. issued \subseteq issued'
    BY NextCases, MoveFrame DEF vars, Request, Receive, CreateExecution, FetchExecution,
       ResumeExecution, Deliver, MarkSucceeded, MarkFailed, RecordFailure, AutoRetry,
       Crash, DatabaseError
  <1>2. faults \in Nat /\ faults' \in Nat
    BY LimitAssumption DEF TaskTypeOK
  <1>3. faults' = faults \/ faults' = faults + 1
    <2>1. CASE [Next]_vars
      BY <2>1, NextCases DEF vars, Request, Receive, CreateExecution, FetchExecution,
         ResumeExecution, Deliver, MarkSucceeded, MarkFailed, RecordFailure, AutoRetry,
         Crash, DatabaseError
    <2>2. CASE PostMove
      BY <2>2 DEF PostMove, PostBody, Read, Save, Tell, PostDatabaseError, CommandDies
    <2> QED BY <2>1, <2>2
  <1> QED BY <1>1, <1>2, <1>3 DEF Excused

(* A single request is worked on by one worker.                            *)
LEMMA Alone ==
    ASSUME TaskTypeOK, OneIncarnationInv, \A a, b \in issued : a = b,
           NEW w \in Workers, pc[w] # "idle"
    PROVE  /\ \A v \in Workers : pc[v] # "idle" => v = w
           /\ queue = {}
           /\ msg[w].id \in issued
  <1>1. w \in Working
    BY DEF TaskTypeOK, Working
  <1>2. \A m \in Live : m.id \in issued
    BY DEF Live, OneIncarnationInv, Requested
  <1>3. msg[w] \in Live
    BY HeldIsLive
  <1>4. \A m \in Live : m.id = msg[w].id
    BY <1>2, <1>3
  <1>5. ASSUME NEW v \in Workers, pc[v] # "idle" PROVE v = w
    <2>1. v \in Working /\ msg[v] \in Live
      BY <1>5, HeldIsLive DEF TaskTypeOK, Working
    <2> QED BY <1>1, <1>4, <2>1 DEF OneIncarnationInv, OneIncarnation
  <1>6. ASSUME NEW m \in queue PROVE FALSE
    <2>1. m \in Live
      BY DEF Live
    <2> QED BY <1>1, <1>4, <2>1 DEF OneIncarnationInv, OneIncarnation
  <1> QED BY <1>2, <1>3, <1>5, <1>6

LEMMA DeadCases ==
    ASSUME TaskTypeOK, [DeadLetterNext]_deadLetterVars
    PROVE  \/ \E w \in Workers : PostBody(w)
           \/ task # "mail" /\ \E w \in Workers : PostDatabaseError(w)
           \/ \E o \in Operators : CommandDies(o)
           \/ /\ UNCHANGED postVars
              /\ \/ \E id \in TaskIds : Request(id)
                 \/ \E w \in Workers : Receive(w)
                 \/ \E w \in Workers : Body(w) /\ (pc[w] = "run" => task = "mail")
                 \/ \E w \in Workers : Crash(w)
                 \/ \E w \in Workers : DatabaseError(w) /\ (pc[w] = "mark" => task = "mail")
                 \/ UNCHANGED vars
  <1>1. ASSUME Publish PROVE \E id \in TaskIds : Request(id)
    <2>1. (CHOOSE id \in TaskIds : id \notin issued) \in TaskIds
      BY <1>1 DEF Publish, TaskTypeOK
    <2> QED BY <1>1, <2>1 DEF Publish
  <1>2. ASSUME NEW o \in Operators, Operate(o)
        PROVE  \/ CommandDies(o)
               \/ UNCHANGED postVars /\ (UNCHANGED vars \/ Publish)
    BY <1>2 DEF Operate, ReplayRead, ReplayPublish, ReplaySave, DismissRead, DismissSave
  <1>3. CASE CooldownOver \/ UNCHANGED deadLetterVars
    BY <1>3 DEF CooldownOver, deadLetterVars
  <1>4. ASSUME NEW w \in Workers, Attempt(w) \/ Trouble(w)
        PROVE  \/ PostBody(w)
               \/ task # "mail" /\ PostDatabaseError(w)
               \/ /\ UNCHANGED postVars
                  /\ \/ Body(w) /\ (pc[w] = "run" => task = "mail")
                     \/ Crash(w)
                     \/ DatabaseError(w) /\ (pc[w] = "mark" => task = "mail")
    BY <1>4 DEF Attempt, Trouble
  <1> QED BY <1>1, <1>2, <1>3, <1>4 DEF DeadLetterNext

(* Steps that work nothing off: nobody newly records, and no attempt comes *)
(* to life.                                                                *)
LEMMA ServedKept ==
    ASSUME Served, WorkedOff, work' = work, issued' = issued,
           status' = status \/ status' # "succeeded", Live' \subseteq Live,
           \A w \in Workers : pc'[w] = "mark" => pc[w] = "mark" \/ work = "processed"
    PROVE  Served' /\ WorkedOff'
  BY DEF Served, WorkedOff

LEMMA ServedStep ==
    TaskInv /\ TaskTypeOK' /\ ServedInv /\ [DeadLetterNext]_deadLetterVars => ServedInv'
  <1> SUFFICES ASSUME TaskTypeOK, OneIncarnationInv, TaskTypeOK', ServedInv,
                      [DeadLetterNext]_deadLetterVars
               PROVE  ServedInv'
      BY DEF TaskInv
  <1>0. /\ faults \in Nat /\ faults' \in Nat /\ pc \in [Workers -> PC \union Busy]
        /\ msg \in [Workers -> Message \union {NoMsg}] /\ PostTypeOK
    BY LimitAssumption DEF TaskTypeOK, ServedInv
  <1>s. task' = task
    BY MoveOrNext, MoveFrame, TaskKept
  <1>t. PostTypeOK' /\ valid' = valid
    BY <1>0, <1>s, DeadCases
       DEF PostTypeOK, PostBody, Read, Save, Tell, PostDatabaseError, CommandDies, postVars, Works
  <1> SUFFICES ASSUME task # "mail"
               PROVE  Refused' /\ Undisturbed' /\ (Excused' \/ (Served' /\ WorkedOff'))
      BY <1>s, <1>t DEF ServedInv
  <1>i. Refused /\ Undisturbed /\ (Excused \/ (Served /\ WorkedOff))
    BY DEF ServedInv
  <1>e. Excused => Excused'
    BY ExcuseKept, MoveOrNext
  <1>1. ASSUME NEW id \in TaskIds, Request(id), UNCHANGED postVars
        PROVE  Refused' /\ Undisturbed' /\ (Excused' \/ (Served' /\ WorkedOff'))
    <2>1. UNCHANGED <<status, pc, faults, work, valid>> /\ id \notin issued
          /\ issued' = issued \union {id}
      BY <1>1 DEF Request, postVars
    <2>2. Refused' /\ Undisturbed'
      BY <1>i, <2>1 DEF Refused, Undisturbed
    <2>3. Served /\ WorkedOff => Served' /\ WorkedOff'
      BY <2>1 DEF Served, WorkedOff
    <2> QED BY <1>i, <1>e, <2>2, <2>3
  <1>2. ASSUME NEW w \in Workers, UNCHANGED postVars,
               \/ Receive(w) \/ CreateExecution(w) \/ FetchExecution(w) \/ ResumeExecution(w)
               \/ MarkFailed(w) \/ RecordFailure(w) \/ Crash(w)
               \/ DatabaseError(w) /\ (pc[w] = "mark" => task = "mail")
        PROVE  Refused' /\ Undisturbed' /\ (Excused' \/ (Served' /\ WorkedOff'))
    <2>a. work' = work /\ valid' = valid
      BY <1>2 DEF postVars
    <2>b. \E label \in PC \ {"mark"} : pc' = [pc EXCEPT ![w] = label]
      BY <1>2 DEF Receive, CreateExecution, FetchExecution, ResumeExecution, MarkFailed,
         RecordFailure, Crash, DatabaseError, Goto, Finish, PC, BeforeGuard, AfterGuard
    <2>c. issued' = issued /\ (status' = status \/ status' # "succeeded")
      BY <1>2 DEF Receive, CreateExecution, FetchExecution, ResumeExecution, MarkFailed,
         RecordFailure, Crash, DatabaseError
    <2>d. faults' = 0 => faults = 0
      <3>1. faults' = faults \/ faults' = faults + 1
        BY <1>2 DEF Receive, CreateExecution, FetchExecution, ResumeExecution, MarkFailed,
           RecordFailure, Crash, DatabaseError
      <3> QED BY <1>0, <3>1
    <2>1. /\ \A v \in Workers \ {w} : pc'[v] = pc[v]
          /\ pc'[w] \notin {"mark", "save", "tell"}
      BY <1>0, <2>b DEF PC, BeforeGuard, AfterGuard
    <2>2. Live' \subseteq Live
      <3>1. CASE Receive(w)
        BY <1>0, <3>1 DEF Receive, Live, Working
      <3>2. CASE queue' = queue /\ (msg' = msg \/ msg' = [msg EXCEPT ![w] = NoMsg])
        BY <1>0, <3>2 DEF Live, Working
      <3> QED
        BY <1>2, <3>1, <3>2 DEF CreateExecution, FetchExecution, ResumeExecution,
           MarkFailed, RecordFailure, Crash, DatabaseError, Finish
    <2>3. Refused' /\ Undisturbed'
      BY <1>i, <2>a, <2>c, <2>d, <2>1 DEF Refused, Undisturbed
    <2>4. Served /\ WorkedOff => Served' /\ WorkedOff'
      BY <2>a, <2>c, <2>1, <2>2, ServedKept
    <2> QED BY <1>i, <1>e, <2>3, <2>4
  <1>3. ASSUME NEW w \in Workers, MarkSucceeded(w), UNCHANGED postVars
        PROVE  Refused' /\ Undisturbed' /\ (Excused' \/ (Served' /\ WorkedOff'))
    <2>1. /\ pc[w] = "mark" /\ status' = "succeeded" /\ pc' = [pc EXCEPT ![w] = "idle"]
          /\ msg' = [msg EXCEPT ![w] = NoMsg]
          /\ UNCHANGED <<queue, issued, faults, work, valid>>
      BY <1>3 DEF MarkSucceeded, Finish, postVars
    <2>2. Refused' /\ Undisturbed'
      BY <1>0, <1>i, <2>1 DEF Refused, Undisturbed
    <2>3. Served => Served'
      BY <1>0, <2>1 DEF Served
    <2>4. msg[w].id \in issued
      <3>1. w \in Working
        BY <2>1 DEF TaskTypeOK, Working
      <3> QED BY <3>1 DEF OneIncarnationInv, Requested
    <2>5. ASSUME \A a, b \in issued : a = b PROVE Live' = {}
      <3>1. /\ \A v \in Workers : pc[v] # "idle" => v = w
            /\ queue = {}
        BY <2>1, <2>5, Alone
      <3>2. \A v \in Workers : msg'[v] = NoMsg
        BY <1>0, <2>1, <3>1 DEF TaskTypeOK
      <3> QED BY <2>1, <3>1, <3>2 DEF Live, Working
    <2>6. WorkedOff'
      BY <2>1, <2>4, <2>5 DEF WorkedOff
    <2> QED BY <1>i, <1>e, <2>2, <2>3, <2>6
  <1>4. ASSUME NEW w \in Workers, AutoRetry(w), UNCHANGED postVars
        PROVE  Refused' /\ Undisturbed' /\ (Excused' \/ (Served' /\ WorkedOff'))
    <2>1. /\ pc[w] = "retry" /\ pc' = [pc EXCEPT ![w] = "idle"]
          /\ UNCHANGED <<status, issued, faults, work, valid>>
      BY <1>4 DEF AutoRetry, Finish, postVars
    <2>2. Refused' /\ Undisturbed' /\ (Served => Served')
      BY <1>0, <1>i, <2>1 DEF Refused, Undisturbed, Served
    <2>3. Live # {}
      BY <2>1, HeldIsLive
    <2>4. WorkedOff => WorkedOff'
      BY <2>1, <2>3 DEF WorkedOff
    <2> QED BY <1>i, <1>e, <2>2, <2>4
  <1>5. ASSUME NEW w \in Workers, Read(w)
        PROVE  Refused' /\ Undisturbed' /\ (Excused' \/ (Served' /\ WorkedOff'))
    <2>1. /\ UNCHANGED <<status, issued, faults, work, valid, queue, msg>>
          /\ \A v \in Workers \ {w} : pc'[v] = pc[v]
          /\ \/ work = "processed" /\ pc'[w] = "mark"
             \/ valid /\ pc'[w] = "save"
             \/ work # "processed" /\ ~valid /\ pc'[w] = "tell"
      BY <1>0, <1>5 DEF Read, Goto, postVars
    <2>2. Live' \subseteq Live
      BY <2>1 DEF Live, Working
    <2>3. Refused' /\ Undisturbed'
      BY <1>i, <2>1 DEF Refused, Undisturbed
    <2>4. Served /\ WorkedOff => Served' /\ WorkedOff'
      BY <2>1, <2>2, ServedKept
    <2> QED BY <1>i, <1>e, <2>3, <2>4
  <1>6. ASSUME NEW w \in Workers, Save(w)
        PROVE  Refused' /\ Undisturbed' /\ (Excused' \/ (Served' /\ WorkedOff'))
    <2>1. /\ UNCHANGED <<status, issued, faults, valid, queue, msg>> /\ pc[w] = "save"
          /\ \A v \in Workers \ {w} : pc'[v] = pc[v]
          /\ \/ work' = "processed" /\ pc'[w] = "mark"
             \/ work' = work /\ pc'[w] = "fail"
      BY <1>0, <1>6 DEF Save, Goto
    <2>2. Refused' /\ Undisturbed'
      BY <1>i, <2>1 DEF Refused, Undisturbed
    <2>3. Served => Served'
      BY <2>1 DEF Served
    <2>4. Live' = Live
      BY <2>1 DEF Live, Working
    <2>5. WorkedOff => WorkedOff'
      BY <2>1, <2>4 DEF WorkedOff
    <2> QED BY <1>i, <1>e, <2>2, <2>3, <2>5
  <1>7. ASSUME NEW w \in Workers, Tell(w)
        PROVE  Refused' /\ Undisturbed' /\ (Excused' \/ (Served' /\ WorkedOff'))
    <2>1. /\ UNCHANGED <<status, issued, faults, valid, queue, msg>> /\ pc[w] = "tell"
          /\ \A v \in Workers \ {w} : pc'[v] = pc[v]
          /\ work' = "failed" /\ pc'[w] = "fail"
      BY <1>0, <1>7 DEF Tell, Goto
    <2>2. Refused' /\ Undisturbed'
      BY <1>i, <2>1 DEF Refused, Undisturbed
    <2>3. ASSUME Served, WorkedOff, ~Excused
          PROVE  status # "succeeded" /\ \A v \in Workers : pc[v] # "mark"
      <3>1. CASE faults = 0
        BY <1>i, <2>1, <3>1 DEF Undisturbed, Refused
      <3>2. CASE faults # 0
        <4>1. \A a, b \in issued : a = b
          BY <1>0, <2>3, <3>2 DEF Excused
        <4>2. \A v \in Workers : pc[v] # "mark"
          BY <2>1, <4>1, Alone
        <4>3. Live # {}
          BY <2>1, HeldIsLive
        <4> QED BY <2>3, <4>1, <4>2, <4>3 DEF WorkedOff
      <3> QED BY <3>1, <3>2
    <2>4. ASSUME Served, WorkedOff, ~Excused PROVE Served' /\ WorkedOff'
      BY <2>1, <2>3, <2>4 DEF Served, WorkedOff
    <2> QED BY <1>i, <1>e, <2>2, <2>4
  <1>8. ASSUME NEW w \in Workers, PostDatabaseError(w)
        PROVE  Refused' /\ Undisturbed' /\ (Excused' \/ (Served' /\ WorkedOff'))
    <2>1. /\ UNCHANGED <<status, issued, valid, work, queue, msg>>
          /\ \A v \in Workers \ {w} : pc'[v] = pc[v]
          /\ pc'[w] \in {"tell", "fail", "retry"} /\ faults' # 0
      BY <1>0, <1>8 DEF PostDatabaseError, Goto, postVars
    <2>2. Live' \subseteq Live
      BY <2>1 DEF Live, Working
    <2>3. Refused' /\ Undisturbed'
      BY <1>i, <2>1 DEF Refused, Undisturbed
    <2>4. Served /\ WorkedOff => Served' /\ WorkedOff'
      BY <2>1, <2>2, ServedKept
    <2> QED BY <1>i, <1>e, <2>3, <2>4
  <1>9. ASSUME UNCHANGED <<status, issued, valid, work, queue, msg, pc>>,
               faults' = 0 => faults = 0
        PROVE  Refused' /\ Undisturbed' /\ (Excused' \/ (Served' /\ WorkedOff'))
    <2>1. Live' = Live
      BY <1>9 DEF Live, Working
    <2>2. Refused' /\ Undisturbed' /\ (Served => Served') /\ (WorkedOff => WorkedOff')
      BY <1>i, <1>9, <2>1 DEF Refused, Undisturbed, Served, WorkedOff
    <2> QED BY <1>i, <1>e, <2>2
  <1>10. ASSUME NEW o \in Operators, CommandDies(o)
         PROVE  Refused' /\ Undisturbed' /\ (Excused' \/ (Served' /\ WorkedOff'))
    <2>1. UNCHANGED <<status, issued, valid, work, queue, msg, pc>> /\ (faults' = 0 => faults = 0)
      BY <1>0, <1>10 DEF CommandDies, postVars
    <2> QED BY <1>9, <2>1
  <1>11. CASE UNCHANGED vars /\ UNCHANGED postVars
    BY <1>9, <1>11 DEF vars, postVars
  <1>12. ASSUME NEW w \in Workers, Deliver(w), pc[w] = "run" => task = "mail" PROVE FALSE
    BY <1>12 DEF Deliver
  <1> QED
    BY <1>1, <1>2, <1>3, <1>4, <1>5, <1>6, <1>7, <1>8, <1>10, <1>11, <1>12, DeadCases
       DEF Body, PostBody

(***************************************************************************)
(* SuccessIsServed, for any number of requests, replays and workers: what  *)
(* a post shows agrees with what is recorded of its task, but for the one  *)
(* lost update.                                                            *)
(***************************************************************************)
THEOREM RecordedSuccessIsServed == DeadLetterSpec => []SuccessIsServed
  <1>1. DeadLetterInit => TaskInv /\ ServedInv
    <2>1. Begin /\ PostInit => ServedInv
      BY DEF Begin, PostInit, ServedInv, PostTypeOK, Refused, Undisturbed, Served, WorkedOff, Works
    <2> QED BY <2>1, TaskInvInit DEF DeadLetterInit
  <1>2. TaskInv /\ ServedInv /\ [DeadLetterNext]_deadLetterVars => TaskInv' /\ ServedInv'
    BY TaskInvStep, ServedStep DEF TaskInv
  <1>3. TaskInv /\ ServedInv => SuccessIsServed
    <2> SUFFICES ASSUME TaskInv, ServedInv, task # "mail", status = "succeeded",
                        work # "processed"
                 PROVE  faults > 0 /\ Cardinality(issued) > 1
        BY DEF SuccessIsServed
    <2>1. Excused
      BY DEF ServedInv, Served
    <2>2. PICK a \in issued, b \in issued : a # b
      BY <2>1 DEF Excused
    <2>3. IsFiniteSet(issued)
      BY DEF TaskInv
    <2>4. Cardinality(issued) \in Nat /\ Cardinality(issued) # 0 /\ Cardinality(issued) # 1
      <3>1. Cardinality(issued) # 1
        BY <2>2, <2>3, FS_Singleton
      <3> QED BY <2>2, <2>3, <3>1, FS_EmptySet, FS_CardinalityType
    <2> QED BY <2>1, <2>4 DEF Excused
  <1> QED BY <1>1, <1>2, <1>3, PTL DEF DeadLetterSpec

-----------------------------------------------------------------------------
(***************************************************************************)
(* Replays are counted.  On a row that nothing has disturbed at most one   *)
(* operator is at work, what this operator has read still stands, and the  *)
(* messages published are those counted, with one more between publishing  *)
(* and saving (ReplayInv).                                                 *)
(***************************************************************************)
Mark == [count : Nat, cooling : BOOLEAN, terminal : BOOLEAN,
         reason : {"none", "manual_replay", "manual_dismiss"}]

Commands == [at : {"publish", "save", "dismiss"}, row : FailureRow, read : Mark]

CommandTypeOK ==
    /\ marks \in [FailureRow -> Mark]
    /\ replays \in [FailureRow -> Nat]
    /\ command \in [Operators -> Commands \union {NoCommand}]

On(o, f) == command[o].at # "none" /\ command[o].row = f

Counted(f) ==
    /\ marks[f].count <= MaxReplays
    /\ \A o \in Operators : On(o, f) =>
          /\ command[o].read.count = marks[f].count
          /\ command[o].at \in {"publish", "save"} => marks[f].count < MaxReplays
          /\ command[o].at = "save" => replays[f] = marks[f].count + 1
          /\ \A p \in Operators : On(p, f) => p = o
    /\ (\A o \in Operators : On(o, f) => command[o].at # "save")
          => replays[f] = marks[f].count

ReplayInv == CommandTypeOK /\ \A f \in FailureRow \ disturbed : Counted(f)

LEMMA CommandFacts ==
    ASSUME CommandTypeOK, NEW o \in Operators, command[o].at # "none"
    PROVE  command[o] \in Commands /\ command[o].row \in FailureRow
           /\ command[o].read \in Mark
  BY DEF CommandTypeOK, NoCommand, Commands

LEMMA CommandTypeStep ==
    ASSUME TaskTypeOK, CommandTypeOK, [DeadLetterNext]_deadLetterVars
    PROVE  CommandTypeOK'
  <1>1. CASE UNCHANGED <<marks, replays, command>>
    BY <1>1 DEF CommandTypeOK
  <1>2. ASSUME NEW o \in Operators, NEW at \in {"publish", "dismiss"},
               NEW f \in failures, Start(o, at, f), UNCHANGED <<marks, replays>>
        PROVE  CommandTypeOK'
    <2>1. f \in FailureRow
      BY DEF TaskTypeOK
    <2>2. marks[f] \in Mark
      BY <2>1 DEF CommandTypeOK
    <2>3. [at |-> at, row |-> f, read |-> marks[f]] \in Commands
      BY <2>1, <2>2 DEF Commands
    <2> QED BY <1>2, <2>3 DEF CommandTypeOK, Start, Enter
  <1>3. ASSUME NEW o \in Operators, ReplayPublish(o)
        PROVE  CommandTypeOK'
    <2>1. command[o] \in Commands /\ command[o].row \in FailureRow
      BY <1>3, CommandFacts DEF ReplayPublish
    <2>2. [command[o] EXCEPT !.at = "save"] \in Commands
      BY <2>1 DEF Commands
    <2>3. replays' \in [FailureRow -> Nat]
      BY <1>3, <2>1 DEF ReplayPublish, CommandTypeOK
    <2> QED BY <1>3, <2>2, <2>3 DEF CommandTypeOK, ReplayPublish, Enter
  <1>4. ASSUME NEW o \in Operators, ReplaySave(o)
        PROVE  CommandTypeOK'
    <2>1. command[o].row \in FailureRow /\ command[o].read.count \in Nat
      BY <1>4, CommandFacts DEF ReplaySave, Mark
    <2>2. [count |-> command[o].read.count + 1, cooling |-> TRUE,
           terminal |-> TRUE, reason |-> "manual_replay"] \in Mark
      BY <2>1 DEF Mark
    <2> QED BY <1>4, <2>2 DEF CommandTypeOK, ReplaySave, Enter
  <1>5. ASSUME NEW o \in Operators, DismissSave(o)
        PROVE  CommandTypeOK'
    <2>1. command[o].read \in Mark
      BY <1>5, CommandFacts DEF DismissSave
    <2>2. [command[o].read EXCEPT !.terminal = TRUE, !.reason = "manual_dismiss"] \in Mark
      BY <2>1 DEF Mark
    <2> QED BY <1>5, <2>2 DEF CommandTypeOK, DismissSave, Enter
  <1>6. ASSUME NEW o \in Operators, CommandDies(o)
        PROVE  CommandTypeOK'
    BY <1>6 DEF CommandTypeOK, CommandDies, Enter
  <1>7. CASE CooldownOver
    <2>1. \A f \in FailureRow : [marks[f] EXCEPT !.cooling = FALSE] \in Mark
      BY DEF CommandTypeOK, Mark
    <2>2. \A o \in Operators : command[o].at # "none" =>
             [command[o] EXCEPT !.read.cooling = FALSE] \in Commands
      <3> SUFFICES ASSUME NEW o \in Operators, command[o].at # "none"
                   PROVE  [command[o] EXCEPT !.read.cooling = FALSE] \in Commands
        OBVIOUS
      <3>1. command[o] \in Commands /\ command[o].read \in Mark
        BY CommandFacts
      <3>2. [command[o].read EXCEPT !.cooling = FALSE] \in Mark
        BY <3>1 DEF Mark
      <3>3. [command[o] EXCEPT !.read.cooling = FALSE]
              = [command[o] EXCEPT !.read = [command[o].read EXCEPT !.cooling = FALSE]]
        BY <3>1 DEF Commands
      <3> QED BY <3>1, <3>2, <3>3 DEF Commands
    <2> QED BY <1>7, <2>1, <2>2 DEF CommandTypeOK, CooldownOver
  <1> QED BY <1>1, <1>2, <1>3, <1>4, <1>5, <1>6, <1>7
         DEF DeadLetterNext, deadLetterVars, deadVars, Operate, ReplayRead, DismissRead

(* A step on one row leaves the counting on the others as it was.          *)
LEMMA OtherRows ==
    ASSUME NEW f, NEW o \in Operators, Counted(f),
           marks'[f] = marks[f], replays'[f] = replays[f],
           \A p \in Operators \ {o} : command'[p] = command[p],
           ~On(o, f), ~On(o, f)'
    PROVE  Counted(f)'
  <1>1. \A p \in Operators : On(p, f)' <=> On(p, f)
    BY DEF On
  <1>2. \A p \in Operators : On(p, f) => command'[p] = command[p]
    OBVIOUS
  <1> QED BY <1>1, <1>2 DEF Counted

LEMMA ReplayStep ==
    ASSUME TaskTypeOK, ReplayInv, [DeadLetterNext]_deadLetterVars
    PROVE  ReplayInv'
  <1> CommandTypeOK /\ CommandTypeOK'
    BY CommandTypeStep DEF ReplayInv
  <1> SUFFICES ASSUME NEW f \in FailureRow, f \notin disturbed'
               PROVE  Counted(f)'
    BY DEF ReplayInv
  <1>0. disturbed \subseteq disturbed'
    BY DEF DeadLetterNext, deadLetterVars, deadVars, Operate, ReplayRead, ReplayPublish,
       ReplaySave, DismissRead, DismissSave, CommandDies, CooldownOver, Start
  <1>a. Counted(f)
    BY <1>0 DEF ReplayInv
  <1>b. /\ marks[f].count \in Nat /\ replays[f] \in Nat /\ MaxReplays \in Nat
        /\ \A o \in Operators : command[o].at # "none" => command[o].read.count \in Nat
    BY ReplayAssumption, CommandFacts DEF CommandTypeOK, Mark
  <1>1. CASE UNCHANGED <<marks, replays, command>>
    BY <1>1, <1>a DEF Counted, On
  <1>2. ASSUME NEW o \in Operators, NEW at \in {"publish", "dismiss"}, NEW g \in failures,
               Start(o, at, g), at = "publish" => MayReplay(g),
               UNCHANGED <<marks, replays>>
        PROVE  Counted(f)'
    <2>1. /\ command[o].at = "none"
          /\ command'[o] = [at |-> at, row |-> g, read |-> marks[g]]
          /\ \A p \in Operators \ {o} : command'[p] = command[p]
      BY <1>2 DEF Start, Enter, CommandTypeOK
    <2>2. CASE g # f
      <3>1. ~On(o, f) /\ ~On(o, f)'
        BY <2>1, <2>2 DEF On
      <3> QED BY <1>2, <1>a, <2>1, <3>1, OtherRows
    <2>3. CASE g = f
      <3>1. \A p \in Operators : ~On(p, f)
        BY <1>2, <2>3 DEF Start, On
      <3>2. \A p \in Operators : On(p, f)' => p = o
        BY <2>1, <3>1 DEF On
      <3>3. replays[f] = marks[f].count
        BY <1>a, <3>1 DEF Counted
      <3>4. at = "publish" => marks[f].count < MaxReplays
        BY <1>2, <2>3 DEF MayReplay
      <3>5. marks[f].count <= MaxReplays
        BY <1>a DEF Counted
      <3>6. command'[o].read.count = marks[f].count /\ command'[o].at = at
        BY <2>1, <2>3
      <3> QED BY <1>2, <3>2, <3>3, <3>4, <3>5, <3>6 DEF Counted
    <2> QED BY <2>2, <2>3
  <1>3. ASSUME NEW o \in Operators, ReplayPublish(o)
        PROVE  Counted(f)'
    <2>1. /\ command[o].at = "publish"
          /\ command[o].row \in FailureRow
          /\ command'[o] = [command[o] EXCEPT !.at = "save"]
          /\ \A p \in Operators \ {o} : command'[p] = command[p]
          /\ replays' = [replays EXCEPT ![command[o].row] = replays[command[o].row] + 1]
          /\ marks' = marks
      BY <1>3, CommandFacts DEF ReplayPublish, Enter, CommandTypeOK
    <2>a. command[o] \in Commands
      BY <2>1, CommandFacts
    <2>b. /\ command'[o].at = "save" /\ command'[o].row = command[o].row
          /\ command'[o].read = command[o].read
      BY <2>1, <2>a DEF Commands
    <2>2. CASE command[o].row # f
      <3>1. ~On(o, f) /\ ~On(o, f)'
        BY <2>1, <2>2, <2>b DEF On
      <3>2. replays'[f] = replays[f]
        BY <2>1, <2>2 DEF CommandTypeOK
      <3> QED BY <1>a, <2>1, <3>1, <3>2, OtherRows
    <2>3. CASE command[o].row = f
      <3>1. On(o, f) /\ \A p \in Operators : On(p, f) => p = o
        BY <1>a, <2>1, <2>3 DEF On, Counted
      <3>2. \A p \in Operators : On(p, f)' => p = o
        BY <2>1, <3>1 DEF On
      <3>3. On(o, f)'
        BY <2>3, <2>b DEF On
      <3>4. replays[f] = marks[f].count /\ marks[f].count < MaxReplays
            /\ command[o].read.count = marks[f].count
        BY <1>a, <2>1, <3>1 DEF Counted
      <3>5. replays'[f] = marks[f].count + 1
        BY <2>1, <2>3, <3>4 DEF CommandTypeOK
      <3>6. marks'[f].count = marks[f].count
        BY <2>1
      <3> QED BY <1>b, <2>b, <3>2, <3>3, <3>4, <3>5, <3>6 DEF Counted
    <2> QED BY <2>2, <2>3
  <1>4. ASSUME NEW o \in Operators, NEW m \in Mark, command[o].at # "none",
               marks' = [marks EXCEPT ![command[o].row] = m], Enter(o, NoCommand),
               command[o].row = f => m.count = replays[f] /\ m.count <= MaxReplays,
               UNCHANGED replays
        PROVE  Counted(f)'
    <2>1. command'[o].at = "none" /\ \A p \in Operators \ {o} : command'[p] = command[p]
      BY <1>4 DEF Enter, CommandTypeOK, NoCommand
    <2>2. CASE command[o].row # f
      <3>1. ~On(o, f) /\ ~On(o, f)'
        BY <2>1, <2>2 DEF On
      <3>2. marks'[f] = marks[f]
        BY <1>4, <2>2 DEF CommandTypeOK
      <3> QED BY <1>4, <1>a, <2>1, <3>1, <3>2, OtherRows
    <2>3. CASE command[o].row = f
      <3>1. \A p \in Operators : ~On(p, f)'
        BY <1>4, <1>a, <2>1, <2>3 DEF Counted, On
      <3>2. marks'[f] = m
        BY <1>4, <2>3 DEF CommandTypeOK
      <3> QED BY <1>4, <2>3, <3>1, <3>2 DEF Counted
    <2> QED BY <2>2, <2>3
  <1>5. ASSUME NEW o \in Operators, ReplaySave(o)
        PROVE  Counted(f)'
    <2>0. command[o].at = "save"
      BY <1>5 DEF ReplaySave
    <2> DEFINE m == [count |-> command[o].read.count + 1, cooling |-> TRUE,
                     terminal |-> TRUE, reason |-> "manual_replay"]
    <2>1. m \in Mark
      BY <1>b, <2>0 DEF Mark
    <2>2. ASSUME command[o].row = f
          PROVE  m.count = replays[f] /\ m.count <= MaxReplays
      <3>1. On(o, f)
        BY <2>0, <2>2 DEF On
      <3>2. /\ command[o].read.count = marks[f].count
            /\ marks[f].count < MaxReplays
            /\ replays[f] = marks[f].count + 1
        BY <1>a, <2>0, <3>1 DEF Counted
      <3> QED BY <1>b, <3>2
    <2>3. marks' = [marks EXCEPT ![command[o].row] = m] /\ Enter(o, NoCommand)
          /\ UNCHANGED replays
      BY <1>5 DEF ReplaySave
    <2> HIDE DEF m
    <2> QED BY <1>4, <2>0, <2>1, <2>2, <2>3
  <1>6. ASSUME NEW o \in Operators, DismissSave(o)
        PROVE  Counted(f)'
    <2>0. command[o].at = "dismiss" /\ command[o].read \in Mark
      BY <1>6, CommandFacts DEF DismissSave
    <2> DEFINE m == [command[o].read EXCEPT !.terminal = TRUE, !.reason = "manual_dismiss"]
    <2>1. m \in Mark /\ m.count = command[o].read.count
      BY <2>0 DEF Mark
    <2>2. ASSUME command[o].row = f
          PROVE  m.count = replays[f] /\ m.count <= MaxReplays
      <3>1. On(o, f)
        BY <2>0, <2>2 DEF On
      <3>2. command[o].read.count = marks[f].count /\ marks[f].count <= MaxReplays
        BY <1>a, <3>1 DEF Counted
      <3>3. \A p \in Operators : On(p, f) => command[p].at # "save"
        BY <1>a, <2>0, <3>1 DEF Counted
      <3>4. replays[f] = marks[f].count
        BY <1>a, <3>3 DEF Counted
      <3> QED BY <2>1, <3>2, <3>4
    <2>3. marks' = [marks EXCEPT ![command[o].row] = m] /\ Enter(o, NoCommand)
          /\ UNCHANGED replays
      BY <1>6 DEF DismissSave
    <2> HIDE DEF m
    <2> QED BY <1>4, <2>0, <2>1, <2>2, <2>3
  <1>7. ASSUME NEW o \in Operators, CommandDies(o)
        PROVE  Counted(f)'
    <2>1. /\ command[o].at # "none" /\ command[o].row # f
          /\ command'[o].at = "none"
          /\ \A p \in Operators \ {o} : command'[p] = command[p]
          /\ marks' = marks /\ replays' = replays
      BY <1>7 DEF CommandDies, Enter, CommandTypeOK, NoCommand
    <2>2. ~On(o, f) /\ ~On(o, f)'
      BY <2>1 DEF On
    <2> QED BY <1>a, <2>1, <2>2, OtherRows
  <1>8. CASE CooldownOver
    <2>1. marks'[f].count = marks[f].count
      BY <1>8 DEF CooldownOver, CommandTypeOK, Mark
    <2>2. ASSUME NEW o \in Operators
          PROVE  /\ On(o, f)' <=> On(o, f)
                 /\ On(o, f) => command'[o].at = command[o].at
                               /\ command'[o].read.count = command[o].read.count
      <3>1. CASE command[o].at = "none"
        BY <1>8, <3>1 DEF CooldownOver, On, NoCommand
      <3>2. CASE command[o].at # "none"
        <4>1. command'[o] = [command[o] EXCEPT !.read.cooling = FALSE]
          BY <1>8, <3>2 DEF CooldownOver
        <4>2. command[o] \in Commands
          BY <3>2, CommandFacts
        <4> QED BY <4>1, <4>2 DEF On, Commands, Mark
      <3> QED BY <3>1, <3>2
    <2>3. replays' = replays
      BY <1>8 DEF CooldownOver
    <2> QED BY <1>a, <2>1, <2>2, <2>3 DEF Counted
  <1> QED BY <1>1, <1>2, <1>3, <1>5, <1>6, <1>7, <1>8
         DEF DeadLetterNext, deadLetterVars, deadVars, Operate, ReplayRead, DismissRead

LEMMA ReplayInit ==
    DeadLetterInit => ReplayInv
  <1> SUFFICES ASSUME DeadInit PROVE ReplayInv
    BY DEF DeadLetterInit
  <1>1. CommandTypeOK
    BY DEF DeadInit, CommandTypeOK, Unmarked, Mark, NoCommand
  <1>2. \A f \in FailureRow : Counted(f)
    BY ReplayAssumption DEF DeadInit, Counted, On, Unmarked, NoCommand
  <1> QED BY <1>1, <1>2 DEF ReplayInv

(* A row is replayed as often as the limit says, whoever issues the        *)
(* commands and in whatever order, as long as none overlaps with another   *)
(* on that row and none dies between publishing and counting.              *)
THEOREM ReplaysAreLimited ==
    DeadLetterSpec => []ReplayLimit
  <1>1. ReplayInv => ReplayLimit
    <2> SUFFICES ASSUME ReplayInv, NEW f \in FailureRow \ disturbed
                 PROVE  replays[f] <= MaxReplays
      BY DEF ReplayLimit
    <2>1. Counted(f) /\ marks[f].count \in Nat /\ MaxReplays \in Nat
      BY ReplayAssumption DEF ReplayInv, CommandTypeOK, Mark
    <2>2. CASE \A o \in Operators : On(o, f) => command[o].at # "save"
      BY <2>1, <2>2 DEF Counted
    <2>3. ASSUME NEW o \in Operators, On(o, f), command[o].at = "save"
          PROVE  replays[f] <= MaxReplays
      <3>1. replays[f] = marks[f].count + 1 /\ marks[f].count < MaxReplays
        BY <2>1, <2>3 DEF Counted
      <3> QED BY <2>1, <3>1
    <2> QED BY <2>2, <2>3
  <1>2. DeadLetterInit => TaskInv /\ ReplayInv
    BY TaskInvInit, ReplayInit DEF DeadLetterInit
  <1>3. TaskInv /\ ReplayInv /\ [DeadLetterNext]_deadLetterVars => TaskInv' /\ ReplayInv'
    BY TaskInvStep, ReplayStep DEF TaskInv
  <1> QED BY <1>1, <1>2, <1>3, PTL DEF DeadLetterSpec

-----------------------------------------------------------------------------
(* A command says so in the row that it makes terminal.                    *)
Signed == \A f \in FailureRow : marks[f].terminal => ByCommand(f)

LEMMA SignedStep ==
    CommandTypeOK /\ Signed /\ [DeadLetterNext]_deadLetterVars => Signed'
  <1> SUFFICES ASSUME CommandTypeOK, Signed, [DeadLetterNext]_deadLetterVars
               PROVE  Signed'
      OBVIOUS
  <1>1. CASE UNCHANGED marks
    BY <1>1 DEF Signed, ByCommand
  <1>2. ASSUME NEW o \in Operators, ReplaySave(o) PROVE Signed'
    BY <1>2 DEF Signed, ByCommand, ReplaySave
  <1>3. ASSUME NEW o \in Operators, DismissSave(o) PROVE Signed'
    BY <1>3 DEF Signed, ByCommand, DismissSave
  <1>4. CASE CooldownOver
    BY <1>4 DEF Signed, ByCommand, CooldownOver, CommandTypeOK, Mark
  <1> QED BY <1>1, <1>2, <1>3, <1>4
         DEF DeadLetterNext, deadLetterVars, deadVars, Operate, ReplayRead, ReplayPublish,
             DismissRead, CommandDies

(***************************************************************************)
(* TerminalRowsClose for every pair of limits, any number of requests and  *)
(* any commands, however they overlap and die: a terminal row closes its   *)
(* request unless a command made it terminal, or it is at or above the     *)
(* limit it was compared with and autoretry uses a greater one.            *)
(***************************************************************************)
THEOREM TerminalRowsAreFinal == DeadLetterSpec => []TerminalRowsClose
  <1> DEFINE Inv == TaskInv /\ WithinLimit /\ TerminalInv /\ CommandTypeOK /\ Signed
  <1>1. DeadLetterInit => Inv
    BY TaskInvInit
       DEF DeadLetterInit, Begin, DeadInit, WithinLimit, Live, Working, TerminalInv,
           Signed, Unmarked, CommandTypeOK, Mark
  <1>2. Inv /\ [DeadLetterNext]_deadLetterVars => Inv'
    BY TaskInvStep, MoveOrNext, WithinLimitStep, TerminalStep, TerminalMove, SignedStep,
       CommandTypeStep DEF TaskInv
  <1>3. Inv => TerminalRowsClose
    <2> SUFFICES ASSUME Inv, NEW f \in failures, NEW m \in Live, RowTerminal(f),
                        m.id = f.id, m.retries > f.retries
                 PROVE  (~f.terminal /\ ByCommand(f)) \/ BeyondLimit(f)
      BY DEF TerminalRowsClose
    <2>1. TaskTypeOK /\ f \in FailureRow /\ m \in Message
      BY LiveMessages DEF TaskInv, TaskTypeOK
    <2>2. CASE ~f.terminal
      BY <2>1, <2>2 DEF RowTerminal, Signed
    <2>3. CASE f.terminal
      <3>1. AtLimit(f) /\ m.retries <= RetryLimit[task]
        BY <2>3 DEF TerminalInv, WithinLimit
      <3>2. /\ f.retries \in Nat /\ m.retries \in Nat
            /\ RecordedMax[task] \in Nat /\ RetryLimit[task] \in Nat
        BY <2>1, LimitAssumption DEF TaskTypeOK, FailureRow, Message
      <3> QED BY <3>1, <3>2 DEF AtLimit, BeyondLimit
    <2> QED BY <2>2, <2>3
  <1> QED BY <1>1, <1>2, <1>3, PTL DEF DeadLetterSpec
=============================================================================
