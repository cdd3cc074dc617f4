--------------------------- MODULE IdempotentJob ---------------------------
(***************************************************************************)
(* What the task layer of apps/core/services/task_reliability.py promises  *)
(* about the external effect of one (task_name, idempotency_key) pair,     *)
(* without workers, brokers or retries: while the job is open the effect   *)
(* may be performed any number of times (delivery is at least once); once  *)
(* it is latched it has been performed and is never performed again.       *)
(***************************************************************************)
EXTENDS Naturals

VARIABLES
    phase,   \* "open" until the success is recorded and nobody is working
    effects  \* how many times the effect has been performed

jobVars == <<phase, effects>>

JobInit ==
    /\ phase = "open"
    /\ effects = 0

Perform ==
    /\ phase = "open"
    /\ effects' = effects + 1
    /\ phase' = "open"

Latch ==
    /\ phase = "open"
    /\ effects > 0
    /\ phase' = "latched"
    /\ UNCHANGED effects

JobNext == Perform \/ Latch

JobSpec == JobInit /\ [][JobNext]_jobVars
=============================================================================
