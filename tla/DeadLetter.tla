----------------------------- MODULE DeadLetter -----------------------------
(***************************************************************************)
(* The dead-letter list and its operators: dead_letter_inspect of          *)
(* apps/core/management/commands on the failure rows of one execution.     *)
(* A replay reads a row, publishes the task again and then saves the row   *)
(* with what it has counted.                                               *)
(*                                                                         *)
(* What a command writes into a row is kept apart from what the task layer *)
(* wrote.  Abstracted: notes, names, listing (it changes nothing).  The    *)
(* rows of e-mails name no arguments, so their replay fails.               *)
(***************************************************************************)
EXTENDS PostTasks

CONSTANTS
    Operators,    \* people who run commands
    MaxReplays,   \* DEAD_LETTER_REPLAY_MAX_COUNT
    MaxRequests,  \* by task, bound on requests of the program itself
    MaxCommands   \* by task, bound on commands

ASSUME ReplayAssumption ==
    /\ MaxReplays \in Nat
    /\ MaxRequests \in [Tasks -> Nat]
    /\ MaxCommands \in [Tasks -> Nat]

VARIABLES
    marks,     \* marks[f]: what commands have written into row f
    command,   \* command[o]: the command an operator runs, and what it read
    commands,  \* commands so far
    replays,   \* history: replays[f], messages published for row f
    disturbed  \* history: rows on which commands overlapped or one died

deadVars == <<marks, command, commands, replays, disturbed>>

Unmarked == [count |-> 0, cooling |-> FALSE, terminal |-> FALSE, reason |-> "none"]

NoCommand == [at |-> "none"]

DeadInit ==
    /\ marks = [f \in FailureRow |-> Unmarked]
    /\ command = [o \in Operators |-> NoCommand]
    /\ commands = 0
    /\ replays = [f \in FailureRow |-> 0]
    /\ disturbed = {}

-----------------------------------------------------------------------------

Enter(o, what) == command' = [command EXCEPT ![o] = what]

(* A new task id; which one makes no difference.                           *)
Publish == issued # TaskIds /\ Request(CHOOSE id \in TaskIds : id \notin issued)

(* A command reads its row; another one may be in the middle of its own.   *)
Start(o, at, f) ==
    /\ command[o].at = "none"
    /\ commands < MaxCommands[task]
    /\ commands' = commands + 1
    /\ Enter(o, [at |-> at, row |-> f, read |-> marks[f]])
    /\ disturbed' = IF \E p \in Operators : command[p].at # "none" /\ command[p].row = f
                    THEN disturbed \union {f} ELSE disturbed

(* Mutated MayReplay: one replay too many.                                 *)
MayReplayOnceMore(f) == marks[f].count <= MaxReplays /\ ~marks[f].cooling

(* The limit and the cooldown are read from the row.                       *)
MayReplay(f) == marks[f].count < MaxReplays /\ ~marks[f].cooling

ReplayRead(o) ==
    /\ task # "mail"
    /\ \E f \in failures : MayReplay(f) /\ Start(o, "publish", f)
    /\ UNCHANGED <<vars, postVars, marks, replays>>

(* apply_async comes first,                                                *)
ReplayPublish(o) ==
    /\ command[o].at = "publish"
    /\ Publish
    /\ replays' = [replays EXCEPT ![command[o].row] = @ + 1]
    /\ Enter(o, [command[o] EXCEPT !.at = "save"])
    /\ UNCHANGED <<postVars, marks, commands, disturbed>>

(* and the payload read before is saved with one more replay in it; the    *)
(* row becomes a terminal one, whatever the task layer has made of it.     *)
ReplaySave(o) ==
    /\ command[o].at = "save"
    /\ marks' = [marks EXCEPT ![command[o].row] =
          [count |-> command[o].read.count + 1, cooling |-> TRUE,
           terminal |-> TRUE, reason |-> "manual_replay"]]
    /\ Enter(o, NoCommand)
    /\ UNCHANGED <<vars, postVars, commands, replays, disturbed>>

(* --dismiss saves the payload it has read as well, and makes the row      *)
(* terminal, whether or not autoretry goes on with its request.            *)
DismissRead(o) ==
    /\ \E f \in failures : Start(o, "dismiss", f)
    /\ UNCHANGED <<vars, postVars, marks, replays>>

DismissSave(o) ==
    /\ command[o].at = "dismiss"
    /\ marks' = [marks EXCEPT ![command[o].row] =
          [command[o].read EXCEPT !.terminal = TRUE, !.reason = "manual_dismiss"]]
    /\ Enter(o, NoCommand)
    /\ UNCHANGED <<vars, postVars, commands, replays, disturbed>>

(* The command dies; one that has published leaves a replay uncounted.     *)
CommandDies(o) ==
    /\ command[o].at # "none"
    /\ faults < MaxFaults
    /\ faults' = faults + 1
    /\ disturbed' = disturbed \union {command[o].row}
    /\ Enter(o, NoCommand)
    /\ UNCHANGED <<task, status, failures, queue, issued, pc, msg, effects,
                   postVars, marks, commands, replays>>

(* DEAD_LETTER_REPLAY_COOLDOWN_SECONDS have passed.                        *)
CooldownOver ==
    /\ \E f \in failures : marks[f].cooling
    /\ marks' = [f \in FailureRow |-> [marks[f] EXCEPT !.cooling = FALSE]]
    /\ command' = [o \in Operators |->
          IF command[o].at = "none" THEN NoCommand
          ELSE [command[o] EXCEPT !.read.cooling = FALSE]]
    /\ UNCHANGED <<vars, postVars, commands, replays, disturbed>>

Operate(o) ==
    \/ ReplayRead(o) \/ ReplayPublish(o) \/ ReplaySave(o)
    \/ DismissRead(o) \/ DismissSave(o) \/ CommandDies(o)

-----------------------------------------------------------------------------

DeadLetterInit == task \in Tasks /\ Begin /\ PostInit /\ DeadInit

DeadLetterNext ==
    \/ /\ \/ Cardinality(issued) < MaxRequests[task] /\ Publish /\ UNCHANGED postVars
          \/ \E w \in Workers : Receive(w) /\ UNCHANGED postVars
          \/ \E w \in Workers : Attempt(w) \/ Trouble(w)
       /\ UNCHANGED deadVars
    \/ \E o \in Operators : Operate(o)
    \/ CooldownOver

deadLetterVars == <<vars, postVars, deadVars>>

DeadLetterSpec ==
    /\ DeadLetterInit /\ [][DeadLetterNext]_deadLetterVars
    /\ \A w \in Workers : WF_deadLetterVars(Attempt(w) /\ UNCHANGED deadVars)
    /\ WF_deadLetterVars(\E w \in Workers : Receive(w) /\ UNCHANGED <<postVars, deadVars>>)

-----------------------------------------------------------------------------

(* What the columns is_terminal and terminal_reason of a row say.          *)
RowTerminal(f) == f.terminal \/ marks[f].terminal

ByCommand(f) == marks[f].reason \in {"manual_dismiss", "manual_replay"}

(* At the limit of the rows, where autoretry goes beyond it (e-mails).     *)
BeyondLimit(f) ==
    RecordedMax[task] < RetryLimit[task] /\ f.retries >= RecordedMax[task]

(***************************************************************************)
(* A row whose is_terminal is set closes its request: the same task id is  *)
(* not attempted again, whatever is replayed.  Two rows do not: one that   *)
(* an operator dismissed or replayed while autoretry was still at work on  *)
(* it, which then says so in its reason, and one at or above the limit it  *)
(* was compared with, when autoretry uses a greater one.                   *)
(***************************************************************************)
TerminalRowsClose ==
    \A f \in failures, m \in Live :
        RowTerminal(f) /\ m.id = f.id /\ m.retries > f.retries =>
            (~f.terminal /\ ByCommand(f)) \/ BeyondLimit(f)

(***************************************************************************)
(* "Replay limit reached": a failure is replayed DEAD_LETTER_REPLAY_MAX_   *)
(* COUNT times at most, unless commands on its row overlapped (also with a *)
(* dismissal, which saves the payload it has read) or one died, perhaps    *)
(* after it had published and before it counted.                           *)
(***************************************************************************)
ReplayLimit ==
    \A f \in FailureRow \ disturbed : replays[f] <= MaxReplays
=============================================================================
