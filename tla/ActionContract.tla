---------------------------- MODULE ActionContract ----------------------------
(***************************************************************************)
(* What the engine may assume of an action (core/action.rs) when several   *)
(* tasks call its ban and unban at the same time: a call that succeeds has *)
(* acted on the backend exactly once, one that fails at most once, nothing *)
(* acts before the init script has succeeded, and nothing acts in dry-run. *)
(***************************************************************************)
CONSTANTS
  Callers     \* the tasks that may call the action

VARIABLES
  config,     \* which scripts the action has, and whether it runs any
  call,       \* caller -> the call it is waiting for, or "none"
  outcome,    \* caller -> how its last call ended
  prepared    \* the backend is ready: the init script, if any, has succeeded

contractVars == <<config, call, outcome, prepared>>

Operations == {"ban", "unban"}

Configurations == [init : BOOLEAN, unban : BOOLEAN, dry_run : BOOLEAN]

(* The calls that have something to execute. *)
Effective(op) == ~config.dry_run /\ (op = "unban" => config.unban)

Outcome == [ok : BOOLEAN, applied : BOOLEAN]

Init ==
  /\ config \in Configurations
  /\ call = [c \in Callers |-> "none"]
  /\ outcome = [c \in Callers |-> [ok |-> TRUE, applied |-> FALSE]]
  /\ prepared = ~config.init

Begin(c) ==
  /\ call[c] = "none"
  /\ \E op \in Operations : call' = [call EXCEPT ![c] = op]
  /\ UNCHANGED <<config, outcome, prepared>>

Prepare ==
  /\ ~config.dry_run
  /\ \E c \in Callers : call[c] # "none"
  /\ prepared' = TRUE
  /\ UNCHANGED <<config, call, outcome>>

Allowed(op, o) ==
  /\ o.ok => o.applied = Effective(op)
  /\ o.applied => Effective(op) /\ prepared

Return(c) ==
  /\ call[c] # "none"
  /\ call' = [call EXCEPT ![c] = "none"]
  /\ \E o \in Outcome :
       /\ Allowed(call[c], o)
       /\ outcome' = [outcome EXCEPT ![c] = o]
  /\ UNCHANGED <<config, prepared>>

Next ==
  \/ Prepare
  \/ \E c \in Callers : Begin(c) \/ Return(c)

Spec == Init /\ [][Next]_contractVars
=============================================================================
