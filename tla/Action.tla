-------------------------------- MODULE Action --------------------------------
(***************************************************************************)
(* One action of src/core/action.rs, called by several tasks at a time.    *)
(* Its init script is run at first use under a double-checked lock: an     *)
(* atomic flag read without the lock, the lock, the flag again.  A step is *)
(* one access to the flag or the lock, or the end of a script.             *)
(***************************************************************************)
EXTENDS Naturals

CONSTANTS
  Callers,    \* the tasks that may call the action
  NoCaller    \* the lock is free

ASSUME ActionAssumption == NoCaller \notin Callers

VARIABLES
  config,        \* init_cmd, unban_cmd and dry_run: chosen once
  initialized,   \* the atomic flag
  init_lock,     \* holder of the mutex
  pc,            \* caller -> where it is
  call,          \* caller -> the call in progress, or "none"
  outcome,       \* history: caller -> how its last call ended
  prepared       \* history: the init script, if any, has succeeded

vars == <<config, initialized, init_lock, pc, call, outcome, prepared>>

(* The contract sees neither the flag, nor the lock, nor the steps. *)
Contract == INSTANCE ActionContract
  WITH config <- config, call <- call, outcome <- outcome,
       prepared <- prepared

HasInit  == config.init       \* init_cmd is Some and not empty
HasUnban == config.unban      \* unban_cmd is Some and not empty
DryRun   == config.dry_run

Init ==
  /\ initialized = FALSE
  /\ init_lock = NoCaller
  /\ pc = [c \in Callers |-> "idle"]
  /\ Contract!Init

Goto(c, label) == pc' = [pc EXCEPT ![c] = label]

Finish(c, ok, applied) ==
  /\ Goto(c, "idle")
  /\ call' = [call EXCEPT ![c] = "none"]
  /\ outcome' = [outcome EXCEPT ![c] = [ok |-> ok, applied |-> applied]]

(* Mutant of Begin: an unban without a command is executed all the same. *)
BeginAlways(c) ==
  /\ pc[c] = "idle"
  /\ \E op \in Contract!Operations :
       /\ call' = [call EXCEPT ![c] = op]
       /\ Goto(c, "check")
  /\ UNCHANGED <<config, initialized, init_lock, outcome, prepared>>

(* ban, or unban with a command, begins with self.init(). *)
Begin(c) ==
  /\ pc[c] = "idle"
  /\ \E op \in Contract!Operations :
       /\ call' = [call EXCEPT ![c] = op]
       /\ Goto(c, IF op = "unban" /\ ~HasUnban THEN "skip" ELSE "check")
  /\ UNCHANGED <<config, initialized, init_lock, outcome, prepared>>

(* unban without a command. *)
SkipUnban(c) ==
  /\ pc[c] = "skip"
  /\ Finish(c, TRUE, FALSE)
  /\ UNCHANGED <<config, initialized, init_lock, prepared>>

(* The fast path, and the choice between no init script and the lock. *)
FastCheck(c) ==
  /\ pc[c] = "check"
  /\ Goto(c, IF initialized THEN "script"
             ELSE IF HasInit THEN "lock" ELSE "noinit")
  /\ UNCHANGED <<config, initialized, init_lock, call, outcome, prepared>>

StoreWithoutInit(c) ==
  /\ pc[c] = "noinit"
  /\ initialized' = TRUE
  /\ Goto(c, "script")
  /\ UNCHANGED <<config, init_lock, call, outcome, prepared>>

Lock(c) ==
  /\ pc[c] = "lock"
  /\ init_lock = NoCaller
  /\ init_lock' = c
  /\ Goto(c, "recheck")
  /\ UNCHANGED <<config, initialized, call, outcome, prepared>>

(* Mutants of Recheck: no second look at the flag; the flag is set before  *)
(* the script runs.                                                        *)
NoRecheck(c) ==
  /\ pc[c] = "recheck"
  /\ Goto(c, "init")
  /\ UNCHANGED <<config, initialized, init_lock, call, outcome, prepared>>

RecheckSetsFlag(c) ==
  /\ pc[c] = "recheck"
  /\ IF initialized
     THEN Goto(c, "script") /\ init_lock' = NoCaller
     ELSE Goto(c, "init") /\ UNCHANGED init_lock
  /\ initialized' = TRUE
  /\ UNCHANGED <<config, call, outcome, prepared>>

(* The double check; returning drops the guard. *)
Recheck(c) ==
  /\ pc[c] = "recheck"
  /\ IF initialized
     THEN Goto(c, "script") /\ init_lock' = NoCaller
     ELSE Goto(c, "init") /\ UNCHANGED init_lock
  /\ UNCHANGED <<config, initialized, call, outcome, prepared>>

(* The init script succeeds; in dry-run it is not executed. *)
InitSucceeds(c) ==
  /\ pc[c] = "init"
  /\ prepared' = (prepared \/ ~DryRun)
  /\ Goto(c, "publish")
  /\ UNCHANGED <<config, initialized, init_lock, call, outcome>>

(* Mutants of InitFails: the error is ignored, the lock is not released,   *)
(* the call does not return.                                               *)
InitErrorIgnored(c) ==
  /\ pc[c] = "init"
  /\ ~DryRun
  /\ init_lock' = NoCaller
  /\ Goto(c, "script")
  /\ UNCHANGED <<config, initialized, call, outcome, prepared>>

InitFailsLocked(c) ==
  /\ pc[c] = "init"
  /\ ~DryRun
  /\ Finish(c, FALSE, FALSE)
  /\ UNCHANGED <<config, initialized, init_lock, prepared>>

InitFailsSilently(c) ==
  /\ pc[c] = "init"
  /\ ~DryRun
  /\ init_lock' = NoCaller
  /\ Goto(c, "idle")
  /\ UNCHANGED <<config, initialized, call, outcome, prepared>>

(* The init script fails: so does the call, and the next one tries again. *)
InitFails(c) ==
  /\ pc[c] = "init"
  /\ ~DryRun
  /\ init_lock' = NoCaller
  /\ Finish(c, FALSE, FALSE)
  /\ UNCHANGED <<config, initialized, prepared>>

(* The flag is set, then the guard dropped; a caller that sees the flag in *)
(* between goes on as one that sees it after.                              *)
Publish(c) ==
  /\ pc[c] = "publish"
  /\ initialized' = TRUE
  /\ init_lock' = NoCaller
  /\ Goto(c, "script")
  /\ UNCHANGED <<config, call, outcome, prepared>>

(* Mutant of ScriptSucceeds: executes in dry-run. *)
ScriptIgnoresDryRun(c) ==
  /\ pc[c] = "script"
  /\ Finish(c, TRUE, TRUE)
  /\ UNCHANGED <<config, initialized, init_lock, prepared>>

ScriptSucceeds(c) ==
  /\ pc[c] = "script"
  /\ Finish(c, TRUE, ~DryRun)
  /\ UNCHANGED <<config, initialized, init_lock, prepared>>

(* A failing script, or one that cannot be waited for, may have acted. *)
ScriptFails(c) ==
  /\ pc[c] = "script"
  /\ ~DryRun
  /\ \E applied \in BOOLEAN : Finish(c, FALSE, applied)
  /\ UNCHANGED <<config, initialized, init_lock, prepared>>

Next ==
  \E c \in Callers :
    \/ Begin(c) \/ SkipUnban(c)
    \/ FastCheck(c) \/ StoreWithoutInit(c)
    \/ Lock(c) \/ Recheck(c)
    \/ InitSucceeds(c) \/ InitFails(c) \/ Publish(c)
    \/ ScriptSucceeds(c) \/ ScriptFails(c)

Spec == Init /\ [][Next]_vars

(* A task that can run is polled, every script returns, and the mutex is a *)
(* fair one: tokio hands it to its waiters in the order they came.         *)
Fairness ==
  \A c \in Callers :
    /\ WF_vars(SkipUnban(c) \/ FastCheck(c) \/ StoreWithoutInit(c))
    /\ SF_vars(Lock(c))
    /\ WF_vars(Recheck(c) \/ InitSucceeds(c) \/ InitFails(c) \/ Publish(c))
    /\ WF_vars(ScriptSucceeds(c) \/ ScriptFails(c))

FairSpec == Spec /\ Fairness

-----------------------------------------------------------------------------
Labels == {"idle", "skip", "check", "noinit", "lock", "recheck", "init",
           "publish", "script"}

TypeOK ==
  /\ config \in Contract!Configurations
  /\ initialized \in BOOLEAN
  /\ init_lock \in Callers \cup {NoCaller}
  /\ pc \in [Callers -> Labels]
  /\ call \in [Callers -> Contract!Operations \cup {"none"}]
  /\ outcome \in [Callers -> Contract!Outcome]
  /\ prepared \in BOOLEAN
  /\ \A c \in Callers : pc[c] = "idle" <=> call[c] = "none"

(* "This will be executed once at first use" (config.example.yaml): the    *)
(* init script runs in one task at a time, and never again once it has     *)
(* succeeded, however many first calls race for it.                        *)
InitOnce ==
  \A c \in Callers : pc[c] = "init" =>
    /\ \A d \in Callers \ {c} : pc[d] \notin {"recheck", "init", "publish"}
    /\ HasInit /\ ~DryRun => ~prepared

(* No ban or unban script runs before the init script has succeeded, nor   *)
(* while an init script is running (action.rs, the double check of init).  *)
ScriptAfterInit ==
  \A c \in Callers : pc[c] = "script" =>
    /\ ~DryRun => prepared
    /\ \A d \in Callers : pc[d] # "init"

(* The protocol implements the contract the engine relies on. *)
ImplementsContract == Contract!Spec

(* Every call returns: no caller waits for ever for the lock, also when    *)
(* the init script fails again and again.                                  *)
CallsReturn == \A c \in Callers : call[c] # "none" ~> call[c] = "none"
=============================================================================
