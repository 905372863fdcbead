----------------------------- MODULE ActionProofs -----------------------------
(***************************************************************************)
(* For any number of callers: the double-checked init of Action runs its   *)
(* script at most once to success and before any other script, and the     *)
(* protocol implements ActionContract.                                     *)
(***************************************************************************)
EXTENDS Action, TLAPS

Critical == {"recheck", "init", "publish"}

(* Who is in the critical section holds the lock, so one caller at most. *)
LockInv ==
  \A c \in Callers : pc[c] \in Critical => init_lock = c

(* The labels that only one kind of action or call can reach. *)
PathInv ==
  \A c \in Callers :
    /\ pc[c] \in Critical \cup {"lock"} => HasInit
    /\ pc[c] = "noinit" => ~HasInit
    /\ pc[c] = "skip" => call[c] = "unban" /\ ~HasUnban
    /\ pc[c] \notin {"idle", "skip"} => (call[c] = "unban" => HasUnban)

(* The flag is set exactly after a successful init, which happens once. *)
FlagInv ==
  /\ ~HasInit => prepared
  /\ initialized /\ ~DryRun => prepared
  /\ \A c \in Callers :
       /\ pc[c] \in {"init", "publish"} => ~initialized
       /\ pc[c] = "publish" /\ ~DryRun => prepared
       /\ pc[c] = "script" => initialized
  /\ HasInit /\ prepared =>
       initialized \/ \E d \in Callers : pc[d] = "publish"

IInv == TypeOK /\ LockInv /\ PathInv /\ FlagInv

USE DEF Contract!Operations, Contract!Outcome, Contract!Configurations,
        HasInit, HasUnban, DryRun, Goto, Finish, Critical, Labels

(* The initial state. *)
LEMMA InitInductive == Init => IInv
<1> SUFFICES ASSUME Init PROVE IInv
  OBVIOUS
<1> USE DEF Init, Contract!Init
<1>1. TypeOK
  BY ActionAssumption DEF TypeOK
<1>2. LockInv /\ PathInv
  BY DEF LockInv, PathInv
<1>3. FlagInv
  BY ActionAssumption DEF FlagInv
<1> QED
  BY <1>1, <1>2, <1>3 DEF IInv

(* What a returning call leaves behind. *)
LEMMA FinishType ==
  ASSUME TypeOK, NEW c \in Callers, NEW ok \in BOOLEAN,
         NEW applied \in BOOLEAN, Finish(c, ok, applied)
  PROVE  /\ pc' \in [Callers -> Labels]
         /\ call' \in [Callers -> Contract!Operations \cup {"none"}]
         /\ outcome' \in [Callers -> Contract!Outcome]
         /\ \A d \in Callers : pc'[d] = "idle" <=> call'[d] = "none"
<1>1. [ok |-> ok, applied |-> applied] \in Contract!Outcome
  OBVIOUS
<1>2. outcome' \in [Callers -> Contract!Outcome]
  BY <1>1 DEF TypeOK
<1> QED
  BY <1>2 DEF TypeOK

(* Types are preserved by every step. *)
LEMMA TypeStep == TypeOK /\ [Next]_vars => TypeOK'
<1> SUFFICES ASSUME TypeOK, [Next]_vars PROVE TypeOK'
  OBVIOUS
<1>1. CASE UNCHANGED vars
  BY <1>1 DEF vars, TypeOK
<1>2. ASSUME NEW c \in Callers, Begin(c) PROVE TypeOK'
  <2>1. PICK op \in {"ban", "unban"} : call' = [call EXCEPT ![c] = op]
    BY <1>2 DEF Begin
  <2>2. PICK label \in {"skip", "check"} : pc' = [pc EXCEPT ![c] = label]
    BY <1>2 DEF Begin
  <2> QED
    BY <1>2, <2>1, <2>2 DEF TypeOK, Begin
<1>3. ASSUME NEW c \in Callers,
             FastCheck(c) \/ StoreWithoutInit(c) \/ Lock(c) \/ Recheck(c)
      PROVE  TypeOK'
  BY <1>3 DEF TypeOK, FastCheck, StoreWithoutInit, Lock, Recheck
<1>4. ASSUME NEW c \in Callers, InitSucceeds(c) PROVE TypeOK'
  <2>1. prepared' \in BOOLEAN
    BY <1>4 DEF InitSucceeds
  <2> QED
    BY <1>4, <2>1 DEF TypeOK, InitSucceeds
<1>5. ASSUME NEW c \in Callers, Publish(c) PROVE TypeOK'
  BY <1>5 DEF TypeOK, Publish
<1>6. ASSUME NEW c \in Callers, InitFails(c) PROVE TypeOK'
  BY <1>6, FinishType DEF TypeOK, InitFails
<1>7. ASSUME NEW c \in Callers,
             SkipUnban(c) \/ ScriptSucceeds(c) \/ ScriptFails(c)
      PROVE  TypeOK'
  <2>1. PICK ok \in BOOLEAN, applied \in BOOLEAN : Finish(c, ok, applied)
    <3>1. (~DryRun) \in BOOLEAN
      OBVIOUS
    <3> QED
      BY <1>7, <3>1 DEF SkipUnban, ScriptSucceeds, ScriptFails
  <2> HIDE DEF Finish
  <2> QED
    BY <1>7, <2>1, FinishType DEF TypeOK, SkipUnban, ScriptSucceeds, ScriptFails
<1> QED
  BY <1>1, <1>2, <1>3, <1>4, <1>5, <1>6, <1>7 DEF Next
(* Only the holder of the lock is in the critical section. *)
LEMMA LockStep == TypeOK /\ LockInv /\ [Next]_vars => LockInv'
<1> SUFFICES ASSUME TypeOK, LockInv, [Next]_vars PROVE LockInv'
  OBVIOUS
<1> USE ActionAssumption DEF TypeOK, LockInv
<1>1. CASE UNCHANGED vars
  BY <1>1 DEF vars
<1>2. ASSUME NEW c \in Callers,
             Begin(c) \/ SkipUnban(c) \/ FastCheck(c) \/ StoreWithoutInit(c)
      PROVE  LockInv'
  BY <1>2 DEF Begin, SkipUnban, FastCheck, StoreWithoutInit
<1>3. ASSUME NEW c \in Callers, Lock(c) PROVE LockInv'
  BY <1>3 DEF Lock
<1>4. ASSUME NEW c \in Callers,
             Recheck(c) \/ InitSucceeds(c) \/ InitFails(c) \/ Publish(c)
      PROVE  LockInv'
  BY <1>4 DEF Recheck, InitSucceeds, InitFails, Publish
<1>5. ASSUME NEW c \in Callers, ScriptSucceeds(c) \/ ScriptFails(c)
      PROVE  LockInv'
  BY <1>5 DEF ScriptSucceeds, ScriptFails
<1> QED
  BY <1>1, <1>2, <1>3, <1>4, <1>5 DEF Next

LEMMA PathStep == TypeOK /\ PathInv /\ [Next]_vars => PathInv'
<1> SUFFICES ASSUME TypeOK, PathInv, [Next]_vars PROVE PathInv'
  OBVIOUS
<1> USE DEF TypeOK, PathInv
<1>1. CASE UNCHANGED vars
  BY <1>1 DEF vars
<1>2. ASSUME NEW c \in Callers, Begin(c) PROVE PathInv'
  BY <1>2 DEF Begin
<1>3. ASSUME NEW c \in Callers,
             SkipUnban(c) \/ ScriptSucceeds(c) \/ ScriptFails(c)
                \/ InitFails(c)
      PROVE  PathInv'
  BY <1>3 DEF SkipUnban, ScriptSucceeds, ScriptFails, InitFails
<1>4. ASSUME NEW c \in Callers,
             FastCheck(c) \/ StoreWithoutInit(c) \/ Lock(c)
      PROVE  PathInv'
  BY <1>4 DEF FastCheck, StoreWithoutInit, Lock
<1>5. ASSUME NEW c \in Callers, Recheck(c) \/ InitSucceeds(c) \/ Publish(c)
      PROVE  PathInv'
  BY <1>5 DEF Recheck, InitSucceeds, Publish
<1> QED
  BY <1>1, <1>2, <1>3, <1>4, <1>5 DEF Next

(* The flag follows the init script: it is set once, by the caller that    *)
(* ran it, before the lock is released.                                    *)
LEMMA FlagStep == IInv /\ [Next]_vars => FlagInv'
<1> SUFFICES ASSUME IInv, [Next]_vars PROVE FlagInv'
  OBVIOUS
<1> USE ActionAssumption DEF IInv, TypeOK, FlagInv
<1>1. CASE UNCHANGED vars
  BY <1>1 DEF vars
<1>2. ASSUME NEW c \in Callers, Begin(c) \/ SkipUnban(c) \/ FastCheck(c)
      PROVE  FlagInv'
  BY <1>2 DEF Begin, SkipUnban, FastCheck, PathInv
<1>3. ASSUME NEW c \in Callers, StoreWithoutInit(c) PROVE FlagInv'
  BY <1>3 DEF StoreWithoutInit, PathInv
<1>4. ASSUME NEW c \in Callers, Lock(c) \/ Recheck(c) PROVE FlagInv'
  BY <1>4 DEF Lock, Recheck
<1>5. ASSUME NEW c \in Callers, InitSucceeds(c) PROVE FlagInv'
  BY <1>5 DEF InitSucceeds
<1>6. ASSUME NEW c \in Callers, InitFails(c) PROVE FlagInv'
  BY <1>6 DEF InitFails
<1>7. ASSUME NEW c \in Callers, Publish(c) PROVE FlagInv'
  BY <1>7 DEF Publish, LockInv
<1>8. ASSUME NEW c \in Callers, ScriptSucceeds(c) \/ ScriptFails(c)
      PROVE  FlagInv'
  BY <1>8 DEF ScriptSucceeds, ScriptFails
<1> QED
  BY <1>1, <1>2, <1>3, <1>4, <1>5, <1>6, <1>7, <1>8 DEF Next

(* IInv is an invariant. *)
THEOREM InductiveInvariant == Spec => []IInv
<1>1. IInv /\ [Next]_vars => IInv'
  BY TypeStep, LockStep, PathStep, FlagStep DEF IInv
<1> QED
  BY InitInductive, <1>1, PTL DEF Spec
(* Types hold for every number of callers. *)
THEOREM TypeCorrect == Spec => []TypeOK
  BY InductiveInvariant, PTL DEF IInv

(* The init script is run by one caller at a time, and never again after   *)
(* it has succeeded (action.rs, init).                                     *)
THEOREM InitRunsOnce == Spec => []InitOnce
<1>1. IInv => InitOnce
  BY ActionAssumption DEF IInv, TypeOK, LockInv, FlagInv, InitOnce
<1> QED
  BY <1>1, InductiveInvariant, PTL

(* No ban or unban script runs before the init script has succeeded or     *)
(* while it is running (action.rs, ban and unban).                         *)
THEOREM ScriptsAfterInit == Spec => []ScriptAfterInit
<1>1. IInv => ScriptAfterInit
  BY DEF IInv, TypeOK, FlagInv, ScriptAfterInit
<1> QED
  BY <1>1, InductiveInvariant, PTL

(* Every step of the protocol is a step of the contract or leaves its      *)
(* variables alone.                                                        *)
LEMMA ContractStep ==
  IInv /\ [Next]_vars => [Contract!Next]_(Contract!contractVars)
<1> SUFFICES ASSUME IInv, [Next]_vars
             PROVE  [Contract!Next]_(Contract!contractVars)
  OBVIOUS
<1> USE DEF IInv, TypeOK, Contract!contractVars
<1>1. CASE UNCHANGED vars
  BY <1>1 DEF vars
<1>2. ASSUME NEW c \in Callers, Begin(c) PROVE Contract!Next
  BY <1>2 DEF Begin, Contract!Next, Contract!Begin
<1>3. ASSUME NEW c \in Callers,
             FastCheck(c) \/ StoreWithoutInit(c) \/ Lock(c) \/ Recheck(c)
                \/ Publish(c)
      PROVE  UNCHANGED Contract!contractVars
  BY <1>3 DEF FastCheck, StoreWithoutInit, Lock, Recheck, Publish
<1>4. ASSUME NEW c \in Callers, InitSucceeds(c)
      PROVE  [Contract!Next]_(Contract!contractVars)
  <2>1. call[c] # "none"
    BY <1>4 DEF InitSucceeds
  <2> QED
    BY <1>4, <2>1 DEF InitSucceeds, Contract!Next, Contract!Prepare
<1>5. ASSUME NEW c \in Callers, SkipUnban(c) PROVE Contract!Return(c)
  BY <1>5 DEF SkipUnban, PathInv, Contract!Return, Contract!Allowed,
              Contract!Effective
<1>6. ASSUME NEW c \in Callers, InitFails(c) PROVE Contract!Return(c)
  BY <1>6 DEF InitFails, Contract!Return, Contract!Allowed
<1>7. ASSUME NEW c \in Callers, ScriptSucceeds(c) PROVE Contract!Return(c)
  BY <1>7 DEF ScriptSucceeds, PathInv, FlagInv, Contract!Return,
              Contract!Allowed, Contract!Effective
<1>8. ASSUME NEW c \in Callers, ScriptFails(c) PROVE Contract!Return(c)
  BY <1>8 DEF ScriptFails, PathInv, FlagInv, Contract!Return,
              Contract!Allowed, Contract!Effective
<1> QED
  BY <1>1, <1>2, <1>3, <1>4, <1>5, <1>6, <1>7, <1>8 DEF Next, Contract!Next

(* The double-checked protocol implements the contract of an action. *)
THEOREM Refinement == Spec => ImplementsContract
<1>1. Init => Contract!Init
  BY DEF Init
<1> QED
  BY <1>1, ContractStep, InductiveInvariant, PTL
     DEF Spec, ImplementsContract, Contract!Spec
=============================================================================
