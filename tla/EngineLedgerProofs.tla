-------------------------- MODULE EngineLedgerProofs --------------------------
(***************************************************************************)
(* The engine implements BanLedger, and a ban holds until the first row of *)
(* its block comes due, for any configuration, any number of sources,      *)
(* rules and addresses, every fault and unbounded time.                    *)
(***************************************************************************)
EXTENDS EngineProofs

-----------------------------------------------------------------------------
(* Time.                                                                   *)

LEMMA TimestampGrows ==
  ASSUME NEW t \in Nat, NEW u \in Nat, t <= u
  PROVE  UnixTimestamp(t) <= UnixTimestamp(u)
<1> DEFINE k == TicksPerSecond
           q == UnixTimestamp(t)
           p == UnixTimestamp(u)
<1>1. k \in Nat /\ k > 0
  BY RuleConfigAssumption
<1>2. q \in Nat /\ p \in Nat
  BY TimestampNat
<1>3. q * k <= t
  BY <1>1 DEF UnixTimestamp
<1>4. u < (p + 1) * k
  BY <1>1 DEF UnixTimestamp
<1> HIDE DEF k, q, p
<1>5. ASSUME q >= p + 1 PROVE FALSE
  <2>1. q * k >= (p + 1) * k
    BY <1>1, <1>2, <1>5
  <2>2. q * k \in Nat /\ (p + 1) * k \in Nat
    BY <1>1, <1>2
  <2> QED
    BY <1>3, <1>4, <2>1, <2>2
<1> QED
  BY <1>2, <1>5 DEF q, p

(* What the cleanup task holds has come due on the clock.                  *)
LEMMA HeldIsDue ==
  ASSUME TypeOK, HeldInv
  PROVE  /\ Timestamp \in 0..UnixTimestamp(now)
         /\ \A id \in cleaner.batch \cup cleaner.ids :
              /\ id \in Ids /\ id \in DOMAIN bans
              /\ bans[id] \in Row
              /\ bans[id].is_active
              /\ bans[id].expire_at <= Timestamp
              /\ bans[id].expire_at <= UnixTimestamp(now)
<1>1. cleaner.at \in Nat /\ now \in Nat /\ cleaner.at <= now
  BY CleanerFacts DEF TypeOK, HeldInv
<1>2. /\ Timestamp \in Nat /\ UnixTimestamp(now) \in Nat
      /\ Timestamp <= UnixTimestamp(now)
  BY <1>1, TimestampGrows, TimestampNat DEF Timestamp
<1>3. ASSUME NEW id \in cleaner.batch \cup cleaner.ids
      PROVE  /\ id \in Ids /\ id \in DOMAIN bans
             /\ bans[id] \in Row
             /\ bans[id].is_active
             /\ bans[id].expire_at <= Timestamp
             /\ bans[id].expire_at <= UnixTimestamp(now)
  <2>1. id \in Ids
    BY CleanerFacts DEF TypeOK
  <2>2. id \in DOMAIN bans /\ bans[id] \in Row
    BY <2>1 DEF TypeOK, StoreTypeOK, Ids
  <2>3. bans[id].is_active /\ bans[id].expire_at <= Timestamp
    BY DEF HeldInv
  <2>4. bans[id].expire_at \in Nat
    BY <2>2 DEF Row
  <2> QED
    BY <1>2, <2>1, <2>2, <2>3, <2>4
<1> QED
  BY <1>2, <1>3

-----------------------------------------------------------------------------
(* What a task has in hand is a ban that its rule may pronounce.           *)

DecidedBan(s) ==
  /\ task[s].ip \in IPs \ Whitelist
  /\ CurrentRule(s) \in rules
  /\ task[s].end \in 0..(now + BanDuration[CurrentRule(s)])

DecidedInv == \A s \in Sources : task[s].pc \in {"ban", "insert"} => DecidedBan(s)

LEMMA DecidedInit == Init => DecidedInv
  BY DEF Init, DecidedInv, IdleTask

(* A step that brings no task to a ban, and time, change nothing of it.    *)
LEMMA DecidedFrame ==
  ASSUME TypeOK, DecidedInv, rules' = rules, now' \in Nat, now <= now',
         \A s \in Sources :
           task'[s].pc \in {"ban", "insert"} =>
             /\ task[s].pc \in {"ban", "insert"}
             /\ task'[s].idx = task[s].idx /\ task'[s].ip = task[s].ip
             /\ task'[s].end = task[s].end
  PROVE  DecidedInv'
<1> SUFFICES ASSUME NEW s \in Sources, task'[s].pc \in {"ban", "insert"}
             PROVE  DecidedBan(s)'
  BY DEF DecidedInv
<1>1. DecidedBan(s)
  BY DEF DecidedInv
<1>2. /\ task'[s].ip = task[s].ip /\ task'[s].end = task[s].end
      /\ CurrentRule(s)' = CurrentRule(s)
  BY DEF CurrentRule
<1>3. CurrentRule(s) \in Rules
  BY CurrentRuleType DEF TypeOK
<1>4. BanDuration[CurrentRule(s)] \in Nat /\ now \in Nat
  BY <1>3, ConfigFacts DEF TypeOK
<1>5. task[s].end \in 0..(now' + BanDuration[CurrentRule(s)])
  BY <1>1, <1>4 DEF DecidedBan
<1> QED
  BY <1>1, <1>2, <1>5 DEF DecidedBan

LEMMA DecidedStep == TypeOK /\ DecidedInv /\ [Next]_vars => DecidedInv'
<1> SUFFICES ASSUME TypeOK, DecidedInv, [Next]_vars PROVE DecidedInv'
  OBVIOUS
<1>0. now \in Nat /\ TaskTypeOK
  BY DEF TypeOK
<1>1. CASE Tick \/ UNCHANGED vars
  <2>1. /\ rules' = rules /\ task' = task /\ now' \in Nat /\ now <= now'
    BY <1>0, <1>1 DEF Tick, vars
  <2> QED
    BY <2>1, DecidedFrame
<1>2. CASE CleanerNext
  <2>1. UNCHANGED <<rules, task, now>>
    BY <1>2 DEF CleanerNext, CleanerOnly, StartCycle, FetchBatch, FetchFails,
                SkipUnban, UnbanSucceeds, UnbanFails, MarkBatch, MarkFails,
                EvictStale
  <2> QED
    BY <1>0, <2>1, DecidedFrame
<1>3. CASE Restart
  BY <1>3 DEF Restart, DecidedInv, IdleTask
<1>4. ASSUME NEW s \in Sources, NextRule(s), UNCHANGED <<rules, now>>
      PROVE  DecidedInv'
  <2>1. /\ task'[s].pc \in {"idle", "match"}
        /\ \A t \in Sources \ {s} : task'[t] = task[t]
    BY <1>0, <1>4, NextRuleLabels
  <2> QED
    BY <1>0, <1>4, <2>1, DecidedFrame
<1>5. ASSUME NEW s \in Sources, SourceNext(s) PROVE DecidedInv'
  <2>1. CASE NoHit(s) \/ BanFails(s) \/ RecordBan(s) \/ RecordFails(s)
    BY <1>4, <2>1 DEF NoHit, BanFails, RecordBan, RecordFails
  <2>2. CASE ReceiveEntry(s)
    <3>1. /\ UNCHANGED <<rules, now>> /\ task'[s].pc = "match"
          /\ \A t \in Sources \ {s} : task'[t] = task[t]
      BY <1>0, <2>2 DEF ReceiveEntry, TaskTypeOK, AtRule
    <3> QED
      BY <1>0, <3>1, DecidedFrame
  <2>3. CASE BanSucceeds(s)
    <3>1. /\ UNCHANGED <<rules, now>> /\ task[s].pc = "ban"
          /\ task'[s].idx = task[s].idx /\ task'[s].ip = task[s].ip
          /\ task'[s].end = task[s].end
          /\ \A t \in Sources \ {s} : task'[t] = task[t]
      BY <1>0, <2>3 DEF BanSucceeds, TaskTypeOK, TaskType
    <3> QED
      BY <1>0, <3>1, DecidedFrame
  <2>4. CASE Hit(s)
    <3> DEFINE r == CurrentRule(s)
    <3>1. r \in rules /\ r \in Rules /\ UNCHANGED <<rules, now>>
      BY <1>0, <2>4, CurrentRuleType DEF Hit
    <3>2. PICK ip \in IPs \ Whitelist :
            \/ NextRule(s)
            \/ task' = [task EXCEPT ![s].pc = "ban", ![s].ip = ip,
                                    ![s].end = now + BanDuration[r]]
      BY <2>4 DEF Hit, Bannable
    <3>3. CASE NextRule(s)
      BY <1>4, <3>1, <3>3
    <3>4. CASE task' = [task EXCEPT ![s].pc = "ban", ![s].ip = ip,
                                    ![s].end = now + BanDuration[r]]
      <4>1. /\ task'[s].ip = ip /\ task'[s].end = now + BanDuration[r]
            /\ task'[s].idx = task[s].idx
            /\ \A t \in Sources \ {s} : task'[t] = task[t]
        BY <1>0, <3>4 DEF TaskTypeOK, TaskType
      <4>2. CurrentRule(s)' = r
        BY <4>1 DEF CurrentRule
      <4>3. now + BanDuration[r] \in 0..(now + BanDuration[r])
        BY <1>0, <3>1, ConfigFacts
      <4>4. DecidedBan(s)'
        BY <3>1, <4>1, <4>2, <4>3 DEF DecidedBan
      <4>5. ASSUME NEW t \in Sources \ {s}, task'[t].pc \in {"ban", "insert"}
            PROVE  DecidedBan(t)'
        BY <3>1, <4>1, <4>5 DEF DecidedInv, DecidedBan, CurrentRule
      <4> QED
        BY <4>4, <4>5 DEF DecidedInv
    <3> QED
      BY <3>2, <3>3, <3>4
  <2> QED
    BY <1>5, <2>1, <2>2, <2>3, <2>4 DEF SourceNext
<1> QED
  BY <1>1, <1>2, <1>3, <1>5 DEF Next

LEMMA DecidedInvariant == Spec => []DecidedInv
  BY DecidedInit, DecidedStep, TypeCorrect, PTL DEF Spec

-----------------------------------------------------------------------------
(* A block stays until the first of its rows comes due.                    *)

Undue(b) ==
  \A id \in DOMAIN bans :
    BlockOf(id) = b => bans[id].expire_at > UnixTimestamp(now)

(* What is about to be recorded is blocked like what has been recorded.    *)
HoldsInv ==
  /\ \A id \in DOMAIN bans : Undue(BlockOf(id)) => BlockOf(id) \in blocked
  /\ \A s \in Sources : task[s].pc = "insert" =>
       (Undue(Target(s)) => Target(s) \in blocked)

LEMMA HoldsInit == Init => HoldsInv
  BY DEF Init, HoldsInv, StoreInit, IdleTask

(* Rows keep what they are about, and none that is due comes undue.        *)
SameRows ==
  /\ DOMAIN bans' = DOMAIN bans
  /\ \A id \in DOMAIN bans : /\ bans'[id].rule = bans[id].rule
                             /\ bans'[id].ip = bans[id].ip
                             /\ bans'[id].expire_at = bans[id].expire_at

LEMMA ExpiryType ==
  ASSUME TypeOK
  PROVE  /\ DOMAIN bans = Ids
         /\ \A id \in DOMAIN bans : bans[id] \in Row /\ bans[id].expire_at \in Nat
<1>1. DOMAIN bans = Ids /\ \A id \in DOMAIN bans : bans[id] \in Row
  BY DEF TypeOK, StoreTypeOK, Ids
<1> QED
  BY <1>1 DEF Row

LEMMA UndueBefore ==
  ASSUME TypeOK, SameRows, now' \in Nat, now <= now', NEW b, Undue(b)'
  PROVE  Undue(b)
<1> SUFFICES ASSUME NEW id \in DOMAIN bans, BlockOf(id) = b
             PROVE  bans[id].expire_at > UnixTimestamp(now)
  BY DEF Undue
<1>1. BlockOf(id)' = b /\ id \in DOMAIN bans'
  BY DEF SameRows, BlockOf
<1>2. bans'[id].expire_at > UnixTimestamp(now)'
  BY <1>1 DEF Undue
<1>3. UnixTimestamp(now) <= UnixTimestamp(now')
  BY TimestampGrows DEF TypeOK
<1>4. UnixTimestamp(now)' = UnixTimestamp(now')
  BY DEF UnixTimestamp
<1>5. UnixTimestamp(now) \in Nat /\ UnixTimestamp(now') \in Nat
  BY TimestampNat DEF TypeOK
<1>6. bans[id].expire_at \in Nat /\ bans'[id].expire_at = bans[id].expire_at
  BY ExpiryType DEF SameRows
<1> QED
  BY <1>2, <1>3, <1>4, <1>5, <1>6

(* Steps that keep the rows and open no block but one that is due.         *)
LEMMA HoldsFrame ==
  ASSUME TypeOK, HoldsInv, SameRows, now' \in Nat, now <= now',
         \A b \in blocked : Undue(b) => b \in blocked',
         \A s \in Sources : task'[s].pc = "insert" =>
           \/ task'[s] = task[s]
           \/ Target(s)' \in blocked'
  PROVE  HoldsInv'
<1>1. ASSUME NEW id \in DOMAIN bans', Undue(BlockOf(id))'
      PROVE  BlockOf(id)' \in blocked'
  <2>1. id \in DOMAIN bans /\ BlockOf(id)' = BlockOf(id)
    BY DEF SameRows, BlockOf
  <2> DEFINE b == BlockOf(id)
  <2>2. Undue(b)'
    BY <1>1
  <2> QED
    BY <2>1, <2>2, UndueBefore DEF HoldsInv
<1>2. ASSUME NEW s \in Sources, task'[s].pc = "insert", Undue(Target(s))'
      PROVE  Target(s)' \in blocked'
  <2>1. CASE task'[s] = task[s]
    <3>1. Target(s)' = Target(s) /\ task[s].pc = "insert"
      BY <1>2, <2>1 DEF Target, CurrentRule
    <3> QED
      BY <1>2, <3>1, UndueBefore DEF HoldsInv
  <2> QED
    BY <1>2, <2>1
<1> QED
  BY <1>1, <1>2 DEF HoldsInv

LEMMA HoldsRecord ==
  ASSUME TypeOK, HoldsInv, NEW s \in Sources, RecordBan(s)
  PROVE  HoldsInv'
<1>1. /\ CurrentRule(s) \in Rules /\ task[s].ip \in IPs /\ task[s].end \in Nat
      /\ InsertActiveBan(task[s].ip, CurrentRule(s), task[s].end)
      /\ task[s].pc = "insert" /\ UNCHANGED <<blocked, now>>
  BY CurrentRuleType DEF RecordBan, TypeOK, TaskTypeOK, TaskType
<1>2. /\ StoreTypeOK' /\ Len(bans') = Len(bans) + 1
      /\ \A id \in Ids : bans'[id] = bans[id]
      /\ bans'[Len(bans) + 1] = ActiveBan(task[s].ip, CurrentRule(s), task[s].end)
  BY <1>1, InsertFacts DEF TypeOK
<1>3. PICK n \in Nat : n = Len(bans) + 1
  BY DEF TypeOK, StoreTypeOK
<1>4. DOMAIN bans = Ids /\ DOMAIN bans' = Ids \cup {n}
  BY <1>2, <1>3 DEF TypeOK, StoreTypeOK, Ids
<1>5. /\ task'[s].pc # "insert"
      /\ \A t \in Sources \ {s} : task'[t] = task[t]
  BY <1>1, NextRuleLabels DEF RecordBan, TypeOK
<1>6. /\ \A id \in Ids : BlockOf(id)' = BlockOf(id)
      /\ BlockOf(n)' = Target(s)
  <2>1. bans'[n].rule = CurrentRule(s) /\ bans'[n].ip = task[s].ip
    BY <1>2, <1>3 DEF ActiveBan
  <2> QED
    BY <1>2, <2>1 DEF BlockOf, Target
<1>7. ASSUME NEW b, Undue(b)' PROVE Undue(b)
  BY <1>1, <1>2, <1>4, <1>6, <1>7 DEF Undue
<1>8. ASSUME NEW id \in DOMAIN bans', Undue(BlockOf(id))'
      PROVE  BlockOf(id)' \in blocked'
  <2>1. PICK b : b = BlockOf(id)'
    OBVIOUS
  <2>2. Undue(b)
    BY <1>7, <1>8, <2>1
  <2>3. CASE id \in Ids
    BY <1>1, <1>4, <1>6, <2>1, <2>2, <2>3 DEF HoldsInv
  <2>4. CASE id = n
    BY <1>1, <1>6, <2>1, <2>2, <2>4 DEF HoldsInv
  <2> QED
    BY <1>4, <2>3, <2>4
<1>9. ASSUME NEW t \in Sources, task'[t].pc = "insert", Undue(Target(t))'
      PROVE  Target(t)' \in blocked'
  <2>1. PICK b : b = Target(t)'
    OBVIOUS
  <2>2. Undue(b)
    BY <1>7, <1>9, <2>1
  <2>3. t # s /\ task'[t] = task[t]
    BY <1>5, <1>9
  <2>4. b = Target(t)
    BY <2>1, <2>3 DEF Target, CurrentRule
  <2> QED
    BY <1>1, <1>9, <2>1, <2>2, <2>3, <2>4 DEF HoldsInv
<1> QED
  BY <1>8, <1>9 DEF HoldsInv

LEMMA HoldsSource ==
  ASSUME TypeOK, HoldsInv, NEW s \in Sources, SourceNext(s)
  PROVE  HoldsInv'
<1>0. now \in Nat /\ TaskTypeOK
  BY DEF TypeOK
<1>1. ASSUME UNCHANGED <<bans, now>>, blocked \subseteq blocked',
             \A t \in Sources \ {s} : task'[t] = task[t],
             task'[s].pc = "insert" => Target(s)' \in blocked'
      PROVE  HoldsInv'
  <2>1. SameRows /\ now' \in Nat /\ now <= now'
    BY <1>0, <1>1 DEF SameRows
  <2> QED
    BY <1>1, <2>1, HoldsFrame
<1>2. CASE ReceiveEntry(s)
  <2>1. task'[s].pc = "match" /\ \A t \in Sources \ {s} : task'[t] = task[t]
    BY <1>0, <1>2 DEF ReceiveEntry, TaskTypeOK, AtRule
  <2> QED
    BY <1>1, <1>2, <2>1 DEF ReceiveEntry
<1>3. CASE NoHit(s) \/ BanFails(s) \/ RecordFails(s)
  <2>1. /\ task'[s].pc \in {"idle", "match"}
        /\ \A t \in Sources \ {s} : task'[t] = task[t]
    BY <1>0, <1>3, NextRuleLabels DEF NoHit, BanFails, RecordFails
  <2>2. UNCHANGED <<bans, now>> /\ blocked \subseteq blocked'
    BY <1>3 DEF NoHit, BanFails, RecordFails
  <2> QED
    BY <1>1, <2>1, <2>2
<1>4. CASE Hit(s)
  <2>1. /\ task'[s].pc # "insert"
        /\ \A t \in Sources \ {s} : task'[t] = task[t]
    <3>1. NextRule(s) => /\ task'[s].pc \in {"idle", "match"}
                         /\ \A t \in Sources \ {s} : task'[t] = task[t]
      BY <1>0, NextRuleLabels
    <3> HIDE DEF NextRule
    <3> QED
      BY <1>0, <1>4, <3>1 DEF Hit, TaskTypeOK, TaskType
  <2>2. UNCHANGED <<bans, now, blocked>>
    BY <1>4 DEF Hit
  <2> QED
    BY <1>1, <2>1, <2>2
<1>5. CASE BanSucceeds(s)
  <2>1. /\ blocked' = blocked \cup {Target(s)} /\ UNCHANGED <<bans, now>>
        /\ Target(s)' = Target(s)
        /\ \A t \in Sources \ {s} : task'[t] = task[t]
    BY <1>0, <1>5 DEF BanSucceeds, TaskTypeOK, TaskType, Target, CurrentRule
  <2> QED
    BY <1>1, <2>1
<1>6. CASE RecordBan(s)
  BY <1>6, HoldsRecord
<1> QED
  BY <1>2, <1>3, <1>4, <1>5, <1>6 DEF SourceNext

LEMMA HoldsCleaner ==
  ASSUME TypeOK, HeldInv, HoldsInv, CleanerNext
  PROVE  HoldsInv'
<1>0. now \in Nat
  BY DEF TypeOK
<1>1. UNCHANGED <<rules, task, now>>
  BY DEF CleanerNext, CleanerOnly, StartCycle, FetchBatch, FetchFails, SkipUnban,
         UnbanSucceeds, UnbanFails, MarkBatch, MarkFails, EvictStale
<1>2. ASSUME SameRows, \A b \in blocked : Undue(b) => b \in blocked'
      PROVE  HoldsInv'
  BY <1>0, <1>1, <1>2, HoldsFrame
<1>3. CASE UNCHANGED <<bans, blocked>>
  BY <1>2, <1>3 DEF SameRows
<1>4. ASSUME NEW id \in cleaner.batch, UnbanSucceeds(id) \/ UnbanFails(id)
      PROVE  HoldsInv'
  <2>1. UNCHANGED bans /\ blocked \ {BlockOf(id)} \subseteq blocked'
    BY <1>4 DEF UnbanSucceeds, UnbanFails
  <2>2. ~Undue(BlockOf(id))
    <3>1. id \in DOMAIN bans /\ bans[id].expire_at <= UnixTimestamp(now)
      BY HeldIsDue
    <3>2. bans[id].expire_at \in Nat /\ UnixTimestamp(now) \in Nat
      BY <1>0, <3>1, ExpiryType, TimestampNat
    <3> QED
      BY <3>1, <3>2 DEF Undue
  <2>3. SameRows
    BY <2>1 DEF SameRows
  <2> QED
    BY <1>2, <2>1, <2>2, <2>3
<1>5. CASE MarkBatch
  <2>1. blocked' = blocked
    BY <1>5 DEF MarkBatch
  <2>2. \A id \in DOMAIN bans : bans[id] \in Row
    BY ExpiryType
  <2>3. bans' = [i \in DOMAIN bans |->
                   IF i \in cleaner.ids
                   THEN [bans[i] EXCEPT !.is_active = FALSE,
                                        !.unbanned_at = Timestamp]
                   ELSE bans[i]]
    BY <1>5 DEF MarkBatch, MarkBansInactive
  <2>4. SameRows
    BY <2>2, <2>3 DEF SameRows, Row
  <2> QED
    BY <1>2, <2>1, <2>4
<1>6. \/ UNCHANGED <<bans, blocked>> \/ MarkBatch
      \/ \E id \in cleaner.batch : UnbanSucceeds(id) \/ UnbanFails(id)
  BY DEF CleanerNext, StartCycle, FetchBatch, FetchFails, SkipUnban, MarkFails,
         EvictStale
<1> QED
  BY <1>3, <1>4, <1>5, <1>6

LEMMA HoldsStep == TypeOK /\ HeldInv /\ HoldsInv /\ [Next]_vars => HoldsInv'
<1> SUFFICES ASSUME TypeOK, HeldInv, HoldsInv, [Next]_vars PROVE HoldsInv'
  OBVIOUS
<1>1. CASE Tick \/ UNCHANGED vars
  <2>1. UNCHANGED <<bans, blocked, task>> /\ now' \in Nat /\ now <= now'
    BY <1>1 DEF Tick, vars, TypeOK
  <2> QED
    BY <2>1, HoldsFrame DEF SameRows
<1>2. CASE Restart
  <2>1. /\ UNCHANGED <<bans, blocked, now>> /\ now \in Nat
        /\ \A s \in Sources : task'[s].pc = "idle"
    BY <1>2 DEF Restart, IdleTask, TypeOK
  <2> QED
    BY <2>1, HoldsFrame DEF SameRows
<1> QED
  BY <1>1, <1>2, HoldsSource, HoldsCleaner DEF Next

(* A recorded ban blocks its address until the first row of that block has *)
(* come due, whatever fails and however tasks, cleanup and crashes         *)
(* interleave (engine.rs, process_entry and cleanup_expired_bans).         *)
THEOREM BlockHoldsUntilDue == Spec => []BlockedUntilFirstExpiry
<1>1. Spec => []HoldsInv
  BY HoldsInit, HoldsStep, HeldInvariant, TypeCorrect, PTL DEF Spec
<1>2. HoldsInv => BlockedUntilFirstExpiry
  BY DEF HoldsInv, BlockedUntilFirstExpiry, Undue
<1> QED
  BY <1>1, <1>2, PTL

-----------------------------------------------------------------------------
(* The refinement of BanLedger.                                            *)

(* Outside a batch nothing is collected.                                   *)
NoneLifted == cleaner.pc # "unban" => cleaner.ids = {}

LEMMA NoneLiftedInit == Init => NoneLifted
  BY DEF Init, NoneLifted, IdleCleaner

LEMMA NoneLiftedStep == TypeOK /\ NoneLifted /\ [Next]_vars => NoneLifted'
<1> SUFFICES ASSUME TypeOK, NoneLifted, [Next]_vars PROVE NoneLifted'
  OBVIOUS
<1>0. cleaner \in CleanerType /\ CleanerTypeOK
  BY DEF TypeOK, CleanerTypeOK
<1>1. CASE UNCHANGED cleaner
  BY <1>1 DEF NoneLifted
<1>2. CASE cleaner'.ids = {} \/ cleaner'.pc = "unban"
  BY <1>2 DEF NoneLifted
<1>3. CASE CleanerNext
  <2>1. CASE StartCycle \/ EvictStale
    <3>1. cleaner'.ids = {}
      BY <2>1, StartCycleFacts, IdleCleanerType DEF EvictStale, TypeOK
    <3> QED
      BY <1>2, <3>1
  <2>2. CASE FetchBatch \/ FetchFails
    <3>1. cleaner.ids = {}
      BY <2>2 DEF FetchBatch, FetchFails, NoneLifted
    <3>2. CASE FetchBatch
      <4>1. cleaner'.ids = cleaner.ids \/ cleaner'.ids = {}
        BY <1>0, <3>2, FetchFacts DEF TypeOK
      <4> QED
        BY <1>2, <3>1, <4>1
    <3>3. CASE FetchFails
      <4>1. cleaner'.ids = cleaner.ids
        BY <1>0, <3>3, FetchFailsFacts
      <4> QED
        BY <1>2, <3>1, <4>1
    <3> QED
      BY <2>2, <3>2, <3>3
  <2>3. ASSUME NEW id \in cleaner.batch,
               SkipUnban(id) \/ UnbanSucceeds(id) \/ UnbanFails(id)
        PROVE  NoneLifted'
    <3>1. cleaner'.pc = "unban"
      BY <1>0, <2>3 DEF SkipUnban, UnbanSucceeds, UnbanFails, NeedsUnban, CleanerType
    <3> QED
      BY <1>2, <3>1
  <2>4. CASE MarkBatch \/ MarkFails
    BY <1>0, <1>2, <2>4, AfterBatchFacts DEF MarkBatch, MarkFails
  <2> QED
    BY <1>3, <2>1, <2>2, <2>3, <2>4 DEF CleanerNext
<1>4. CASE Restart
  BY <1>2, <1>4 DEF Restart, IdleCleaner
<1> QED
  BY <1>1, <1>3, <1>4 DEF Next, vars, Tick, SourceNext, ReceiveEntry, NoHit, Hit,
     BanSucceeds, BanFails, RecordBan, RecordFails

LEMMA NoneLiftedInvariant == Spec => []NoneLifted
  BY NoneLiftedInit, NoneLiftedStep, TypeCorrect, PTL DEF Spec

(* The row that a task owes while it is about to insert.                   *)
OwedBy(s) ==
  [source |-> s, rule |-> CurrentRule(s), ip |-> task[s].ip, end |-> task[s].end]

LEMMA OwedIs ==
  /\ \A s \in Sources : task[s].pc = "insert" => OwedBy(s) \in Owed
  /\ \A o \in Owed : \E s \in Sources : task[s].pc = "insert" /\ o = OwedBy(s)
  BY DEF Owed, OwedBy

LEMMA OwedFrame ==
  ASSUME \A s \in Sources :
           \/ task'[s] = task[s]
           \/ task[s].pc # "insert" /\ task'[s].pc # "insert"
  PROVE  Owed' = Owed
<1>1. \A s \in Sources : task[s].pc = "insert" \/ task'[s].pc = "insert" =>
        task'[s].pc = "insert" /\ task[s].pc = "insert" /\ OwedBy(s)' = OwedBy(s)
  BY DEF OwedBy, CurrentRule
<1>2. Owed = {OwedBy(s) : s \in {t \in Sources : task[t].pc = "insert"}}
  BY DEF Owed, OwedBy
<1>3. Owed' = {OwedBy(s)' : s \in {t \in Sources : task'[t].pc = "insert"}}
  BY DEF Owed, OwedBy
<1> QED
  BY <1>1, <1>2, <1>3

LEMMA OwedGrows ==
  ASSUME NEW s \in Sources, task'[s].pc = "insert", task[s].pc # "insert",
         OwedBy(s)' = OwedBy(s), \A t \in Sources \ {s} : task'[t] = task[t]
  PROVE  Owed' = Owed \cup {OwedBy(s)}
<1>1. \A t \in Sources \ {s} : OwedBy(t)' = OwedBy(t)
  BY DEF OwedBy, CurrentRule
<1>2. Owed = {OwedBy(t) : t \in {u \in Sources : task[u].pc = "insert"}}
  BY DEF Owed, OwedBy
<1>3. Owed' = {OwedBy(t)' : t \in {u \in Sources : task'[u].pc = "insert"}}
  BY DEF Owed, OwedBy
<1> QED
  BY <1>1, <1>2, <1>3

LEMMA OwedShrinks ==
  ASSUME NEW s \in Sources, task[s].pc = "insert", task'[s].pc # "insert",
         \A t \in Sources \ {s} : task'[t] = task[t]
  PROVE  Owed' = Owed \ {OwedBy(s)}
<1>1. \A t \in Sources \ {s} : OwedBy(t)' = OwedBy(t) /\ OwedBy(t) # OwedBy(s)
  BY DEF OwedBy, CurrentRule
<1>2. Owed = {OwedBy(t) : t \in {u \in Sources : task[u].pc = "insert"}}
  BY DEF Owed, OwedBy
<1>3. Owed' = {OwedBy(t)' : t \in {u \in Sources : task'[u].pc = "insert"}}
  BY DEF Owed, OwedBy
<1> QED
  BY <1>1, <1>2, <1>3

-----------------------------------------------------------------------------
(* Each step is one of the ledger or changes nothing in it.                *)

LEMMA LedgerSource ==
  ASSUME TypeOK, DecidedInv, NEW s \in Sources, SourceNext(s)
  PROVE  [Ledger!Next]_(Ledger!ledgerVars)
<1> DEFINE r == CurrentRule(s)
           ip == task[s].ip
<1>0. TaskTypeOK /\ now \in Nat
  BY DEF TypeOK
<1>1. ASSUME UNCHANGED <<now, rules, blocked, bans, cleaner>>, Owed' = Owed
      PROVE  UNCHANGED Ledger!ledgerVars
  BY <1>1 DEF Ledger!ledgerVars
<1>2. ASSUME NextRule(s) PROVE
        /\ task'[s].pc \in {"idle", "match"}
        /\ \A t \in Sources \ {s} : task'[t] = task[t]
  BY <1>0, <1>2, NextRuleLabels
<1>3. CASE ReceiveEntry(s)
  <2>1. /\ task[s].pc = "idle" /\ task'[s].pc = "match"
        /\ \A t \in Sources \ {s} : task'[t] = task[t]
    BY <1>0, <1>3 DEF ReceiveEntry, TaskTypeOK, AtRule
  <2>2. Owed' = Owed
    BY <2>1, OwedFrame
  <2> QED
    BY <1>1, <1>3, <2>2 DEF ReceiveEntry
<1>4. CASE NoHit(s)
  <2>1. Owed' = Owed
    BY <1>2, <1>4, OwedFrame DEF NoHit
  <2> QED
    BY <1>1, <1>4, <2>1 DEF NoHit
<1>5. CASE Hit(s)
  <2>1. /\ task[s].pc = "match" /\ task'[s].pc # "insert"
        /\ \A t \in Sources \ {s} : task'[t] = task[t]
    <3> HIDE DEF NextRule
    <3> QED
      BY <1>0, <1>2, <1>5 DEF Hit, TaskTypeOK, TaskType
  <2>2. Owed' = Owed
    BY <2>1, OwedFrame
  <2> QED
    BY <1>1, <1>5, <2>2 DEF Hit
<1>6. ASSUME task[s].pc \in {"ban", "insert"}
      PROVE  /\ r \in rules /\ r \in Rules /\ ip \in IPs \ Whitelist
             /\ task[s].end \in 0..(now + BanDuration[r])
  BY <1>0, <1>6, CurrentRuleType DEF DecidedInv, DecidedBan
<1>7. CASE BanSucceeds(s)
  <2>1. /\ task[s].pc = "ban" /\ task'[s].pc = "insert"
        /\ blocked' = blocked \cup {<<BanAction[r], ip>>}
        /\ UNCHANGED <<now, rules, bans, cleaner>>
        /\ \A t \in Sources \ {s} : task'[t] = task[t]
    BY <1>0, <1>7 DEF BanSucceeds, TaskTypeOK, TaskType, Target
  <2>2. OwedBy(s)' = OwedBy(s)
    BY <1>0, <1>7 DEF BanSucceeds, TaskTypeOK, TaskType, OwedBy, CurrentRule
  <2>3. Owed' = Owed \cup {OwedBy(s)}
    BY <2>1, <2>2, OwedGrows
  <2>4. Ledger!Ban(s, r, ip, task[s].end)
    BY <2>1, <2>3 DEF Ledger!Ban, OwedBy
  <2> QED
    BY <1>6, <2>1, <2>4 DEF Ledger!Next
<1>8. CASE BanFails(s)
  <2>1. /\ task[s].pc = "ban" /\ UNCHANGED <<now, rules, bans, cleaner>>
        /\ \/ blocked' = blocked
           \/ blocked' = blocked \cup {<<BanAction[r], ip>>}
    BY <1>8 DEF BanFails, Target
  <2>2. Owed' = Owed
    BY <1>2, <1>8, <2>1, OwedFrame DEF BanFails
  <2>3. CASE blocked' = blocked
    BY <1>1, <2>1, <2>2, <2>3
  <2>4. CASE blocked' = blocked \cup {<<BanAction[r], ip>>}
    <3>1. Ledger!AbortedBan(r, ip)
      BY <2>1, <2>2, <2>4 DEF Ledger!AbortedBan
    <3> QED
      BY <1>6, <2>1, <3>1 DEF Ledger!Next
  <2> QED
    BY <2>1, <2>3, <2>4
<1>9. CASE RecordBan(s) \/ RecordFails(s)
  <2>1. /\ task[s].pc = "insert" /\ NextRule(s)
        /\ UNCHANGED <<now, rules, blocked, cleaner>>
    BY <1>9 DEF RecordBan, RecordFails
  <2>2. Owed' = Owed \ {OwedBy(s)} /\ OwedBy(s) \in Owed
    BY <1>2, <2>1, OwedShrinks, OwedIs
  <2>3. CASE RecordBan(s)
    <3>1. InsertActiveBan(ip, r, task[s].end)
      BY <2>3 DEF RecordBan
    <3>2. Ledger!Record(OwedBy(s))
      BY <2>1, <2>2, <3>1
         DEF Ledger!Record, Ledger!InsertActiveBan, Ledger!ActiveBan,
             Ledger!UnixTimestamp, Ledger!Null, InsertActiveBan, ActiveBan,
             UnixTimestamp, Null, OwedBy
    <3> QED
      BY <2>2, <3>2 DEF Ledger!Next
  <2>4. CASE RecordFails(s)
    <3>1. Ledger!Lose(OwedBy(s))
      BY <2>1, <2>2, <2>4 DEF Ledger!Lose, RecordFails
    <3> QED
      BY <2>2, <3>1 DEF Ledger!Next
  <2> QED
    BY <1>9, <2>3, <2>4
<1> QED
  BY <1>1, <1>3, <1>4, <1>5, <1>7, <1>8, <1>9 DEF SourceNext

LEMMA LedgerCleaner ==
  ASSUME TypeOK, HeldInv, NoneLifted, CleanerNext
  PROVE  [Ledger!Next]_(Ledger!ledgerVars)
<1>0. CleanerTypeOK /\ now \in Nat
  BY DEF TypeOK
<1>1. UNCHANGED <<now, rules, task>>
  BY DEF CleanerNext, CleanerOnly, StartCycle, FetchBatch, FetchFails, SkipUnban,
         UnbanSucceeds, UnbanFails, MarkBatch, MarkFails, EvictStale
<1>2. Owed' = Owed
  BY <1>1, OwedFrame
<1>3. ASSUME UNCHANGED <<blocked, bans>>, cleaner'.ids = cleaner.ids
      PROVE  UNCHANGED Ledger!ledgerVars
  BY <1>1, <1>2, <1>3 DEF Ledger!ledgerVars
<1>4. CASE StartCycle
  <2>1. cleaner'.ids = {} /\ cleaner.ids = {}
    BY <1>0, <1>4, StartCycleFacts DEF NoneLifted, StartCycle
  <2> QED
    BY <1>3, <1>4, <2>1 DEF StartCycle
<1>5. CASE FetchBatch
  <2>1. cleaner.ids = {} /\ UNCHANGED <<blocked, bans>>
    BY <1>5 DEF NoneLifted, FetchBatch
  <2>2. cleaner'.ids = cleaner.ids \/ cleaner'.ids = {}
    BY <1>0, <1>5, FetchFacts DEF TypeOK
  <2> QED
    BY <1>3, <2>1, <2>2
<1>6. CASE FetchFails
  <2>1. cleaner'.ids = cleaner.ids
    BY <1>0, <1>6, FetchFailsFacts
  <2> QED
    BY <1>3, <1>6, <2>1 DEF FetchFails
<1>7. ASSUME NEW id \in cleaner.batch
      PROVE  id \in DOMAIN bans /\ Ledger!Due(id)
  <2>1. id \in DOMAIN bans /\ bans[id].is_active
          /\ bans[id].expire_at <= UnixTimestamp(now)
    BY HeldIsDue
  <2> QED
    BY <2>1 DEF Ledger!Due, Ledger!UnixTimestamp, UnixTimestamp
<1>8. ASSUME NEW id \in cleaner.batch, SkipUnban(id) \/ UnbanSucceeds(id)
      PROVE  Ledger!Next
  <2>1. cleaner'.ids = cleaner.ids \cup {id} /\ UNCHANGED bans
    BY <1>0, <1>8, CollectFacts DEF SkipUnban, UnbanSucceeds
  <2>2. IF Ledger!Liftable(id) THEN blocked' = Ledger!LiftedBlocks(id)
                               ELSE UNCHANGED blocked
    <3>1. CASE SkipUnban(id)
      BY <3>1 DEF SkipUnban, Ledger!Liftable
    <3>2. CASE UnbanSucceeds(id)
      BY <3>2 DEF UnbanSucceeds, NeedsUnban, BlockOf, Ledger!Liftable,
                  Ledger!LiftedBlocks
    <3> QED
      BY <1>8, <3>1, <3>2
  <2>3. Ledger!Lift(id)
    BY <1>1, <1>2, <1>7, <2>1, <2>2 DEF Ledger!Lift
  <2> QED
    BY <1>7, <2>3 DEF Ledger!Next
<1>9. ASSUME NEW id \in cleaner.batch, UnbanFails(id)
      PROVE  [Ledger!Next]_(Ledger!ledgerVars)
  <2>1. cleaner'.ids = cleaner.ids /\ UNCHANGED bans /\ NeedsUnban(id)
    BY <1>0, <1>9, UnbanFailsFacts DEF UnbanFails
  <2>2. CASE blocked' = blocked
    BY <1>3, <2>1, <2>2
  <2>3. CASE blocked' = blocked \ {BlockOf(id)}
    <3>1. Ledger!AbortedLift(id)
      BY <1>1, <1>2, <1>7, <2>1, <2>3
         DEF Ledger!AbortedLift, Ledger!Liftable, Ledger!LiftedBlocks, NeedsUnban,
             BlockOf
    <3> QED
      BY <1>7, <3>1 DEF Ledger!Next
  <2> QED
    BY <1>9, <2>2, <2>3 DEF UnbanFails
<1>10. CASE MarkBatch
  <2>1. /\ Timestamp \in 0..UnixTimestamp(now)
        /\ \A id \in cleaner.ids :
             bans[id].is_active /\ bans[id].expire_at <= Timestamp
    BY HeldIsDue
  <2>2. cleaner'.ids = {} /\ UNCHANGED blocked
          /\ MarkBansInactive(Timestamp, cleaner.ids)
    BY <1>0, <1>10, AfterBatchFacts DEF MarkBatch
  <2>3. PICK ts \in 0..UnixTimestamp(now) : ts = Timestamp
    BY <2>1
  <2>4. Ledger!Close(ts)
    BY <1>1, <1>2, <2>1, <2>2, <2>3
       DEF Ledger!Close, Ledger!MarkBansInactive, MarkBansInactive
  <2>5. ts \in 0..Ledger!UnixTimestamp(now)
    BY DEF Ledger!UnixTimestamp, UnixTimestamp
  <2> QED
    BY <2>4, <2>5 DEF Ledger!Next
<1>11. CASE MarkFails
  <2>1. cleaner'.ids = {} /\ UNCHANGED <<blocked, bans>>
    BY <1>0, <1>11, AfterBatchFacts DEF MarkFails
  <2>2. Ledger!Reopen
    BY <1>1, <1>2, <2>1 DEF Ledger!Reopen
  <2> QED
    BY <2>2 DEF Ledger!Next
<1>12. CASE EvictStale
  <2>1. cleaner.ids = {} /\ cleaner'.ids = {} /\ UNCHANGED <<blocked, bans>>
    BY <1>12, IdleCleanerType DEF NoneLifted, EvictStale
  <2> QED
    BY <1>3, <2>1
<1> QED
  BY <1>4, <1>5, <1>6, <1>8, <1>9, <1>10, <1>11, <1>12 DEF CleanerNext

LEMMA LedgerStep ==
  TypeOK /\ HeldInv /\ DecidedInv /\ NoneLifted /\ [Next]_vars
    => [Ledger!Next]_(Ledger!ledgerVars)
<1> SUFFICES ASSUME TypeOK, HeldInv, DecidedInv, NoneLifted, [Next]_vars
             PROVE  [Ledger!Next]_(Ledger!ledgerVars)
  OBVIOUS
<1>1. CASE UNCHANGED vars
  <2>1. Owed' = Owed
    BY <1>1, OwedFrame DEF vars
  <2> QED
    BY <1>1, <2>1 DEF vars, Ledger!ledgerVars
<1>2. CASE Tick
  <2>1. Owed' = Owed /\ now' > now /\ UNCHANGED <<rules, blocked, bans, cleaner>>
    BY <1>2, OwedFrame DEF Tick, TypeOK
  <2>2. Ledger!Pass
    BY <2>1 DEF Ledger!Pass
  <2> QED
    BY <2>2 DEF Ledger!Next
<1>3. CASE Restart
  <2>1. /\ rules' \subseteq Rules /\ cleaner'.ids = {}
        /\ UNCHANGED <<now, blocked, bans>>
    BY <1>3, IdleCleanerType DEF Restart, TypeOK
  <2>2. Owed' = {}
    BY <1>3 DEF Restart, IdleTask, Owed
  <2>3. Ledger!Crash
    BY <2>1, <2>2 DEF Ledger!Crash
  <2> QED
    BY <2>3 DEF Ledger!Next
<1> QED
  BY <1>1, <1>2, <1>3, LedgerSource, LedgerCleaner DEF Next

(* The engine keeps the promise of BanLedger: it blocks only what a        *)
(* configured rule may ban and never a whitelisted address, records only   *)
(* what it has banned, lifts a block only for a row that has come due and  *)
(* closes a row only after its unban has succeeded or is not needed        *)
(* (engine.rs, process_entry and cleanup_expired_bans).                    *)
THEOREM Refinement == Spec => ImplementsBanLedger
<1>1. Init => Ledger!Init
  BY DEF Init, Ledger!Init, Ledger!StoreInit, StoreInit, Owed, IdleTask,
         IdleCleaner
<1> QED
  BY <1>1, LedgerStep, HeldInvariant, DecidedInvariant, NoneLiftedInvariant,
     TypeCorrect, PTL
     DEF Spec, ImplementsBanLedger, Ledger!Spec

=============================================================================
