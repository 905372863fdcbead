----------------------------- MODULE EngineProofs -----------------------------
(***************************************************************************)
(* For any configuration, any number of sources, rules and addresses, and  *)
(* unbounded time: the safety properties of Engine.                        *)
(***************************************************************************)
EXTENDS Engine, RateEstimatorLemmas, SequenceTheorems

LEMMA TimestampNat == \A t \in Nat : UnixTimestamp(t) \in Nat
<1>1. TicksPerSecond \in Nat /\ TicksPerSecond > 0
  BY RuleConfigAssumption
<1>2. \A t \in Nat : t \div TicksPerSecond \in Nat
  BY <1>1
<1> QED
  BY <1>2 DEF UnixTimestamp

-----------------------------------------------------------------------------
(* The table: an insert adds an active row at the end, an update changes   *)
(* the rows it names and no other.                                         *)

LEMMA InsertFacts ==
  ASSUME StoreTypeOK, NEW ip \in IPs, NEW r \in Rules, NEW end \in Nat,
         InsertActiveBan(ip, r, end)
  PROVE  /\ StoreTypeOK'
         /\ Len(bans') = Len(bans) + 1
         /\ \A id \in Ids : bans'[id] = bans[id]
         /\ bans'[Len(bans) + 1] = ActiveBan(ip, r, end)
<1>1. ActiveBan(ip, r, end) \in Row
  BY TimestampNat DEF ActiveBan, Row, Null
<1> QED
  BY <1>1 DEF StoreTypeOK, InsertActiveBan, Ids

LEMMA MarkFacts ==
  ASSUME StoreTypeOK, NEW ts \in Nat, NEW ids, MarkBansInactive(ts, ids)
  PROVE  /\ StoreTypeOK'
         /\ Len(bans') = Len(bans)
         /\ \A id \in Ids :
              bans'[id] = IF id \in ids
                          THEN [bans[id] EXCEPT !.is_active = FALSE,
                                                !.unbanned_at = ts]
                          ELSE bans[id]
<1> DEFINE row(id) == IF id \in ids
                      THEN [bans[id] EXCEPT !.is_active = FALSE,
                                            !.unbanned_at = ts]
                      ELSE bans[id]
<1>0. DOMAIN bans = 1..Len(bans)
  BY DEF StoreTypeOK
<1>1. bans' = [id \in 1..Len(bans) |-> row(id)]
  BY <1>0 DEF MarkBansInactive
<1>2. ASSUME NEW id \in 1..Len(bans) PROVE row(id) \in Row
  <2>1. bans[id] \in Row
    BY DEF StoreTypeOK
  <2> QED
    BY <2>1 DEF Row
<1>3. Len(bans) \in Nat
  BY DEF StoreTypeOK
<1> HIDE DEF row
<1>4. bans' \in [1..Len(bans) -> Row]
  BY <1>1, <1>2
<1>5. bans' \in Seq(Row) /\ Len(bans') = Len(bans)
  BY <1>3, <1>4, SeqDef
<1> QED
  BY <1>1, <1>5 DEF StoreTypeOK, Ids, row

-----------------------------------------------------------------------------
(* Types.                                                                  *)

LEMMA ConfigFacts ==
  /\ NoIP \notin IPs
  /\ \A s \in Sources :
       RulesOf[s] \in Seq(Rules) /\ Len(RulesOf[s]) \in Nat \ {0}
  /\ \A r \in Rules :
       /\ Window[r] \in Nat /\ MaxAttempts[r] \in Nat
       /\ BanDuration[r] \in Nat /\ BanAction[r] \in Actions
<1>1. \A s \in Sources :
        RulesOf[s] \in Seq(Rules) /\ Len(RulesOf[s]) \in Nat \ {0}
  <2> SUFFICES ASSUME NEW s \in Sources
               PROVE  RulesOf[s] \in Seq(Rules) /\ Len(RulesOf[s]) \in Nat \ {0}
    OBVIOUS
  <2>1. RulesOf[s] \in Seq(Rules) /\ RulesOf[s] # <<>>
    BY RuleConfigAssumption
  <2> QED
    BY <2>1
<1> QED
  BY <1>1, RuleConfigAssumption

LEMMA CurrentRuleType ==
  ASSUME TaskTypeOK, NEW s \in Sources
  PROVE  CurrentRule(s) \in Rules
<1>1. RulesOf[s] \in Seq(Rules) /\ task[s].idx \in 1..Len(RulesOf[s])
  BY ConfigFacts DEF TaskTypeOK
<1> QED
  BY <1>1 DEF CurrentRule

(* Replacing the record of one task. *)
LEMMA TaskUpdate ==
  ASSUME TaskTypeOK, NEW s \in Sources, NEW t \in TaskType,
         t.idx \in 1..Len(RulesOf[s]), t.pc \in {"ban", "insert"} => t.ip \in IPs,
         task' = [task EXCEPT ![s] = t]
  PROVE  TaskTypeOK'
  BY DEF TaskTypeOK

LEMMA IdleTaskType ==
  /\ IdleTask \in TaskType
  /\ \A s \in Sources : IdleTask.idx \in 1..Len(RulesOf[s])
  /\ IdleTask.pc = "idle"
  BY ConfigFacts DEF IdleTask, TaskType

LEMMA NextRuleType ==
  ASSUME TaskTypeOK, NEW s \in Sources, NextRule(s)
  PROVE  TaskTypeOK'
<1>1. task[s] \in TaskType /\ task[s].idx \in 1..Len(RulesOf[s])
  BY DEF TaskTypeOK
<1>2. CASE task[s].idx < Len(RulesOf[s])
  <2> DEFINE t == AtRule(task[s].ts, task[s].idx + 1)
  <2>1. task' = [task EXCEPT ![s] = t]
    BY <1>2 DEF NextRule
  <2>2. t \in TaskType /\ t.idx = task[s].idx + 1 /\ t.pc = "match"
    BY <1>1 DEF AtRule, TaskType
  <2>3. t.idx \in 1..Len(RulesOf[s])
    BY <1>1, <1>2, <2>2, ConfigFacts
  <2> HIDE DEF t
  <2> QED
    BY <2>1, <2>2, <2>3, TaskUpdate
<1>3. CASE ~(task[s].idx < Len(RulesOf[s]))
  <2>1. task' = [task EXCEPT ![s] = IdleTask]
    BY <1>3 DEF NextRule
  <2> QED
    BY <2>1, IdleTaskType, TaskUpdate
<1> QED
  BY <1>2, <1>3

(* What a step of the cleanup task does to its record. *)
LEMMA CleanerFacts ==
  ASSUME CleanerTypeOK
  PROVE  /\ cleaner.pc \in {"wait", "fetch", "unban", "evict"}
         /\ cleaner.at \in Nat
         /\ cleaner.batch \subseteq Ids
         /\ cleaner.ids \subseteq Ids
         /\ cleaner.full \in BOOLEAN
  BY DEF CleanerTypeOK, CleanerType

LEMMA IdleCleanerType ==
  /\ IdleCleaner \in CleanerType
  /\ IdleCleaner.batch = {} /\ IdleCleaner.ids = {}
  BY DEF IdleCleaner, CleanerType

LEMMA StartCycleFacts ==
  ASSUME StartCycle, now \in Nat
  PROVE  /\ cleaner' \in CleanerType
         /\ cleaner'.batch = {} /\ cleaner'.ids = {}
         /\ cleaner'.at = now
  BY DEF StartCycle, IdleCleaner, CleanerType

LEMMA FetchFacts ==
  ASSUME CleanerTypeOK, StoreTypeOK, FetchBatch
  PROVE  /\ cleaner' \in CleanerType
         /\ cleaner'.at = cleaner.at
         /\ \/ cleaner'.batch = cleaner.batch /\ cleaner'.ids = cleaner.ids
            \/ cleaner'.batch \subseteq ExpiredIds(Timestamp) /\ cleaner'.ids = {}
<1>1. PICK batch \in SUBSET ExpiredIds(Timestamp) :
        cleaner' = IF batch = {}
                     THEN [cleaner EXCEPT !.pc = "evict", !.full = FALSE]
                     ELSE [cleaner EXCEPT
                             !.pc = "unban", !.batch = batch, !.ids = {},
                             !.full = (Cardinality(batch) = BatchSize)]
  BY DEF FetchBatch
<1>2. batch \subseteq Nat
  BY DEF ExpiredIds, ActiveIds, StoreTypeOK
<1>3. CASE batch = {}
  BY <1>1, <1>3 DEF CleanerTypeOK, CleanerType
<1>4. CASE batch # {}
  BY <1>1, <1>2, <1>4 DEF CleanerTypeOK, CleanerType
<1> QED
  BY <1>3, <1>4

LEMMA CollectFacts ==
  ASSUME CleanerTypeOK, NEW id \in cleaner.batch,
         SkipUnban(id) \/ UnbanSucceeds(id)
  PROVE  /\ cleaner' \in CleanerType
         /\ cleaner'.at = cleaner.at
         /\ cleaner'.batch = cleaner.batch \ {id}
         /\ cleaner'.ids = cleaner.ids \cup {id}
<1>1. cleaner' = [cleaner EXCEPT !.batch = cleaner.batch \ {id},
                                 !.ids = cleaner.ids \cup {id}]
  BY DEF SkipUnban, UnbanSucceeds
<1> QED
  BY <1>1 DEF CleanerTypeOK, CleanerType

LEMMA UnbanFailsFacts ==
  ASSUME CleanerTypeOK, NEW id \in cleaner.batch, UnbanFails(id)
  PROVE  /\ cleaner' \in CleanerType
         /\ cleaner'.at = cleaner.at /\ cleaner'.ids = cleaner.ids
         /\ cleaner'.batch = cleaner.batch \ {id}
<1>1. cleaner' = [cleaner EXCEPT !.batch = cleaner.batch \ {id}]
  BY DEF UnbanFails
<1> QED
  BY <1>1 DEF CleanerTypeOK, CleanerType

LEMMA AfterBatchFacts ==
  ASSUME CleanerTypeOK, AfterBatch
  PROVE  /\ cleaner' \in CleanerType
         /\ cleaner'.at = cleaner.at
         /\ cleaner'.batch = cleaner.batch /\ cleaner.batch = {}
         /\ cleaner'.ids = {}
<1>1. PICK pc \in {"fetch", "evict"} :
        cleaner' = [cleaner EXCEPT !.pc = pc, !.ids = {}, !.full = FALSE]
  BY DEF AfterBatch
<1> QED
  BY <1>1 DEF AfterBatch, CleanerTypeOK, CleanerType

LEMMA FetchFailsFacts ==
  ASSUME CleanerTypeOK, FetchFails
  PROVE  /\ cleaner' \in CleanerType
         /\ cleaner'.at = cleaner.at
         /\ cleaner'.batch = cleaner.batch /\ cleaner'.ids = cleaner.ids
  BY DEF FetchFails, CleanerTypeOK, CleanerType

LEMMA CleanupType ==
  ASSUME StateTypeOK, NEW configured, NEW t, StateCleanup(configured, t)
  PROVE  StateTypeOK'
  BY NewEstimatorType DEF StateTypeOK, StateCleanup

LEMMA CountedFacts ==
  ASSUME StateTypeOK, NEW r \in Rules, NEW ip \in IPs, NEW ts \in Nat,
         states' = Counted(r, ip, ts)
  PROVE  /\ StateTypeOK'
         /\ states'[r][ip] = Push(states[r][ip], Window[r], ts)
         /\ \A q \in Rules, jp \in IPs :
              <<q, jp>> # <<r, ip>> => states'[q][jp] = states[q][jp]
<1>1. Push(states[r][ip], Window[r], ts) \in Estimator
  BY PushType, ConfigFacts DEF StateTypeOK, Time
<1>2. states' = [states EXCEPT ![r][ip] = Push(states[r][ip], Window[r], ts)]
  BY DEF Counted
<1> QED
  BY <1>1, <1>2 DEF StateTypeOK

LEMMA SourceTypes ==
  ASSUME TypeOK, NEW s \in Sources, SourceNext(s)
  PROVE  TypeOK'
<1> USE DEF TypeOK
<1>0. /\ task[s] \in TaskType /\ task[s].idx \in 1..Len(RulesOf[s])
      /\ task[s].ts \in Nat /\ task[s].end \in Nat
      /\ CurrentRule(s) \in Rules
  BY CurrentRuleType DEF TaskTypeOK, TaskType
<1>1. CASE ReceiveEntry(s)
  <2>1. PICK age \in 0..MaxDelay :
          age <= now /\ task' = [task EXCEPT ![s] = AtRule(now - age, 1)]
    BY <1>1 DEF ReceiveEntry
  <2>2. now - age \in Nat
    BY <2>1, EngineAssumption
  <2>3. AtRule(now - age, 1) \in TaskType /\ AtRule(now - age, 1).idx = 1
          /\ AtRule(now - age, 1).pc = "match"
    BY <2>2 DEF AtRule, TaskType
  <2> DEFINE t == AtRule(now - age, 1)
  <2>4. TaskTypeOK'
    <3>1. t.idx \in 1..Len(RulesOf[s])
      BY <2>3, ConfigFacts
    <3> HIDE DEF t
    <3> QED
      BY <2>1, <2>3, <3>1, TaskUpdate DEF t
  <2> QED
    BY <1>1, <2>4 DEF ReceiveEntry, CleanerTypeOK, Ids, StateTypeOK, StoreTypeOK
<1>2. CASE NoHit(s) \/ RecordFails(s)
  <2>1. TaskTypeOK'
    BY <1>2, NextRuleType DEF NoHit, RecordFails
  <2> QED
    BY <1>2, <2>1
       DEF NoHit, RecordFails, CleanerTypeOK, Ids, StateTypeOK, StoreTypeOK
<1>3. CASE Hit(s)
  <2> DEFINE r == CurrentRule(s)
  <2>1. PICK ip \in IPs \ Whitelist :
          /\ states' = Counted(r, ip, task[s].ts)
          /\ hits' = [hits EXCEPT ![r][ip] =
                       IF OutOfOrder(states[r][ip], task[s].ts) THEN @ ELSE @ + 1]
          /\ \/ NextRule(s)
             \/ task' = [task EXCEPT ![s].pc = "ban", ![s].ip = ip,
                                     ![s].end = now + BanDuration[r]]
    BY <1>3 DEF Hit, Bannable
  <2>2. StateTypeOK'
    BY <1>0, <2>1, CountedFacts
  <2>3. hits' \in [Rules -> [IPs -> Nat]]
    BY <1>0, <2>1
  <2>4. ASSUME task' = [task EXCEPT ![s].pc = "ban", ![s].ip = ip,
                                    ![s].end = now + BanDuration[r]]
        PROVE  TaskTypeOK'
    <3>1. now + BanDuration[r] \in Nat
      BY <1>0, ConfigFacts
    <3> DEFINE t == [task[s] EXCEPT !.pc = "ban", !.ip = ip,
                                    !.end = now + BanDuration[r]]
    <3>2. t \in TaskType /\ t.idx = task[s].idx /\ t.ip = ip
      BY <1>0, <3>1 DEF TaskType
    <3>3. task' = [task EXCEPT ![s] = t]
      BY <2>4 DEF TaskTypeOK
    <3> HIDE DEF t
    <3> QED
      BY <1>0, <3>2, <3>3, TaskUpdate
  <2>5. TaskTypeOK'
    BY <2>1, <2>4, NextRuleType
  <2> QED
    BY <1>3, <2>2, <2>3, <2>5 DEF Hit, CleanerTypeOK, Ids, StoreTypeOK
<1>4. CASE BanSucceeds(s) \/ BanFails(s)
  <2>1. CurrentRule(s) \in Rules /\ task[s].ip \in IPs
    BY <1>0, <1>4 DEF BanSucceeds, BanFails, TaskTypeOK
  <2>2. Target(s) \in Actions \X IPs
    BY <2>1, ConfigFacts DEF Target
  <2>3. blocked' \subseteq Actions \X IPs
    BY <1>4, <2>2 DEF BanSucceeds, BanFails
  <2>4. CASE BanSucceeds(s)
    <3> DEFINE t == [task[s] EXCEPT !.pc = "insert"]
    <3>1. t \in TaskType /\ t.idx = task[s].idx /\ t.ip = task[s].ip
      BY <1>0 DEF TaskType
    <3>2. task' = [task EXCEPT ![s] = t]
      BY <2>4 DEF BanSucceeds
    <3> HIDE DEF t
    <3>3. TaskTypeOK'
      BY <1>0, <2>1, <3>1, <3>2, TaskUpdate
    <3> QED
      BY <2>3, <2>4, <3>3
         DEF BanSucceeds, CleanerTypeOK, Ids, StateTypeOK, StoreTypeOK
  <2>5. CASE BanFails(s)
    <3>1. TaskTypeOK'
      BY <2>5, NextRuleType DEF BanFails
    <3> QED
      BY <2>3, <2>5, <3>1
         DEF BanFails, CleanerTypeOK, Ids, StateTypeOK, StoreTypeOK
  <2> QED
    BY <1>4, <2>4, <2>5
<1>5. CASE RecordBan(s)
  <2>1. TaskTypeOK'
    BY <1>5, NextRuleType DEF RecordBan
  <2>2. task[s].ip \in IPs /\ InsertActiveBan(task[s].ip, CurrentRule(s), task[s].end)
    BY <1>5 DEF RecordBan, TaskTypeOK
  <2>3. StoreTypeOK' /\ Len(bans') = Len(bans) + 1
    BY <1>0, <2>2, InsertFacts
  <2>4. CleanerTypeOK'
    BY <1>5, <2>3 DEF RecordBan, CleanerTypeOK, Ids, StoreTypeOK
  <2> QED
    BY <1>5, <2>1, <2>3, <2>4 DEF RecordBan, StateTypeOK
<1> QED
  BY <1>1, <1>2, <1>3, <1>4, <1>5 DEF SourceNext

LEMMA CleanerTypes ==
  ASSUME TypeOK, CleanerNext
  PROVE  TypeOK'
<1> USE DEF TypeOK
<1>1. ASSUME cleaner' \in CleanerType, Len(bans') = Len(bans),
             cleaner'.batch \cup cleaner'.ids \subseteq Ids
      PROVE  CleanerTypeOK'
  BY <1>1 DEF CleanerTypeOK, Ids
<1>2. /\ CleanerOnly => /\ TaskTypeOK' /\ now' \in Nat /\ rules' \subseteq Rules
                       /\ hits' \in [Rules -> [IPs -> Nat]]
                       /\ entries' \in Nat /\ restarts' \in Nat
      /\ UNCHANGED bans => StoreTypeOK' /\ Len(bans') = Len(bans)
      /\ UNCHANGED states => StateTypeOK'
  BY DEF CleanerOnly, TaskTypeOK, StoreTypeOK, StateTypeOK
<1>3. CASE StartCycle
  BY <1>1, <1>2, <1>3, StartCycleFacts DEF StartCycle
<1>4. CASE FetchBatch
  <2>1. ExpiredIds(Timestamp) \subseteq Ids
    BY DEF ExpiredIds, ActiveIds, Ids, StoreTypeOK
  <2> QED
    BY <1>1, <1>2, <1>4, <2>1, FetchFacts, CleanerFacts DEF FetchBatch
<1>5. CASE FetchFails
  BY <1>1, <1>2, <1>5, FetchFailsFacts, CleanerFacts DEF FetchFails
<1>6. ASSUME NEW id \in cleaner.batch, SkipUnban(id) \/ UnbanSucceeds(id)
      PROVE  TypeOK'
  <2>1. cleaner'.batch \cup cleaner'.ids \subseteq Ids
    BY <1>6, CollectFacts, CleanerFacts
  <2>2. cleaner' \in CleanerType
    BY <1>6, CollectFacts
  <2>3. blocked' \subseteq Actions \X IPs
    BY <1>6 DEF SkipUnban, UnbanSucceeds
  <2> QED
    BY <1>1, <1>2, <1>6, <2>1, <2>2, <2>3 DEF SkipUnban, UnbanSucceeds
<1>7. ASSUME NEW id \in cleaner.batch, UnbanFails(id) PROVE TypeOK'
  <2>1. cleaner'.batch \cup cleaner'.ids \subseteq Ids
    BY <1>7, UnbanFailsFacts, CleanerFacts
  <2>2. cleaner' \in CleanerType
    BY <1>7, UnbanFailsFacts
  <2>3. blocked' \subseteq Actions \X IPs
    BY <1>7 DEF UnbanFails
  <2> QED
    BY <1>1, <1>2, <1>7, <2>1, <2>2, <2>3 DEF UnbanFails
<1>8. CASE MarkBatch
  <2>1. StoreTypeOK' /\ Len(bans') = Len(bans)
    BY <1>8, MarkFacts, TimestampNat, CleanerFacts DEF MarkBatch, Timestamp
  <2>2. AfterBatch
    BY <1>8 DEF MarkBatch
  <2>3. CleanerTypeOK'
    BY <1>1, <2>1, <2>2, AfterBatchFacts, CleanerFacts
  <2> QED
    BY <1>2, <1>8, <2>1, <2>3 DEF MarkBatch
<1>9. CASE MarkFails
  BY <1>1, <1>2, <1>9, AfterBatchFacts, CleanerFacts DEF MarkFails
<1>10. CASE EvictStale
  <2>1. StateTypeOK'
    BY <1>10, CleanupType DEF EvictStale
  <2> QED
    BY <1>1, <1>2, <1>10, <2>1, IdleCleanerType DEF EvictStale
<1> QED
  BY <1>3, <1>4, <1>5, <1>6, <1>7, <1>8, <1>9, <1>10 DEF CleanerNext

LEMMA InitTypes == Init => TypeOK
<1> SUFFICES ASSUME Init PROVE TypeOK
  OBVIOUS
<1> USE DEF Init
<1>1. TaskTypeOK
  BY IdleTaskType DEF TaskTypeOK
<1>2. CleanerTypeOK
  BY IdleCleanerType DEF CleanerTypeOK
<1>3. hits \in [Rules -> [IPs -> Nat]]
  BY DEF NoHits
<1>4. StateTypeOK
  BY NewEstimatorType DEF StateInit, StateTypeOK
<1>5. StoreTypeOK
  BY DEF StoreInit, StoreTypeOK
<1> QED
  BY <1>1, <1>2, <1>3, <1>4, <1>5 DEF TypeOK

LEMMA RestartTypes == TypeOK /\ Restart => TypeOK'
<1> SUFFICES ASSUME TypeOK, Restart PROVE TypeOK'
  OBVIOUS
<1> USE DEF TypeOK, Restart
<1>1. TaskTypeOK'
  BY IdleTaskType DEF TaskTypeOK
<1>2. CleanerTypeOK'
  BY IdleCleanerType DEF CleanerTypeOK
<1>3. hits' \in [Rules -> [IPs -> Nat]]
  BY DEF NoHits
<1>4. StateTypeOK'
  BY NewEstimatorType DEF StateTypeOK
<1>5. StoreTypeOK'
  BY DEF StoreTypeOK
<1>6. rules' \subseteq Rules
  OBVIOUS
<1> QED
  BY <1>1, <1>2, <1>3, <1>4, <1>5, <1>6

LEMMA TypeStep == TypeOK /\ [Next]_vars => TypeOK'
<1> SUFFICES ASSUME TypeOK, [Next]_vars PROVE TypeOK'
  OBVIOUS
<1>1. CASE Tick \/ UNCHANGED vars
  BY <1>1 DEF Tick, vars, TypeOK, TaskTypeOK, CleanerTypeOK, Ids, StateTypeOK,
              StoreTypeOK
<1> QED
  BY <1>1, SourceTypes, CleanerTypes, RestartTypes DEF Next

(* Types hold in every configuration, with no bound on time, entries or    *)
(* restarts.                                                               *)
THEOREM TypeCorrect == Spec => []TypeOK
  BY InitTypes, TypeStep, PTL DEF Spec

-----------------------------------------------------------------------------
(* No ban without the attempts: an estimate never exceeds the number of    *)
(* hits that were really counted.                                          *)

CountedHits ==
  \A r \in Rules, ip \in IPs : states[r][ip].estimated_count <= hits[r][ip]

AttemptsInv == CountedHits /\ BanNeedsAttempts

LEMMA AttemptsInit == Init => AttemptsInv
<1> SUFFICES ASSUME Init PROVE AttemptsInv
  OBVIOUS
<1>1. CountedHits
  BY DEF Init, CountedHits, StateInit, NoHits, NewEstimator
<1>2. BanNeedsAttempts
  BY DEF Init, BanNeedsAttempts, IdleTask
<1> QED
  BY <1>1, <1>2 DEF AttemptsInv

(* A task that goes on to its next rule, or stays as it is, is of no       *)
(* concern to BanNeedsAttempts.                                            *)
LEMMA NextRuleLabels ==
  ASSUME TaskTypeOK, NEW s \in Sources, NextRule(s)
  PROVE  /\ task'[s].pc \in {"idle", "match"}
         /\ \A t \in Sources \ {s} : task'[t] = task[t]
  BY DEF NextRule, TaskTypeOK, AtRule, IdleTask

LEMMA HitAttempts ==
  ASSUME TypeOK, AttemptsInv, NEW s \in Sources, Hit(s)
  PROVE  AttemptsInv'
<1> DEFINE r == CurrentRule(s)
<1>1. PICK ip \in IPs \ Whitelist :
        /\ states' = Counted(r, ip, task[s].ts)
        /\ hits' = [hits EXCEPT ![r][ip] =
                     IF OutOfOrder(states[r][ip], task[s].ts) THEN @ ELSE @ + 1]
        /\ IF BelowThreshold(r, ip, task[s].ts)
           THEN NextRule(s)
           ELSE task' = [task EXCEPT ![s].pc = "ban", ![s].ip = ip,
                                     ![s].end = now + BanDuration[r]]
  BY DEF Hit, Bannable
<1>2. /\ r \in Rules /\ ip \in IPs /\ task[s].ts \in Nat
      /\ states[r][ip] \in Estimator /\ Window[r] \in Nat /\ MaxAttempts[r] \in Nat
      /\ hits[r][ip] \in Nat
  BY CurrentRuleType, ConfigFacts DEF TypeOK, TaskTypeOK, TaskType, StateTypeOK
<1> HIDE DEF r
<1>3. /\ states'[r][ip] = Push(states[r][ip], Window[r], task[s].ts)
      /\ \A q \in Rules, jp \in IPs :
           <<q, jp>> # <<r, ip>> => states'[q][jp] = states[q][jp]
  BY <1>1, <1>2, CountedFacts DEF TypeOK
<1>4. /\ hits'[r][ip] = IF OutOfOrder(states[r][ip], task[s].ts)
                        THEN hits[r][ip] ELSE hits[r][ip] + 1
      /\ \A q \in Rules, jp \in IPs :
           <<q, jp>> # <<r, ip>> => hits'[q][jp] = hits[q][jp]
  BY <1>1, <1>2 DEF TypeOK
<1>5. /\ Push(states[r][ip], Window[r], task[s].ts) \in Estimator
      /\ Push(states[r][ip], Window[r], task[s].ts).estimated_count
           <= states[r][ip].estimated_count + 1
      /\ OutOfOrder(states[r][ip], task[s].ts) =>
           Push(states[r][ip], Window[r], task[s].ts) = states[r][ip]
  BY <1>2, PushType DEF Time
<1>6. states[r][ip].estimated_count <= hits[r][ip]
  BY <1>2 DEF AttemptsInv, CountedHits
<1>7. states'[r][ip].estimated_count <= hits'[r][ip]
  BY <1>2, <1>3, <1>4, <1>5, <1>6 DEF Estimator
<1>8. CountedHits'
  BY <1>3, <1>4, <1>7 DEF AttemptsInv, CountedHits
<1>9. \A q \in Rules, jp \in IPs : hits'[q][jp] >= hits[q][jp]
  BY <1>2, <1>4 DEF TypeOK
<1>10. ASSUME NEW t \in Sources, task'[t] = task[t], task[t].pc \in {"ban", "insert"}
       PROVE  hits'[CurrentRule(t)'][task'[t].ip] >= MaxAttempts[CurrentRule(t)']
  <2>1. CurrentRule(t) \in Rules /\ task[t].ip \in IPs
    BY <1>10, CurrentRuleType DEF TypeOK, TaskTypeOK
  <2>2. CurrentRule(t)' = CurrentRule(t)
    BY <1>10 DEF CurrentRule
  <2>3. hits[CurrentRule(t)][task[t].ip] >= MaxAttempts[CurrentRule(t)]
    BY <1>10 DEF AttemptsInv, BanNeedsAttempts
  <2>4. hits'[CurrentRule(t)][task[t].ip] >= hits[CurrentRule(t)][task[t].ip]
    BY <1>9, <2>1
  <2>5. /\ hits[CurrentRule(t)][task[t].ip] \in Nat
        /\ hits'[CurrentRule(t)][task[t].ip] \in Nat
        /\ MaxAttempts[CurrentRule(t)] \in Nat
    BY <1>1, <1>2, <2>1, ConfigFacts DEF TypeOK
  <2> QED
    BY <1>10, <2>2, <2>3, <2>4, <2>5
<1>11. CASE BelowThreshold(r, ip, task[s].ts)
  <2>1. NextRule(s)
    BY <1>1, <1>11
  <2> QED
    BY <1>8, <1>10, <2>1, NextRuleLabels
       DEF AttemptsInv, BanNeedsAttempts, TypeOK
<1>12. CASE ~BelowThreshold(r, ip, task[s].ts)
  <2>1. task' = [task EXCEPT ![s].pc = "ban", ![s].ip = ip,
                             ![s].end = now + BanDuration[r]]
    BY <1>1, <1>12
  <2>2. /\ task'[s].ip = ip /\ CurrentRule(s)' = r
        /\ \A t \in Sources \ {s} : task'[t] = task[t]
    BY <2>1 DEF TypeOK, TaskTypeOK, TaskType, CurrentRule, r
  <2>3. states'[r][ip].estimated_count >= MaxAttempts[r]
    BY <1>1, <1>2, <1>3, <1>5, <1>12 DEF BelowThreshold, Estimator
  <2>4. hits'[r][ip] >= MaxAttempts[r]
    BY <1>2, <1>3, <1>4, <1>5, <1>7, <2>3 DEF Estimator
  <2> QED
    BY <1>8, <1>10, <2>2, <2>4 DEF AttemptsInv, BanNeedsAttempts
<1> QED
  BY <1>11, <1>12

LEMMA AttemptsStep == TypeOK /\ AttemptsInv /\ [Next]_vars => AttemptsInv'
<1> SUFFICES ASSUME TypeOK, AttemptsInv, [Next]_vars PROVE AttemptsInv'
  OBVIOUS
<1> USE DEF AttemptsInv
<1>1. ASSUME UNCHANGED <<task, hits, states>> PROVE AttemptsInv'
  BY <1>1 DEF CountedHits, BanNeedsAttempts, CurrentRule
<1>2. CASE Tick \/ UNCHANGED vars
  BY <1>1, <1>2 DEF Tick, vars
<1>3. ASSUME NEW s \in Sources, UNCHANGED <<hits, states>>,
             task'[s].pc \in {"idle", "match"},
             \A t \in Sources \ {s} : task'[t] = task[t]
      PROVE  AttemptsInv'
  BY <1>3 DEF CountedHits, BanNeedsAttempts, CurrentRule
<1>4. ASSUME NEW s \in Sources, ReceiveEntry(s) PROVE AttemptsInv'
  BY <1>3, <1>4 DEF ReceiveEntry, AtRule, TypeOK, TaskTypeOK
<1>5. ASSUME NEW s \in Sources, NoHit(s) \/ BanFails(s) \/ RecordBan(s) \/ RecordFails(s)
      PROVE  AttemptsInv'
  <2>1. NextRule(s) /\ UNCHANGED <<hits, states>>
    BY <1>5 DEF NoHit, BanFails, RecordBan, RecordFails
  <2> QED
    BY <1>3, <2>1, NextRuleLabels DEF TypeOK
<1>6. ASSUME NEW s \in Sources, Hit(s) PROVE AttemptsInv'
  BY <1>6, HitAttempts
<1>7. ASSUME NEW s \in Sources, BanSucceeds(s) PROVE AttemptsInv'
  BY <1>7 DEF BanSucceeds, CountedHits, BanNeedsAttempts, CurrentRule, TypeOK,
              TaskTypeOK, TaskType
<1>8. CASE CleanerNext
  <2>1. CASE EvictStale
    <3>1. CountedHits'
      BY <2>1 DEF EvictStale, CleanerOnly, StateCleanup, CountedHits,
                  NewEstimator, TypeOK
    <3>2. BanNeedsAttempts'
      BY <2>1 DEF EvictStale, CleanerOnly, BanNeedsAttempts, CurrentRule
    <3> QED
      BY <3>1, <3>2
  <2>2. CASE ~EvictStale
    <3>1. UNCHANGED <<task, hits, states>>
      BY <1>8, <2>2
         DEF CleanerNext, CleanerOnly, StartCycle, FetchBatch, FetchFails,
             SkipUnban, UnbanSucceeds, UnbanFails, MarkBatch, MarkFails
    <3> QED
      BY <1>1, <3>1
  <2> QED
    BY <2>1, <2>2
<1>9. CASE Restart
  <2>1. CountedHits'
    BY <1>9 DEF Restart, CountedHits, NewEstimator, NoHits
  <2>2. BanNeedsAttempts'
    BY <1>9 DEF Restart, BanNeedsAttempts, IdleTask
  <2> QED
    BY <2>1, <2>2
<1> QED
  BY <1>2, <1>4, <1>5, <1>6, <1>7, <1>8, <1>9 DEF Next, SourceNext

(* A ban is decided only after max_attempts accepted hits of that address  *)
(* for that rule (state.rs, register_hit), through decay, eviction, late   *)
(* entries and restarts.                                                   *)
THEOREM AttemptsBeforeBan == Spec => []BanNeedsAttempts
<1>1. Spec => []AttemptsInv
  BY AttemptsInit, AttemptsStep, TypeCorrect, PTL DEF Spec
<1> QED
  BY <1>1, PTL DEF AttemptsInv

-----------------------------------------------------------------------------
(* What the cleanup task holds is never stale.                             *)

HeldInv ==
  /\ cleaner.at <= now
  /\ \A id \in cleaner.batch \cup cleaner.ids :
       bans[id].is_active /\ bans[id].expire_at <= Timestamp

LEMMA HeldInit == Init => HeldInv
  BY DEF Init, HeldInv, IdleCleaner

LEMMA HeldStep == TypeOK /\ HeldInv /\ [Next]_vars => HeldInv'
<1> SUFFICES ASSUME TypeOK, HeldInv, [Next]_vars PROVE HeldInv'
  OBVIOUS
<1> USE DEF TypeOK, HeldInv
<1>1. ASSUME UNCHANGED <<cleaner, bans>>, now' \in {now, now + 1} PROVE HeldInv'
  BY <1>1, CleanerFacts DEF Timestamp
<1>2. CASE Tick \/ UNCHANGED vars
  BY <1>1, <1>2 DEF Tick, vars
<1>3. ASSUME NEW s \in Sources, SourceNext(s) PROVE HeldInv'
  <2>1. CASE RecordBan(s)
    <3>1. CurrentRule(s) \in Rules /\ task[s].ip \in IPs /\ task[s].end \in Nat
      BY <2>1, CurrentRuleType DEF RecordBan, TaskTypeOK, TaskType
    <3>2. \A id \in Ids : bans'[id] = bans[id]
      BY <2>1, <3>1, InsertFacts DEF RecordBan
    <3> QED
      BY <2>1, <3>2, CleanerFacts DEF RecordBan, Timestamp
  <2>2. CASE ~RecordBan(s)
    BY <1>1, <1>3, <2>2
       DEF SourceNext, ReceiveEntry, NoHit, Hit, BanSucceeds, BanFails, RecordFails
  <2> QED
    BY <2>1, <2>2
<1>4. ASSUME cleaner'.batch \cup cleaner'.ids = {}, cleaner'.at \in {cleaner.at, now},
             now' = now
      PROVE  HeldInv'
  BY <1>4, CleanerFacts
<1>5. ASSUME UNCHANGED <<bans, now>>, cleaner'.at = cleaner.at,
             \A id \in cleaner'.batch \cup cleaner'.ids :
               id \in cleaner.batch \cup cleaner.ids \/ id \in ExpiredIds(Timestamp)
      PROVE  HeldInv'
  BY <1>5 DEF ExpiredIds, ActiveIds, Timestamp
<1>6. CASE CleanerNext
  <2> USE DEF CleanerOnly
  <2>1. CASE StartCycle
    BY <1>4, <2>1, StartCycleFacts DEF StartCycle
  <2>2. CASE FetchBatch
    BY <1>5, <2>2, FetchFacts DEF FetchBatch
  <2>3. CASE FetchFails
    BY <1>5, <2>3, FetchFailsFacts DEF FetchFails
  <2>4. ASSUME NEW id \in cleaner.batch, SkipUnban(id) \/ UnbanSucceeds(id)
        PROVE  HeldInv'
    BY <1>5, <2>4, CollectFacts DEF SkipUnban, UnbanSucceeds
  <2>5. ASSUME NEW id \in cleaner.batch, UnbanFails(id) PROVE HeldInv'
    BY <1>5, <2>5, UnbanFailsFacts DEF UnbanFails
  <2>6. CASE MarkBatch \/ MarkFails
    BY <1>4, <2>6, AfterBatchFacts DEF MarkBatch, MarkFails
  <2>7. CASE EvictStale
    <3>1. cleaner'.batch \cup cleaner'.ids = {} /\ cleaner'.at = 0 /\ now' = now
      BY <2>7 DEF EvictStale, IdleCleaner
    <3> QED
      BY <3>1
  <2> QED
    BY <1>6, <2>1, <2>2, <2>3, <2>4, <2>5, <2>6, <2>7 DEF CleanerNext
<1>7. CASE Restart
  BY <1>7 DEF Restart, IdleCleaner
<1> QED
  BY <1>2, <1>3, <1>6, <1>7 DEF Next

LEMMA HeldInvariant == Spec => []HeldInv
  BY HeldInit, HeldStep, TypeCorrect, PTL DEF Spec

(* No unban runs before the second its ban ends in, nor for a row that is  *)
(* already inactive (engine.rs, cleanup_expired_bans).                     *)
THEOREM CleanerNeverStale == Spec => []CleanerHoldsExpired
<1>1. ASSUME TypeOK, HeldInv PROVE CleanerHoldsExpired
  <2> SUFFICES ASSUME NEW id \in cleaner.batch \cup cleaner.ids
               PROVE  bans[id].is_active /\ bans[id].expire_at * TicksPerSecond <= now
    BY DEF CleanerHoldsExpired
  <2>1. bans[id].is_active /\ bans[id].expire_at <= Timestamp
    BY <1>1 DEF HeldInv
  <2>2. bans[id].expire_at \in Nat
    <3>1. id \in 1..Len(bans) /\ bans \in Seq(Row)
      BY <1>1, CleanerFacts DEF TypeOK, StoreTypeOK, Ids
    <3>2. bans[id] \in Row
      BY <3>1
    <3> QED
      BY <3>2 DEF Row
  <2>3. TicksPerSecond \in Nat /\ TicksPerSecond > 0
    BY RuleConfigAssumption
  <2>4. /\ cleaner.at \in Nat /\ now \in Nat /\ cleaner.at <= now
        /\ Timestamp = cleaner.at \div TicksPerSecond
    BY <1>1, CleanerFacts DEF TypeOK, HeldInv, Timestamp, UnixTimestamp
  <2>5. Timestamp \in Nat /\ Timestamp * TicksPerSecond <= cleaner.at
    BY <2>3, <2>4
  <2>6. bans[id].expire_at * TicksPerSecond <= Timestamp * TicksPerSecond
    BY <2>1, <2>2, <2>3, <2>5
  <2>7. bans[id].expire_at * TicksPerSecond \in Nat /\ Timestamp * TicksPerSecond \in Nat
    BY <2>2, <2>3, <2>5
  <2> QED
    BY <2>1, <2>4, <2>5, <2>6, <2>7
<1> QED
  BY <1>1, HeldInvariant, TypeCorrect, PTL

-----------------------------------------------------------------------------
(* The table is a journal.                                                 *)

LEMMA JournalStep ==
  ASSUME TypeOK, HeldInv, [Next]_vars, NEW id \in Ids
  PROVE  /\ id \in DOMAIN bans'
         /\ bans'[id] = bans[id] \/
              /\ bans[id].is_active
              /\ bans'[id] = [bans[id] EXCEPT !.is_active = FALSE,
                                              !.unbanned_at = Timestamp]
              /\ bans'[id].unbanned_at >= bans[id].expire_at
<1> USE DEF TypeOK
<1>1. CASE UNCHANGED bans
  BY <1>1 DEF Ids, StoreTypeOK
<1>2. ASSUME NEW s \in Sources, RecordBan(s)
      PROVE  id \in DOMAIN bans' /\ bans'[id] = bans[id]
  <2>1. CurrentRule(s) \in Rules /\ task[s].ip \in IPs /\ task[s].end \in Nat
    BY <1>2, CurrentRuleType DEF RecordBan, TaskTypeOK, TaskType
  <2>2. StoreTypeOK' /\ Len(bans') = Len(bans) + 1 /\ bans'[id] = bans[id]
    BY <1>2, <2>1, InsertFacts DEF RecordBan
  <2> QED
    BY <2>2 DEF StoreTypeOK, Ids
<1>3. CASE MarkBatch
  <2>1. Timestamp \in Nat
    BY TimestampNat, CleanerFacts DEF Timestamp
  <2>2. MarkBansInactive(Timestamp, cleaner.ids)
    BY <1>3 DEF MarkBatch
  <2>3. /\ StoreTypeOK' /\ Len(bans') = Len(bans)
        /\ bans'[id] = IF id \in cleaner.ids
                       THEN [bans[id] EXCEPT !.is_active = FALSE,
                                             !.unbanned_at = Timestamp]
                       ELSE bans[id]
    <3> DEFINE ts == Timestamp
               held == cleaner.ids
    <3>1. StoreTypeOK /\ ts \in Nat /\ MarkBansInactive(ts, held)
      BY <2>1, <2>2
    <3> HIDE DEF ts, held
    <3>2. /\ StoreTypeOK' /\ Len(bans') = Len(bans)
          /\ \A i \in Ids :
               bans'[i] = IF i \in held
                          THEN [bans[i] EXCEPT !.is_active = FALSE,
                                               !.unbanned_at = ts]
                          ELSE bans[i]
      BY <3>1, MarkFacts
    <3> QED
      BY <3>2 DEF ts, held
  <2>4. id \in DOMAIN bans'
    BY <2>3 DEF StoreTypeOK, Ids
  <2>5. ASSUME id \in cleaner.ids
        PROVE  /\ bans[id].is_active
               /\ bans'[id].unbanned_at >= bans[id].expire_at
    <3>1. bans[id].is_active /\ bans[id].expire_at <= Timestamp
      BY <2>5 DEF HeldInv
    <3>2. bans[id] \in Row
      BY DEF Ids, StoreTypeOK
    <3>3. bans'[id].unbanned_at = Timestamp
      BY <2>3, <2>5, <3>2 DEF Row
    <3> QED
      BY <2>1, <3>1, <3>2, <3>3 DEF Row
  <2> QED
    BY <2>3, <2>4, <2>5
<1>4. UNCHANGED bans \/ MarkBatch \/ \E s \in Sources : RecordBan(s)
  BY DEF Next, vars, Tick, SourceNext, ReceiveEntry, NoHit, Hit, BanSucceeds,
         BanFails, RecordFails, CleanerNext, StartCycle, FetchBatch, FetchFails,
         SkipUnban, UnbanSucceeds, UnbanFails, MarkFails, EvictStale, Restart
<1> QED
  BY <1>1, <1>2, <1>3, <1>4

(* No row is ever lost or changed but by becoming inactive, once, after    *)
(* its expiry (store.rs, mark_bans_inactive).                              *)
THEOREM TableIsJournal == Spec => RowsOnlyExpire
<1>1. TypeOK /\ HeldInv /\ [Next]_vars =>
        \A id \in Ids :
          /\ id \in DOMAIN bans'
          /\ bans'[id] = bans[id] \/
               /\ bans[id].is_active
               /\ bans'[id] = [bans[id] EXCEPT !.is_active = FALSE,
                                               !.unbanned_at = Timestamp]
               /\ bans'[id].unbanned_at >= bans[id].expire_at
  BY JournalStep
<1> QED
  BY <1>1, HeldInvariant, TypeCorrect, PTL DEF Spec, RowsOnlyExpire

-----------------------------------------------------------------------------
(* No block without a row, as long as ban scripts and inserts succeed and  *)
(* the process lives.                                                      *)

NoLoss == Faults \cap {"ban", "insert", "crash"} = {}

(* The witness of a block must survive the next update: it is not among    *)
(* the rows already unbanned.                                              *)
RowedInv ==
  /\ rules = Rules
  /\ \A b \in blocked : b[1] \in Unbannable =>
       \/ \E id \in ActiveIds \ cleaner.ids : BlockOf(id) = b
       \/ \E s \in Sources : task[s].pc = "insert" /\ Target(s) = b

LEMMA RowedInit == Init => RowedInv
  BY DEF Init, RowedInv

(* Steps that leave the table and the blocks alone, release no row to the  *)
(* update and end no insert.                                               *)
LEMMA RowedFrame ==
  ASSUME TypeOK, RowedInv, UNCHANGED <<bans, rules>>, blocked' \subseteq blocked,
         cleaner'.ids \subseteq cleaner.ids,
         \A s \in Sources : task[s].pc = "insert" => task'[s] = task[s]
  PROVE  RowedInv'
<1> SUFFICES ASSUME NEW b \in blocked', b[1] \in Unbannable
             PROVE  \/ \E id \in (ActiveIds \ cleaner.ids)' : BlockOf(id)' = b
                    \/ \E s \in Sources : task'[s].pc = "insert" /\ Target(s)' = b
  BY DEF RowedInv
<1>1. CASE \E id \in ActiveIds \ cleaner.ids : BlockOf(id) = b
  BY <1>1 DEF ActiveIds, BlockOf
<1>2. CASE \E s \in Sources : task[s].pc = "insert" /\ Target(s) = b
  BY <1>2 DEF Target, CurrentRule
<1> QED
  BY <1>1, <1>2 DEF RowedInv

(* A step of a source's task.                                              *)
LEMMA RowedSource ==
  ASSUME NoLoss, TypeOK, RowedInv, NEW s \in Sources, SourceNext(s)
  PROVE  RowedInv'
<1> USE DEF TypeOK
<1>1. ASSUME UNCHANGED <<bans, rules, blocked, cleaner>>, task[s].pc # "insert",
             \A t \in Sources \ {s} : task'[t] = task[t]
      PROVE  RowedInv'
  BY <1>1, RowedFrame
<1>2. CASE ReceiveEntry(s)
  BY <1>1, <1>2 DEF ReceiveEntry, TaskTypeOK
<1>3. CASE NoHit(s)
  BY <1>1, <1>3, NextRuleLabels DEF NoHit
<1>4. CASE Hit(s)
  <2>1. \A t \in Sources \ {s} : task'[t] = task[t]
    <3>1. NextRule(s) => \A t \in Sources \ {s} : task'[t] = task[t]
      BY NextRuleLabels
    <3> HIDE DEF NextRule
    <3> QED
      BY <1>4, <3>1 DEF Hit, TaskTypeOK
  <2> QED
    BY <1>1, <1>4, <2>1 DEF Hit
<1>5. CASE BanSucceeds(s)
  <2>1. /\ blocked' = blocked \cup {Target(s)} /\ UNCHANGED <<bans, rules, cleaner>>
        /\ task[s].pc = "ban" /\ task'[s].pc = "insert" /\ Target(s)' = Target(s)
        /\ \A t \in Sources \ {s} : task'[t] = task[t]
    BY <1>5 DEF BanSucceeds, TaskTypeOK, TaskType, Target, CurrentRule
  <2> SUFFICES ASSUME NEW b \in blocked', b[1] \in Unbannable
               PROVE  \/ \E id \in (ActiveIds \ cleaner.ids)' : BlockOf(id)' = b
                      \/ \E t \in Sources : task'[t].pc = "insert" /\ Target(t)' = b
    BY <2>1 DEF RowedInv
  <2>2. CASE b = Target(s)
    BY <2>1, <2>2
  <2>3. CASE \E id \in ActiveIds \ cleaner.ids : BlockOf(id) = b
    BY <2>1, <2>3 DEF ActiveIds, BlockOf
  <2>4. CASE \E t \in Sources : task[t].pc = "insert" /\ Target(t) = b
    <3>1. PICK t \in Sources : task[t].pc = "insert" /\ Target(t) = b
      BY <2>4
    <3>2. task'[t].pc = "insert" /\ Target(t)' = b
      BY <2>1, <3>1 DEF Target, CurrentRule
    <3> QED
      BY <3>2
  <2> QED
    BY <2>1, <2>2, <2>3, <2>4 DEF RowedInv
<1>6. CASE RecordBan(s)
  <2>1. /\ CurrentRule(s) \in Rules /\ task[s].ip \in IPs /\ task[s].end \in Nat
        /\ InsertActiveBan(task[s].ip, CurrentRule(s), task[s].end)
    BY <1>6, CurrentRuleType DEF RecordBan, TaskTypeOK, TaskType
  <2>2. /\ StoreTypeOK' /\ Len(bans') = Len(bans) + 1
        /\ \A id \in Ids : bans'[id] = bans[id]
        /\ bans'[Len(bans) + 1] = ActiveBan(task[s].ip, CurrentRule(s), task[s].end)
    BY <2>1, InsertFacts
  <2>3. /\ UNCHANGED <<blocked, rules, cleaner>>
        /\ \A t \in Sources \ {s} : task'[t] = task[t]
    BY <1>6, NextRuleLabels DEF RecordBan
  <2>4. Len(bans) \in Nat /\ DOMAIN bans = Ids /\ DOMAIN bans' = 1..(Len(bans) + 1)
    BY <2>2 DEF StoreTypeOK, Ids
  <2>5. PICK n \in Nat : n = Len(bans) + 1
    BY <2>4
  <2>6. n \in (ActiveIds \ cleaner.ids)' /\ BlockOf(n)' = Target(s)
    <3>1. n \notin cleaner.ids
      BY <2>4, <2>5, CleanerFacts DEF Ids
    <3>2. /\ bans'[n].is_active
          /\ bans'[n].rule = CurrentRule(s)
          /\ bans'[n].ip = task[s].ip
      BY <2>2, <2>5 DEF ActiveBan
    <3>3. n \in ActiveIds'
      BY <2>4, <2>5, <3>2 DEF ActiveIds
    <3> QED
      BY <2>3, <3>1, <3>2, <3>3 DEF BlockOf, Target
  <2> SUFFICES ASSUME NEW b \in blocked', b[1] \in Unbannable
               PROVE  \/ \E id \in (ActiveIds \ cleaner.ids)' : BlockOf(id)' = b
                      \/ \E t \in Sources : task'[t].pc = "insert" /\ Target(t)' = b
    BY <2>3 DEF RowedInv
  <2>7. CASE \E id \in ActiveIds \ cleaner.ids : BlockOf(id) = b
    <3>1. PICK id \in ActiveIds \ cleaner.ids : BlockOf(id) = b
      BY <2>7
    <3>2. id \in Ids /\ id \in (ActiveIds \ cleaner.ids)' /\ BlockOf(id)' = b
      BY <2>2, <2>3, <2>4, <3>1 DEF ActiveIds, BlockOf, Ids
    <3> QED
      BY <3>2
  <2>8. CASE \E t \in Sources : task[t].pc = "insert" /\ Target(t) = b
    <3>1. PICK t \in Sources : task[t].pc = "insert" /\ Target(t) = b
      BY <2>8
    <3>2. CASE t = s
      BY <2>6, <3>1, <3>2
    <3>3. CASE t # s
      <4>1. task'[t].pc = "insert" /\ Target(t)' = b
        BY <2>3, <3>1, <3>3 DEF Target, CurrentRule
      <4> QED
        BY <4>1
    <3> QED
      BY <3>2, <3>3
  <2> QED
    BY <2>3, <2>7, <2>8 DEF RowedInv
<1>7. ~BanFails(s) /\ ~RecordFails(s)
  BY DEF NoLoss, BanFails, RecordFails
<1> QED
  BY <1>2, <1>3, <1>4, <1>5, <1>6, <1>7 DEF SourceNext

(* A step of the cleanup task.                                             *)
LEMMA RowedCleaner ==
  ASSUME TypeOK, RowedInv, CleanerNext
  PROVE  RowedInv'
<1> USE DEF TypeOK, CleanerOnly
<1>1. CASE StartCycle
  BY <1>1, StartCycleFacts, RowedFrame DEF StartCycle
<1>2. CASE FetchBatch
  BY <1>2, FetchFacts, RowedFrame DEF FetchBatch
<1>3. CASE FetchFails
  BY <1>3, FetchFailsFacts, RowedFrame DEF FetchFails
<1>4. ASSUME NEW id \in cleaner.batch, SkipUnban(id) \/ UnbanSucceeds(id)
      PROVE  RowedInv'
  <2>1. /\ UNCHANGED <<bans, rules, task>> /\ cleaner'.ids = cleaner.ids \cup {id}
        /\ blocked' \subseteq blocked
    BY <1>4, CollectFacts DEF SkipUnban, UnbanSucceeds
  <2>2. bans[id] \in Row
    <3>1. id \in 1..Len(bans)
      BY CleanerFacts DEF Ids
    <3> QED
      BY <3>1 DEF StoreTypeOK
  <2>3. ASSUME NEW b \in blocked', b[1] \in Unbannable
        PROVE  BlockOf(id) # b
    <3>1. CASE SkipUnban(id)
      BY <2>2, <2>3, <3>1 DEF SkipUnban, BlockOf, RowedInv, Row
    <3>2. CASE UnbanSucceeds(id)
      BY <2>3, <3>2 DEF UnbanSucceeds
    <3> QED
      BY <1>4, <3>1, <3>2
  <2> SUFFICES ASSUME NEW b \in blocked', b[1] \in Unbannable
               PROVE  \/ \E i \in (ActiveIds \ cleaner.ids)' : BlockOf(i)' = b
                      \/ \E s \in Sources : task'[s].pc = "insert" /\ Target(s)' = b
    BY <2>1 DEF RowedInv
  <2>4. CASE \E i \in ActiveIds \ cleaner.ids : BlockOf(i) = b
    <3>1. PICK i \in ActiveIds \ cleaner.ids : BlockOf(i) = b
      BY <2>4
    <3>2. i # id
      BY <2>3, <3>1
    <3> QED
      BY <2>1, <3>1, <3>2 DEF ActiveIds, BlockOf
  <2>5. CASE \E s \in Sources : task[s].pc = "insert" /\ Target(s) = b
    BY <2>1, <2>5 DEF Target, CurrentRule
  <2> QED
    BY <2>1, <2>4, <2>5 DEF RowedInv
<1>5. ASSUME NEW id \in cleaner.batch, UnbanFails(id) PROVE RowedInv'
  BY <1>5, UnbanFailsFacts, RowedFrame DEF UnbanFails
<1>6. CASE MarkBatch
  <2>1. /\ UNCHANGED <<blocked, rules, task>> /\ cleaner'.ids = {}
    BY <1>6, AfterBatchFacts DEF MarkBatch
  <2>2. DOMAIN bans' = DOMAIN bans
          /\ \A i \in DOMAIN bans \ cleaner.ids : bans'[i] = bans[i]
    BY <1>6 DEF MarkBatch, MarkBansInactive
  <2> SUFFICES ASSUME NEW b \in blocked', b[1] \in Unbannable
               PROVE  \/ \E i \in (ActiveIds \ cleaner.ids)' : BlockOf(i)' = b
                      \/ \E s \in Sources : task'[s].pc = "insert" /\ Target(s)' = b
    BY <2>1 DEF RowedInv
  <2>3. CASE \E i \in ActiveIds \ cleaner.ids : BlockOf(i) = b
    <3>1. PICK i \in ActiveIds \ cleaner.ids : BlockOf(i) = b
      BY <2>3
    <3> QED
      BY <2>1, <2>2, <3>1 DEF ActiveIds, BlockOf
  <2>4. CASE \E s \in Sources : task[s].pc = "insert" /\ Target(s) = b
    BY <2>1, <2>4 DEF Target, CurrentRule
  <2> QED
    BY <2>1, <2>3, <2>4 DEF RowedInv
<1>7. CASE MarkFails
  BY <1>7, AfterBatchFacts, RowedFrame DEF MarkFails
<1>8. CASE EvictStale
  BY <1>8, IdleCleanerType, RowedFrame DEF EvictStale
<1> QED
  BY <1>1, <1>2, <1>3, <1>4, <1>5, <1>6, <1>7, <1>8 DEF CleanerNext

LEMMA RowedStep == NoLoss /\ TypeOK /\ RowedInv /\ [Next]_vars => RowedInv'
<1> SUFFICES ASSUME NoLoss, TypeOK, RowedInv, [Next]_vars PROVE RowedInv'
  OBVIOUS
<1>1. CASE Tick \/ UNCHANGED vars
  BY <1>1, RowedFrame DEF Tick, vars, TypeOK
<1>2. ~Restart
  BY DEF NoLoss, Restart
<1> QED
  BY <1>1, <1>2, RowedSource, RowedCleaner DEF Next

(* Whatever the backend blocks has an active row that will unban it, or a  *)
(* task about to insert one, when no ban script or insert fails and the    *)
(* process lives (engine.rs, process_entry and cleanup_expired_bans).      *)
(* EngineCrash.cfg shows that a crash breaks it.                           *)
THEOREM NoBlockIsForgotten == ASSUME NoLoss PROVE Spec => []NoOrphanBlock
<1>1. Spec => []RowedInv
  BY RowedInit, RowedStep, TypeCorrect, PTL DEF Spec
<1>2. RowedInv => NoOrphanBlock
  BY DEF RowedInv, NoOrphanBlock
<1> QED
  BY <1>1, <1>2, PTL

-----------------------------------------------------------------------------
(* Eviction drops only what is stale.                                      *)

(* A counter that is kept belongs to a configured rule and has seen a hit, *)
(* so only its age can evict it.                                           *)
KeptInv ==
  \A r \in Rules, ip \in IPs : states[r][ip] # NewEstimator =>
    r \in rules /\ states[r][ip].last_time # NoTime

LEMMA KeptInit == Init => KeptInv
  BY DEF Init, StateInit, KeptInv

(* A hit touches one counter, of a configured rule, and leaves it with an  *)
(* event: it never empties one.                                            *)
LEMMA HitKeeps ==
  ASSUME TypeOK, NEW s \in Sources, Hit(s), NEW q \in Rules, NEW jp \in IPs
  PROVE  \/ states'[q][jp] = states[q][jp]
         \/ q \in rules /\ states'[q][jp].last_time # NoTime
<1> DEFINE r == CurrentRule(s)
<1>1. PICK ip \in IPs \ Whitelist : states' = Counted(r, ip, task[s].ts)
  BY DEF Hit, Bannable
<1>2. /\ r \in Rules /\ task[s].ts \in Nat /\ states[r][ip] \in Estimator
      /\ Window[r] \in Nat /\ r \in rules
  BY CurrentRuleType, ConfigFacts
     DEF TypeOK, TaskTypeOK, TaskType, StateTypeOK, Hit
<1> HIDE DEF r
<1>3. /\ states'[r][ip] = Push(states[r][ip], Window[r], task[s].ts)
      /\ <<q, jp>> # <<r, ip>> => states'[q][jp] = states[q][jp]
  BY <1>1, <1>2, CountedFacts DEF TypeOK
<1>4. states'[r][ip].last_time # NoTime
  BY <1>2, <1>3, PushSeen DEF Time
<1> QED
  BY <1>2, <1>3, <1>4

LEMMA CountersChange ==
  ASSUME [Next]_vars
  PROVE  \/ UNCHANGED <<states, rules>>
         \/ rules' = rules /\ \E s \in Sources : Hit(s)
         \/ rules' = rules /\ EvictStale
         \/ Restart
  BY DEF Next, vars, Tick, SourceNext, ReceiveEntry, NoHit, Hit, BanSucceeds,
         BanFails, RecordBan, RecordFails, CleanerNext, CleanerOnly, StartCycle,
         FetchBatch, FetchFails, SkipUnban, UnbanSucceeds, UnbanFails, MarkBatch,
         MarkFails, EvictStale

LEMMA KeptStep == TypeOK /\ KeptInv /\ [Next]_vars => KeptInv'
<1> SUFFICES ASSUME TypeOK, KeptInv, [Next]_vars,
                    NEW q \in Rules, NEW jp \in IPs
             PROVE  states'[q][jp] # NewEstimator =>
                      q \in rules' /\ states'[q][jp].last_time # NoTime
  BY DEF KeptInv
<1>1. CASE UNCHANGED <<states, rules>>
  BY <1>1 DEF KeptInv
<1>2. ASSUME rules' = rules, NEW s \in Sources, Hit(s)
      PROVE  states'[q][jp] # NewEstimator =>
               q \in rules' /\ states'[q][jp].last_time # NoTime
  BY <1>2, HitKeeps DEF KeptInv
<1>3. CASE rules' = rules /\ EvictStale
  BY <1>3 DEF EvictStale, StateCleanup, KeptInv
<1>4. CASE Restart
  BY <1>4 DEF Restart
<1> QED
  BY <1>1, <1>2, <1>3, <1>4, CountersChange

LEMMA EvictStep ==
  ASSUME TypeOK, HeldInv, KeptInv, [Next]_vars, NEW q \in Rules, NEW jp \in IPs,
         states'[q][jp] = NewEstimator, states[q][jp] # NewEstimator
  PROVE  restarts' # restarts \/ now - states[q][jp].last_time > Window[q]
<1>1. q \in rules /\ states[q][jp].last_time # NoTime
  BY DEF KeptInv
<1>2. CASE \E s \in Sources : Hit(s)
  <2>1. NewEstimator.last_time = NoTime
    BY DEF NewEstimator
  <2> QED
    BY <1>2, <2>1, HitKeeps
<1>3. CASE EvictStale
  <2>1. Expired(states[q][jp], q, rules, cleaner.at)
    BY <1>3 DEF EvictStale, StateCleanup
  <2>2. cleaner.at - states[q][jp].last_time > Window[q]
    BY <1>1, <2>1 DEF Expired
  <2>3. cleaner.at <= now /\ cleaner.at \in Nat /\ now \in Nat
    BY CleanerFacts DEF HeldInv, TypeOK
  <2>4. states[q][jp].last_time \in Int /\ Window[q] \in Nat
    BY ConfigFacts
       DEF TypeOK, StateTypeOK, Estimator, OptTime, Time, NoTime
  <2> QED
    BY <2>2, <2>3, <2>4
<1>4. CASE Restart
  BY <1>4 DEF Restart, TypeOK
<1> QED
  BY <1>2, <1>3, <1>4, CountersChange

(* A counter is emptied only by a restart, or when its last hit is more    *)
(* than a window ago on the clock, although the cleanup task works with a  *)
(* time read before all the scripts of its cycle (state.rs, cleanup).      *)
THEOREM OnlyStaleEvicted == Spec => EvictOnlyStale
<1>1. TypeOK /\ HeldInv /\ KeptInv /\ [Next]_vars =>
        \A r \in Rules, ip \in IPs :
          states'[r][ip] = NewEstimator /\ states[r][ip] # NewEstimator =>
            restarts' # restarts \/ now - states[r][ip].last_time > Window[r]
  BY EvictStep
<1>2. Spec => []KeptInv
  BY KeptInit, KeptStep, TypeCorrect, PTL DEF Spec
<1> QED
  BY <1>1, <1>2, HeldInvariant, TypeCorrect, PTL DEF Spec, EvictOnlyStale
=============================================================================
