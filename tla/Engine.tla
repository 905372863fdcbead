-------------------------------- MODULE Engine --------------------------------
(***************************************************************************)
(* The engine of src/core/engine.rs: one task per log source that matches  *)
(* entries, counts hits and bans, one cleanup task that unbans what has    *)
(* expired and evicts stale counters.  The tasks share the counters        *)
(* (module State, behind a lock), the bans table (module Store) and the    *)
(* backend on which the ban and unban scripts act.                         *)
(*                                                                         *)
(* A step is what a task does between two awaits.  The scripts are run     *)
(* through src/core/action.rs; module Action models that call in detail    *)
(* and implements the contract used here: a call that succeeds has had its *)
(* effect once, a call that fails may have had it or not.                  *)
(***************************************************************************)
EXTENDS State, Store

CONSTANTS
  BatchSize,     \* CLEANUP_BATCH_SIZE
  Faults,        \* what may go wrong: see FaultKinds
  MaxTime,       \* bound on the clock
  MaxDelay,      \* bound on the age of an entry when it is received
  MaxEntries,    \* bound on the number of entries received
  MaxRestarts    \* bound on the number of crashes

(* "ban", "unban": the script fails.  "insert", "fetch", "mark": the query *)
(* fails.  "crash": the process dies and is started again.  "reconfigure": *)
(* it is started again with some of the rules removed.                     *)
FaultKinds ==
  {"ban", "unban", "insert", "fetch", "mark", "crash", "reconfigure"}

ASSUME EngineAssumption ==
  /\ BatchSize \in Nat \ {0}
  /\ Faults \subseteq FaultKinds
  /\ MaxTime \in Nat
  /\ MaxDelay \in Nat
  /\ MaxEntries \in Nat
  /\ MaxRestarts \in Nat

VARIABLES
  now,           \* wall clock
  rules,         \* the rules of the running configuration
  blocked,       \* backend: the pairs <<action, address>> banned there
  task,          \* source -> what its task is doing
  cleaner,       \* what the cleanup task is doing
  hits,          \* history: hits not dropped since the process started
  entries,       \* bounded counter of entries received
  restarts       \* bounded counter of crashes

vars == <<now, rules, blocked, task, cleaner, hits, entries, restarts,
          states, bans>>

IdleTask == [pc |-> "idle", ts |-> 0, idx |-> 1, ip |-> NoIP, end |-> 0]

IdleCleaner == [pc |-> "wait", at |-> 0, batch |-> {}, ids |-> {},
                full |-> FALSE]

NoHits == [r \in Rules |-> [ip \in IPs |-> 0]]

Init ==
  /\ now = 0
  /\ rules = Rules
  /\ blocked = {}
  /\ task = [s \in Sources |-> IdleTask]
  /\ cleaner = IdleCleaner
  /\ hits = NoHits
  /\ entries = 0
  /\ restarts = 0
  /\ StateInit
  /\ StoreInit

Tick ==
  /\ now < MaxTime
  /\ now' = now + 1
  /\ UNCHANGED <<rules, blocked, task, cleaner, hits, entries, restarts,
                 states, bans>>

-----------------------------------------------------------------------------
(* Source tasks: run_source and process_entry.                             *)

CurrentRule(s) == RulesOf[s][task[s].idx]

(* An entry of time ts is to be matched against the idx-th rule. *)
AtRule(ts, idx) ==
  [pc |-> "match", ts |-> ts, idx |-> idx, ip |-> NoIP, end |-> 0]

(* Mutant of NextRule: runs one past the end of the list. *)
NextRulePastEnd(s) ==
  task' = [task EXCEPT ![s] = IF task[s].idx <= Len(RulesOf[s])
                              THEN AtRule(task[s].ts, task[s].idx + 1)
                              ELSE IdleTask]

(* The next rule for the same entry, or the next entry. *)
NextRule(s) ==
  task' = [task EXCEPT ![s] = IF task[s].idx < Len(RulesOf[s])
                              THEN AtRule(task[s].ts, task[s].idx + 1)
                              ELSE IdleTask]

(* stream.next() yields an entry.  A journal entry carries the time it was *)
(* logged, up to MaxDelay ago; a line of a file the time it is read.       *)
ReceiveEntry(s) ==
  /\ task[s].pc = "idle"
  /\ entries < MaxEntries
  /\ entries' = entries + 1
  /\ \E age \in 0..MaxDelay :
       /\ age <= now
       /\ task' = [task EXCEPT ![s] = AtRule(now - age, 1)]
  /\ UNCHANGED <<now, rules, blocked, cleaner, hits, restarts, states, bans>>

(* The rule is not configured, the entry does not match it, or the address *)
(* it yields is whitelisted.                                               *)
NoHit(s) ==
  /\ task[s].pc = "match"
  /\ NextRule(s)
  /\ UNCHANGED <<now, rules, blocked, cleaner, hits, entries, restarts,
                 states, bans>>

(* Mutant of Bannable: the whitelist is not consulted.                     *)
BannableAll == IPs

(* The whitelist is consulted before the hit is counted.                   *)
Bannable == IPs \ Whitelist

(* The entry matches: register_hit, under the lock of the state.           *)
Hit(s) ==
  LET r == CurrentRule(s) IN
  /\ task[s].pc = "match"
  /\ r \in rules
  /\ \E ip \in Bannable :
       /\ states' = Counted(r, ip, task[s].ts)
       /\ hits' = [hits EXCEPT ![r][ip] =
                     IF OutOfOrder(states[r][ip], task[s].ts) THEN @ ELSE @ + 1]
       /\ IF BelowThreshold(r, ip, task[s].ts)
          THEN NextRule(s)
          ELSE task' = [task EXCEPT ![s].pc = "ban", ![s].ip = ip,
                                    ![s].end = now + BanDuration[r]]
  /\ UNCHANGED <<now, rules, blocked, cleaner, entries, restarts, bans>>

Target(s) == <<BanAction[CurrentRule(s)], task[s].ip>>

(* action.ban(ip, end, rule).await succeeds: its script has run. *)
BanSucceeds(s) ==
  /\ task[s].pc = "ban"
  /\ blocked' = blocked \cup {Target(s)}
  /\ task' = [task EXCEPT ![s].pc = "insert"]
  /\ UNCHANGED <<now, rules, cleaner, hits, entries, restarts, states, bans>>

(* Mutant of BanFails: goes on to the insert.                              *)
BanFailsRecorded(s) ==
  /\ "ban" \in Faults
  /\ task[s].pc = "ban"
  /\ blocked' \in {blocked, blocked \cup {Target(s)}}
  /\ task' = [task EXCEPT ![s].pc = "insert"]
  /\ UNCHANGED <<now, rules, cleaner, hits, entries, restarts, states, bans>>

BanFails(s) ==
  /\ "ban" \in Faults
  /\ task[s].pc = "ban"
  /\ blocked' \in {blocked, blocked \cup {Target(s)}}
  /\ NextRule(s)
  /\ UNCHANGED <<now, rules, cleaner, hits, entries, restarts, states, bans>>

RecordBan(s) ==
  /\ task[s].pc = "insert"
  /\ InsertActiveBan(task[s].ip, CurrentRule(s), task[s].end)
  /\ NextRule(s)
  /\ UNCHANGED <<now, rules, blocked, cleaner, hits, entries, restarts,
                 states>>

(* A failed insert is logged and forgotten. *)
RecordFails(s) ==
  /\ "insert" \in Faults
  /\ task[s].pc = "insert"
  /\ NextRule(s)
  /\ UNCHANGED <<now, rules, blocked, cleaner, hits, entries, restarts,
                 states, bans>>

SourceNext(s) ==
  \/ ReceiveEntry(s)
  \/ NoHit(s)
  \/ Hit(s)
  \/ BanSucceeds(s)
  \/ BanFails(s)
  \/ RecordBan(s)
  \/ RecordFails(s)

-----------------------------------------------------------------------------
(* The cleanup task: run_cleanup_loop and cleanup_expired_bans.            *)

CleanerOnly == UNCHANGED <<now, rules, task, hits, entries, restarts>>

(* interval.tick(): a cycle starts and reads the clock once. *)
StartCycle ==
  /\ cleaner.pc = "wait"
  /\ cleaner' = [IdleCleaner EXCEPT !.pc = "fetch", !.at = now]
  /\ UNCHANGED <<blocked, states, bans>>
  /\ CleanerOnly

Timestamp == UnixTimestamp(cleaner.at)

(* Mutant of FetchBatch: with nothing expired the cycle ends at once. *)
FetchBatchNoEvict ==
  /\ cleaner.pc = "fetch"
  /\ \E batch \in SUBSET ExpiredIds(Timestamp) :
       /\ IsExpiredBatch(batch, Timestamp, BatchSize)
       /\ cleaner' = IF batch = {}
                     THEN IdleCleaner
                     ELSE [cleaner EXCEPT
                             !.pc = "unban", !.batch = batch, !.ids = {},
                             !.full = (Cardinality(batch) = BatchSize)]
  /\ UNCHANGED <<blocked, states, bans>>
  /\ CleanerOnly

FetchBatch ==
  /\ cleaner.pc = "fetch"
  /\ \E batch \in SUBSET ExpiredIds(Timestamp) :
       /\ IsExpiredBatch(batch, Timestamp, BatchSize)
       /\ cleaner' = IF batch = {}
                     THEN [cleaner EXCEPT !.pc = "evict", !.full = FALSE]
                     ELSE [cleaner EXCEPT
                             !.pc = "unban", !.batch = batch, !.ids = {},
                             !.full = (Cardinality(batch) = BatchSize)]
  /\ UNCHANGED <<blocked, states, bans>>
  /\ CleanerOnly

FetchFails ==
  /\ "fetch" \in Faults
  /\ cleaner.pc = "fetch"
  /\ cleaner' = [cleaner EXCEPT !.pc = "evict", !.full = FALSE]
  /\ UNCHANGED <<blocked, states, bans>>
  /\ CleanerOnly

(* A row that needs no script: its rule is gone from the configuration, or *)
(* its action has no unban command.  It is marked all the same.            *)
SkipUnban(id) ==
  /\ cleaner.pc = "unban"
  /\ id \in cleaner.batch
  /\ bans[id].rule \notin rules \/ BanAction[bans[id].rule] \notin Unbannable
  /\ cleaner' = [cleaner EXCEPT !.batch = @ \ {id}, !.ids = @ \cup {id}]
  /\ UNCHANGED <<blocked, states, bans>>
  /\ CleanerOnly

NeedsUnban(id) ==
  /\ cleaner.pc = "unban"
  /\ id \in cleaner.batch
  /\ bans[id].rule \in rules
  /\ BanAction[bans[id].rule] \in Unbannable

BlockOf(id) == <<BanAction[bans[id].rule], bans[id].ip>>

(* Mutant of UnbanSucceeds: the row is not collected for the update. *)
UnbanNotCollected(id) ==
  /\ NeedsUnban(id)
  /\ blocked' = blocked \ {BlockOf(id)}
  /\ cleaner' = [cleaner EXCEPT !.batch = @ \ {id}]
  /\ UNCHANGED <<states, bans>>
  /\ CleanerOnly

(* action.unban(ip, rule).await succeeds. *)
UnbanSucceeds(id) ==
  /\ NeedsUnban(id)
  /\ blocked' = blocked \ {BlockOf(id)}
  /\ cleaner' = [cleaner EXCEPT !.batch = @ \ {id}, !.ids = @ \cup {id}]
  /\ UNCHANGED <<states, bans>>
  /\ CleanerOnly

(* Mutant of UnbanFails: the failed row is marked like the others. *)
UnbanFailsMarked(id) ==
  /\ "unban" \in Faults
  /\ NeedsUnban(id)
  /\ blocked' \in {blocked, blocked \ {BlockOf(id)}}
  /\ cleaner' = [cleaner EXCEPT !.batch = @ \ {id}, !.ids = @ \cup {id}]
  /\ UNCHANGED <<states, bans>>
  /\ CleanerOnly

(* A row whose script failed is skipped and stays active. *)
UnbanFails(id) ==
  /\ "unban" \in Faults
  /\ NeedsUnban(id)
  /\ blocked' \in {blocked, blocked \ {BlockOf(id)}}
  /\ cleaner' = [cleaner EXCEPT !.batch = @ \ {id}]
  /\ UNCHANGED <<states, bans>>
  /\ CleanerOnly

(* The batch is done: after a full one the next is fetched at once. *)
AfterBatch ==
  /\ cleaner.pc = "unban"
  /\ cleaner.batch = {}
  /\ cleaner' = [cleaner EXCEPT
                   !.pc = IF cleaner.full THEN "fetch" ELSE "evict",
                   !.ids = {}, !.full = FALSE]

MarkBatch ==
  /\ AfterBatch
  /\ MarkBansInactive(Timestamp, cleaner.ids)
  /\ UNCHANGED <<blocked, states>>
  /\ CleanerOnly

(* The update fails (with no ids there is none): logged, no retry here. *)
MarkFails ==
  /\ "mark" \in Faults
  /\ cleaner.ids # {}
  /\ AfterBatch
  /\ UNCHANGED <<blocked, states, bans>>
  /\ CleanerOnly

(* state.cleanup(rules, now), with the time the cycle started. *)
EvictStale ==
  /\ cleaner.pc = "evict"
  /\ StateCleanup(rules, cleaner.at)
  /\ cleaner' = IdleCleaner
  /\ UNCHANGED <<blocked, bans>>
  /\ CleanerOnly

CleanerNext ==
  \/ StartCycle
  \/ FetchBatch
  \/ FetchFails
  \/ \E id \in cleaner.batch :
       SkipUnban(id) \/ UnbanSucceeds(id) \/ UnbanFails(id)
  \/ MarkBatch
  \/ MarkFails
  \/ EvictStale

-----------------------------------------------------------------------------
(* The process dies at any point and is started again: the counters and    *)
(* the tasks are lost, the table and the backend stay as they are.         *)
Restart ==
  /\ "crash" \in Faults
  /\ restarts < MaxRestarts
  /\ restarts' = restarts + 1
  /\ rules' \in IF "reconfigure" \in Faults THEN SUBSET Rules ELSE {rules}
  /\ task' = [s \in Sources |-> IdleTask]
  /\ cleaner' = IdleCleaner
  /\ hits' = NoHits
  /\ states' = [r \in Rules |-> [ip \in IPs |-> NewEstimator]]
  /\ UNCHANGED <<now, blocked, entries, bans>>

Next ==
  \/ Tick
  \/ \E s \in Sources : SourceNext(s)
  \/ CleanerNext
  \/ Restart

Spec == Init /\ [][Next]_vars

(* The ids a bounded behaviour can use: an entry makes at most one row for *)
(* each rule of its source.                                                *)
RowIds == UNION {1..(MaxEntries * Len(RulesOf[s])) : s \in Sources}

(* The runtime polls every ready task, scripts and queries return, and a   *)
(* query or script that is tried again and again for the same row does not *)
(* fail every time.  (A mark with no ids runs no query and cannot fail.)   *)
Fairness ==
  /\ WF_vars(Tick)
  /\ \A s \in Sources :
       /\ WF_vars(NoHit(s) \/ Hit(s))
       /\ SF_vars(BanSucceeds(s))
       /\ SF_vars(RecordBan(s))
  /\ WF_vars(StartCycle)
  /\ SF_vars(FetchBatch)
  /\ \A id \in RowIds :
       /\ WF_vars(SkipUnban(id))
       /\ SF_vars(UnbanSucceeds(id))
       /\ SF_vars(id \in cleaner.ids /\ MarkBatch)
  /\ WF_vars(MarkBatch)
  /\ WF_vars(EvictStale)

FairSpec == Spec /\ Fairness

-----------------------------------------------------------------------------
Ids == 1..Len(bans)

TaskType ==
  [pc : {"idle", "match", "ban", "insert"}, ts : Nat, idx : Nat \ {0},
   ip : IPs \cup {NoIP}, end : Nat]

CleanerType ==
  [pc : {"wait", "fetch", "unban", "evict"}, at : Nat, batch : SUBSET Nat,
   ids : SUBSET Nat, full : BOOLEAN]

TaskTypeOK ==
  /\ task \in [Sources -> TaskType]
  /\ \A s \in Sources :
       /\ task[s].idx \in 1..Len(RulesOf[s])
       /\ task[s].pc \in {"ban", "insert"} => task[s].ip \in IPs

CleanerTypeOK ==
  /\ cleaner \in CleanerType
  /\ cleaner.batch \cup cleaner.ids \subseteq Ids

TypeOK ==
  /\ now \in Nat
  /\ rules \subseteq Rules
  /\ blocked \subseteq Actions \X IPs
  /\ TaskTypeOK
  /\ CleanerTypeOK
  /\ hits \in [Rules -> [IPs -> Nat]]
  /\ entries \in Nat
  /\ restarts \in Nat
  /\ StateTypeOK
  /\ StoreTypeOK

(* A ban is never decided with fewer attempts than the rule asks for: the  *)
(* task that is about to ban or to record a ban has seen at least          *)
(* max_attempts accepted hits of that address for that rule since the      *)
(* process started, whatever was decayed or evicted (state.rs,             *)
(* register_hit).                                                          *)
BanNeedsAttempts ==
  \A s \in Sources : task[s].pc \in {"ban", "insert"} =>
    hits[CurrentRule(s)][task[s].ip] >= MaxAttempts[CurrentRule(s)]

(* Whatever the backend blocks will be found again: as long as ban scripts *)
(* and inserts succeed and the process lives, a blocked address has an     *)
(* active row that unbans it, or a task is about to insert one.  Ban,      *)
(* insert, unban and mark of two tasks interleave freely (engine.rs,       *)
(* process_entry and cleanup_expired_bans).                                *)
NoOrphanBlock ==
  \A b \in blocked : b[1] \in Unbannable =>
    \/ \E id \in ActiveIds : BlockOf(id) = b
    \/ \E s \in Sources : task[s].pc = "insert" /\ Target(s) = b

(* The rows in the hands of the cleanup task are never stale: between the  *)
(* fetch and the update each is still active, and its expiry has passed    *)
(* on the clock, so no unban runs before the second its ban ends in.       *)
CleanerHoldsExpired ==
  \A id \in cleaner.batch \cup cleaner.ids :
    /\ bans[id].is_active
    /\ bans[id].expire_at * TicksPerSecond <= now

(* A recorded ban blocks its address until the first of its rows comes     *)
(* due: no unban for another block, no failed script, crash or removed     *)
(* rule opens it earlier, and no row is there for an address that was not  *)
(* blocked (engine.rs, process_entry and cleanup_expired_bans).  It is     *)
(* what is left of BlockedUntilExpiry when an address has several rows.    *)
BlockedUntilFirstExpiry ==
  \A id \in DOMAIN bans :
    (\A i \in DOMAIN bans :
       BlockOf(i) = BlockOf(id) => bans[i].expire_at > UnixTimestamp(now))
      => BlockOf(id) \in blocked

(* The engine implements BanLedger: a task that is about to insert owes a  *)
(* row, and the rows that the cleanup task has collected are lifted.  In   *)
(* particular no whitelisted address is ever blocked, and no row is closed *)
(* whose unban script has not succeeded (engine.rs).                       *)
Owed ==
  {[source |-> s, rule |-> CurrentRule(s), ip |-> task[s].ip,
    end |-> task[s].end] : s \in {t \in Sources : task[t].pc = "insert"}}

Ledger == INSTANCE BanLedger WITH owed <- Owed, lifted <- cleaner.ids

ImplementsBanLedger == Ledger!Spec

(* Eviction never forgets an address that was seen within the window of    *)
(* its rule, although the task works with the time its cycle started       *)
(* (state.rs, cleanup; engine.rs, run_cleanup_loop).  A restart does.      *)
EvictOnlyStale ==
  [][\A r \in Rules, ip \in IPs :
       states'[r][ip] = NewEstimator /\ states[r][ip] # NewEstimator =>
         restarts' # restarts \/ now - states[r][ip].last_time > Window[r]]_vars

(* The table is a journal: a row never changes but by becoming inactive,   *)
(* once, with a time of unban that is not before its expiry.               *)
RowsOnlyExpire ==
  [][\A id \in Ids :
       /\ id \in DOMAIN bans'
       /\ bans'[id] = bans[id] \/
            /\ bans[id].is_active
            /\ bans'[id] = [bans[id] EXCEPT !.is_active = FALSE,
                                            !.unbanned_at = Timestamp]
            /\ bans'[id].unbanned_at >= bans[id].expire_at]_vars

Overdue(id) ==
  /\ id \in ActiveIds
  /\ bans[id].expire_at <= UnixTimestamp(now)

(* Every expired ban is lifted and marked in the end, through failing      *)
(* scripts and queries and across restarts ("retried in the next cycle     *)
(* until it succeeds", config.example.yaml), also when batches are full.    *)
ExpiredBansCleared == \A id \in RowIds : Overdue(id) ~> ~Overdue(id)

(* The whole round trip: what is blocked is unblocked in the end, through  *)
(* failing unban scripts, fetches and updates, unless its ban reaches past *)
(* the bounded clock or the process has died in between, which may lose    *)
(* the row (engine.rs, process_entry and run_cleanup_loop).                *)
OutlastsClock(b) ==
  \E id \in ActiveIds :
    BlockOf(id) = b /\ bans[id].expire_at > UnixTimestamp(MaxTime)

BlocksLifted ==
  \A b \in Unbannable \X IPs :
    b \in blocked ~> b \notin blocked \/ OutlastsClock(b) \/ restarts # 0

Stale(r, ip) ==
  /\ states[r][ip] # NewEstimator
  /\ now - states[r][ip].last_time > Window[r]

(* A counter that is no longer fed does not stay in memory.                *)
StaleEvicted == \A r \in Rules, ip \in IPs : Stale(r, ip) ~> ~Stale(r, ip)

(* What config.example.yaml says of the unban command: it is executed      *)
(* after the ban duration has expired.  Seen from a ban that is recorded   *)
(* and not expired, its address is still blocked.                          *)
BlockedUntilExpiry ==
  \A id \in ActiveIds :
    bans[id].expire_at > UnixTimestamp(now) => BlockOf(id) \in blocked
=============================================================================
