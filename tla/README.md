# logban in TLA+

logban tails system logs, extracts addresses from the entries that match a rule, and
bans an address that hits a rule too often by running a script. A ban is recorded in
SQLite; a cleanup task runs the unban script when it expires. This directory holds TLA+
modules of that program, TLC configurations that check them on small instances, and
TLAPS proofs. Paths below are relative to the repository.

## 1. Inventory

| component | state | operations | interacts with |
|---|---|---|---|
| rate estimator, `src/core/counter.rs` | first and last time, estimated count | `new`, `push`, `count`, `last_time`, `reset` | owned by the state |
| state, `src/core/state.rs` | one estimator per rule and address | `register_hit`, `cleanup` | shared by all source tasks and the cleanup task behind one `tokio::Mutex` |
| store, `src/core/store.rs`, `src/models.rs`, `migrations/` | table `bans` | `insert_active_ban`, `fetch_expired_bans`, `mark_bans_inactive` | called by the engine; one connection |
| engine, `src/core/engine.rs` | what each task is doing | `run_source`, `process_entry`, `run_cleanup_loop`, `cleanup_expired_bans` | everything |
| action, `src/core/action.rs` | `initialized`, `init_lock` | `init`, `ban`, `unban`, `run` | called by all tasks; runs scripts on the backend |
| rule, `src/core/rule.rs` | none | `match_entry` | called by source tasks |
| file source, `src/source/file.rs` | reader, inotify watch, line buffer | the tailing stream | file system |
| journal source and hub, `src/source/journal.rs` | subscribers, `started`, one channel per unit | `subscribe`, `unsubscribe`, `start`, `run_loop`, `dispatch` | a thread of its own, bounded channels |
| configuration, `src/config/` | none | parse, validate | read once at startup |
| startup, `src/main.rs` | none | builds all of the above, spawns the tasks | |
| `src/utils/string.rs`, `src/cli.rs`, `src/logging.rs`, `build.rs` | none | helpers, I/O | |

What makes each of them correct:

* estimator: it may forget but never invents attempts; the span it keeps fits the
  window; late events neither count nor move it back.
* state: a ban needs its attempts; the eviction drops only what is stale, although it
  works with a clock value read before many awaits.
* store and engine: everything the backend blocks is found again and unbanned; rows
  change once; the cleanup task never works on stale rows; every expired ban is cleared
  in the end.
* action: the init script succeeds once and before any other script; a caller knows what
  a success and a failure mean; nobody waits for ever.
* file source: while it is attached nothing is skipped; what it delivers is in the order
  of the log and comes once, across truncation and rotation; it does not sleep on unread
  lines, and it notices that its file has left the path.
* journal hub: entries reach the task of their unit in order, each to one task and once;
  what is skipped is what a seek to the tail passes over, and after it a matched entry
  is lost only to a full channel or as unreadable; every subscribed unit is matched;
  nothing lies unread while the reader waits.
* rule: the address is the one the chain of patterns and candidates leads to, with the
  early exits of `match_entry` on the way.
* configuration and startup: what is accepted is what the engine relies on; a source
  runs the rules it lists.

What is hard to test in this code is listed at its line under `hazards` in
`PROJECT.json`: the interleaving of bans with unbans of the same address, clock values
and batches used after awaits, failures and crashes between a script and its record, the
race for the first use of an action, full batches and full channels, late log entries
and the numeric edges of the estimator, files that change between two looks at them,
subscriptions that race the start of the reader.

## 2. Modules

| module | models | notes |
|---|---|---|
| `RateEstimator` | `counter.rs` | operators on a record; no variables |
| `RateEstimatorSpec` | `counter.rs` driven by any caller | adds the exact history to compare with |
| `RuleConfig` | the validated configuration | the CONSTANTS of the engine and their assumption |
| `State` | `state.rs` | `states`, used under the lock, one step per critical section |
| `Store` | `store.rs`, `models.rs`, the migration | `bans`, a sequence of rows; a row's position is its id |
| `Engine` | `engine.rs`, the restart in `main.rs` | extends State and Store; one task per source, the cleanup task, the backend; implements BanLedger |
| `BanLedger` | what the engine promises of blocks and rows | abstract specification; extends Store |
| `ActionContract` | what the engine assumes of an action | abstract specification |
| `Action` | `action.rs` | the double-checked init and the scripts; implements ActionContract |
| `LogTail` | what a file source promises | abstract specification |
| `FileTail` | `file.rs` against a changing file | implements LogTail |
| `UnitFeed` | what the sources of journal units are promised | abstract specification |
| `JournalHub` | `journal.rs`, the loop of `main.rs` that starts the sources | implements UnitFeed |
| `Startup` | `validate.rs`, `config/mod.rs`, the index of `main.rs`, `rule.rs` | from a configuration to a match |
| `MCEngine`, `MCAction`, `MCJournalHub`, `MCStartup` | instances for TLC | |
| `RateEstimatorLemmas`, `RateEstimatorProofs`, `ActionProofs`, `EngineProofs`, `EngineLedgerProofs`, `FileTailProofs`, `JournalHubProofs`, `StartupProofs` | proofs | |

The modules meet at these places. `Engine` uses the contract of `Action` (`BanSucceeds`,
`BanFails`), and the operators of `State` and `Store` as parts of its steps. The sources
feed it: an entry that `FileTail` or `JournalHub` delivers is one that `ReceiveEntry`
takes up, and what the engine relies on is no more than that an entry comes once.
`RuleConfig` is what `Startup` guarantees of a running configuration (`ReadyForEngine`),
and the address a match yields (`Startup`) is the one of `Hit`.

An operator named `...` in a comment as a *mutant* of another is a plausible bug of the
code it stands next to. It is used by no specification; it documents that the property
named in `PROJECT.json` notices the bug.

### Engine

A step is what a task does between two awaits. A source task (`task[s]`) is idle
(`stream.next().await`), about to match its entry against the rule `idx`, in the ban
script (`ban`) or in the insert (`insert`).

| action | code |
|---|---|
| `ReceiveEntry` | an entry arrives; a journal entry may be old (`MaxDelay`), a line of a file has the time it is read |
| `NoHit` | the rule is not configured, does not match, or the address is whitelisted |
| `Hit` | `register_hit` under the lock, and the decision to ban, with the end of the ban |
| `BanSucceeds`, `BanFails` | `action.ban(..).await`; a failure may or may not have blocked the address |
| `RecordBan`, `RecordFails` | `insert_active_ban(..).await`; a failure is only logged |
| `StartCycle` | the tick of the 10 s interval; the clock is read once for the cycle |
| `FetchBatch`, `FetchFails` | `fetch_expired_bans`: any `BatchSize` of the expired rows, as the query has LIMIT and no ORDER BY |
| `SkipUnban`, `UnbanSucceeds`, `UnbanFails` | one row of the batch; the rows are taken in any order |
| `MarkBatch`, `MarkFails` | `mark_bans_inactive`, then the next fetch if the batch was full, else the eviction |
| `EvictStale` | `state.cleanup(rules, now)` with the time the cycle started |
| `Restart` | the process dies and is started again, possibly with rules removed; tasks and counters are lost, table and backend remain |
| `Tick` | the wall clock, assumed not to go backwards |

The backend is the set `blocked` of pairs of an action and an address: banning twice is
the same as once, and one unban lifts all. The shape is that of the set in
`config.example.yaml`. Which entries match a rule, and with which address, is left open
(`NoHit` or `Hit` with any address of `Bannable`, that is, not whitelisted). Branches
that the validation excludes are left out: an action that does not exist (`engine.rs`
54-57, 122-126) and a row whose address does not parse (107-114).

`BanLedger` is the promise of the whole engine, without tasks, batches or counters. Its
state is the clock, the rules, the blocks, the table, the bans that have no row yet
(`owed`) and the rows that need no further unban (`lifted`). It allows a ban only of an
address that is not whitelisted, by a configured rule and for no longer than its
duration; a row only for a ban that is owed; an unban only for an active row that is
due; and the closing of a row only after it was lifted, if it needs that. A crash
forgets what is owed and what is lifted, and nothing else. The engine implements it
(`ImplementsBanLedger`): the tasks about to insert are what is owed, and `cleaner.ids`
is what is lifted.

### Action

A step is one access to `initialized` or `init_lock`, or the end of a script. The
abstract `ActionContract` says: a call that succeeds has acted on the backend exactly
once (or not at all, if there is no unban command or in dry-run), one that fails at most
once, and nothing acts before the init script has succeeded. `Engine` uses that
contract: `BanSucceeds` changes `blocked`, `BanFails` may. Dry-run is modelled here and
not in the engine: there a successful call changes `blocked`.

Whether there is an init script, an unban command and dry-run is chosen in `Init` and
kept in `config`, so one run covers all eight actions.

`InitSucceeds` and `Publish` are two steps because the flag is set while the lock is
still held and the fast path does not take the lock. Setting the flag and dropping the
guard are one step: a caller that reads the flag between the two only does what it would
do after.

### Estimator

Time is counted in ticks, and `f64::round` of the decayed count is computed exactly on
the rational number. The floating-point quotient and the exact one can only differ at
exact halves; the smallest such counterexample has a count of 13, beyond `MaxEvents`
here and without effect on the properties below, which hold whichever way an exact half
is rounded.

### FileTail

A file is a sequence of numbered pieces, two to a line, so that a line can be read while
it is half written; files are numbered as they are created, as inodes are. A step of the
reader is what it does between two awaits, so that the world can come in between any two
of them.

| action | code |
|---|---|
| `Open`, `AddWatch` | `wait_for_reader`: open and seek to the end, then watch **the path**; a failed watch starts again |
| `ReadLine` | `read_line`: the buffer is filled, if it holds no whole line, by what one read returns, and a line is taken from it; at the end of the file whatever is left is an entry |
| `ReadError` | a failed read, or a line that is not UTF-8: reset |
| `EndOfFile`, `MaybeRewind` | nothing to read; the length at the path against the position in the open file |
| `ReadEvents`, `CheckIdentity` | `wait_for_reset_event`: the pending events, and after a change of attributes the identity of what is at the path |
| `Write`, `Truncate`, `Rename`, `Unlink`, `Create`, `Touch`, `ReopenLog` | the logging process and the rotation of logs, with the inotify events they cause (external) |

Waiting with a poll for a file to appear is waiting for `path # NoFile`. A truncation is
to the empty file. An unlinked file is held open by the reader, so the event is
IN_ATTRIB; if the watch is on another file than the one that is read, that file may
vanish with IN_DELETE_SELF instead, with the same result, a reset, as the path then
leads elsewhere. `last_change` is written and never read, and left out.

`LogTail` lets pieces be skipped, as the code opens at the end of a file and cannot see
a file that was truncated and has grown beyond the old position. It demands order and no
repetition until the reader is *misled*, that is, rewinds because the path leads to
another file that is shorter. `NoGap` limits the skipping: between the place of the
opening (or rewinding) and the place reached, `start` and `reader.pos`, nothing is
missing.

### JournalHub

| action | code |
|---|---|
| `Subscribe` | `JournalSource::new` in the loop of `main.rs`: the unit is subscribed and the task spawned |
| `Stream` | the task asks for its stream; the first one starts the thread |
| `Receive`, `EndOfStream` | the task takes an entry; the channel is closed and empty, the source is dropped and unsubscribes its unit |
| `MatchUnits` | a match for each unit subscribed at that moment |
| `SeekTail`, `SkipFirst` | `seek_tail`: to the present time, and one entry on |
| `Wait` | `wait` reports appended entries or a rotation, which seeks again |
| `ReadEntry`, `SkipUnreadable`, `CaughtUp` | `next_entry`, and `process_entry` with `dispatch`: `try_send` into a bounded channel |
| `ReaderFails` | an error ends the thread; nothing starts it again |
| `Log`, `Rotate` | the journal (external); its first wait returns at once, as documented for `sd_journal_wait` |

`UnitFeed` promises a source entries of its own unit, in the order of the journal, none
twice and none to two sources. Two sources of one unit disturb each other: the second
takes the place of the first, whose stream ends and whose drop removes the subscription
of the second, so that the second ends as well. `AloneStays` and `NothingElseLost` are
about the sources that have their unit for themselves.

### Startup

`Validate` and `BuildRules` are the start; `StartMatch`, `NotMatched`, `IpCaptured`,
`NextPattern`, `NoLastGroup` and `NoPatternLeft` are `match_entry` pattern by pattern,
one action per exit of the loop. An expression is given by what it does to each text,
after expansion of its placeholders. A blank preset value and an empty name are members
of the data. Configurations that YAML, the durations or the networks refuse never arrive
here.

## 3. Runs

| run | instance | shows |
|---|---|---|
| `rate_estimator` | window 3, times 0..8, 6 events | the five properties of the estimator |
| `engine_shared` | two sources with a rule each, one action, one address, thresholds 2 and 1, 3 entries up to a tick late, batches of 2, failing fetch/update/unban | `NoOrphanBlock`, `EvictOnlyStale`, types |
| `engine_restart` | one source with two rules and an action each (one without unban), a whitelisted address, half-second ticks, batches of 1, every fault, one crash with any rules removed | `BanNeedsAttempts`, `CleanerHoldsExpired`, `BlockedUntilFirstExpiry`, `RowsOnlyExpire`, `ImplementsBanLedger` |
| `engine_live` | one source, failing fetch/update/unban, one crash, batches of 1, fair | `ExpiredBansCleared`, `StaleEvicted`, `BlocksLifted` |
| `action` | three callers, every combination of init script, unban command and dry-run, fair | `InitOnce`, `ScriptAfterInit`, `ImplementsContract`, `CallsReturn`, types |
| `file_tail` | 4 pieces (two lines), 3 changes of every kind and read errors, fair reader | `NoGap`, `ImplementsLogTail`, `NoLostWakeup`, `RotationNoticed`, types |
| `journal` | three sources, two of one unit, channels of 1, 2 entries, a rotation, unreadable entries, death of the reader, fair | `AloneStays`, `NothingElseLost`, `ImplementsUnitFeed`, `EntriesMove`, types |
| `startup` | every pair of expressions over two texts; sources with up to two rules out of all names, actions and pattern lists; presets, empty ids and expressions that do not compile | `ReadyForEngine`, `OwnRule`, `MatchesChain`, types |
| `engine_overlap` | finding | `BlockedUntilExpiry` is violated |
| `engine_crash` | finding | `NoOrphanBlock` is violated by a crash |
| `file_rotated` | finding; 2 pieces, a rename and a creation, fair reader | `MoveStopsMonitoring` is violated |
| `journal_late` | finding; two sources of different units | `AllUnitsMatched` is violated |

Every run finishes within a minute or so.

Bounds. Time, entries, restarts and the age of an entry are bounded by `MaxTime`,
`MaxEntries`, `MaxRestarts` and `MaxDelay`, in the guards of the actions. Two sources on
one address are enough for any two tasks to meet on a block, and the cleanup task is the
third. A ban lasts one or two ticks and the clock reaches at least one tick beyond, so
bans expire, are renewed and expire again within the bound. Batches of 1 and 2 are full
with 1 and 2 rows, so both sides of the test at `engine.rs` 140 are taken. In
`engine_restart` a tick is half a second, so the truncation of the stored expiry is
visible. Six events in nine ticks with a window of three contain bursts, gaps longer
than the window and late events in every order. In `FileTail` `MaxWritten` bounds the
pieces and `MaxChanges` the changes: three changes are a rename, a creation and one
more, and four pieces are a line before and a line after, each of which can be seen half
written. In `JournalHub` a channel of one is full with one entry, and the second is
dropped (the order within a channel is left to the theorem, which is for any capacity);
`MaxRotations` is one because a rotation only sends the reader back to `seek`. The
theorems about both hold for every bound. `CHECK_DEADLOCK` is off where the system may
really stop: a reader may wait for ever for a file or an entry (`FileTail`,
`JournalHub`), and a process may refuse its configuration (`Startup`). The engine and
the action always have a step.

Fairness (`Engine!Fairness`). The tokio runtime polls every task that is ready and the
interval keeps ticking: weak fairness of each task's own steps. Scripts, queries and the
clock make progress, and one that is retried for the same row does not fail for ever:
strong fairness of the successful step of that row, as a failed one in between disables
it. Nothing is assumed of log entries. In `Action` the mutex is fair (tokio's is first
in, first out), hence strong fairness of `Lock`, and scripts return, successfully or
not: **nothing** obliges an init script to succeed, and `CallsReturn` holds all the
same. The code has no timeout on scripts: one that hangs stops its task, and if it is an
init script also every other caller. Without the assumption that scripts return none of
the liveness properties holds. A row whose unban always fails is assumed away too: such
rows may fill every batch and keep the other rows and the eviction waiting for ever. In
`FileTail` only the reader is fair (its task is polled and comes back for the next
entry); nothing is assumed of who writes or rotates. In `JournalHub` each source task
and the thread are weakly fair; the reader is not assumed to survive.

`NoLostWakeup` and `RotationNoticed` are about a watch on the file that is read. The
code can end up with another: a file replaced between `Open` and `AddWatch` is read to
its end while its successor is watched, until an attribute of that one changes or it
moves.

## 4. Findings

1. `engine_overlap`, `state.rs` 29-33. A ban does not reset the counter, so each further
   hit bans again and inserts another row with a later end. The expiry of the first row
   unbans the address while the later ones are active (`config.example.yaml` 49). What
   remains true is `BlockedUntilFirstExpiry`, the theorem `BlockHoldsUntilDue`: the
   block holds until the first of its rows is due. Rows that are closed count as well,
   so it is silent on a block that has expired before.
2. `engine_crash`, `engine.rs` 74-81. The script runs before the row is inserted; a
   crash (or a failing insert) in between leaves a block nobody lifts. The theorem
   `NoBlockIsForgotten` shows that these and a ban script that fails after acting are
   the only ways, as long as no rule is removed from the configuration.
3. `file_rotated`, `file.rs` 249-260. `maybe_rewind` compares the position in the file
   it has open with the length of whatever is at the path. If the open file was renamed
   and a shorter one took its place, the renamed file is rewound and delivered again,
   over and over: the pending event is never read (`config.example.yaml` 104). The
   theorem `Refinement` of `FileTailProofs` shows that this is the only way to a
   repeated entry.
4. `journal_late`, `journal.rs` 118-139. The units are matched once, when the thread
   starts, while `main.rs` is still creating sources: a unit subscribed later is never
   seen.

Seen while modelling, without a run of their own:

* `engine.rs` 140. After a full batch the loop fetches again at once, so a row whose
  unban just failed may be tried again in the same cycle (`config.example.yaml` 53-54
  says the next), and a cycle whose batches stay full of failing rows does not end.
* `rule.rs` 57-62. A group `ip` whose capture is not an address ends the match with
  nothing. The comment of the same function, `rule.rs` 33, and `config.example.yaml` 96
  say: "If parsing fails, continue with the next pattern", while `rule.rs` 39 says that
  the result is `None` "if the candidate IP is invalid". The action `IpCaptured` does
  what the code does; `MatchesChain` is stated for the lines where all of them agree,
  those on which no chain of candidates captures anything but an address as `ip`.
* A rule name used in two sources is accepted, and the later definition serves both
  (`OwnRule`).
* At the end of the file a line that is still being written is delivered in two entries.

## 5. Proofs

All theorems are of the specification for every value of the constants that meets the
named assumptions (`EstimatorAssumption`, `ActionAssumption`, `RuleConfigAssumption`,
`EngineAssumption`, `FileTailAssumption`, `JournalHubAssumption`, `StartupAssumption`),
checked by tlapm with SMT, Zenon and the temporal prover.

* `RateEstimatorProofs`: `TypeCorrect`, `NeverOverCountsEvents`, `SpanBounded`,
  `ExactBurst`, `AcceptMoves`. The work is in the lemma `RoundDivBound` of
  `RateEstimatorLemmas`: as the elapsed time exceeds the window, rounding to nearest
  never exceeds the old count. The inductive invariant adds what the history and the
  estimator share: the last accepted event is `last_time`, accepted events are ordered,
  and the estimate is exact as long as `first_time` is the first accepted event.
* `ActionProofs`: `TypeCorrect`, `InitRunsOnce`, `ScriptsAfterInit` and the refinement
  `Refinement`. The inductive invariant: the lock is held exactly by the caller in
  `recheck`, `init` or `publish`; `initialized` implies `prepared` outside dry-run; a
  caller beyond the check is there for a reason (the flag, or no init script). The
  refinement maps the success of the init script to `Prepare`, the end of a call to
  `Return` and everything else to a stutter.
* `EngineProofs`: `TypeCorrect`; `AttemptsBeforeBan`, by the invariant that no estimate
  exceeds the history of accepted hits (with the estimator's lemmas: it survives decay,
  eviction and restart) and that a task keeps its evidence until it has banned;
  `CleanerNeverStale` and from it `TableIsJournal`: only the cleanup task deactivates
  rows, so what it fetched stays active; `NoBlockIsForgotten`, which assumes `NoLoss`
  (the faults "ban", "insert" and "crash" are excluded) and shows that each block has an
  active row, or a task about to insert it. The key is that a row the cleanup task will
  mark has been unbanned after it was fetched, and any ban since then brings a row of
  its own that is not in the batch. So the strengthening speaks of rows outside
  `cleaner.ids`. `OnlyStaleEvicted` (the action property `EvictOnlyStale`) adds to
  `cleaner.at <= now` that a counter that is kept belongs to a configured rule and has
  seen a hit, so nothing but its age can evict it.
* `EngineLedgerProofs`: `BlockHoldsUntilDue` (`BlockedUntilFirstExpiry`) and
  `Refinement` (`ImplementsBanLedger`), with every fault, crash and reconfiguration. The
  first by `HoldsInv`: a row, and also a task about to insert one, has its block as long
  as no row of that block is due. An unban cannot break it, as the cleanup task only
  holds rows that are due (`HeldInv` of `EngineProofs`), nor the clock, which only makes
  rows due. The refinement needs that a decided ban is one its rule may pronounce, with
  an end no later than its duration from now (`DecidedInv`), and that no ids are
  collected outside a batch (`NoneLifted`), so that an eviction or a new cycle is a
  stutter. What the tasks owe changes by one ban at a time (`OwedFrame`, `OwedGrows`,
  `OwedShrinks`).
* `FileTailProofs`: `TypeCorrect`, `NothingSkipped` (`NoGap`) and `Refinement`
  (`ImplementsLogTail`), for any number of pieces and changes. The inductive invariant:
  pieces are in every file in the order in which they were written (`FilesInv`); until
  the reader is misled, what is ahead of its position (all of the file, if the file has
  become shorter than the position) is later than its buffer, and the buffer later than
  all it has delivered (`FreshInv`); since `start`, the buffer is the stretch of the
  file before the position and what lies before it has been delivered (`GapInv`); at the
  end of the file the buffer is empty, which is why a rewind may keep it (`BufferInv`).
  A line is analysed once (`ReadShape`, `LineEffect`, `LineOrder`, `LinePlace`) and used
  in every part. The refinement maps `Write` to `Write`, a line to `Deliver` or, after a
  misled rewind, to `Redeliver`, and that rewind to `Mislead`.
* `JournalHubProofs`: `TypeCorrect`, `AloneKeepsUnit`, `OnlyKnownLosses`
  (`NothingElseLost`) and `Refinement` (`ImplementsUnitFeed`), for any list of sources,
  capacity and number of entries and rotations. The inductive invariant: a subscription
  belongs to a source of that unit that has subscribed; a matched unit has one; what is
  sent or received is behind the reader, of the right unit, in order, received before
  sent, and no entry is with two sources. `NothingElseLost` is inductive next to these,
  because `Ahead` has no entry of a matched unit before the nearest one.
* `StartupProofs`: `TypeCorrect`, `RunningIsReady` (`ReadyForEngine`), `OwnOrLaterRule`
  (`OwnRule`) and `MatchFindsChain` (`MatchesChain`), for any number of sources, rules
  and patterns and any texts. `StartupAssumption` says that a parsed configuration
  consists of lists, as the structs of `config/mod.rs` do. The inductive invariant: a
  configuration that runs was found valid (`ConfigInv`); the index holds the last
  definition of each name (`IndexInv`), which exists because the places of a name are
  finitely many (`LastOf`, by the well-foundedness of the naturals); a match is of a
  rule the source lists (`MatchInv`); and the candidate in hand has come from the line
  by a chain, and every chain that yields an address passes through it at this place
  (`ChainInv`). So each exit of the loop knows all chains there are: the candidates are
  determined step by step, and the loop leaves at the first pattern that yields nothing.
  What is inductive is `FoundInv`, on the addresses that chains yield on any line;
  `MatchesChain` follows for the lines it is about.

All theorems are of the specifications without fairness (`Spec`), as safety needs none.
Every invariant and action property of a passing run and every refinement is proved
(`NoOrphanBlock` under `NoLoss`, which `engine_shared` meets).

Only model-checked: the liveness properties `ExpiredBansCleared`, `StaleEvicted`,
`BlocksLifted`, `CallsReturn`, `NoLostWakeup`, `RotationNoticed` and `EntriesMove`, as
liveness under fairness and ENABLED are out of the prover's reach.

## 6. Not modelled

Opening the database, migrations and the pool (in dry-run the store is in memory), power
loss (a crash here is the death of the process), a clock that goes backwards, a change
of a rule's action or durations between two runs of the process, parsing of YAML,
durations and networks, the expansion of templates and `truncate_tail`
(`src/utils/string.rs`: text without state), `last_change`, formatting and logging, the
command line, `build.rs`. A file on another device with the same inode number is another
inode. The journal shows entries in one order, and its seek to a time is a seek to the
end. The size of the buffer of a reader and of the inotify queue are not limited.

## 7. Plan

All components are modelled, but for the text helpers and the I/O above, and the safety
properties of the passing runs are proved. What could be added: a statement over several
batches of one cycle (which rows a cycle reaches, given that the unban of some fails),
and the agreement of `Engine` and `Action` when the script of one caller is running
while another is called, for which `ActionContract` now stands in between.
