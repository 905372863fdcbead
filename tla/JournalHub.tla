------------------------------ MODULE JournalHub ------------------------------
(***************************************************************************)
(* The journal sources of src/source/journal.rs, started by the loop of    *)
(* src/main.rs: one source subscribes after the other, while the tasks of  *)
(* the earlier ones already run; the first to ask for its stream starts    *)
(* the reader thread, which passes the entries of the journal on to one    *)
(* bounded channel per unit.                                               *)
(***************************************************************************)
EXTENDS Naturals, Sequences, Functions

CONSTANTS
  Units,         \* the units that log to the journal
  UnitOf,        \* the unit of each journal source of the configuration
  Capacity,      \* of a channel (512)
  Faults,        \* what may fail
  MaxEntries,    \* bound: entries logged
  MaxRotations   \* bound: rotations of the journal

ASSUME JournalHubAssumption ==
  /\ UnitOf \in Seq(Units)
  /\ Capacity \in Nat \ {0}
  /\ Faults \subseteq {"unreadable", "reader"}
  /\ MaxEntries \in Nat
  /\ MaxRotations \in Nat

VARIABLES
  journal,       \* the units of the entries logged so far
  wake,          \* what the next wait of the reader will report
  rotations,     \* rotations so far
  subscribers,   \* unit -> the source whose channel it feeds, or Nobody
  task,          \* source -> its place in the life of a task
  channel,       \* source -> entries sent and not received
  hub,           \* the reader thread: where it is, its position, its matches
  got,           \* history: source -> entries received
  dropped,       \* history: entries lost on the way to a channel
  tail           \* history: where the reader last settled at the end

vars == <<journal, wake, rotations, subscribers, task, channel, hub, got,
          dropped, tail>>

Feed == INSTANCE UnitFeed WITH journal <- journal, got <- got

Sources == DOMAIN UnitOf
Nobody == 0

Init ==
  /\ wake = {"append"}
  /\ rotations = 0
  /\ subscribers = [u \in Units |-> Nobody]
  /\ task = [i \in Sources |-> "new"]
  /\ channel = [i \in Sources |-> <<>>]
  /\ hub = [pc |-> "off", pos |-> 0, matched |-> {}]
  /\ dropped = {}
  /\ tail = 0
  /\ Feed!Init

-----------------------------------------------------------------------------
(* The journal (external): a service logs, the files are rotated.  The     *)
(* first wait reports a change at once.                                    *)

Log ==
  /\ Len(journal) < MaxEntries
  /\ \E unit \in Units : journal' = Append(journal, unit)
  /\ wake' = wake \cup {"append"}
  /\ UNCHANGED <<rotations, subscribers, task, channel, hub, got, dropped, tail>>

Rotate ==
  /\ rotations < MaxRotations
  /\ rotations' = rotations + 1
  /\ wake' = wake \cup {"invalidate"}
  /\ UNCHANGED <<journal, subscribers, task, channel, hub, got, dropped, tail>>

-----------------------------------------------------------------------------
(* The main task and the tasks of the sources.                             *)

SourcesOnly ==
  UNCHANGED <<journal, wake, rotations, dropped, tail>>

(* subscribe: in place of whoever did before.                              *)
Register(i) == subscribers' = [subscribers EXCEPT ![UnitOf[i]] = i]

(* JournalSource::new subscribes to its unit, and the task is spawned.     *)
(* The sources come in the order of the configuration.                     *)
Subscribe(i) ==
  /\ task[i] = "new"
  /\ \A earlier \in 1..(i - 1) : task[earlier] # "new"
  /\ task' = [task EXCEPT ![i] = "spawned"]
  /\ Register(i)
  /\ UNCHANGED <<channel, hub, got>>
  /\ SourcesOnly

(* start: the flag is swapped, so that one caller spawns the thread.       *)
StartHub == hub' = IF hub.pc = "off" THEN [hub EXCEPT !.pc = "match"] ELSE hub

Stream(i) ==
  /\ task[i] = "spawned"
  /\ task' = [task EXCEPT ![i] = "running"]
  /\ StartHub
  /\ UNCHANGED <<subscribers, channel, got>>
  /\ SourcesOnly

(* stream.next().await, whenever the task is done with the entry before.   *)
Receive(i) ==
  /\ task[i] = "running"
  /\ channel[i] # <<>>
  /\ got' = [got EXCEPT ![i] = Append(@, Head(channel[i]))]
  /\ channel' = [channel EXCEPT ![i] = Tail(@)]
  /\ UNCHANGED <<subscribers, task, hub>>
  /\ SourcesOnly

(* Mutant of Unsubscribe: the table is cleared.                            *)
UnsubscribeAll(unit) == subscribers' = [u \in Units |-> Nobody]

Unsubscribe(unit) == subscribers' = [subscribers EXCEPT ![unit] = Nobody]

(* The sender is gone and the channel empty: the stream ends, and the      *)
(* source is dropped, which removes whatever its unit is subscribed to.    *)
EndOfStream(i) ==
  /\ task[i] = "running"
  /\ channel[i] = <<>>
  /\ subscribers[UnitOf[i]] # i
  /\ task' = [task EXCEPT ![i] = "ended"]
  /\ Unsubscribe(UnitOf[i])
  /\ UNCHANGED <<channel, hub, got>>
  /\ SourcesOnly

SourceStep(i) ==
  Subscribe(i) \/ Stream(i) \/ Receive(i) \/ EndOfStream(i)

-----------------------------------------------------------------------------
(* The reader thread: run_loop.                                            *)

HubOnly == UNCHANGED <<journal, rotations, subscribers, task, got>>

HubGoto(label) == hub' = [hub EXCEPT !.pc = label]

MatchUnits ==
  /\ hub.pc = "match"
  /\ hub' = [hub EXCEPT !.pc = "seek",
                        !.matched = {u \in Units : subscribers[u] # Nobody}]
  /\ UNCHANGED <<wake, channel, dropped, tail>>
  /\ HubOnly

(* Mutant of Ahead: the entry at the position is shown again.              *)
AheadInclusive ==
  {k \in DOMAIN journal \cap (hub.pos..Len(journal)) :
     hub.matched = {} \/ journal[k] \in hub.matched}

(* Entries the journal shows: with no match at all it shows every one.     *)
Ahead ==
  {k \in (hub.pos + 1)..Len(journal) :
     hub.matched = {} \/ journal[k] \in hub.matched}

Nearest(entry) == entry \in Ahead /\ \A k \in Ahead : entry <= k

(* seek_tail, in two steps: to the time it is now ...                      *)
SeekTail ==
  /\ hub.pc = "seek"
  /\ hub' = [hub EXCEPT !.pc = "skip", !.pos = Len(journal)]
  /\ UNCHANGED <<wake, channel, dropped, tail>>
  /\ HubOnly

(* ... and on to the next entry, which is skipped if there is one by now.  *)
SkipFirst ==
  /\ hub.pc = "skip"
  /\ \/ Ahead = {} /\ tail' = hub.pos
     \/ \E k \in Ahead : Nearest(k) /\ tail' = k
  /\ hub' = [hub EXCEPT !.pc = "wait", !.pos = tail']
  /\ UNCHANGED <<wake, channel, dropped>>
  /\ HubOnly

Wait ==
  /\ hub.pc = "wait"
  /\ wake # {}
  /\ HubGoto(IF "invalidate" \in wake THEN "seek" ELSE "drain")
  /\ wake' = {}
  /\ UNCHANGED <<channel, dropped, tail>>
  /\ HubOnly

Send(i, k) == channel' = [channel EXCEPT ![i] = Append(@, k)]

(* Mutants of Dispatch: it makes room by dropping the oldest entry, or one *)
(* entry too many fits.                                                    *)
DispatchOverwrites(k) ==
  LET i == subscribers[journal[k]] IN
  /\ \/ i = Nobody /\ UNCHANGED channel
     \/ i # Nobody /\ Len(channel[i]) < Capacity /\ Send(i, k)
     \/ /\ i # Nobody /\ Len(channel[i]) = Capacity
        /\ channel' = [channel EXCEPT ![i] = Append(Tail(@), k)]
  /\ UNCHANGED dropped

DispatchOneMore(k) ==
  LET i == subscribers[journal[k]] IN
  \/ i = Nobody /\ UNCHANGED <<channel, dropped>>
  \/ i # Nobody /\ Len(channel[i]) <= Capacity /\ Send(i, k) /\ UNCHANGED dropped
  \/ /\ i # Nobody /\ Len(channel[i]) > Capacity
     /\ dropped' = dropped \cup {k}
     /\ UNCHANGED channel

(* dispatch: try_send, without waiting for room in the channel.            *)
Dispatch(k) ==
  LET i == subscribers[journal[k]] IN
  \/ i = Nobody /\ UNCHANGED <<channel, dropped>>
  \/ i # Nobody /\ Len(channel[i]) < Capacity /\ Send(i, k) /\ UNCHANGED dropped
  \/ /\ i # Nobody /\ Len(channel[i]) >= Capacity
     /\ dropped' = dropped \cup {k}
     /\ UNCHANGED channel

(* Mutant of ReadEntry: one entry for each wait.                           *)
ReadOnePerWait ==
  /\ hub.pc = "drain"
  /\ \E k \in Ahead :
       /\ Nearest(k)
       /\ hub' = [hub EXCEPT !.pos = k, !.pc = "wait"]
       /\ Dispatch(k)
  /\ UNCHANGED <<wake, tail>>
  /\ HubOnly

ReadEntry ==
  /\ hub.pc = "drain"
  /\ \E k \in Ahead :
       /\ Nearest(k)
       /\ hub' = [hub EXCEPT !.pos = k]
       /\ Dispatch(k)
  /\ UNCHANGED <<wake, tail>>
  /\ HubOnly

(* The entry has no message, or one that is not UTF-8.                     *)
SkipUnreadable ==
  /\ "unreadable" \in Faults
  /\ hub.pc = "drain"
  /\ \E k \in Ahead :
       /\ Nearest(k)
       /\ hub' = [hub EXCEPT !.pos = k]
       /\ dropped' = dropped \cup {k}
  /\ UNCHANGED <<wake, channel, tail>>
  /\ HubOnly

CaughtUp ==
  /\ hub.pc = "drain"
  /\ Ahead = {}
  /\ HubGoto("wait")
  /\ UNCHANGED <<wake, channel, dropped, tail>>
  /\ HubOnly

(* An error ends the thread.  It is logged; started stays set.             *)
ReaderFails ==
  /\ "reader" \in Faults
  /\ hub.pc \notin {"off", "dead"}
  /\ HubGoto("dead")
  /\ UNCHANGED <<wake, channel, dropped, tail>>
  /\ HubOnly

HubStep ==
  \/ MatchUnits \/ SeekTail \/ SkipFirst \/ Wait
  \/ ReadEntry \/ SkipUnreadable \/ CaughtUp

Next ==
  \/ Log \/ Rotate
  \/ \E i \in Sources : SourceStep(i)
  \/ HubStep \/ ReaderFails

Spec == Init /\ [][Next]_vars

(* The main task and every source task are polled and come back for the    *)
(* next entry, and the thread is scheduled.                                *)
Fairness ==
  /\ \A i \in Sources : WF_vars(SourceStep(i))
  /\ WF_vars(HubStep)

FairSpec == Spec /\ Fairness

-----------------------------------------------------------------------------
Entries == DOMAIN journal

HubType ==
  [pc : {"off", "match", "seek", "skip", "wait", "drain", "dead"},
   pos : Nat, matched : SUBSET Units]

TypeOK ==
  /\ journal \in Seq(Units)
  /\ wake \subseteq {"append", "invalidate"}
  /\ rotations \in 0..MaxRotations
  /\ subscribers \in [Units -> Sources \cup {Nobody}]
  /\ task \in [Sources -> {"new", "spawned", "running", "ended"}]
  /\ channel \in [Sources -> Seq(Entries)]
  /\ \A i \in Sources : Len(channel[i]) <= Capacity
  /\ hub \in HubType
  /\ hub.pos <= Len(journal)
  /\ got \in [Sources -> Seq(Entries)]
  /\ dropped \subseteq Entries
  /\ tail \in 0..hub.pos

Sent(i) == Range(channel[i])
Received(i) == Range(got[i])

Alone(i) == \A j \in Sources : UnitOf[j] = UnitOf[i] => j = i

(* A source that has its unit for itself keeps its subscription for ever,  *)
(* whatever becomes of those that share one (journal.rs, subscribe and the *)
(* drop of a source).                                                      *)
AloneStays ==
  \A i \in Sources :
    Alone(i) /\ task[i] # "new" => subscribers[UnitOf[i]] = i

(* Between the place where the reader settled and the one it has come to,  *)
(* no entry of a matched unit is lost but to a full channel or because it  *)
(* could not be read (journal.rs, run_loop and dispatch).                  *)
NothingElseLost ==
  \A i \in Sources, k \in (tail + 1)..hub.pos :
    /\ Alone(i)
    /\ journal[k] = UnitOf[i]
    /\ UnitOf[i] \in hub.matched
    /\ hub.pc \notin {"skip", "dead"}
    => k \in Received(i) \cup Sent(i) \cup dropped

(* The hub keeps the promise of UnitFeed, with subscriptions, rotations,   *)
(* full channels and the end of the reader at any time (journal.rs).       *)
ImplementsUnitFeed == Feed!Spec

InFlight(k) ==
  \/ k \in Ahead /\ hub.pc # "dead"
  \/ \E i \in Sources : k \in Sent(i)

(* An entry the reader can see does not stay unread while the reader waits,*)
(* whatever is logged or rotated between its look at the journal and its   *)
(* wait, and what is sent is received (journal.rs, run_loop).              *)
EntriesMove ==
  \A k \in 1..MaxEntries : InFlight(k) ~> ~InFlight(k)

(* What journal.rs says of match_units: "Add matches for all subscribed    *)
(* units to the journal".                                                  *)
AllUnitsMatched ==
  hub.pc \notin {"off", "match", "dead"} =>
    \A i \in Sources : task[i] # "new" => UnitOf[i] \in hub.matched
=============================================================================
