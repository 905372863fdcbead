--------------------------- MODULE JournalHubProofs ---------------------------
(***************************************************************************)
(* For any units, sources, capacity and faults: the hub implements         *)
(* UnitFeed, a source that has its unit for itself keeps it, and no entry  *)
(* is lost in any other way than by a full channel or as unreadable.       *)
(***************************************************************************)
EXTENDS JournalHub, SequenceTheorems, TLAPS

(* A subscription is one of a source of that unit that has subscribed.     *)
SubscribersInv ==
  \A u \in Units :
    subscribers[u] # Nobody =>
      UnitOf[subscribers[u]] = u /\ task[subscribers[u]] # "new"

(* So is a match.  Before the matches are made nothing has been read.      *)
MatchedInv ==
  /\ hub.pc \in {"off", "match"} => hub.matched = {} /\ hub.pos = 0
  /\ \A u \in hub.matched :
       \E i \in Sources : UnitOf[i] = u /\ task[i] # "new"

(* What is on its way to a source is of its unit, behind the reader, in    *)
(* order, after what has been received, and on its way to nobody else.     *)
InOrder(i) ==
  /\ \A k \in Sent(i) \cup Received(i) : k <= hub.pos /\ journal[k] = UnitOf[i]
  /\ \A m, n \in DOMAIN channel[i] : m < n => channel[i][m] < channel[i][n]
  /\ \A k \in Received(i), l \in Sent(i) : k < l

Apart(i, j) == (Sent(i) \cup Received(i)) \cap (Sent(j) \cup Received(j)) = {}

OrderInv ==
  /\ \A i \in Sources : InOrder(i)
  /\ \A i, j \in Sources : i # j => Apart(i, j)

IInv == /\ TypeOK /\ SubscribersInv /\ MatchedInv /\ AloneStays
        /\ OrderInv /\ NothingElseLost

USE DEF Sources, Nobody, Entries

LEMMA SourcesAreNat ==
  /\ Sources \subseteq Nat \ {0}
  /\ \A i \in Sources : UnitOf[i] \in Units
BY JournalHubAssumption

-----------------------------------------------------------------------------
(* Sequences: what an entry more, or one less, does to the set of entries. *)

LEMMA AppendSet ==
  ASSUME NEW S, NEW s \in Seq(S), NEW e \in S
  PROVE  LET t == Append(s, e) IN
         /\ t \in Seq(S) /\ Len(t) = Len(s) + 1
         /\ Range(t) = Range(s) \cup {e}
         /\ \A n \in DOMAIN s : n \in DOMAIN t /\ t[n] = s[n]
         /\ t[Len(s) + 1] = e /\ DOMAIN t = DOMAIN s \cup {Len(s) + 1}
<1> DEFINE t == Append(s, e)
<1>1. t \in Seq(S) /\ Len(t) = Len(s) + 1
  OBVIOUS
<1>2. DOMAIN t = DOMAIN s \cup {Len(s) + 1}
  BY <1>1
<1>3. t[Len(s) + 1] = e /\ \A n \in DOMAIN s : t[n] = s[n]
  OBVIOUS
<1> HIDE DEF t
<1>4. Range(t) = Range(s) \cup {e}
  BY <1>2, <1>3 DEF Range
<1> QED
  BY <1>1, <1>2, <1>3, <1>4 DEF t

LEMMA TailSet ==
  ASSUME NEW S, NEW s \in Seq(S), s # <<>>
  PROVE  /\ Tail(s) \in Seq(S) /\ Len(Tail(s)) = Len(s) - 1
         /\ Head(s) \in S /\ Head(s) = s[1] /\ 1 \in DOMAIN s
         /\ \A n \in DOMAIN Tail(s) : n + 1 \in DOMAIN s /\ Tail(s)[n] = s[n + 1]
         /\ Range(s) = Range(Tail(s)) \cup {Head(s)}
<1>1. Tail(s) \in Seq(S) /\ Len(Tail(s)) = Len(s) - 1
  OBVIOUS
<1>2. Head(s) \in S /\ Head(s) = s[1] /\ 1 \in DOMAIN s
  OBVIOUS
<1>3. \A n \in DOMAIN Tail(s) : n + 1 \in DOMAIN s /\ Tail(s)[n] = s[n + 1]
  BY <1>1
<1>4. ASSUME NEW n \in DOMAIN s, n # 1
      PROVE  n - 1 \in DOMAIN Tail(s) /\ Tail(s)[n - 1] = s[n]
  BY <1>1, <1>4
<1>5. Range(s) \subseteq Range(Tail(s)) \cup {Head(s)}
  BY <1>2, <1>4 DEF Range
<1>6. Range(Tail(s)) \cup {Head(s)} \subseteq Range(s)
  BY <1>2, <1>3 DEF Range
<1> QED
  BY <1>1, <1>2, <1>3, <1>5, <1>6

-----------------------------------------------------------------------------
(* Types.                                                                  *)

LEMMA TypeInit == Init => TypeOK
BY JournalHubAssumption, SourcesAreNat
   DEF Init, Feed!Init, Feed!Sources, TypeOK, HubType

(* The journal only grows.                                                 *)
LEMMA LogGrows ==
  ASSUME TypeOK, Log
  PROVE  /\ journal' \in Seq(Units) /\ Len(journal') = Len(journal) + 1
         /\ Entries \subseteq Entries'
         /\ \A k \in Entries : journal'[k] = journal[k]
<1>1. PICK u \in Units : journal' = Append(journal, u)
  BY DEF Log
<1> QED
  BY <1>1, AppendSet DEF TypeOK

LEMMA AheadProperties ==
  ASSUME TypeOK, NEW k \in Ahead
  PROVE  k \in Entries /\ k \in Nat /\ hub.pos < k /\ k <= Len(journal)
BY DEF TypeOK, HubType, Ahead

(* What a dispatch does to the channels.                                   *)
LEMMA DispatchCases ==
  ASSUME TypeOK, NEW k \in Entries, Dispatch(k)
  PROVE  LET i == subscribers[journal[k]] IN
         \/ /\ i \in Sources
            /\ channel' = [channel EXCEPT ![i] = Append(@, k)]
            /\ Len(channel[i]) < Capacity
            /\ UNCHANGED dropped
         \/ UNCHANGED channel /\ UNCHANGED dropped /\ i = Nobody
         \/ UNCHANGED channel /\ dropped' = dropped \cup {k} /\ i \in Sources
<1>1. subscribers[journal[k]] \in Sources \cup {Nobody}
  BY DEF TypeOK
<1> QED
  BY <1>1, SourcesAreNat DEF Dispatch, Send

LEMMA TypeStep == TypeOK /\ [Next]_vars => TypeOK'
<1> SUFFICES ASSUME TypeOK, [Next]_vars PROVE TypeOK'
  OBVIOUS
<1> USE JournalHubAssumption, SourcesAreNat
<1>1. CASE UNCHANGED vars
  BY <1>1 DEF vars, TypeOK, HubType
<1>2. CASE Log
  <2>1. channel' \in [Sources -> Seq(Entries')] /\ got' \in [Sources -> Seq(Entries')]
    <3>1. \A s \in Seq(Entries) : s \in Seq(Entries')
      BY <1>2, LogGrows, SeqMonotonic
    <3> QED
      BY <1>2, <3>1 DEF TypeOK, Log
  <2>2. dropped' \subseteq Entries'
    BY <1>2, LogGrows DEF TypeOK, Log
  <2>3. hub'.pos <= Len(journal')
    BY <1>2, LogGrows DEF TypeOK, HubType, Log
  <2> QED
    BY <1>2, <2>1, <2>2, <2>3, LogGrows DEF TypeOK, HubType, Log
<1>3. CASE Rotate
  BY <1>3 DEF TypeOK, HubType, Rotate
<1>4. ASSUME NEW i \in Sources, SourceStep(i) PROVE TypeOK'
  <2>1. CASE Subscribe(i)
    BY <2>1 DEF TypeOK, HubType, Subscribe, Register, SourcesOnly
  <2>2. CASE Stream(i)
    <3>1. hub' \in HubType /\ hub'.pos = hub.pos
      <4>1. CASE hub.pc = "off"
        BY <2>2, <4>1 DEF TypeOK, HubType, Stream, StartHub
      <4>2. CASE hub.pc # "off"
        BY <2>2, <4>2 DEF TypeOK, HubType, Stream, StartHub
      <4> QED
        BY <4>1, <4>2
    <3> QED
      BY <2>2, <3>1 DEF TypeOK, Stream, SourcesOnly
  <2>3. CASE Receive(i)
    <3>1. /\ Tail(channel[i]) \in Seq(Entries) /\ Head(channel[i]) \in Entries
          /\ Len(Tail(channel[i])) = Len(channel[i]) - 1
      BY <2>3, TailSet DEF TypeOK, Receive
    <3>2. Append(got[i], Head(channel[i])) \in Seq(Entries)
      BY <3>1 DEF TypeOK
    <3>3. channel' \in [Sources -> Seq(Entries)] /\ got' \in [Sources -> Seq(Entries)]
      BY <2>3, <3>1, <3>2 DEF TypeOK, Receive
    <3>4. \A j \in Sources : Len(channel'[j]) <= Capacity
      <4>1. Len(channel[i]) \in Nat
        BY DEF TypeOK
      <4> QED
        BY <2>3, <3>1, <4>1 DEF TypeOK, Receive
    <3> QED
      BY <2>3, <3>3, <3>4 DEF TypeOK, HubType, Receive, SourcesOnly
  <2>4. CASE EndOfStream(i)
    BY <2>4 DEF TypeOK, HubType, EndOfStream, Unsubscribe, SourcesOnly
  <2> QED
    BY <1>4, <2>1, <2>2, <2>3, <2>4 DEF SourceStep
<1>5. CASE MatchUnits
  <2>1. hub' \in HubType /\ hub'.pos = hub.pos
    BY <1>5 DEF TypeOK, HubType, MatchUnits
  <2> QED
    BY <1>5, <2>1 DEF TypeOK, MatchUnits, HubOnly
<1>6. CASE SeekTail
  <2>0. Len(journal) \in Nat
    BY DEF TypeOK
  <2>1. hub' \in HubType /\ hub'.pos = Len(journal)
    BY <1>6, <2>0 DEF TypeOK, HubType, SeekTail
  <2>2. tail \in 0..Len(journal)
    BY DEF TypeOK, HubType
  <2> QED
    BY <1>6, <2>1, <2>2 DEF TypeOK, SeekTail, HubOnly
<1>7. CASE SkipFirst
  <2>1. tail' \in Nat /\ tail' <= Len(journal)
    BY <1>7, AheadProperties DEF TypeOK, HubType, SkipFirst
  <2>2. hub' \in HubType /\ hub'.pos = tail'
    BY <1>7, <2>1 DEF TypeOK, HubType, SkipFirst
  <2> QED
    BY <1>7, <2>1, <2>2 DEF TypeOK, SkipFirst, HubOnly
<1>8. CASE Wait \/ CaughtUp \/ ReaderFails
  <2>1. hub' \in HubType /\ hub'.pos = hub.pos
    BY <1>8 DEF TypeOK, HubType, Wait, CaughtUp, ReaderFails, HubGoto
  <2> QED
    BY <1>8, <2>1 DEF TypeOK, Wait, CaughtUp, ReaderFails, HubOnly
<1>9. CASE ReadEntry
  <2>1. PICK k \in Ahead : hub' = [hub EXCEPT !.pos = k] /\ Dispatch(k)
    BY <1>9 DEF ReadEntry
  <2>2. hub' \in HubType /\ hub'.pos = k /\ k \in Entries /\ hub.pos < k
    BY <2>1, AheadProperties DEF TypeOK, HubType
  <2>3. /\ channel' \in [Sources -> Seq(Entries)] /\ dropped' \subseteq Entries
        /\ \A j \in Sources : Len(channel'[j]) <= Capacity
    <3> DEFINE i == subscribers[journal[k]]
    <3>1. CASE /\ i \in Sources
               /\ channel' = [channel EXCEPT ![i] = Append(@, k)]
               /\ Len(channel[i]) < Capacity /\ UNCHANGED dropped
      <4> HIDE DEF i
      <4>1. /\ Append(channel[i], k) \in Seq(Entries)
            /\ Len(Append(channel[i], k)) = Len(channel[i]) + 1
            /\ Len(channel[i]) \in Nat
        BY <3>1, <2>2, AppendSet DEF TypeOK
      <4> QED
        BY <3>1, <4>1 DEF TypeOK
    <3>2. CASE UNCHANGED channel /\ dropped' \subseteq dropped \cup {k}
      BY <2>2, <3>2 DEF TypeOK
    <3> QED
      BY <2>1, <2>2, <3>1, <3>2, DispatchCases
  <2>4. tail \in 0..k
    BY <2>2, AheadProperties DEF TypeOK, HubType
  <2>5. k <= Len(journal)
    BY AheadProperties
  <2> QED
    BY <1>9, <2>2, <2>3, <2>4, <2>5 DEF TypeOK, ReadEntry, HubOnly
<1>10. CASE SkipUnreadable
  <2>1. PICK k \in Ahead : /\ hub' = [hub EXCEPT !.pos = k]
                           /\ dropped' = dropped \cup {k}
    BY <1>10 DEF SkipUnreadable
  <2>2. hub' \in HubType /\ hub'.pos = k /\ k \in Entries /\ hub.pos < k
    BY <2>1, AheadProperties DEF TypeOK, HubType
  <2>3. tail \in 0..k /\ k <= Len(journal)
    BY <2>2, AheadProperties DEF TypeOK, HubType
  <2> QED
    BY <1>10, <2>1, <2>2, <2>3 DEF TypeOK, SkipUnreadable, HubOnly
<1> QED
  BY <1>1, <1>2, <1>3, <1>4, <1>5, <1>6, <1>7, <1>8, <1>9, <1>10 DEF Next, HubStep

(* The types of the hub and of the sources (journal.rs).                   *)
THEOREM TypeCorrect == Spec => []TypeOK
BY TypeInit, TypeStep, PTL DEF Spec

-----------------------------------------------------------------------------
(* Subscriptions and matches.                                              *)

LEMMA SubscribersStep ==
  ASSUME TypeOK, SubscribersInv, [Next]_vars
  PROVE  SubscribersInv'
<1> USE SourcesAreNat DEF TypeOK, SubscribersInv
<1>1. CASE UNCHANGED vars
  BY <1>1 DEF vars
<1>2. CASE Log \/ Rotate \/ HubStep \/ ReaderFails
  BY <1>2 DEF Log, Rotate, HubStep, MatchUnits, SeekTail, SkipFirst, Wait,
              ReadEntry, SkipUnreadable, CaughtUp, ReaderFails, HubOnly
<1>3. ASSUME NEW i \in Sources, Subscribe(i) PROVE SubscribersInv'
  BY <1>3 DEF Subscribe, Register
<1>4. ASSUME NEW i \in Sources, Stream(i) \/ Receive(i) PROVE SubscribersInv'
  BY <1>4 DEF Stream, Receive
<1>5. ASSUME NEW i \in Sources, EndOfStream(i) PROVE SubscribersInv'
  BY <1>5 DEF EndOfStream, Unsubscribe
<1> QED
  BY <1>1, <1>2, <1>3, <1>4, <1>5 DEF Next, SourceStep

(* Nobody takes the place of a source that is alone with its unit, and its *)
(* stream only ends when somebody has.                                     *)
LEMMA AloneStep ==
  ASSUME TypeOK, AloneStays, [Next]_vars
  PROVE  AloneStays'
<1> USE SourcesAreNat DEF TypeOK, AloneStays, Alone
<1>1. CASE UNCHANGED vars
  BY <1>1 DEF vars
<1>2. CASE Log \/ Rotate \/ HubStep \/ ReaderFails
  BY <1>2 DEF Log, Rotate, HubStep, MatchUnits, SeekTail, SkipFirst, Wait,
              ReadEntry, SkipUnreadable, CaughtUp, ReaderFails, HubOnly
<1>3. ASSUME NEW i \in Sources, Subscribe(i) PROVE AloneStays'
  BY <1>3 DEF Subscribe, Register
<1>4. ASSUME NEW i \in Sources, Stream(i) \/ Receive(i) PROVE AloneStays'
  BY <1>4 DEF Stream, Receive
<1>5. ASSUME NEW i \in Sources, EndOfStream(i) PROVE AloneStays'
  BY <1>5 DEF EndOfStream, Unsubscribe
<1> QED
  BY <1>1, <1>2, <1>3, <1>4, <1>5 DEF Next, SourceStep

LEMMA MatchedStep ==
  ASSUME TypeOK, SubscribersInv, MatchedInv, [Next]_vars
  PROVE  MatchedInv'
<1> USE SourcesAreNat DEF TypeOK, HubType, MatchedInv
<1>1. CASE UNCHANGED vars
  BY <1>1 DEF vars
<1>2. CASE Log \/ Rotate
  BY <1>2 DEF Log, Rotate
<1>3. ASSUME NEW i \in Sources, SourceStep(i) PROVE MatchedInv'
  <2>1. /\ hub'.matched = hub.matched /\ hub'.pos = hub.pos
        /\ hub'.pc = hub.pc \/ hub.pc = "off"
    BY <1>3 DEF SourceStep, Subscribe, Stream, StartHub, Receive, EndOfStream
  <2>2. \A j \in Sources : task[j] # "new" => task'[j] # "new"
    BY <1>3 DEF SourceStep, Subscribe, Stream, Receive, EndOfStream
  <2> QED
    BY <2>1, <2>2
<1>4. CASE MatchUnits
  <2>1. \A u \in hub'.matched : subscribers[u] \in Sources
    BY <1>4 DEF MatchUnits
  <2>2. hub'.pc = "seek" /\ task' = task /\ hub'.matched \subseteq Units
    BY <1>4 DEF MatchUnits, HubOnly
  <2> QED
    BY <2>1, <2>2 DEF SubscribersInv
<1>5. CASE \/ SeekTail \/ SkipFirst \/ Wait \/ ReadEntry \/ SkipUnreadable
           \/ CaughtUp \/ ReaderFails
  <2>1. task' = task
    BY <1>5 DEF SeekTail, SkipFirst, Wait, ReadEntry, SkipUnreadable,
                CaughtUp, ReaderFails, HubOnly
  <2>2. hub'.matched = hub.matched /\ hub'.pc \notin {"off", "match"}
    <3>0. hub \in HubType
      OBVIOUS
    <3> HIDE DEF TypeOK, MatchedInv
    <3>1. CASE SeekTail \/ SkipFirst
      <4>1. PICK label, p :
              /\ hub' = [hub EXCEPT !.pc = label, !.pos = p]
              /\ label \in {"skip", "wait"}
        BY <3>1 DEF SeekTail, SkipFirst
      <4> QED
        BY <3>0, <4>1
    <3>2. CASE Wait \/ CaughtUp \/ ReaderFails
      BY <3>0, <3>2 DEF Wait, CaughtUp, ReaderFails, HubGoto
    <3>3. CASE ReadEntry \/ SkipUnreadable
      BY <3>0, <3>3 DEF ReadEntry, SkipUnreadable
    <3> QED
      BY <1>5, <3>1, <3>2, <3>3
  <2> QED
    BY <2>1, <2>2
<1> QED
  BY <1>1, <1>2, <1>3, <1>4, <1>5 DEF Next, HubStep

-----------------------------------------------------------------------------
(* The order of the entries.                                               *)

LEMMA EntriesAreNat ==
  ASSUME TypeOK, NEW i \in Sources
  PROVE  /\ Sent(i) \subseteq Entries /\ Received(i) \subseteq Entries
         /\ Entries \subseteq Nat /\ hub.pos \in Nat
<1>1. channel[i] \in Seq(Entries) /\ got[i] \in Seq(Entries)
  BY DEF TypeOK
<1>2. Sent(i) \subseteq Entries /\ Received(i) \subseteq Entries
  BY <1>1, RangeOfSeq DEF Sent, Received
<1> QED
  BY <1>2 DEF TypeOK, HubType

(* Most steps leave the channels alone and never move the reader back.     *)
LEMMA OrderUnchanged ==
  ASSUME TypeOK, OrderInv, UNCHANGED <<channel, got>>,
         hub'.pos \in Nat, hub.pos <= hub'.pos,
         \A k \in Entries : journal'[k] = journal[k]
  PROVE  OrderInv'
<1>1. \A i \in Sources : Sent(i)' = Sent(i) /\ Received(i)' = Received(i)
  BY DEF Sent, Received
<1>2. ASSUME NEW i \in Sources PROVE InOrder(i)'
  BY <1>1, EntriesAreNat DEF OrderInv, InOrder
<1>3. ASSUME NEW i \in Sources, NEW j \in Sources, i # j PROVE Apart(i, j)'
  BY <1>1, <1>3 DEF OrderInv, Apart
<1> QED
  BY <1>2, <1>3 DEF OrderInv

LEMMA OrderReceive ==
  ASSUME TypeOK, OrderInv, NEW i \in Sources, Receive(i)
  PROVE  OrderInv'
<1> DEFINE h == Head(channel[i])
           t == Tail(channel[i])
<1>1. /\ t \in Seq(Entries) /\ h \in Entries /\ h = channel[i][1]
      /\ 1 \in DOMAIN channel[i]
      /\ \A n \in DOMAIN t : n + 1 \in DOMAIN channel[i] /\ t[n] = channel[i][n + 1]
      /\ Sent(i) = Range(t) \cup {h}
  BY TailSet DEF TypeOK, Receive, Sent
<1>2. Range(Append(got[i], h)) = Received(i) \cup {h}
  BY <1>1, AppendSet DEF TypeOK, Received
<1>3. /\ channel' = [channel EXCEPT ![i] = t]
      /\ got' = [got EXCEPT ![i] = Append(@, h)]
      /\ UNCHANGED <<journal, hub>>
  BY DEF Receive, SourcesOnly
<1> HIDE DEF h, t
<1>4. channel'[i] = t /\ got'[i] = Append(got[i], h)
  BY <1>3 DEF TypeOK
<1>5. Received(i)' = Received(i) \cup {h}
  BY <1>2, <1>4 DEF Received
<1>6. Sent(i)' = Range(t) /\ Sent(i) = Sent(i)' \cup {h}
  BY <1>1, <1>4 DEF Sent
<1>7. \A j \in Sources \ {i} : /\ channel'[j] = channel[j]
                               /\ Sent(j)' = Sent(j) /\ Received(j)' = Received(j)
  BY <1>3 DEF TypeOK, Sent, Received
<1>8. InOrder(i)'
  <2>1. \A k \in Sent(i)' \cup Received(i)' : k <= hub'.pos /\ journal'[k] = UnitOf[i]
    BY <1>3, <1>5, <1>6 DEF OrderInv, InOrder
  <2>2. DOMAIN t \subseteq Nat \ {0}
    BY <1>1
  <2>3. \A m, n \in DOMAIN t : m < n => t[m] < t[n]
    BY <1>1, <2>2 DEF OrderInv, InOrder
  <2>4. \A n \in DOMAIN t : h < t[n]
    <3> SUFFICES ASSUME NEW n \in DOMAIN t PROVE h < t[n]
      OBVIOUS
    <3>1. 1 < n + 1
      BY <2>2
    <3>2. n + 1 \in DOMAIN channel[i] /\ t[n] = channel[i][n + 1]
      BY <1>1
    <3>3. \A a, b \in DOMAIN channel[i] : a < b => channel[i][a] < channel[i][b]
      BY DEF OrderInv, InOrder
    <3>4. channel[i][1] < channel[i][n + 1]
      <4> HIDE DEF Sources, Entries
      <4> QED
        BY <1>1, <3>1, <3>2, <3>3
    <3> QED
      BY <1>1, <3>2, <3>4
  <2>5. \A k \in Received(i)', l \in Sent(i)' : k < l
    <3>1. \A l \in Sent(i)' : h < l
      BY <1>6, <2>4 DEF Range
    <3> QED
      BY <1>5, <1>6, <3>1 DEF OrderInv, InOrder
  <2> QED
    BY <1>4, <2>1, <2>3, <2>5 DEF InOrder
<1>9. ASSUME NEW j \in Sources, j # i PROVE InOrder(j)'
  BY <1>3, <1>7, <1>9 DEF OrderInv, InOrder
<1>10. ASSUME NEW j \in Sources, NEW l \in Sources, j # l PROVE Apart(j, l)'
  BY <1>5, <1>6, <1>7, <1>10 DEF OrderInv, Apart
<1> QED
  BY <1>8, <1>9, <1>10 DEF OrderInv

LEMMA OrderSend ==
  ASSUME TypeOK, SubscribersInv, OrderInv, NEW k \in Ahead,
         NEW i \in Sources, i = subscribers[journal[k]],
         channel' = [channel EXCEPT ![i] = Append(@, k)],
         hub'.pos = k, UNCHANGED <<journal, got>>
  PROVE  OrderInv'
<1> DEFINE s == channel[i]
           t == Append(channel[i], k)
<1>1. k \in Entries /\ k \in Nat /\ hub.pos < k
  BY AheadProperties
<1>2. /\ s \in Seq(Entries) /\ t \in Seq(Entries)
      /\ Range(t) = Sent(i) \cup {k}
      /\ \A n \in DOMAIN s : t[n] = s[n]
      /\ t[Len(s) + 1] = k /\ DOMAIN t = DOMAIN s \cup {Len(s) + 1}
      /\ DOMAIN s = 1..Len(s) /\ Len(s) \in Nat
  BY <1>1, AppendSet DEF TypeOK, Sent
<1>3. journal[k] = UnitOf[i]
  <2>1. journal[k] \in Units
    BY <1>1 DEF TypeOK
  <2> QED
    BY <2>1, SourcesAreNat DEF SubscribersInv
<1> HIDE DEF t
<1>4. channel'[i] = t
  BY DEF TypeOK, t
<1>5. Sent(i)' = Sent(i) \cup {k}
  BY <1>2, <1>4 DEF Sent
<1>6. \A j \in Sources \ {i} : channel'[j] = channel[j] /\ Sent(j)' = Sent(j)
  BY DEF TypeOK, Sent
<1>7. \A j \in Sources : Received(j)' = Received(j)
  BY DEF Received
<1>8. \A j \in Sources : \A e \in Sent(j) \cup Received(j) : e \in Nat /\ e < k
  BY <1>1, EntriesAreNat DEF OrderInv, InOrder
<1>9. InOrder(i)'
  <2>1. \A e \in Sent(i)' \cup Received(i)' : e <= hub'.pos /\ journal'[e] = UnitOf[i]
    <3>1. \A e \in Sent(i) \cup Received(i) : e <= k /\ journal[e] = UnitOf[i]
      BY <1>1, <1>8 DEF OrderInv, InOrder
    <3>2. k <= k
      BY <1>1
    <3> QED
      BY <1>3, <1>5, <1>7, <3>1, <3>2
  <2>2. \A m, n \in DOMAIN t : m < n => t[m] < t[n]
    <3>1. \A n \in DOMAIN s : s[n] < k
      BY <1>8 DEF Sent, Range
    <3> SUFFICES ASSUME NEW m \in DOMAIN t, NEW n \in DOMAIN t, m < n
                 PROVE  t[m] < t[n]
      OBVIOUS
    <3>2. m \in DOMAIN s
      BY <1>2
    <3>3. CASE n \in DOMAIN s
      BY <1>2, <3>2, <3>3 DEF OrderInv, InOrder
    <3>4. CASE n = Len(s) + 1
      BY <1>2, <3>1, <3>2, <3>4
    <3> QED
      BY <1>2, <3>3, <3>4
  <2>3. \A e \in Received(i)', l \in Sent(i)' : e < l
    BY <1>5, <1>7, <1>8 DEF OrderInv, InOrder
  <2> QED
    BY <1>4, <2>1, <2>2, <2>3 DEF InOrder
<1>10. ASSUME NEW j \in Sources, j # i PROVE InOrder(j)'
  <2>1. \A e \in Sent(j) \cup Received(j) : e <= k
    BY <1>1, <1>8
  <2> QED
    BY <1>6, <1>7, <1>10, <2>1 DEF OrderInv, InOrder
<1>11. \A j \in Sources : k \notin Sent(j) \cup Received(j)
  BY <1>8
<1>12. ASSUME NEW j \in Sources, NEW l \in Sources, j # l PROVE Apart(j, l)'
  BY <1>5, <1>6, <1>7, <1>11, <1>12 DEF OrderInv, Apart
<1> QED
  BY <1>9, <1>10, <1>12 DEF OrderInv

(* The reader never goes back.                                             *)
LEMMA ReaderForward ==
  ASSUME TypeOK, HubStep \/ ReaderFails
  PROVE  hub'.pos \in Nat /\ hub.pos <= hub'.pos
<1> USE DEF TypeOK, HubType
<1>1. CASE MatchUnits \/ Wait \/ CaughtUp \/ ReaderFails
  <2>1. hub'.pos = hub.pos
    BY <1>1 DEF MatchUnits, Wait, CaughtUp, ReaderFails, HubGoto
  <2>2. hub.pos \in Nat
    OBVIOUS
  <2> QED
    BY <2>1, <2>2
<1>2. CASE SeekTail
  <2>1. Len(journal) \in Nat
    OBVIOUS
  <2> QED
    BY <1>2, <2>1 DEF SeekTail
<1>3. CASE SkipFirst
  BY <1>3, AheadProperties DEF SkipFirst
<1>4. CASE ReadEntry \/ SkipUnreadable
  BY <1>4, AheadProperties DEF ReadEntry, SkipUnreadable
<1> QED
  BY <1>1, <1>2, <1>3, <1>4 DEF HubStep

LEMMA OrderStep ==
  ASSUME TypeOK, SubscribersInv, OrderInv, [Next]_vars
  PROVE  OrderInv'
<1>0. hub.pos \in Nat /\ hub.pos <= hub.pos
  BY DEF TypeOK, HubType
<1>1. CASE UNCHANGED vars
  BY <1>0, <1>1, OrderUnchanged DEF vars
<1>2. CASE Log
  <2>1. UNCHANGED <<channel, got, hub>>
    BY <1>2 DEF Log
  <2> QED
    BY <1>0, <1>2, <2>1, LogGrows, OrderUnchanged
<1>3. CASE Rotate
  BY <1>0, <1>3, OrderUnchanged DEF Rotate
<1>4. ASSUME NEW i \in Sources, Subscribe(i) \/ Stream(i) \/ EndOfStream(i)
      PROVE  OrderInv'
  <2>1. hub'.pos = hub.pos /\ UNCHANGED <<channel, got, journal>>
    BY <1>4 DEF Subscribe, Stream, StartHub, EndOfStream, SourcesOnly,
                TypeOK, HubType
  <2> QED
    BY <1>0, <2>1, OrderUnchanged
<1>5. ASSUME NEW i \in Sources, Receive(i) PROVE OrderInv'
  BY <1>5, OrderReceive
<1>6. CASE ReadEntry
  <2>1. PICK k \in Ahead : hub' = [hub EXCEPT !.pos = k] /\ Dispatch(k)
    BY <1>6 DEF ReadEntry
  <2>2. hub'.pos = k /\ UNCHANGED <<journal, got>>
    BY <1>6, <2>1 DEF ReadEntry, HubOnly, TypeOK, HubType
  <2>3. CASE UNCHANGED channel
    BY <1>6, <2>2, <2>3, ReaderForward, OrderUnchanged DEF HubStep
  <2>4. CASE /\ subscribers[journal[k]] \in Sources
             /\ channel' = [channel EXCEPT ![subscribers[journal[k]]] = Append(@, k)]
    BY <2>2, <2>4, OrderSend
  <2> QED
    BY <2>1, <2>3, <2>4, AheadProperties, DispatchCases
<1>7. CASE \/ MatchUnits \/ SeekTail \/ SkipFirst \/ Wait \/ SkipUnreadable
           \/ CaughtUp \/ ReaderFails
  <2>1. UNCHANGED <<channel, got, journal>>
    BY <1>7 DEF MatchUnits, SeekTail, SkipFirst, Wait, SkipUnreadable,
                CaughtUp, ReaderFails, HubOnly
  <2> QED
    BY <1>7, <2>1, ReaderForward, OrderUnchanged DEF HubStep
<1> QED
  BY <1>1, <1>2, <1>3, <1>4, <1>5, <1>6, <1>7 DEF Next, SourceStep, HubStep

-----------------------------------------------------------------------------
(* What is lost.                                                           *)

(* What NothingElseLost says of one source and one entry.                  *)
Accounted(i, k) ==
  /\ Alone(i)
  /\ journal[k] = UnitOf[i]
  /\ UnitOf[i] \in hub.matched
  /\ hub.pc \notin {"skip", "dead"}
  => k \in Received(i) \cup Sent(i) \cup dropped

(* Nothing new is behind the reader, and nothing that was is forgotten.    *)
LEMMA LossUnchanged ==
  ASSUME TypeOK, NothingElseLost, UNCHANGED tail,
         hub'.pos = hub.pos, hub'.matched = hub.matched,
         hub.pc \in {"skip", "dead"} => hub'.pc \in {"skip", "dead"},
         \A k \in Entries : journal'[k] = journal[k], dropped \subseteq dropped',
         \A i \in Sources :
           Received(i) \cup Sent(i) \subseteq Received(i)' \cup Sent(i)'
  PROVE  NothingElseLost'
<1> SUFFICES ASSUME NEW i \in Sources, NEW k \in (tail + 1)..hub.pos,
                    Accounted(i, k)
             PROVE  Accounted(i, k)'
  BY DEF NothingElseLost, Accounted
<1>1. k \in Entries
  BY DEF TypeOK, HubType
<1> QED
  BY <1>1 DEF Accounted, Alone

(* The entries that the reader passes over are not of a matched unit.      *)
LEMMA PassedOver ==
  ASSUME TypeOK, NEW k \in Ahead, Nearest(k),
         NEW e \in (hub.pos + 1)..(k - 1)
  PROVE  journal[e] \notin hub.matched
<1>1. k \in Nat /\ hub.pos \in Nat /\ k <= Len(journal) /\ Len(journal) \in Nat
  BY AheadProperties DEF TypeOK, HubType
<1>2. e \in (hub.pos + 1)..Len(journal) /\ ~(k <= e)
  BY <1>1
<1> QED
  BY <1>2 DEF Nearest, Ahead

LEMMA LossRead ==
  ASSUME TypeOK, SubscribersInv, MatchedInv, AloneStays, NothingElseLost,
         NEW k \in Ahead, Nearest(k), hub' = [hub EXCEPT !.pos = k],
         hub.pc = "drain", UNCHANGED <<journal, got, tail>>,
         \/ Dispatch(k)
         \/ dropped' = dropped \cup {k} /\ UNCHANGED channel
  PROVE  NothingElseLost'
<1>1. /\ k \in Entries /\ k \in Nat /\ hub.pos < k
      /\ hub.pos \in Nat /\ tail \in Nat
  BY AheadProperties DEF TypeOK, HubType
<1>2. hub'.pos = k /\ hub'.matched = hub.matched
  BY DEF TypeOK, HubType
<1>3. dropped \subseteq dropped' /\ \A i \in Sources : Sent(i) \subseteq Sent(i)'
  <2>1. CASE UNCHANGED channel
    BY <1>1, <2>1, DispatchCases DEF Sent
  <2>2. ASSUME NEW j \in Sources,
               channel' = [channel EXCEPT ![j] = Append(@, k)], UNCHANGED dropped
        PROVE  \A i \in Sources : Sent(i) \subseteq Sent(i)'
    <3>1. Range(Append(channel[j], k)) = Range(channel[j]) \cup {k}
      BY <1>1, AppendSet DEF TypeOK
    <3> QED
      BY <2>2, <3>1 DEF TypeOK, Sent
  <2> QED
    BY <1>1, <2>1, <2>2, DispatchCases
<1>4. \A i \in Sources : Received(i)' = Received(i)
  BY DEF Received
<1> SUFFICES ASSUME NEW i \in Sources, NEW e \in (tail + 1)..k,
                    Alone(i), journal[e] = UnitOf[i], UnitOf[i] \in hub.matched
             PROVE  e \in Received(i)' \cup Sent(i)' \cup dropped'
  BY <1>2 DEF NothingElseLost, Alone
<1>5. CASE e <= hub.pos
  <2>1. e \in (tail + 1)..hub.pos
    BY <1>1, <1>5
  <2> QED
    BY <1>3, <1>4, <2>1 DEF NothingElseLost
<1>6. CASE hub.pos < e /\ e < k
  BY <1>1, <1>6, PassedOver
<1>7. CASE e = k
  <2>1. task[i] # "new"
    <3>1. PICK j \in Sources : UnitOf[j] = UnitOf[i] /\ task[j] # "new"
      BY DEF MatchedInv
    <3> QED
      BY <3>1 DEF Alone
  <2>2. subscribers[journal[k]] = i
    BY <1>7, <2>1 DEF AloneStays
  <2>3. CASE k \in dropped'
    BY <1>7, <2>3
  <2>4. CASE channel' = [channel EXCEPT ![i] = Append(@, k)]
    <3>1. Range(Append(channel[i], k)) = Range(channel[i]) \cup {k}
      BY <1>1, AppendSet DEF TypeOK
    <3> QED
      BY <1>7, <2>4, <3>1 DEF TypeOK, Sent
  <2> QED
    BY <1>1, <2>2, <2>3, <2>4, SourcesAreNat, DispatchCases
<1> QED
  BY <1>1, <1>5, <1>6, <1>7

LEMMA LossStep ==
  ASSUME TypeOK, SubscribersInv, MatchedInv, AloneStays, NothingElseLost,
         [Next]_vars
  PROVE  NothingElseLost'
<1>1. CASE UNCHANGED vars
  BY <1>1, LossUnchanged DEF vars, Sent, Received
<1>2. CASE Log
  BY <1>2, LogGrows, LossUnchanged DEF Log, Sent, Received
<1>3. CASE Rotate
  BY <1>3, LossUnchanged DEF Rotate, Sent, Received
<1>4. ASSUME NEW i \in Sources, Subscribe(i) \/ EndOfStream(i)
      PROVE  NothingElseLost'
  BY <1>4, LossUnchanged DEF Subscribe, EndOfStream, SourcesOnly, Sent, Received
<1>5. ASSUME NEW i \in Sources, Stream(i) PROVE NothingElseLost'
  <2>1. /\ hub'.pos = hub.pos /\ hub'.matched = hub.matched
        /\ hub'.pc = hub.pc \/ hub.pc = "off"
    BY <1>5 DEF Stream, StartHub, TypeOK, HubType
  <2> QED
    BY <1>5, <2>1, LossUnchanged DEF Stream, SourcesOnly, Sent, Received
<1>6. ASSUME NEW i \in Sources, Receive(i) PROVE NothingElseLost'
  <2>1. Sent(i) = Range(Tail(channel[i])) \cup {Head(channel[i])}
    BY <1>6, TailSet DEF TypeOK, Receive, Sent
  <2>2. Range(Append(got[i], Head(channel[i]))) = Received(i) \cup {Head(channel[i])}
    BY <1>6, TailSet, AppendSet DEF TypeOK, Receive, Received
  <2>3. Sent(i)' = Range(Tail(channel[i]))
        /\ Received(i)' = Range(Append(got[i], Head(channel[i])))
    BY <1>6 DEF TypeOK, Receive, Sent, Received
  <2>4. \A j \in Sources \ {i} : Sent(j)' = Sent(j) /\ Received(j)' = Received(j)
    BY <1>6 DEF TypeOK, Receive, Sent, Received
  <2>5. \A j \in Sources :
          Received(j) \cup Sent(j) \subseteq Received(j)' \cup Sent(j)'
    BY <2>1, <2>2, <2>3, <2>4
  <2> QED
    BY <1>6, <2>5, LossUnchanged DEF Receive, SourcesOnly
<1>7. CASE MatchUnits
  <2>1. hub'.pos = 0 /\ tail' = tail /\ tail \in Nat
    BY <1>7 DEF MatchUnits, MatchedInv, TypeOK, HubType
  <2>2. (tail' + 1)..hub'.pos = {}
    BY <2>1
  <2> QED
    BY <2>2 DEF NothingElseLost
<1>8. CASE SeekTail
  <2>1. hub'.pc = "skip"
    BY <1>8 DEF SeekTail, TypeOK, HubType
  <2> QED
    BY <2>1 DEF NothingElseLost
<1>9. CASE SkipFirst
  <2>1. tail' \in Nat
    BY <1>9, AheadProperties DEF SkipFirst, TypeOK, HubType
  <2>2. PICK n \in Nat : tail' = n
    BY <2>1
  <2>3. hub'.pos = n
    BY <1>9, <2>2 DEF SkipFirst, TypeOK, HubType
  <2>4. \A k \in (n + 1)..n : FALSE
    OBVIOUS
  <2> QED
    BY <2>2, <2>3, <2>4 DEF NothingElseLost
<1>10. CASE Wait \/ CaughtUp
  <2>1. /\ hub'.pos = hub.pos /\ hub'.matched = hub.matched
        /\ hub.pc \notin {"skip", "dead"}
    BY <1>10 DEF Wait, CaughtUp, HubGoto, TypeOK, HubType
  <2> QED
    BY <1>10, <2>1, LossUnchanged DEF Wait, CaughtUp, HubOnly, Sent, Received
<1>11. CASE ReaderFails
  <2>1. hub'.pc = "dead"
    BY <1>11 DEF ReaderFails, HubGoto, TypeOK, HubType
  <2> QED
    BY <2>1 DEF NothingElseLost
<1>12. CASE ReadEntry
  BY <1>12, LossRead DEF ReadEntry, HubOnly
<1>13. CASE SkipUnreadable
  BY <1>13, LossRead DEF SkipUnreadable, HubOnly
<1> QED
  BY <1>1, <1>2, <1>3, <1>4, <1>5, <1>6, <1>7, <1>8, <1>9, <1>10, <1>11,
     <1>12, <1>13 DEF Next, SourceStep, HubStep

-----------------------------------------------------------------------------
LEMMA InitInductive == Init => IInv
<1> SUFFICES ASSUME Init PROVE IInv
  OBVIOUS
<1> USE DEF Init, Feed!Init, Feed!Sources
<1>1. TypeOK
  BY TypeInit
<1>2. SubscribersInv /\ MatchedInv /\ AloneStays
  BY DEF SubscribersInv, MatchedInv, AloneStays
<1>3. \A i \in Sources : Sent(i) = {} /\ Received(i) = {}
  BY DEF Sent, Received, Range
<1>4. OrderInv
  BY <1>3 DEF OrderInv, InOrder, Apart
<1>5. NothingElseLost
  BY DEF NothingElseLost
<1> QED
  BY <1>1, <1>2, <1>4, <1>5 DEF IInv

LEMMA StepInductive == IInv /\ [Next]_vars => IInv'
BY TypeStep, SubscribersStep, MatchedStep, AloneStep, OrderStep, LossStep DEF IInv

(* The invariant that all the others follow from.                          *)
THEOREM InductiveInvariant == Spec => []IInv
BY InitInductive, StepInductive, PTL DEF Spec

(* A source that has its unit for itself keeps its subscription, whatever  *)
(* sources of other units do (journal.rs, subscribe and drop).             *)
THEOREM AloneKeepsUnit == Spec => []AloneStays
<1>1. IInv => AloneStays
  BY DEF IInv
<1> QED
  BY <1>1, InductiveInvariant, PTL

(* Full channels, unreadable entries and seeks are the only losses         *)
(* (journal.rs, run_loop and dispatch).                                    *)
THEOREM OnlyKnownLosses == Spec => []NothingElseLost
<1>1. IInv => NothingElseLost
  BY DEF IInv
<1> QED
  BY <1>1, InductiveInvariant, PTL

(* A step of the hub is a step of UnitFeed or none.                        *)
LEMMA FeedStep == IInv /\ [Next]_vars => [Feed!Next]_(Feed!feedVars)
<1> SUFFICES ASSUME IInv, [Next]_vars PROVE [Feed!Next]_(Feed!feedVars)
  OBVIOUS
<1> USE DEF Feed!feedVars, Feed!Sources
<1>1. CASE UNCHANGED vars
  BY <1>1 DEF vars
<1>2. CASE Log
  BY <1>2 DEF Log, Feed!Log, Feed!Next
<1>3. ASSUME NEW i \in Sources, Receive(i) PROVE Feed!Next
  <2> DEFINE h == Head(channel[i])
  <2>1. h \in Entries /\ h \in Sent(i)
    BY <1>3, TailSet DEF IInv, TypeOK, Receive, Sent
  <2>2. /\ got' = [got EXCEPT ![i] = Append(@, h)]
        /\ UNCHANGED journal
    BY <1>3 DEF Receive, SourcesOnly
  <2> HIDE DEF h
  <2>3. journal[h] = UnitOf[i] /\ \A k \in Received(i) : k < h
    BY <2>1 DEF IInv, OrderInv, InOrder
  <2>4. \A j \in Sources : h \notin Received(j)
    <3>1. h \in Nat /\ ~(h < h)
      BY <2>1, EntriesAreNat DEF IInv
    <3>2. h \notin Received(i)
      BY <2>3, <3>1
    <3>3. \A j \in Sources : j # i => h \notin Received(j)
      BY <2>1 DEF IInv, OrderInv, Apart
    <3> QED
      BY <3>2, <3>3
  <2>5. Feed!Receive(i, h)
    BY <2>2, <2>3, <2>4 DEF Feed!Receive, Received, Range
  <2> QED
    BY <2>1, <2>5 DEF Feed!Next
<1>4. ASSUME NEW i \in Sources, Subscribe(i) \/ Stream(i) \/ EndOfStream(i)
      PROVE  UNCHANGED Feed!feedVars
  BY <1>4 DEF Subscribe, Stream, EndOfStream, SourcesOnly
<1>5. CASE Rotate \/ HubStep \/ ReaderFails
  BY <1>5 DEF Rotate, HubStep, MatchUnits, SeekTail, SkipFirst, Wait,
              ReadEntry, SkipUnreadable, CaughtUp, ReaderFails, HubOnly
<1> QED
  BY <1>1, <1>2, <1>3, <1>4, <1>5 DEF Next, SourceStep

(* The hub keeps the promise of UnitFeed for any units and sources: each   *)
(* entry in the order of the journal, to one source of its unit, and once. *)
THEOREM Refinement == Spec => ImplementsUnitFeed
<1>1. Init => Feed!Init
  BY DEF Init
<1> QED
  BY <1>1, FeedStep, InductiveInvariant, PTL DEF Spec, ImplementsUnitFeed, Feed!Spec

=============================================================================
