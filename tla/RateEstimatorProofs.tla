-------------------------- MODULE RateEstimatorProofs --------------------------
(***************************************************************************)
(* For every window, every bound and every sequence of events: what the    *)
(* runs of RateEstimatorSpec check on small ones.                          *)
(***************************************************************************)
EXTENDS RateEstimatorSpec, RateEstimatorLemmas, SequenceTheorems

(* The estimate against the accepted events.  While the first of them is   *)
(* still within the window of the last, nothing has been decayed.          *)
HistoryInv ==
  /\ accepted = <<>> <=> est.first_time = NoTime
  /\ est.estimated_count <= Len(accepted)
  /\ accepted # <<>> /\ accepted[1] >= est.last_time - Window =>
       /\ est.estimated_count = Len(accepted)
       /\ est.first_time = accepted[1]

IInv == TypeOK /\ Coherent(est, Window) /\ HistoryInv

LEMMA EmptyInductive ==
  est = NewEstimator /\ accepted = <<>> => IInv
  BY EstimatorAssumption, NewEstimatorType, NewEstimatorCoherent
     DEF IInv, TypeOK, HistoryInv, NewEstimator, NoTime

(* A push that is accepted. *)
LEMMA AcceptedStep ==
  ASSUME IInv, NEW ts \in Time, ~OutOfOrder(est, ts),
         est' = Push(est, Window, ts), accepted' = Append(accepted, ts)
  PROVE  IInv'
<1> USE EstimatorAssumption DEF IInv, TypeOK, Time
<1>1. TypeOK' /\ Coherent(est, Window)'
  BY PushType, PushForward
<1>2. est'.last_time = ts /\ est'.estimated_count <= est.estimated_count + 1
  BY PushType, PushForward
<1>3. /\ Len(accepted') = Len(accepted) + 1
      /\ accepted' # <<>>
      /\ accepted'[1] = IF accepted = <<>> THEN ts ELSE accepted[1]
  OBVIOUS
<1>4. est'.estimated_count <= Len(accepted')
  BY <1>1, <1>2, <1>3 DEF HistoryInv, Estimator
<1>5. est'.first_time # NoTime
  BY <1>1, <1>2 DEF Coherent, NoTime
<1>6. ASSUME accepted'[1] >= ts - Window
      PROVE  /\ est'.estimated_count = Len(accepted')
             /\ est'.first_time = accepted'[1]
  <2>1. CASE accepted = <<>>
    BY <1>3, <2>1 DEF HistoryInv, Push, FirstEvent
  <2>2. CASE accepted # <<>>
    <3>1. /\ est.first_time \in Nat /\ est.last_time \in Nat
          /\ est.last_time <= ts
      BY <2>2 DEF HistoryInv, Coherent, OutOfOrder, Estimator, OptTime
    <3>2. accepted[1] \in Nat /\ accepted[1] >= est.last_time - Window
      BY <1>3, <1>6, <2>2, <3>1
    <3>3. est.estimated_count = Len(accepted) /\ est.first_time = accepted[1]
      BY <2>2, <3>2 DEF HistoryInv
    <3>4. est' = WithinWindow(est, ts)
      BY <1>3, <1>6, <2>2, <3>1, <3>2, <3>3 DEF Push, HistoryInv
    <3> QED
      BY <1>3, <2>2, <3>3, <3>4 DEF WithinWindow, Estimator
  <2> QED
    BY <2>1, <2>2
<1>7. HistoryInv'
  BY <1>2, <1>3, <1>4, <1>5, <1>6 DEF HistoryInv
<1> QED
  BY <1>1, <1>7

LEMMA InductiveStep == IInv /\ [Next]_vars => IInv'
<1> SUFFICES ASSUME IInv, [Next]_vars PROVE IInv'
  OBVIOUS
<1>1. CASE UNCHANGED vars
  BY <1>1 DEF vars, IInv, TypeOK, HistoryInv, Coherent
<1>2. CASE PushEvent
  <2>1. PICK ts \in 0..MaxTime :
          /\ est' = Push(est, Window, ts)
          /\ accepted' = IF OutOfOrder(est, ts) THEN accepted
                                                ELSE Append(accepted, ts)
    BY <1>2 DEF PushEvent
  <2>2. ts \in Time
    BY EstimatorAssumption DEF Time
  <2>3. CASE OutOfOrder(est, ts)
    BY <2>1, <2>3 DEF Push, IInv, TypeOK, HistoryInv, Coherent
  <2>4. CASE ~OutOfOrder(est, ts)
    BY <2>1, <2>2, <2>4, AcceptedStep
  <2> QED
    BY <2>3, <2>4
<1>3. CASE Reset
  <2>1. est' = NewEstimator /\ accepted' = <<>>
    BY <1>3 DEF Reset
  <2> QED
    BY <2>1, EstimatorAssumption, NewEstimatorType, NewEstimatorCoherent
       DEF IInv, TypeOK, HistoryInv, NewEstimator, NoTime
<1> QED
  BY <1>1, <1>2, <1>3 DEF Next

(* IInv is an invariant. *)
THEOREM InductiveInvariant == Spec => []IInv
  BY EmptyInductive, InductiveStep, PTL DEF Spec, Init

(* Types hold, whatever the window. *)
THEOREM TypeCorrect == Spec => []TypeOK
  BY InductiveInvariant, PTL DEF IInv

(* The estimate never exceeds the number of events accepted (counter.rs,   *)
(* push), for every window and every number of events.                     *)
THEOREM NeverOverCountsEvents == Spec => []NeverOverCounts
<1>1. IInv => NeverOverCounts
  BY DEF IInv, HistoryInv, NeverOverCounts
<1> QED
  BY <1>1, InductiveInvariant, PTL

(* first_time and last_time stay within one window of each other.          *)
THEOREM SpanBounded == Spec => []SpanWithinWindow
<1>1. IInv => SpanWithinWindow
  BY DEF IInv, Coherent, SpanWithinWindow
<1> QED
  BY <1>1, InductiveInvariant, PTL

(* A burst that fits in one window is counted exactly.                     *)
THEOREM ExactBurst == Spec => []ExactWithinFirstWindow
<1>1. ASSUME IInv, Recent = DOMAIN accepted
      PROVE  est.estimated_count = Len(accepted)
  <2>1. CASE accepted = <<>>
    BY <1>1, <2>1 DEF IInv, HistoryInv, Coherent
  <2>2. CASE accepted # <<>>
    <3>1. 1 \in DOMAIN accepted
      BY <1>1, <2>2 DEF IInv, TypeOK
    <3>2. accepted[1] >= est.last_time - Window
      BY <1>1, <3>1 DEF Recent
    <3> QED
      BY <1>1, <2>2, <3>2 DEF IInv, HistoryInv
  <2> QED
    BY <2>1, <2>2
<1> QED
  BY <1>1, InductiveInvariant, PTL DEF ExactWithinFirstWindow

(* An accepted event moves the window forwards and counts itself.          *)
THEOREM AcceptMoves == Spec => AcceptMovesForward
<1>1. ASSUME IInv, [Next]_vars, Len(accepted') > Len(accepted)
      PROVE  /\ est'.last_time >= est.last_time
             /\ est'.first_time >= est.first_time
             /\ est'.estimated_count >= 1
  <2>1. PushEvent
    BY <1>1 DEF Next, Reset, vars, IInv, TypeOK
  <2>2. PICK ts \in 0..MaxTime :
          /\ est' = Push(est, Window, ts)
          /\ accepted' = IF OutOfOrder(est, ts) THEN accepted
                                                ELSE Append(accepted, ts)
    BY <2>1 DEF PushEvent
  <2>3. ~OutOfOrder(est, ts)
    BY <1>1, <2>2 DEF IInv, TypeOK
  <2>4. ts \in Time /\ est \in Estimator /\ Window \in Nat
    BY <1>1, EstimatorAssumption DEF IInv, TypeOK, Time
  <2>5. Coherent(est, Window)
    BY <1>1 DEF IInv
  <2> QED
    BY <2>2, <2>3, <2>4, <2>5, PushForward
<1> QED
  BY <1>1, InductiveInvariant, PTL DEF Spec, AcceptMovesForward
=============================================================================
