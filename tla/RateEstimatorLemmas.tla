-------------------------- MODULE RateEstimatorLemmas --------------------------
(***************************************************************************)
(* What Push of RateEstimator preserves, for every window and time.        *)
(***************************************************************************)
EXTENDS RateEstimator, TLAPS

(* Rounding to the nearest never exceeds an integer bound on the quotient. *)
LEMMA RoundDivBound ==
  ASSUME NEW n \in Nat, NEW d \in Nat \ {0}, NEW c \in Nat, n <= c * d
  PROVE  RoundDiv(n, d) \in 0..c
<1> DEFINE q == (2 * n + d) \div (2 * d)
<1>1. q \in Nat /\ q * (2 * d) <= 2 * n + d
  OBVIOUS
<1>2. 2 * n + d < (c + 1) * (2 * d)
  <2>1. (c + 1) * (2 * d) = 2 * (c * d) + 2 * d
    OBVIOUS
  <2> QED
    BY <2>1
<1>3. q < c + 1
  <2>1. SUFFICES ASSUME q >= c + 1 PROVE FALSE
    BY <1>1
  <2>2. q * (2 * d) >= (c + 1) * (2 * d)
    BY <1>1, <2>1
  <2> QED
    BY <1>1, <1>2, <2>2
<1> QED
  BY <1>1, <1>3 DEF RoundDiv

(* Decay only forgets. *)
LEMMA DecayedBound ==
  ASSUME NEW count \in Nat, NEW window \in Nat, NEW elapsed \in Nat,
         window < elapsed
  PROVE  Decayed(count, window, elapsed) \in 0..count
<1>1. count * window <= count * elapsed
  OBVIOUS
<1>2. count * window \in Nat /\ elapsed \in Nat \ {0}
  OBVIOUS
<1> QED
  BY <1>1, <1>2, RoundDivBound DEF Decayed

(* The types of an estimator's fields, and of None. *)
LEMMA NewEstimatorType == NewEstimator \in Estimator
  BY DEF NewEstimator, Estimator, OptTime, Time, NoTime

(* What the estimators met in a run satisfy: None in both fields or in     *)
(* none, and a span within the window.                                     *)
Coherent(e, window) ==
  /\ e.first_time = NoTime <=> e.last_time = NoTime
  /\ e.first_time = NoTime <=> e.estimated_count = 0
  /\ e.first_time # NoTime =>
       /\ e.first_time <= e.last_time
       /\ e.last_time - e.first_time <= window

LEMMA NewEstimatorCoherent ==
  ASSUME NEW window \in Nat
  PROVE  Coherent(NewEstimator, window)
  BY DEF NewEstimator, Coherent

(* A push keeps the types and counts one more at most. *)
LEMMA PushType ==
  ASSUME NEW e \in Estimator, NEW window \in Nat, NEW ts \in Time
  PROVE  /\ Push(e, window, ts) \in Estimator
         /\ Push(e, window, ts).estimated_count <= e.estimated_count + 1
         /\ OutOfOrder(e, ts) => Push(e, window, ts) = e
<1> DEFINE p == Push(e, window, ts)
<1> USE DEF Estimator, OptTime, Time, NoTime
<1>1. CASE OutOfOrder(e, ts)
  BY <1>1 DEF Push
<1>2. CASE ~OutOfOrder(e, ts) /\ e.first_time = NoTime
  BY <1>2 DEF Push, FirstEvent
<1>3. CASE ~OutOfOrder(e, ts) /\ e.first_time # NoTime
  <2>1. CASE window < ts - e.first_time
    <3> DEFINE d == Decayed(e.estimated_count, window, ts - e.first_time)
    <3>1. d \in 0..e.estimated_count
      BY <1>3, <2>1, DecayedBound
    <3>2. p = [first_time |-> ts - window, last_time |-> ts,
               estimated_count |-> d + 1]
      BY <1>3, <2>1 DEF Push, OutsideWindow
    <3> HIDE DEF p, d
    <3> QED
      BY <1>3, <2>1, <3>1, <3>2 DEF p
  <2>2. CASE ~(window < ts - e.first_time)
    <3>1. p = [first_time |-> e.first_time, last_time |-> ts,
               estimated_count |-> e.estimated_count + 1]
      BY <1>3, <2>2 DEF Push, WithinWindow
    <3> HIDE DEF p
    <3> QED
      BY <1>3, <3>1 DEF p
  <2> QED
    BY <2>1, <2>2
<1> QED
  BY <1>1, <1>2, <1>3

(* An accepted push of a coherent estimator moves its window forwards.     *)
LEMMA PushForward ==
  ASSUME NEW e \in Estimator, NEW window \in Nat, NEW ts \in Time,
         Coherent(e, window)
  PROVE  /\ Coherent(Push(e, window, ts), window)
         /\ ~OutOfOrder(e, ts) =>
              /\ Push(e, window, ts).last_time = ts
              /\ Push(e, window, ts).last_time >= e.last_time
              /\ Push(e, window, ts).first_time >= e.first_time
              /\ Push(e, window, ts).estimated_count >= 1
<1> DEFINE p == Push(e, window, ts)
<1> USE DEF Estimator, OptTime, Time, NoTime, Coherent
<1>1. CASE OutOfOrder(e, ts)
  BY <1>1 DEF Push
<1>2. CASE ~OutOfOrder(e, ts) /\ e.first_time = NoTime
  BY <1>2 DEF Push, FirstEvent
<1>3. CASE ~OutOfOrder(e, ts) /\ e.first_time # NoTime
  <2>1. e.first_time \in Nat /\ e.last_time \in Nat /\ e.last_time <= ts
    BY <1>3 DEF OutOfOrder
  <2>2. CASE window < ts - e.first_time
    <3> DEFINE d == Decayed(e.estimated_count, window, ts - e.first_time)
    <3>1. d \in 0..e.estimated_count
      BY <2>1, <2>2, DecayedBound
    <3>2. p = [first_time |-> ts - window, last_time |-> ts,
               estimated_count |-> d + 1]
      BY <1>3, <2>2 DEF Push, OutsideWindow
    <3> HIDE DEF p, d
    <3> QED
      BY <2>1, <2>2, <3>1, <3>2 DEF p
  <2>3. CASE ~(window < ts - e.first_time)
    <3>1. p = [first_time |-> e.first_time, last_time |-> ts,
               estimated_count |-> e.estimated_count + 1]
      BY <1>3, <2>3 DEF Push, WithinWindow
    <3> HIDE DEF p
    <3> QED
      BY <1>3, <2>1, <2>3, <3>1 DEF p
  <2> QED
    BY <2>2, <2>3
<1> QED
  BY <1>1, <1>2, <1>3

(* A push leaves an estimator that has seen an event. *)
LEMMA PushSeen ==
  ASSUME NEW e \in Estimator, NEW window \in Nat, NEW ts \in Time
  PROVE  Push(e, window, ts).last_time # NoTime
<1> USE DEF Estimator, Time, NoTime
<1>1. CASE OutOfOrder(e, ts)
  BY <1>1 DEF Push, OutOfOrder
<1>2. CASE ~OutOfOrder(e, ts)
  BY <1>2 DEF Push, FirstEvent, OutsideWindow, WithinWindow
<1> QED
  BY <1>1, <1>2
=============================================================================
