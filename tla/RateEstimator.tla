---------------------------- MODULE RateEstimator ----------------------------
(***************************************************************************)
(* The constant-memory rate estimator of src/core/counter.rs.              *)
(*                                                                         *)
(* An estimator is a record of three of the fields of the struct (its      *)
(* fourth, the window, is the window of the rule it is kept for and is     *)
(* passed to Push).  Time is counted in ticks since the epoch, durations   *)
(* in ticks.  Option::None is NoTime.                                      *)
(***************************************************************************)
EXTENDS Integers

NoTime == -1

Time == Nat
OptTime == Time \cup {NoTime}

Estimator ==
  [first_time : OptTime, last_time : OptTime, estimated_count : Nat]

(* What RateEstimator::new returns, and also what reset() leaves. *)
NewEstimator ==
  [first_time |-> NoTime, last_time |-> NoTime, estimated_count |-> 0]

(* f64::round of the non-negative rational n/d: nearest, halves up. *)
RoundDiv(n, d) == (2 * n + d) \div (2 * d)

(* Mutant of OutOfOrder: nothing is ever dropped. *)
AcceptsAll(e, ts) == FALSE

(* Push drops an event older than the last one it accepted. *)
OutOfOrder(e, ts) == e.last_time # NoTime /\ ts < e.last_time

(* The estimate carried over when an event falls outside the window. *)
Decayed(count, window, elapsed) == RoundDiv(count * window, elapsed)

FirstEvent(ts) ==
  [first_time |-> ts, last_time |-> ts, estimated_count |-> 1]

(* Mutants of OutsideWindow: first_time anchored two windows back, the     *)
(* first event kept, the current event counted twice.                      *)
AnchoredTwice(e, window, ts) ==
  [first_time |-> ts - 2 * window, last_time |-> ts, estimated_count |->
     Decayed(e.estimated_count, window, ts - e.first_time) + 1]

KeepsFirst(e, window, ts) ==
  [e EXCEPT !.last_time = ts, !.estimated_count =
     Decayed(@, window, ts - e.first_time) + 1]

CountsTwice(e, window, ts) ==
  [first_time |-> ts - window, last_time |-> ts, estimated_count |->
     Decayed(e.estimated_count, window, ts - e.first_time) + 2]

OutsideWindow(e, window, ts) ==
  [first_time      |-> ts - window,
   last_time       |-> ts,
   estimated_count |->
      Decayed(e.estimated_count, window, ts - e.first_time) + 1]

WithinWindow(e, ts) ==
  [e EXCEPT !.last_time = ts, !.estimated_count = @ + 1]

(* Mutant of Push: drops an event of the same time as the last one.        *)
PushDropsEqual(e, window, ts) ==
  IF e.last_time # NoTime /\ ts <= e.last_time THEN e
  ELSE IF e.first_time = NoTime THEN FirstEvent(ts)
  ELSE IF window < ts - e.first_time THEN OutsideWindow(e, window, ts)
  ELSE WithinWindow(e, ts)

Push(e, window, ts) ==
  IF OutOfOrder(e, ts) THEN e
  ELSE IF e.first_time = NoTime THEN FirstEvent(ts)
  ELSE IF window < ts - e.first_time THEN OutsideWindow(e, window, ts)
  ELSE WithinWindow(e, ts)
=============================================================================
