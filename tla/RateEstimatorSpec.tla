-------------------------- MODULE RateEstimatorSpec --------------------------
(***************************************************************************)
(* One estimator driven by any sequence of pushes and resets, next to the  *)
(* exact history of the events it accepted.  The history is what a precise *)
(* sliding window would keep; the properties compare the estimate with it. *)
(***************************************************************************)
EXTENDS RateEstimator, Sequences, FiniteSets

CONSTANTS
  Window,     \* duration of the window, in ticks
  MaxTime,    \* bound: events carry a timestamp in 0..MaxTime
  MaxEvents   \* bound: number of events accepted between two resets

ASSUME EstimatorAssumption ==
  /\ Window \in Nat
  /\ MaxTime \in Nat
  /\ MaxEvents \in Nat

VARIABLES
  est,        \* the estimator
  accepted    \* history: timestamps accepted since creation or reset

vars == <<est, accepted>>

Init ==
  /\ est = NewEstimator
  /\ accepted = <<>>

PushEvent ==
  /\ Len(accepted) < MaxEvents
  /\ \E ts \in 0..MaxTime :
       /\ est' = Push(est, Window, ts)
       /\ accepted' = IF OutOfOrder(est, ts) THEN accepted
                                             ELSE Append(accepted, ts)

Reset ==
  /\ est' = NewEstimator
  /\ accepted' = <<>>

Next == PushEvent \/ Reset

Spec == Init /\ [][Next]_vars

-----------------------------------------------------------------------------

(* Accepted events no older than the window, seen from the last event. *)
Recent == {i \in DOMAIN accepted : accepted[i] >= est.last_time - Window}

TypeOK ==
  /\ est \in Estimator
  /\ accepted \in Seq(Time)

(* The estimate never exceeds the number of events really accepted: decay  *)
(* only ever forgets, so a threshold is never reached by fewer attempts    *)
(* than the rule asks for (counter.rs, push).                              *)
NeverOverCounts == est.estimated_count <= Len(accepted)

(* The struct documents first_time and last_time as delimiting the window: *)
(* after any push the kept span never exceeds the window, and the two      *)
(* options are Some together, exactly when something was counted.          *)
SpanWithinWindow ==
  /\ (est.first_time = NoTime) <=> (est.last_time = NoTime)
  /\ (est.first_time = NoTime) <=> (est.estimated_count = 0)
  /\ est.first_time # NoTime =>
       /\ est.first_time <= est.last_time
       /\ est.last_time - est.first_time <= Window

(* As long as all the accepted events fit in one window nothing has been   *)
(* decayed, and the estimate is the exact count: a burst from a new        *)
(* address is counted without error.                                       *)
ExactWithinFirstWindow ==
  Recent = DOMAIN accepted => est.estimated_count = Len(accepted)

(* An accepted event never moves the window backwards and always counts    *)
(* itself: whatever was forgotten, the estimate after it is at least 1.    *)
AcceptMovesForward ==
  [][Len(accepted') > Len(accepted) =>
       /\ est'.last_time >= est.last_time
       /\ est'.first_time >= est.first_time
       /\ est'.estimated_count >= 1]_vars
=============================================================================
