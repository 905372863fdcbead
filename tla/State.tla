-------------------------------- MODULE State --------------------------------
(***************************************************************************)
(* The in-memory hit counters of src/core/state.rs: one rate estimator per *)
(* rule and address.  An absent entry of the nested maps is a NewEstimator *)
(* (register_hit creates the entry and pushes in one step under the lock,  *)
(* so an entry that holds no event is never left behind).                  *)
(***************************************************************************)
EXTENDS RuleConfig, RateEstimator

VARIABLE
  states     \* rule -> address -> estimator

StateInit == states = [r \in Rules |-> [ip \in IPs |-> NewEstimator]]

StateTypeOK == states \in [Rules -> [IPs -> Estimator]]

(* The first half of register_hit: count the hit. *)
Counted(r, ip, ts) == [states EXCEPT ![r][ip] = Push(@, Window[r], ts)]

(* Mutant of BelowThreshold: bans one attempt too early. *)
BelowThresholdEarly(r, ip, ts) ==
  Counted(r, ip, ts)[r][ip].estimated_count + 1 < MaxAttempts[r]

(* The second half: below the threshold register_hit answers None.  The    *)
(* answer depends on the counter only, also when the hit was dropped.      *)
BelowThreshold(r, ip, ts) ==
  Counted(r, ip, ts)[r][ip].estimated_count < MaxAttempts[r]

(* Mutant of Expired: looks at the first event of the window. *)
ExpiredByFirst(e, r, configured, now) ==
  \/ r \notin configured
  \/ e.first_time = NoTime
  \/ now - e.first_time > Window[r]

(* cleanup: an entry goes when its rule is no longer configured or its     *)
(* last event is more than a window before now.                            *)
Expired(e, r, configured, now) ==
  \/ r \notin configured
  \/ e.last_time = NoTime
  \/ now - e.last_time > Window[r]

StateCleanup(configured, now) ==
  states' = [r \in Rules |-> [ip \in IPs |->
               IF Expired(states[r][ip], r, configured, now)
               THEN NewEstimator
               ELSE states[r][ip]]]
=============================================================================
