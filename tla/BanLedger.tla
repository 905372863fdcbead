------------------------------- MODULE BanLedger -------------------------------
(***************************************************************************)
(* What the engine promises of the blocks on the backend and of the table, *)
(* whatever its tasks are doing: it bans what its rules may ban and no     *)
(* longer than they say, records only what it has banned, lifts a block    *)
(* only for a row that has come due, and closes a row only when its block  *)
(* has been lifted for it or needs no lifting.                             *)
(***************************************************************************)
EXTENDS Store

VARIABLES
  now,       \* wall clock
  rules,     \* the rules of the running configuration
  blocked,   \* the pairs <<action, address>> banned on the backend
  owed,      \* bans that have no row yet
  lifted     \* rows that need no further unban and are not closed yet

ledgerVars == <<now, rules, blocked, bans, owed, lifted>>

Init ==
  /\ now = 0
  /\ rules = Rules
  /\ blocked = {}
  /\ owed = {}
  /\ lifted = {}
  /\ StoreInit

Pass ==
  /\ now' > now
  /\ UNCHANGED <<rules, blocked, bans, owed, lifted>>

-----------------------------------------------------------------------------
(* A rule that is configured bans an address that is not whitelisted, for  *)
(* its duration from a moment in the past: until end.                      *)

Ban(s, r, ip, end) ==
  /\ blocked' = blocked \cup {<<BanAction[r], ip>>}
  /\ owed' = owed \cup {[source |-> s, rule |-> r, ip |-> ip, end |-> end]}
  /\ UNCHANGED <<now, rules, bans, lifted>>

(* The script has failed, and may have banned the address all the same.    *)
AbortedBan(r, ip) ==
  /\ blocked' = blocked \cup {<<BanAction[r], ip>>}
  /\ UNCHANGED <<now, rules, bans, owed, lifted>>

Record(o) ==
  /\ InsertActiveBan(o.ip, o.rule, o.end)
  /\ owed' = owed \ {o}
  /\ UNCHANGED <<now, rules, blocked, lifted>>

Lose(o) ==
  /\ owed' = owed \ {o}
  /\ UNCHANGED <<now, rules, blocked, bans, lifted>>

-----------------------------------------------------------------------------
(* A row that is active and has come due is lifted, then closed.           *)

Due(id) == bans[id].is_active /\ bans[id].expire_at <= UnixTimestamp(now)

Liftable(id) == bans[id].rule \in rules /\ BanAction[bans[id].rule] \in Unbannable

LiftedBlocks(id) == blocked \ {<<BanAction[bans[id].rule], bans[id].ip>>}

Lift(id) ==
  /\ Due(id)
  /\ IF Liftable(id) THEN blocked' = LiftedBlocks(id) ELSE UNCHANGED blocked
  /\ lifted' = lifted \cup {id}
  /\ UNCHANGED <<now, rules, bans, owed>>

(* The script has failed, and may have lifted the block all the same.      *)
AbortedLift(id) ==
  /\ Due(id) /\ Liftable(id)
  /\ blocked' = LiftedBlocks(id)
  /\ UNCHANGED <<now, rules, bans, owed, lifted>>

Close(ts) ==
  /\ \A id \in lifted : bans[id].is_active /\ bans[id].expire_at <= ts
  /\ MarkBansInactive(ts, lifted)
  /\ lifted' = {}
  /\ UNCHANGED <<now, rules, blocked, owed>>

(* The update has failed: the rows stay active and are lifted once more.   *)
Reopen ==
  /\ lifted' = {}
  /\ UNCHANGED <<now, rules, blocked, bans, owed>>

-----------------------------------------------------------------------------
(* The process dies and is started again, with other rules perhaps.        *)
Crash ==
  /\ rules' \subseteq Rules
  /\ owed' = {}
  /\ lifted' = {}
  /\ UNCHANGED <<now, blocked, bans>>

Next ==
  \/ Pass
  \/ \E r \in rules, ip \in IPs \ Whitelist :
       \/ AbortedBan(r, ip)
       \/ \E s \in Sources, end \in 0..(now + BanDuration[r]) : Ban(s, r, ip, end)
  \/ \E o \in owed : Record(o) \/ Lose(o)
  \/ \E id \in DOMAIN bans : Lift(id) \/ AbortedLift(id)
  \/ \E ts \in 0..UnixTimestamp(now) : Close(ts)
  \/ Reopen
  \/ Crash

Spec == Init /\ [][Next]_ledgerVars
=============================================================================
