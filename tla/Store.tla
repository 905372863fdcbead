-------------------------------- MODULE Store --------------------------------
(***************************************************************************)
(* The bans table of src/core/store.rs.  A row's id is its position: ids   *)
(* are assigned by AUTOINCREMENT and no row is ever deleted.  The columns  *)
(* banned_at (never read) and id are left out.  Each query is one          *)
(* statement on a pool of a single connection, hence atomic.               *)
(***************************************************************************)
EXTENDS RuleConfig, Integers, FiniteSets

Null == -1    \* SQL NULL

VARIABLE
  bans        \* sequence of rows

Row == [ip : IPs, rule : Rules, expire_at : Nat, is_active : BOOLEAN,
        unbanned_at : Nat \cup {Null}]

StoreInit == bans = <<>>

StoreTypeOK == bans \in Seq(Row)

(* BanEntity::new: a fresh active row for a ban that lasts until end. *)
ActiveBan(ip, r, end) ==
  [ip |-> ip, rule |-> r, expire_at |-> UnixTimestamp(end),
   is_active |-> TRUE, unbanned_at |-> Null]

InsertActiveBan(ip, r, end) == bans' = Append(bans, ActiveBan(ip, r, end))

ActiveIds == {i \in DOMAIN bans : bans[i].is_active}

(* Mutant of ExpiredIds: inactive rows are fetched again. *)
ExpiredIdsAnyState(ts) == {i \in DOMAIN bans : bans[i].expire_at <= ts}

ExpiredIds(ts) == {i \in ActiveIds : bans[i].expire_at <= ts}

(* fetch_expired_bans: LIMIT without ORDER BY, so any batch of that size. *)
IsExpiredBatch(batch, ts, limit) ==
  /\ batch \subseteq ExpiredIds(ts)
  /\ Cardinality(batch) <= limit
  /\ Cardinality(batch) < limit => batch = ExpiredIds(ts)

(* Mutant of MarkBansInactive: the update has lost its WHERE clause. *)
MarkAllInactive(ts, ids) ==
  bans' = [i \in DOMAIN bans |->
             [bans[i] EXCEPT !.is_active = FALSE, !.unbanned_at = ts]]

MarkBansInactive(ts, ids) ==
  bans' = [i \in DOMAIN bans |->
             IF i \in ids
             THEN [bans[i] EXCEPT !.is_active = FALSE, !.unbanned_at = ts]
             ELSE bans[i]]
=============================================================================
