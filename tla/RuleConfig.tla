------------------------------ MODULE RuleConfig ------------------------------
(***************************************************************************)
(* What the engine knows of a validated configuration: the rules with      *)
(* their durations and thresholds (config/mod.rs, RuleConfig), the action  *)
(* each rule bans with, which actions have an unban command, the sources   *)
(* with their lists of rules and the whitelisted addresses.                *)
(*                                                                         *)
(* Names, addresses and commands are model values.  Durations are ticks of *)
(* the clock; a second is TicksPerSecond ticks.                            *)
(***************************************************************************)
EXTENDS Naturals, Sequences

CONSTANTS
  Sources,         \* log sources, one task each
  Rules,           \* names of rules
  Actions,         \* names of actions
  IPs,             \* addresses that log lines may contain
  NoIP,            \* not an address: a task that has no hit in hand
  Whitelist,       \* the addresses covered by config.whitelists
  RulesOf,         \* [Sources -> Seq(Rules)], in the order of the config
  Window,          \* [Rules -> Nat]
  MaxAttempts,     \* [Rules -> Nat]; 0 is accepted by the validation
  BanDuration,     \* [Rules -> Nat]
  BanAction,       \* [Rules -> Actions]
  Unbannable,      \* the actions with a non-empty unban command
  TicksPerSecond   \* resolution of log timestamps against stored seconds

ASSUME RuleConfigAssumption ==
  /\ NoIP \notin IPs
  /\ Whitelist \subseteq IPs
  /\ RulesOf \in [Sources -> Seq(Rules)]
  /\ \A s \in Sources : RulesOf[s] # <<>>
  /\ Window \in [Rules -> Nat]
  /\ MaxAttempts \in [Rules -> Nat]
  /\ BanDuration \in [Rules -> Nat]
  /\ BanAction \in [Rules -> Actions]
  /\ Unbannable \subseteq Actions
  /\ TicksPerSecond \in Nat \ {0}

(* OffsetDateTime::unix_timestamp: whole seconds, rounded down. *)
UnixTimestamp(t) == t \div TicksPerSecond
=============================================================================
