------------------------------- MODULE MCEngine -------------------------------
(***************************************************************************)
(* Instances of Engine for model checking: the values of its constants.    *)
(***************************************************************************)
EXTENDS Engine, TLC

CONSTANTS s1, s2, r1, r2, a1, a2, ip1, ip2

(* Two sources with a rule each, as two services watched for one address. *)
OneRuleEach == s1 :> <<r1>> @@ s2 :> <<r2>>

(* One source whose entries are matched against two rules in order. *)
TwoRules == s1 :> <<r1, r2>>

OneRule == s1 :> <<r1>>

(* Both rules ban through the same backend, or each through its own. *)
SharedAction == r1 :> a1 @@ r2 :> a1
OwnAction == r1 :> a1 @@ r2 :> a2

Ones == r1 :> 1 @@ r2 :> 1
Twos == r1 :> 2 @@ r2 :> 2
TwoOne == r1 :> 2 @@ r2 :> 1
Only1 == r1 :> 1
Only2 == r1 :> 2
OnlyA1 == r1 :> a1
=============================================================================
