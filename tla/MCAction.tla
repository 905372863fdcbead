------------------------------- MODULE MCAction -------------------------------
(***************************************************************************)
(* Instances of Action for model checking.                                 *)
(***************************************************************************)
EXTENDS Action

CONSTANTS c1, c2, c3
=============================================================================
