------------------------------- MODULE LogTail -------------------------------
(***************************************************************************)
(* What a file source promises about the log it follows: it may skip what  *)
(* is written while it is not attached, but what it delivers comes in the  *)
(* order of the log and only once, as long as it has not been misled by a  *)
(* file that took the place of the one it reads.                           *)
(***************************************************************************)
EXTENDS Naturals

VARIABLES
  written,   \* the pieces of lines written so far are 1..written
  seen,      \* those that have been delivered
  again,     \* those that have been delivered more than once
  misled     \* the reader took another file for the one it reads

tailVars == <<written, seen, again, misled>>

Init ==
  /\ written = 0
  /\ seen = {}
  /\ again = {}
  /\ misled = FALSE

Write ==
  /\ written' > written
  /\ UNCHANGED <<seen, again, misled>>

Deliver ==
  /\ seen \subseteq seen'
  /\ seen' \subseteq 1..written
  /\ \A new \in seen' \ seen, old \in seen : old < new
  /\ UNCHANGED <<written, again, misled>>

Mislead ==
  /\ misled' = TRUE
  /\ UNCHANGED <<written, seen, again>>

Redeliver ==
  /\ misled
  /\ again \subseteq again'
  /\ seen \subseteq seen'
  /\ seen' \cup again' \subseteq 1..written
  /\ UNCHANGED <<written, misled>>

Next == Write \/ Deliver \/ Mislead \/ Redeliver

Spec == Init /\ [][Next]_tailVars
=============================================================================
