------------------------------- MODULE UnitFeed -------------------------------
(***************************************************************************)
(* What the sources of journal units are promised: entries of their own    *)
(* unit, in the order of the journal, each to one source and once.  An     *)
(* entry may be lost.                                                      *)
(***************************************************************************)
EXTENDS Naturals, Sequences

CONSTANTS
  Units,    \* the units that log to the journal
  UnitOf    \* the unit of each source, in the order of the configuration

VARIABLES
  journal,   \* the units of the entries logged so far
  got        \* source -> the entries it has received, in order

feedVars == <<journal, got>>

Sources == DOMAIN UnitOf

Init ==
  /\ journal = <<>>
  /\ got = [i \in Sources |-> <<>>]

Log ==
  /\ \E unit \in Units : journal' = Append(journal, unit)
  /\ UNCHANGED got

Receive(i, entry) ==
  /\ journal[entry] = UnitOf[i]
  /\ \A n \in DOMAIN got[i] : got[i][n] < entry
  /\ \A j \in Sources : \A n \in DOMAIN got[j] : got[j][n] # entry
  /\ got' = [got EXCEPT ![i] = Append(@, entry)]
  /\ UNCHANGED journal

Next ==
  \/ Log
  \/ \E i \in Sources, entry \in DOMAIN journal : Receive(i, entry)

Spec == Init /\ [][Next]_feedVars
=============================================================================
