----------------------------- MODULE MCJournalHub -----------------------------
(***************************************************************************)
(* Instances of JournalHub for model checking.                             *)
(***************************************************************************)
EXTENDS JournalHub

CONSTANTS ssh, web

(* Two sources of different units; the same with one unit twice.           *)
Distinct == <<ssh, web>>
Repeated == <<ssh, web, ssh>>
=============================================================================
