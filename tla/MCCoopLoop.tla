----------------------------- MODULE MCCoopLoop -----------------------------
(***************************************************************************)
(* The coop loop for TLC.  MaxReports and MaxPlayers are more than the     *)
(* addresses can use up, so that they never hold the server back.          *)
(***************************************************************************)
EXTENDS CoopLoop

CONSTANTS n1, n2

MCRefs == 1 .. 2
MCEntityId == <<n1, n2>>
MCNpcs == {n1, n2}
=============================================================================
