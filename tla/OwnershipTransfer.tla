-------------------------- MODULE OwnershipTransfer --------------------------
(***************************************************************************)
(* What the server promises about who simulates which NPC (architecture,   *)
(* section 8.5): at most one player at a time, always one that is in the   *)
(* game; an NPC passes to another player only after its owner let go of    *)
(* it; a player who leaves lets go of everything at once; and an NPC that  *)
(* was removed is never simulated again.                                   *)
(***************************************************************************)
CONSTANTS
  Npcs,      \* the NPCs
  Pids,      \* the players
  Nobody     \* no player

VARIABLES
  players,   \* the players in the game
  owner,     \* who simulates each NPC, or Nobody
  gone       \* NPCs removed for good

vars == <<players, owner, gone>>

Init ==
  /\ players = {}
  /\ owner = [n \in Npcs |-> Nobody]
  /\ gone = {}

Join(p) ==
  /\ p \notin players
  /\ players' = players \cup {p}
  /\ UNCHANGED <<owner, gone>>

Leave(p) ==
  /\ p \in players
  /\ players' = players \ {p}
  /\ owner' = [n \in Npcs |-> IF owner[n] = p THEN Nobody ELSE owner[n]]
  /\ UNCHANGED gone

Grant(p, n) ==
  /\ p \in players
  /\ n \notin gone
  /\ owner[n] = Nobody
  /\ owner' = [owner EXCEPT ![n] = p]
  /\ UNCHANGED <<players, gone>>

Remove(n) ==
  /\ n \notin gone
  /\ gone' = gone \cup {n}
  /\ owner' = [owner EXCEPT ![n] = Nobody]
  /\ UNCHANGED players

Next ==
  \/ \E p \in Pids : Join(p) \/ Leave(p)
  \/ \E p \in Pids, n \in Npcs : Grant(p, n)
  \/ \E n \in Npcs : Remove(n)

Spec == Init /\ [][Next]_vars
=============================================================================
