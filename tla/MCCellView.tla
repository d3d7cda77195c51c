----------------------------- MODULE MCCellView -----------------------------
(***************************************************************************)
(* CellView with one thing and three cells: cell 0, an interior whose      *)
(* unused neighbours are 0, and a third cell next to the interior's        *)
(* number.  What happens to one thing or player never touches what is      *)
(* listed and known of another, so a behaviour follows one of them, picked *)
(* at the start: the thing is made only if it is that one, and the other   *)
(* players are themselves and move without entering themselves in the      *)
(* lists of cells.                                                         *)
(***************************************************************************)
EXTENDS CellView, TLC

CONSTANTS zero, inn, out

MCNeighbours == (zero :> {zero}) @@ (inn :> {zero, inn}) @@ (out :> {inn, out})

ASSUME CellViewAssumption

VARIABLE focus

\* Nobody has made, listed, granted or removed x; players come and go.
Untouched(x) ==
  /\ x \in Things => cellOf[x] = None /\ x \notin deleted
  /\ x \in Players => kind[x] = "player" /\ (x \in sessions <=> cellOf[x] # None)
  /\ owner[x] = Nobody
  /\ \A r \in refs : r[2] # x

MCInit == Init /\ focus \in Ids
MCNext == Next /\ focus' = focus /\ \A x \in Ids \ {focus} : Untouched(x)'

Symmetry == Permutations(Players)

MCSpec == MCInit /\ [][MCNext]_<<vars, focus>>

\* Play: every thing is an NPC, was announced when it was made, and only
\* NPCs are claimed.
PlayNext ==
  /\ MCNext /\ ClientNext
  /\ \A x \in Things : cellOf'[x] # None => kind'[x] = "actor"
  /\ \A p \in Players : Untouched(p)'
PlaySpec == MCInit /\ [][PlayNext]_<<vars, focus>>
=============================================================================
