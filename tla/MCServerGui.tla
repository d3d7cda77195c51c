---------------------------- MODULE MCServerGui ----------------------------
(***************************************************************************)
(* The interface the scripts draw, for TLC.  A behaviour is one of these,  *)
(* chosen at the start (part):                                             *)
(*                                                                         *)
(*   "screen"  any widgets on the screen of one player, who only looks     *)
(*   "clicks"  two players and a window with a button, which comes first   *)
(*             and which a script may hide, show or remove                 *)
(***************************************************************************)
EXTENDS ServerGui

CONSTANT watcher

VARIABLE part

allVars == <<vars, part>>

MCInit == Init /\ part \in {"screen", "clicks"}

MCNext ==
  /\ UNCHANGED part
  /\ Next
  /\ part = "screen" => inGame' \subseteq {watcher} /\ made' = made
  /\ part = "clicks" => lastId' <= 2 /\ (lastId' = 2 => wanted'[2].kind \in {"Button", "absent"})

MCSpec == MCInit /\ [][MCNext]_allVars
=============================================================================
