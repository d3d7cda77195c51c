------------------------------- MODULE MCGame -------------------------------
(***************************************************************************)
(* The coop loop, and the two ways the bridge reaches into the game, for   *)
(* TLC.  A behaviour is one of these, chosen at the start (part); the      *)
(* others stay as they were.                                               *)
(*                                                                         *)
(*   "coop"    two clients, NPCs that come and go, and kicks, of one       *)
(*             client only: without clients there is nothing to simulate   *)
(*   "engine"  two references, two points whose words all differ and two   *)
(*             bit patterns of a scale, in the GOG build of Fallout 3,     *)
(*             while the engine interferes once                            *)
(*   "busy"    the same with one reference, in the Steam build, and the    *)
(*             engine interfering twice                                    *)
(*   "hooks"   the installation of the hooks, by DllMain and by a loader   *)
(*                                                                         *)
(* MaxReports and MaxPlayers are more than the addresses can use up, so    *)
(* that they never hold the server back.                                   *)
(***************************************************************************)
EXTENDS CoopLoop, EngineAccess, HookInstall

CONSTANTS n1, n2, self, npc

MCRefs == 1 .. 2
MCEntityId == <<n1, n2>>
MCNpcs == {n1, n2}

MCPoints == {<<1, 2, 3>>, <<5, 6, 7>>}

\* Clients are interchangeable.
ClientSymmetry == Permutations(Addrs)

VARIABLE part

Busy == INSTANCE EngineAccess WITH
  Builds <- {"steam"}, Ids <- {npc}, MaxEngine <- 2

ASSUME EngineAssumption /\ Busy!EngineAssumption /\ HookAssumption

allVars == <<coopVars, engineVars, hookVars, part>>

MCInit ==
  /\ part \in {"coop", "engine", "busy", "hooks"}
  /\ CoopInit /\ HookInit
  /\ IF part = "busy" THEN Busy!EngineInit ELSE EngineInit
  /\ part \notin {"engine", "busy"} => build = "gog" /\ loaded = {}
  /\ part # "hooks" => image = {}

\* Not everybody is kicked.
SomebodyStays == \E a \in Addrs : state[a] = "new" \/ a \in Connected

MCNext ==
  \/ part = "coop" /\ CoopNext /\ SomebodyStays' /\ UNCHANGED <<engineVars, hookVars, part>>
  \/ part = "engine" /\ EngineNext /\ UNCHANGED <<coopVars, hookVars, part>>
  \/ part = "busy" /\ Busy!EngineNext /\ UNCHANGED <<coopVars, hookVars, part>>
  \/ part = "hooks" /\ HookNext /\ UNCHANGED <<coopVars, engineVars, part>>

MCSpec == MCInit /\ [][MCNext]_allVars
=============================================================================
