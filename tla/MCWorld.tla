------------------------------ MODULE MCWorld ------------------------------
(***************************************************************************)
(* The content of the world, what is made of it in the play and the game   *)
(* modes, for TLC.  A behaviour is one of these, chosen at the start       *)
(* (part); the others stay as they were.                                   *)
(*                                                                         *)
(*   "import"  a base game and DLCs, each with a few shapes of its groups  *)
(*   "relay"   two players, an NPC and an item, and what their clients and *)
(*             the scripts change of them: in a behaviour, of those in     *)
(*             focus, which is both players, one, the NPC or the item      *)
(*   "modes"   the two game modes, with two stages of two kills and of one *)
(*   "names"   two connections, with as many ids as names, so that ids do  *)
(*             not start over; a name is sent again after its first time,  *)
(*             and ids above and below a missing one get used              *)
(***************************************************************************)
EXTENDS EsmImport, StringCache, GameModes, WorldRelay

CONSTANTS npc, c1, c2, x, y

VARIABLES part, focus

Quests(m, tag) ==
  Group("top", NoForm, <<
    Record("QUST", <<m, 1>>, <<0, 20>>, "no"), Record("NPC_", <<m, 2>>, <<m, 1>>, "no")>>)

\* A DLC changes a form of the base game too.
Worlds(m, tag, zip) ==
  Group("top", NoForm, <<
    Record("WRLD", <<m, 3>>, tag, "no"),
    Group("world", <<m, 3>>, <<
      Record("CELL", <<m, 4>>, [at |-> "1,1", name |-> ""], zip),
      Group("cell", <<m, 4>>, <<
        Group("persistent", <<m, 4>>, <<Record("REFR", <<m, 5>>, <<0, 2>>, "no")>>)>>),
      Record("CELL", <<m, 6>>, [at |-> "1,2", name |-> ""], "no"),
      Group("cell", <<m, 6>>, <<
        Group("temporary", <<m, 6>>, <<Record("REFR", <<0, 5>>, <<m, 2>>, zip)>>)>>)>>)>>)

Interiors(m, tag) ==
  Group("top", NoForm, <<
    Record("CELL", <<m, 7>>, [at |-> "inside", name |-> tag], "ok"),
    Group("cell", <<m, 7>>, <<
      Group("temporary", <<m, 7>>, <<Record("REFR", <<m, 8>>, <<m, 2>>, "no")>>)>>),
    Record("CELL", <<m, 9>>, [at |-> "inside", name |-> ""], "no")>>)

Dlc(name, zip) == [dlc |-> TRUE, groups |-> <<Worlds(1, name, zip), Interiors(1, name)>>]

MCPlugins == <<
  [dlc |-> FALSE, groups |-> <<Quests(0, "base"), Worlds(0, "base", "no")>>],
  Dlc("dlcA", "ok"), Dlc("dlcB", "corrupt"),
  Dlc("dlcB", "short"),
  [dlc |-> TRUE, groups |-> <<Interiors(1, "dlcB"), Quests(1, "dlcB"), Worlds(1, "dlcB", "no")>>]>>

\* A step the speed check lets pass and a stride of a tenth of a second; a
\* door out of the range of any weapon.
MCPlaces == {4, 300}
MCDoors == {7000}
MCSamples == {50}
MCCounts == {2, 65536}

\* Hurts who has reported a health, the first time, and kills the second time
\* or who has reported none.
MCHits == {[base |-> 10, limb |-> 1, critical |-> TRUE]}

\* An argument that is no hour, and one that is cut after four characters.
MCArguments == {<<2, 4>>, <<0, 0, 0, 1, 9>>}
MCTargets == <<2, 1>>

ASSUME EsmImportAssumption /\ StringCacheAssumption

allVars == <<cacheVars, relayVars, modesVars, importVars, part, focus>>

MCInit ==
  /\ part \in {"import", "relay", "modes", "names"}
  /\ focus \in IF part = "relay" THEN {Clients, {c2}, {npc}, {Item}} ELSE {{}}
  /\ CacheInit /\ RelayInit /\ ModesInit /\ ImportInit
  /\ pvp => focus \in {{c2}, {npc}}
  /\ entities[npc] # Absent => focus = {npc}
  /\ part # "modes" => ~ serverPvp

\* The steps of the relay that concern the entities in focus.
FocusNext ==
  \/ \E e \in focus : Script(e) \/ \E p \in Clients : Report(p, e)
  \/ \E p \in Clients : Read(p)

MCNext ==
  /\ \/ part = "import" /\ ImportNext /\ UNCHANGED <<cacheVars, relayVars, modesVars>>
     \/ part = "relay" /\ FocusNext /\ UNCHANGED <<cacheVars, modesVars, importVars>>
     \/ part = "modes" /\ ModesNext /\ UNCHANGED <<cacheVars, relayVars, importVars>>
     \/ part = "names" /\ CacheNext /\ UNCHANGED <<relayVars, modesVars, importVars>>
  /\ UNCHANGED <<part, focus>>

MCSpec == MCInit /\ [][MCNext]_allVars

-----------------------------------------------------------------------------
(* The properties of several components at once.                           *)

\* The type invariants.
TypesOK == ImportTypeOK /\ RelayTypeOK /\ ModesTypeOK /\ CacheTypeOK

\* The database is what the complete plugins say, no row of one DLC has taken
\* the place of another's, and a server started on it knows the quests, each
\* unstarted.
ContentIsPlugins ==
  DbIsPlugins /\ DlcsStayApart /\ QuestsStartUnstarted
=============================================================================
