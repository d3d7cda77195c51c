---------------------------- MODULE ActorRegistry ----------------------------
(***************************************************************************)
(* The server's account of players and NPCs: the session map of            *)
(* DedicatedServer, the ObjectRegistry, and the packet handlers that move  *)
(* ownership around.  The server runs one task, so a handler is one step.  *)
(*                                                                         *)
(* The clients are open here: any address may send, at any time, the       *)
(* packets a client sends.  An NPC is named by its game reference; the     *)
(* entity id every client derives from it is EntityId of it.               *)
(***************************************************************************)
EXTENDS Integers, FiniteSets

CONSTANTS
  Addrs,         \* client addresses
  Refs,          \* game references of NPCs
  Npcs,          \* entity ids of NPCs
  EntityId,      \* the id a client derives from a reference (sync.rs entity_id)
  Nobody,        \* no player, no id: None
  Connections,   \* config.server.connections
  MaxPlayers,    \* bound: player ids the server hands out
  MaxReports,    \* bound: how often an actor is inserted
  CanCull,       \* whether a client may fall silent for 30 seconds
  CanReauth      \* whether an address with a session may authenticate again

Pids == 1 .. MaxPlayers

ASSUME RegistryAssumption ==
  /\ EntityId \in [Refs -> Npcs]
  /\ Nobody \notin Pids /\ Nobody \notin Npcs
  /\ IsFiniteSet(Addrs)
  /\ Connections \in Nat
  /\ MaxPlayers \in Nat
  /\ MaxReports \in Nat
  /\ CanCull \in BOOLEAN
  /\ CanReauth \in BOOLEAN

VARIABLES
  sessions,     \* the player of each address with a session, or Nobody
  next_id,      \* the next player id
  players,      \* the player objects in the registry
  objects,      \* the actors in the registry
  deleted,      \* tombstones of removed actors
  owners,       \* the player simulating each actor, or Nobody
  ref_to_id,    \* the actor a reference was reported under, or Nobody
  type_count    \* the registry's count of actors

registryVars == <<sessions, next_id, players, objects, deleted, owners, ref_to_id, type_count>>

sessionVars == <<sessions, next_id, players>>
actorVars   == <<objects, deleted, owners, ref_to_id, type_count>>

RegistryInit ==
  /\ sessions = [a \in Addrs |-> Nobody]
  /\ next_id = 1
  /\ players = {}
  /\ objects = {}
  /\ deleted = {}
  /\ owners = [n \in Npcs |-> Nobody]
  /\ ref_to_id = [r \in Refs |-> Nobody]
  /\ type_count = 0

Connected == {a \in Addrs : sessions[a] # Nobody}
InGame    == {sessions[a] : a \in Connected}

-----------------------------------------------------------------------------
(* Sessions. *)

\* handle_auth: a session already at the address is overwritten as it stands.
Auth(a) ==
  /\ Cardinality(Connected) < Connections
  /\ CanReauth \/ a \notin Connected
  /\ next_id \in Pids
  /\ sessions' = [sessions EXCEPT ![a] = next_id]
  /\ players' = players \cup {next_id}
  /\ next_id' = next_id + 1
  /\ UNCHANGED actorVars
\* Mutant of Released: one actor is found, the rest stay owned.
ReleasedFirst(p) == {n \in Npcs : owners[n] = p /\ n = CHOOSE m \in Npcs : owners[m] = p}

\* release_player_owned.
Released(p) == {n \in Npcs : owners[n] = p}

\* disconnect: on GameEnd, on a wrong mod list, or when a script kicks the player.
Disconnect(a) ==
  /\ a \in Connected
  /\ owners' = [n \in Npcs |-> IF n \in Released(sessions[a]) THEN Nobody ELSE owners[n]]
  /\ players' = players \ {sessions[a]}
  /\ sessions' = [sessions EXCEPT ![a] = Nobody]
  /\ UNCHANGED <<next_id, objects, deleted, ref_to_id, type_count>>

\* tick: a session not heard of for 30 seconds is dropped, and only the session.
Cull(a) ==
  /\ CanCull
  /\ a \in Connected
  /\ sessions' = [sessions EXCEPT ![a] = Nobody]
  /\ UNCHANGED <<next_id, players, actorVars>>

-----------------------------------------------------------------------------
(* Actors. *)

\* ObjectRegistry::insert on an actor: the count goes up also when it replaces one.
Insert(n) ==
  /\ type_count < MaxReports
  /\ objects' = objects \cup {n}
  /\ type_count' = type_count + 1
\* Mutants of MayReport: no look at the tombstones, no look at the owner.
MayReportDead(r) == ref_to_id[r] \in {EntityId[r], Nobody} /\ owners[EntityId[r]] = Nobody
MayReportOwned(r) == EntityId[r] \notin deleted /\ ref_to_id[r] \in {EntityId[r], Nobody}

\* What handle_actor_new asks of a report: no tombstone, the reference not
\* known under another id, and nobody simulating the actor.
MayReport(r) ==
  /\ EntityId[r] \notin deleted
  /\ ref_to_id[r] \in {EntityId[r], Nobody}
  /\ owners[EntityId[r]] = Nobody

\* handle_actor_new.
ActorNew(a, r) ==
  LET n == EntityId[r] IN
  /\ a \in Connected
  /\ MayReport(r)
  /\ owners' = [owners EXCEPT ![n] = sessions[a]]
  /\ ref_to_id' = [ref_to_id EXCEPT ![r] = n]
  /\ Insert(n)
  /\ UNCHANGED <<sessionVars, deleted>>
\* Mutants of MayClaim: no look at the owner, no look at the actor.
MayClaimOwned(n) == n \in objects \ deleted
MayClaimAbsent(n) == owners[n] = Nobody

\* What handle_ownership_claim asks: the actor is there and nobody simulates it.
MayClaim(n) == n \in objects \ deleted /\ owners[n] = Nobody

\* handle_ownership_claim.
OwnershipClaim(a, n) ==
  /\ a \in Connected
  /\ MayClaim(n)
  /\ owners' = [owners EXCEPT ![n] = sessions[a]]
  /\ UNCHANGED <<sessionVars, objects, deleted, ref_to_id, type_count>>

\* handle_object_remove: no look at who owns the actor.
ObjectRemove(a, n) ==
  /\ a \in Connected
  /\ n \in objects
  /\ objects' = objects \ {n}
  /\ type_count' = IF type_count > 0 THEN type_count - 1 ELSE 0
  /\ deleted' = deleted \cup {n}
  /\ owners' = [owners EXCEPT ![n] = Nobody]
  /\ UNCHANGED <<sessionVars, ref_to_id>>

-----------------------------------------------------------------------------
RegistryNext ==
  \/ \E a \in Addrs : Auth(a) \/ Disconnect(a) \/ Cull(a)
  \/ \E a \in Addrs, r \in Refs : ActorNew(a, r)
  \/ \E a \in Addrs, n \in Npcs : OwnershipClaim(a, n) \/ ObjectRemove(a, n)

RegistrySpec == RegistryInit /\ [][RegistryNext]_registryVars

-----------------------------------------------------------------------------
(* Properties. *)

\* The types of the variables.
RegistryTypeOK ==
  /\ sessions \in [Addrs -> Pids \cup {Nobody}]
  /\ next_id \in 1 .. MaxPlayers + 1
  /\ players \subseteq Pids
  /\ objects \subseteq Npcs
  /\ deleted \subseteq Npcs
  /\ owners \in [Npcs -> Pids \cup {Nobody}]
  /\ ref_to_id \in [Refs -> Npcs \cup {Nobody}]
  /\ type_count \in 0 .. MaxReports

\* Player ids are handed out once: no two addresses share a player, so a
\* release never frees another player's actors.
DistinctPlayers ==
  /\ \A a, b \in Connected : sessions[a] = sessions[b] => a = b
  /\ \A a \in Connected : sessions[a] < next_id

\* An owned actor is in the registry and not tombstoned: the owners map never
\* outlives the actor.
OwnedIsPresent == \A n \in Npcs : owners[n] # Nobody => n \in objects \ deleted

\* Every owner is a player with a session, so every owned actor has somebody
\* to simulate it and to release it.
OwnerIsInGame == \A n \in Npcs : owners[n] \in InGame \cup {Nobody}

\* The player objects of the registry are the players of the sessions.
PlayersHaveSessions == players = InGame

\* A tombstoned actor stays out of the registry for good.
DeadStayDead == [][deleted \subseteq deleted' /\ objects' \cap deleted' = {}]_registryVars

\* The count of actors is the number of actors.
CountIsExact == type_count = Cardinality(objects)

\* Only the owner of an actor, or anybody when it has none, takes it out of
\* the game.
OnlyOwnerRemoves ==
  [][\A a \in Addrs, n \in Npcs : ObjectRemove(a, n) => owners[n] \in {sessions[a], Nobody}]_registryVars

\* The registry keeps the promise of OwnershipTransfer.
Transfer == INSTANCE OwnershipTransfer WITH players <- InGame, owner <- owners, gone <- deleted
KeepsPromise == Transfer!Spec
=============================================================================
