------------------------------ MODULE CoopLoop ------------------------------
(***************************************************************************)
(* The coop loop: the bridge in each player's game finds NPCs, the client  *)
(* reports them, the server decides who simulates which.  The server is    *)
(* ActorRegistry; each address here is one run of a client, which connects *)
(* once.  Packets travel in order and once each, as on the uplink and on   *)
(* the downlink while nothing is lost.                                     *)
(*                                                                         *)
(* The bridge's 10 Hz flush and the client's next poll_bridge, which reads *)
(* all that the bridge wrote, are one step.  A client's owned_actors and   *)
(* the bridge's list of tracked actors change together and are one set.    *)
(***************************************************************************)
EXTENDS ActorRegistry, SequencesExt

CONSTANTS
  CanKick,        \* whether the server may end a session (Disconnect)
  CanLoseSight,   \* whether an NPC may leave a player's view
  SeesEarly,      \* whether a bridge may see NPCs before its client has a player
  MaxQueue        \* bound: packets of one client on their way

ASSUME CoopAssumption ==
  /\ IsFiniteSet(Refs)
  /\ CanKick \in BOOLEAN
  /\ CanLoseSight \in BOOLEAN
  /\ SeesEarly \in BOOLEAN
  /\ MaxQueue \in Nat

VARIABLES
  state,    \* client: "new", "authenticating", "playing" (it knows its player) or "ended"
  seen,     \* bridge: the NPCs of the last snapshot (LAST)
  owned,    \* client: owned_actors
  up,       \* packets on their way to the server
  down      \* packets on their way to the client

coopVars == <<registryVars, state, seen, owned, up, down>>

CoopInit ==
  /\ RegistryInit
  /\ state = [a \in Addrs |-> "new"]
  /\ seen = [a \in Addrs |-> {}]
  /\ owned = [a \in Addrs |-> {}]
  /\ up = [a \in Addrs |-> <<>>]
  /\ down = [a \in Addrs |-> <<>>]

Pkt(type, r) == [type |-> type, ref |-> r]

UpPackets   == [type : {"ActorNew", "OwnershipClaim", "ObjectRemove"}, ref : Refs]
DownPackets == [type : {"PlayerNew", "GameEnd"}, ref : {Nobody}]
          \cup [type : {"OwnershipGranted", "OwnershipReleased", "ObjectRemove"}, ref : Refs]

-----------------------------------------------------------------------------
(* Client and bridge. *)

\* authenticate, and handle_auth at the server: the player object comes back.
Connect(a) ==
  /\ state[a] = "new"
  /\ Auth(a)
  /\ state' = [state EXCEPT ![a] = "authenticating"]
  /\ down' = [down EXCEPT ![a] = Append(@, Pkt("PlayerNew", Nobody))]
  /\ UNCHANGED <<seen, owned, up>>

\* Mutant of SpawnPackets: the claim goes out without the report.
SpawnPacketsClaimOnly(s) == [i \in DOMAIN s |-> Pkt("OwnershipClaim", s[i])]

\* events_to_packets, on a sequence of events: a report and a claim for each NPC
\* that came, a removal for each that left.
SpawnPackets(s) ==
  [i \in 1 .. 2 * Len(s) |-> IF i % 2 = 1 THEN Pkt("ActorNew", s[(i + 1) \div 2])
                                         ELSE Pkt("OwnershipClaim", s[i \div 2])]
RemovePackets(s) == [i \in DOMAIN s |-> Pkt("ObjectRemove", s[i])]

\* flush_npc_diff: spawns, then removals, against the last snapshot; an empty
\* snapshot is skipped.  Then poll_bridge: a client that does not know its
\* player yet throws the events away.
Observe(a, observed) ==
  LET added   == observed \ seen[a]
      removed == seen[a] \ observed
      packets == SpawnPackets(SetToSeq(added)) \o RemovePackets(SetToSeq(removed))
  IN
  /\ state[a] # "ended"
  /\ observed # {} /\ observed # seen[a]
  /\ CanLoseSight \/ removed = {}
  /\ SeesEarly \/ state[a] = "playing"
  /\ seen' = [seen EXCEPT ![a] = observed]
  /\ IF state[a] = "playing"
       THEN /\ Len(up[a]) + Len(packets) <= MaxQueue
            /\ up' = [up EXCEPT ![a] = @ \o packets]
       ELSE UNCHANGED up
  /\ UNCHANGED <<registryVars, state, owned, down>>

\* Game::handle_packet, ClientRegistry::apply_packet and dispatch.
ClientRecv(a) ==
  LET p == Head(down[a]) IN
  /\ state[a] # "ended" /\ down[a] # <<>>
  /\ down' = [down EXCEPT ![a] = Tail(@)]
  /\ \/ /\ p.type = "PlayerNew"
        /\ state' = [state EXCEPT ![a] = "playing"]
        /\ UNCHANGED owned
     \/ /\ p.type = "GameEnd"
        /\ state' = [state EXCEPT ![a] = "ended"]
        /\ UNCHANGED owned
     \/ /\ p.type = "OwnershipGranted"
        /\ owned' = [owned EXCEPT ![a] = @ \cup {p.ref}]
        /\ UNCHANGED state
     \/ /\ p.type = "OwnershipReleased"
        /\ owned' = [owned EXCEPT ![a] = @ \ {p.ref}]
        /\ UNCHANGED state
     \/ /\ p.type = "ObjectRemove"   \* owned_actors keeps the actor
        /\ UNCHANGED <<state, owned>>
  /\ UNCHANGED <<registryVars, seen, up>>

-----------------------------------------------------------------------------
(* The server. *)

Granted(a, r) == down' = [down EXCEPT ![a] = Append(@, Pkt("OwnershipGranted", r))]

\* handle_recv: the handler of the packet, or nothing if it rejects it or the
\* session is gone.
ServerRecv(a) ==
  LET p == Head(up[a]) IN
  /\ up[a] # <<>>
  /\ up' = [up EXCEPT ![a] = Tail(@)]
  /\ \/ /\ p.type = "ActorNew"
        /\ ActorNew(a, p.ref) /\ Granted(a, p.ref)
     \/ /\ p.type = "OwnershipClaim"
        /\ OwnershipClaim(a, EntityId[p.ref]) /\ Granted(a, p.ref)
     \/ /\ p.type = "ObjectRemove"
        /\ ObjectRemove(a, EntityId[p.ref])
        /\ down' = [b \in Addrs |->
                      IF b \in Connected \ {a} THEN Append(down[b], p) ELSE down[b]]
     \/ /\ \/ a \notin Connected
           \/ p.type = "ActorNew" /\ ~ MayReport(p.ref)
           \/ p.type = "OwnershipClaim" /\ ~ MayClaim(EntityId[p.ref])
           \/ p.type = "ObjectRemove" /\ EntityId[p.ref] \notin objects
        /\ UNCHANGED <<registryVars, down>>
  /\ UNCHANGED <<state, seen, owned>>

ReleasePackets(s) == [i \in DOMAIN s |-> Pkt("OwnershipReleased", s[i])]

\* ScriptEffect::Kick: GameEnd to the player, disconnect, and the release of
\* each actor to those who stay.
Kick(a) ==
  LET released == {r \in Refs : EntityId[r] \in Released(sessions[a])} IN
  /\ CanKick
  /\ Disconnect(a)
  /\ down' = [b \in Addrs |->
                IF b = a THEN Append(down[b], Pkt("GameEnd", Nobody))
                ELSE IF b \notin Connected THEN down[b]
                ELSE down[b] \o ReleasePackets(SetToSeq(released))]
  /\ UNCHANGED <<state, seen, owned, up>>

-----------------------------------------------------------------------------
CoopNext ==
  \E a \in Addrs :
    \/ Connect(a)
    \/ \E observed \in SUBSET Refs : Observe(a, observed)
    \/ ClientRecv(a)
    \/ ServerRecv(a)
    \/ Kick(a)

CoopSpec == CoopInit /\ [][CoopNext]_coopVars

\* Packets arrive and are handled.
FairCoopSpec ==
  /\ CoopSpec
  /\ \A a \in Addrs : WF_coopVars(ClientRecv(a)) /\ WF_coopVars(ServerRecv(a))

-----------------------------------------------------------------------------
(* Properties. *)

\* The types of the variables.
CoopTypeOK ==
  /\ state \in [Addrs -> {"new", "authenticating", "playing", "ended"}]
  /\ seen \in [Addrs -> SUBSET Refs]
  /\ owned \in [Addrs -> SUBSET Refs]
  /\ up \in [Addrs -> Seq(UpPackets)] /\ down \in [Addrs -> Seq(DownPackets)]

\* The actors a client simulates, or is about to be told to.
Simulates(a) ==
  owned[a] \cup {p.ref : p \in {q \in ToSet(down[a]) : q.type = "OwnershipGranted"}}

\* What a client in the game believes it simulates, the server granted it and
\* has not given to anybody else; only a removal can have ended it.
BeliefIsBacked ==
  \A a \in Connected : \A r \in Simulates(a) :
    owners[EntityId[r]] = sessions[a] \/ EntityId[r] \in deleted

\* No two clients in the game simulate the same NPC.
OneSimulator ==
  \A a, b \in Connected : a # b => Simulates(a) \cap Simulates(b) = {}

\* An NPC that a player in the game has in view gets somebody to simulate it.
SeenIsSimulated ==
  \A a \in Addrs, r \in Refs :
    (a \in Connected /\ r \in seen[a])
      ~> (owners[EntityId[r]] # Nobody \/ a \notin Connected \/ r \notin seen[a])
=============================================================================
