----------------------------- MODULE WorldRelay -----------------------------
(***************************************************************************)
(* What the players do to the shared world.  A client's update of a thing  *)
(* is checked by its handler, written into the server's entity and relayed *)
(* to everybody else; a hit is resolved by the server.  Each client keeps  *)
(* a copy of the entities it was told of, and changes it only by what it   *)
(* is sent, so the copies are right exactly if every change is relayed in  *)
(* a packet the copies read.                                               *)
(*                                                                         *)
(* Updates and hits are for who owns the thing.  Reports, claims and       *)
(* removals carry any id: the handlers do not ask whose it is, so a player *)
(* can be removed, taken over or reported anew by another client.          *)
(*                                                                         *)
(* The links are reliable and ordered (modules Uplink and Downlink): an    *)
(* update is handled when it is sent, and wire[c] is what client c has     *)
(* still to read.  A position is a point of a line, in world units; health *)
(* is counted in points.                                                   *)
(***************************************************************************)
EXTENDS Integers, Sequences, SequencesExt, FiniteSetsExt

CONSTANTS
  Clients,      \* a connection and its player object share one name
  Npc,          \* an NPC the engines can report
  Item, Holder, \* an item, and the player whose inventory holds it
  Places, Doors, Samples, Counts, Hits,  \* what clients report
  MaxHandled    \* bound: updates and script effects in one behaviour

CONSTANTS Nobody

\* What the constants must satisfy.
ASSUME WorldRelayAssumption ==
  /\ Npc \notin Clients /\ Item \notin Clients /\ Npc # Item
  /\ Holder \in Clients
  /\ Nobody \notin Clients
  /\ Places \subseteq Int /\ Doors \subseteq Int
  /\ Samples \subseteq Nat /\ Counts \subseteq Nat
  /\ Hits \subseteq [base : Nat, limb : 0..6, critical : BOOLEAN]
  /\ MaxHandled \in Nat

Entities == Clients \cup {Npc, Item}

VARIABLES
  entities,  \* the server's entities
  owner,     \* the player each entity was granted to, if any
  deleted,   \* the ids that were removed: they never come back
  pvp,       \* the server's PvP setting
  unread,    \* packets each client has still to read
  copy,      \* the client's entities
  handled,   \* updates and script effects so far
  missed     \* history: entity and field pairs whose last change the client was not told

relayServer == <<entities, owner, deleted, pvp>>
relayVars == <<relayServer, unread, copy, handled, missed>>

\* Limits of the server, constants.rs.
MaxSpeed == 5000
MaxTeleport == 10000
MaxItemStack == 65535
MaxRange == 5000

\* Health nobody has reported yet: the server reads 0, a client shows 100.
Unset == 0
Shown == 100

(***************************************************************************)
(* Entities.  An entity is a record of the fields the clients show; what a *)
(* kind of entity has not, its record has not.                             *)
(***************************************************************************)
Absent == [kind |-> "absent"]

\* The kinds whose place can be written, and those that have a life.
Placed == {"Object", "Actor", "Player"}
Alive == {"Actor", "Player"}

Newcomer(kind) ==
  [kind |-> kind, pos |-> 0, dead |-> FALSE, alerted |-> FALSE, health |-> Unset]
NewPlayer == Newcomer("Player")
NewContainer == [kind |-> "Container"]
NewItem == [kind |-> "Item", count |-> 1, condition |-> 1, equipped |-> FALSE]

\* The NPC as its finder announces it: the values are empty, and the place
\* follows in an update of its own.
NewActor == Newcomer("Actor")

\* What a client makes of the announcement; a container comes as an object.
CopyOf(entity) ==
  CASE entity.kind = "Player" -> [kind |-> "Player", pos |-> 0]
    [] entity.kind = "Actor" ->
         [kind |-> "Actor", pos |-> 0, dead |-> entity.dead, alerted |-> FALSE,
          health |-> IF entity.health = Unset THEN Shown ELSE entity.health]
    [] entity.kind = "Container" -> [kind |-> "Object", pos |-> 0]
    [] OTHER -> entity

\* What the announcement of an entity does not say, or not as it is.
Unsaid(entity) ==
  {f \in DOMAIN entity \cap DOMAIN CopyOf(entity) : CopyOf(entity)[f] # entity[f]}

\* The fields of its copy a client sets from an update.
Keeps(thing, field) == field \in DOMAIN thing

(***************************************************************************)
(* Packets, and what a client does with one.                               *)
(***************************************************************************)
New(e, entity) == [op |-> "new", id |-> e, thing |-> CopyOf(entity)]
Update(e, field, v) == [op |-> "set", id |-> e, field |-> field, value |-> v]
Gone(e) == [op |-> "remove", id |-> e]

\* The relay of a report.  That of a container is of a kind the copies do not
\* read.
ReportOf(e, entity) ==
  IF entity.kind = "Container" THEN Update(e, "container", 0) ELSE New(e, entity)

Apply(known, packet) ==
  CASE packet.op = "new" -> [known EXCEPT ![packet.id] = packet.thing]
    [] packet.op = "remove" -> [known EXCEPT ![packet.id] = Absent]
    [] packet.op = "set" /\ Keeps(known[packet.id], packet.field) ->
         [known EXCEPT ![packet.id][packet.field] = packet.value]
    [] OTHER -> known

\* What client c shows once it has read everything sent to it.
Ahead(c) == FoldLeft(Apply, copy[c], unread[c])

Broadcast(targets, packet) ==
  unread' = [c \in Clients |-> IF c \in targets THEN Append(unread[c], packet) ELSE unread[c]]

Others(p) == Clients \ {p}

\* The change of a field of e went to the clients of told, in a packet they
\* read; the others go by what they had.
Tell(told, e, field) ==
  missed' = [c \in Clients |->
    IF c \in told THEN missed[c] \ {<<e, field>>} ELSE missed[c] \cup {<<e, field>>}]

(***************************************************************************)
(* Checks.                                                                 *)
(***************************************************************************)
\* One's own player, or what the server granted.
Owned(p, e) == e = p \/ owner[e] = p

\* An item of one's own inventory.
OwnItem(p, e) == entities[e].kind = "Item" /\ Holder = p

AbsDiff(a, b) == IF a < b THEN b - a ELSE a - b

\* The time since the session was last heard, in milliseconds, as the
\* handler reads it: the datagram it is handling has just reset it.
SinceLastRecv == 0

ValidPosition(to, from, elapsed) ==
  LET dist == AbsDiff(to, from)
      dt == Max({elapsed, 1})
  IN /\ dist <= MaxTeleport
     /\ dist * 1000 <= MaxSpeed * dt

ValidItemCount(n) == n <= MaxItemStack
ValidItemCondition(n) == n <= 100

(***************************************************************************)
(* Updates.  A rejected update is handled and forgotten.                   *)
(***************************************************************************)
Rejected == UNCHANGED <<entities, unread, missed>>

\* Write a field, if the entity has it, and relay the update: the relay goes
\* out whether or not there was a field to write.
Relay(p, e, field, v) ==
  /\ entities' = IF field \in DOMAIN entities[e] THEN [entities EXCEPT ![e][field] = v] ELSE entities
  /\ Broadcast(Others(p), Update(e, field, v))
  /\ Tell(Others(p), e, field)

Take ==
  /\ handled < MaxHandled
  /\ handled' = handled + 1
  /\ UNCHANGED copy

\* Mutant of UpdatePos: the update is relayed before it is checked.
UpdatePosRelaysFirst(p, e, to) ==
  /\ Take
  /\ IF Owned(p, e) /\ entities[e].kind \in Placed
     THEN /\ entities' = IF ValidPosition(to, entities[e].pos, SinceLastRecv)
                      THEN [entities EXCEPT ![e].pos = to] ELSE entities
          /\ Broadcast(Others(p), Update(e, "pos", to))
          /\ Tell(Others(p), e, "pos")
     ELSE Rejected
  /\ UNCHANGED <<owner, deleted, pvp>>

UpdatePos(p, e, to) ==
  /\ Take
  /\ IF /\ Owned(p, e)
        /\ entities[e].kind \in Placed
        /\ ValidPosition(to, entities[e].pos, SinceLastRecv)
     THEN Relay(p, e, "pos", to)
     ELSE Rejected
  /\ UNCHANGED <<owner, deleted, pvp>>

\* A change of cell carries a place too: no limit on it, and the relay, which
\* goes out whatever there is to write, is of a kind the copies do not read.
UpdateCell(p, e, to) ==
  /\ Take
  /\ IF Owned(p, e)
     THEN /\ entities' = IF entities[e].kind \in Placed
                          THEN [entities EXCEPT ![e].pos = to] ELSE entities
          /\ Broadcast(Others(p), Update(e, "cell", to))
          /\ Tell({}, e, "pos")
     ELSE Rejected
  /\ UNCHANGED <<owner, deleted, pvp>>

UpdateActorState(p, e, alerted) ==
  /\ Take
  /\ IF Owned(p, e) THEN Relay(p, e, "alerted", alerted) ELSE Rejected
  /\ UNCHANGED <<owner, deleted, pvp>>

\* A delta holds the fields that changed, the one modelled here among them or
\* not.
ActorStateDelta(p, e, given, alerted) ==
  /\ Take
  /\ IF ~Owned(p, e)
     THEN Rejected
     ELSE \/ given /\ Relay(p, e, "alerted", alerted)
          \/ /\ ~given
             /\ Broadcast(Others(p), Update(e, "idle", 0))
             /\ UNCHANGED <<entities, missed>>
  /\ UNCHANGED <<owner, deleted, pvp>>

UpdateActorValue(p, e, health) ==
  /\ Take
  /\ IF Owned(p, e) THEN Relay(p, e, "health", health) ELSE Rejected
  /\ UNCHANGED <<owner, deleted, pvp>>

UpdateActorDead(p, e, dead) ==
  /\ Take
  /\ IF Owned(p, e) THEN Relay(p, e, "dead", dead) ELSE Rejected
  /\ UNCHANGED <<owner, deleted, pvp>>

\* A silent update is answered to its sender and told to nobody else; one of
\* the condition is never silent.
UpdateItem(p, e, field, v, silent) ==
  /\ Take
  /\ IF /\ OwnItem(p, e)
        /\ field = "count" => ValidItemCount(v)
        /\ field = "condition" => ValidItemCondition(v)
     THEN LET told == IF silent THEN {p} ELSE Others(p)
          IN /\ entities' = [entities EXCEPT ![e][field] = v]
             /\ Broadcast(told, Update(e, field, v))
             /\ Tell(told, e, field)
     ELSE Rejected
  /\ UNCHANGED <<owner, deleted, pvp>>

\* Client p reports the thing of an id: it takes the place of what the id
\* was.  The others are told of it, the reporter is not.
PutNew(p, e, thing) ==
  /\ entities' = [entities EXCEPT ![e] = thing]
  /\ Broadcast(Others(p), ReportOf(e, thing))
  /\ missed' = [c \in Clients |->
       IF c = p THEN missed[c] \cup {<<e, f>> : f \in DOMAIN thing}
       ELSE (missed[c] \ {<<e, f>> : f \in DOMAIN thing}) \cup {<<e, f>> : f \in Unsaid(thing)}]

\* The first to report an actor simulates it from then on.  The id may be that
\* of anything that is not removed and not granted, a player included.
ActorNew(p, e) ==
  /\ Take
  /\ IF e \in deleted \/ owner[e] # Nobody
     THEN Rejected /\ UNCHANGED owner
     ELSE PutNew(p, e, NewActor) /\ owner' = [owner EXCEPT ![e] = p]
  /\ UNCHANGED <<deleted, pvp>>

\* The report of an object, a container or a player asks still less of the id.
ObjectNew(p, e, thing) ==
  /\ Take
  /\ IF e \in deleted THEN Rejected ELSE PutNew(p, e, thing)
  /\ UNCHANGED <<owner, deleted, pvp>>

\* Anything there is can be claimed, if it is granted to nobody; only the
\* claimer is told.
OwnershipClaim(p, e) ==
  /\ Take
  /\ owner' = IF entities[e] # Absent /\ owner[e] = Nobody
              THEN [owner EXCEPT ![e] = p] ELSE owner
  /\ UNCHANGED <<entities, deleted, pvp, unread, missed>>

\* Mutant of Erase: the owner of a removed entity is kept.
EraseKeepsOwner(e) ==
  /\ entities' = [entities EXCEPT ![e] = Absent]
  /\ deleted' = IF entities[e] = Absent THEN deleted ELSE deleted \cup {e}
  /\ UNCHANGED owner

\* What is removed is owned by nobody, and its id does not come back.
Erase(e) ==
  /\ entities' = [entities EXCEPT ![e] = Absent]
  /\ deleted' = IF entities[e] = Absent THEN deleted ELSE deleted \cup {e}
  /\ owner' = [owner EXCEPT ![e] = Nobody]

\* A removal takes any id, and is relayed even if there is nothing to remove.
ObjectRemove(p, e, silent) ==
  /\ Take
  /\ Erase(e)
  /\ IF silent THEN UNCHANGED unread ELSE Broadcast(Others(p), Gone(e))
  /\ Tell(IF silent THEN {} ELSE Others(p), e, "kind")
  /\ UNCHANGED pvp

\* A thing comes into view of client p again: it is announced as it is now.
Enter(p, e) ==
  /\ Take
  /\ e # p
  /\ IF entities[e] = Absent
     THEN Rejected
     ELSE /\ Broadcast({p}, New(e, entities[e]))
          /\ missed' = [missed EXCEPT ![p] =
               (@ \ {<<e, f>> : f \in DOMAIN entities[e]})
                 \cup {<<e, f>> : f \in Unsaid(entities[e])}]
          /\ UNCHANGED entities
  /\ UNCHANGED <<owner, deleted, pvp>>

(***************************************************************************)
(* Hits.                                                                   *)
(***************************************************************************)
\* In halves, so that an arm counts for one and a head for four.
LimbTwice(limb) ==
  CASE limb = 1 -> 4
    [] limb \in 2..5 -> 1
    [] OTHER -> 2
CriticalTwice(critical) == IF critical THEN 3 ELSE 2

\* No value of resistance or threshold is ever reported: both are 0.
Damage(hit) == Max({1, (hit.base * LimbTwice(hit.limb) * CriticalTwice(hit.critical)) \div 4})

ValidHit(hit) == hit.base > 0 /\ hit.base < 10000

\* Mutant of PvpAllows: the rule looks at the attacker only.
PvpAllowsAnyTarget(p, target) == pvp \/ entities[p].kind = "Player"

\* With PvP off a player may not hit a player.
PvpAllows(p, target) ==
  pvp \/ entities[p].kind # "Player" \/ entities[target].kind # "Player"

Hittable(p, target) ==
  /\ entities[p].kind \in Alive
  /\ entities[target].kind \in Alive
  /\ ~entities[target].dead
  /\ AbsDiff(entities[target].pos, entities[p].pos) <= MaxRange

\* The attacker of the packet must be the sender's own player.  The damage and
\* the death are relayed in packets the copies do not read.
ActorHit(p, target, hit) ==
  /\ Take
  /\ IF ValidHit(hit) /\ PvpAllows(p, target) /\ Hittable(p, target)
     THEN LET left == Max({0, entities[target].health - Damage(hit)})
              fatal == left = 0
              packets == <<Update(target, "damaged", Damage(hit))>> \o
                           (IF fatal THEN <<Update(target, "deathExt", hit.limb = 1)>> ELSE <<>>)
              touched == {<<target, "health">>} \cup (IF fatal THEN {<<target, "dead">>} ELSE {})
          IN /\ entities' = [entities EXCEPT ![target].health = left, ![target].dead = fatal]
             /\ unread' = [c \in Clients |-> IF c = p THEN unread[c] ELSE unread[c] \o packets]
             /\ missed' = [c \in Clients |-> missed[c] \cup touched]
     ELSE Rejected
  /\ UNCHANGED <<owner, deleted, pvp>>

(***************************************************************************)
(* Scripts: a kill is written and told to nobody, a revival is relayed to  *)
(* everybody.  Both write actors only: the revival of another thing there  *)
(* is changes nothing and is relayed all the same.  A thing is destroyed   *)
(* without a word.                                                         *)
(***************************************************************************)
KillActor(e) ==
  /\ Take
  /\ entities[e].kind = "Actor"
  /\ entities' = [entities EXCEPT ![e].dead = TRUE]
  /\ Tell({}, e, "dead")
  /\ UNCHANGED <<owner, deleted, pvp, unread>>

ResurrectActor(e) ==
  /\ Take
  /\ entities[e] # Absent
  /\ entities' = IF entities[e].kind = "Actor"
                 THEN [entities EXCEPT ![e].dead = FALSE] ELSE entities
  /\ Broadcast(Clients, Update(e, "dead", FALSE))
  /\ Tell(IF entities[e].kind = "Actor" THEN Clients ELSE {}, e, "dead")
  /\ UNCHANGED <<owner, deleted, pvp>>

DestroyObject(e) ==
  /\ Take
  /\ Erase(e)
  /\ Tell({}, e, "kind")
  /\ UNCHANGED <<pvp, unread>>

(***************************************************************************)
(* The specification.                                                      *)
(***************************************************************************)
Read(c) ==
  /\ unread[c] # <<>>
  /\ copy' = [copy EXCEPT ![c] = Apply(@, Head(unread[c]))]
  /\ unread' = [unread EXCEPT ![c] = Tail(@)]
  /\ UNCHANGED <<relayServer, handled, missed>>

\* The players stand together; the NPC is not found yet, or its finder has
\* announced it and reported some health, and everybody has read that.
RelayInit ==
  /\ \E npc \in {Absent} \cup {[NewActor EXCEPT !.health = h] : h \in Samples \ {Unset}} :
       entities = [e \in Entities |->
         IF e \in Clients THEN NewPlayer ELSE IF e = Item THEN NewItem ELSE npc]
  /\ owner = [e \in Entities |->
       IF e = Npc /\ entities[Npc] # Absent THEN Holder ELSE Nobody]
  /\ deleted = {}
  /\ pvp \in BOOLEAN
  /\ unread = [c \in Clients |-> <<>>]
  /\ copy = [c \in Clients |->
       [e \in Entities |-> IF e = Npc /\ owner[Npc] = c THEN Absent ELSE CopyOf(entities[e])]]
  /\ handled = 0
  /\ missed = [c \in Clients |->
       IF owner[Npc] = c THEN {<<Npc, f>> : f \in DOMAIN NewActor} ELSE {}]

\* What a client reports of an id besides an actor.
Reported == {[kind |-> "Object", pos |-> to] : to \in Doors} \cup {NewPlayer, NewContainer}

\* What client p sends of an entity.
Report(p, e) ==
  \/ \E to \in Places : UpdatePos(p, e, to)
  \/ \E to \in Doors : UpdateCell(p, e, to)
  \/ \E b \in BOOLEAN : UpdateActorState(p, e, b) \/ UpdateActorDead(p, e, b)
  \/ \E h \in Samples : UpdateActorValue(p, e, h)
  \/ \E given, b \in BOOLEAN : ActorStateDelta(p, e, given, b)
  \/ \E silent, b \in BOOLEAN : UpdateItem(p, e, "equipped", b, silent)
  \/ \E silent \in BOOLEAN, n \in Counts : UpdateItem(p, e, "count", n, silent)
  \/ \E n \in Counts : UpdateItem(p, e, "condition", n, FALSE)
  \/ ActorNew(p, e)
  \/ \E thing \in Reported : ObjectNew(p, e, thing)
  \/ OwnershipClaim(p, e)
  \/ \E silent \in BOOLEAN : ObjectRemove(p, e, silent)
  \/ Enter(p, e)
  \/ \E hit \in Hits : ActorHit(p, e, hit)

Handle(p) == \E e \in Entities : Report(p, e)

\* What a script does to an entity.
Script(e) == KillActor(e) \/ ResurrectActor(e) \/ DestroyObject(e)

RelayNext ==
  \/ \E p \in Clients : Handle(p) \/ Read(p)
  \/ \E e \in Entities : Script(e)

RelaySpec == RelayInit /\ [][RelayNext]_relayVars
(***************************************************************************)
(* Properties.                                                             *)
(***************************************************************************)
Fields == {"kind", "pos", "dead", "alerted", "health", "count", "condition", "equipped"}
Things == [kind : {"Item"}, count : Nat, condition : Nat, equipped : BOOLEAN]
Plain == [kind : {"Object"}, pos : Int] \cup {NewContainer}
Living == [kind : Alive, pos : Int, dead : BOOLEAN, alerted : BOOLEAN, health : Nat]

\* Types, and: what is removed is gone and granted to nobody.
RelayTypeOK ==
  /\ entities \in [Entities -> {Absent} \cup Things \cup Plain \cup Living]
  /\ owner \in [Entities -> Clients \cup {Nobody}]
  /\ deleted \subseteq Entities
  /\ pvp \in BOOLEAN
  /\ handled \in Nat
  /\ missed \in [Clients -> SUBSET (Entities \X Fields)]
  /\ \A e \in Entities : owner[e] # Nobody => entities[e] # Absent
  /\ \A e \in deleted : entities[e] = Absent

\* What a client shows of an entity is what the server has, field by field,
\* once it has read everything sent to it, except for the changes that no
\* packet told it of: its own, silent ones, hits, script kills, changes of
\* cell, and what an announcement leaves out.
OthersAgree ==
  \A c \in Clients, e \in Entities : LET shown == Ahead(c)[e] IN
    \A f \in DOMAIN shown \cap DOMAIN entities[e] :
      <<e, f>> \notin missed[c] => shown[f] = entities[e][f]

\* The packets of client q that put something else, or nothing, where e was.
Replaces(q, e) ==
  \/ ActorNew(q, e)
  \/ \E thing \in Reported : ObjectNew(q, e, thing)
  \/ \E silent \in BOOLEAN : ObjectRemove(q, e, silent)

\* With PvP off, what a client sends changes another player's entity (its
\* place, its health, whether it lives) only if the server granted it that
\* entity, or if it reports that id anew or removes it: the handlers of those
\* do not ask whose the id is.
OwnHands ==
  \A p, q \in Clients :
    /\ ~ pvp /\ p # q /\ owner[p] # q
    /\ entities[p].kind = "Player" /\ entities[q].kind = "Player"
    /\ entities'[p] # entities[p]
    /\ ~ Replaces(q, p)
    => ~ Handle(q)
OnlyOwnHands == [][OwnHands]_relayVars

\* A player that has moved no faster than the limit between two samples of the
\* bridge, 100 ms apart, is where it says it is.
SamplePeriod == 100
WalkersAreFollowed ==
  [][\A p \in Clients, to \in Places :
       /\ UpdatePos(p, p, to)
       /\ AbsDiff(to, entities[p].pos) * 1000 <= MaxSpeed * SamplePeriod
       => entities'[p].pos = to]_relayVars
=============================================================================
