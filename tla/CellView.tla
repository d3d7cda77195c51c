------------------------------ MODULE CellView ------------------------------
(***************************************************************************)
(* What each client is told of the things in the cells around it.  The     *)
(* server keeps two indexes of where a thing is, its own cell field and    *)
(* the list of every cell, and they part company: a list gains an id when  *)
(* the thing arrives and loses it only when the thing is removed.  A       *)
(* client's nine cells are a third record, and what the client knows is    *)
(* the sum of what it was sent on joining, on moving its context, and by   *)
(* the relays of the others.                                               *)
(*                                                                         *)
(* The handlers look at ids and not at what they stand for: a client may   *)
(* report, claim or remove any id, a player's included.                    *)
(*                                                                         *)
(* The link to a client is reliable and ordered (module Downlink), so      *)
(* "known" is what the client shows once it has read all it was sent.      *)
(***************************************************************************)
EXTENDS Naturals, FiniteSets

CONSTANTS
  Players,      \* a connection and its player object share one name
  Things,       \* ids of world objects, NPCs and containers
  Cells,
  Zero,         \* cell 0: the context of a session that has not moved yet
  Neighbours    \* the nine cells around a centre, as a set

CONSTANTS None, Nobody

CellViewAssumption ==
  /\ Players \cap Things = {}
  /\ Zero \in Cells
  /\ Neighbours \in [Cells -> SUBSET Cells]
  /\ \A c \in Cells : c \in Neighbours[c]
  /\ None \notin Cells
  /\ Nobody \notin Players

Ids == Players \cup Things

VARIABLES
  \* the registry
  cellOf,    \* the cell of a registered id, None for any other
  kind,      \* what the id was last registered as
  deleted,   \* ids that were removed: they never come back
  refs,      \* the lists of the cells, as pairs of a cell and an id
  owner,     \* the player an id was granted to
  \* the sessions
  sessions,  \* players in game
  centre, context,
  \* the clients
  known,
  \* history
  settled    \* things announced to everybody that have not changed cell since

registry == <<cellOf, kind, deleted, refs, owner>>
clients == <<sessions, centre, context>>
vars == <<registry, clients, known, settled>>

Registered == {x \in Ids : cellOf[x] # None}
Kinds == {"object", "actor", "container", "player"}

TypeOK ==
  /\ cellOf \in [Ids -> Cells \cup {None}]
  /\ kind \in [Ids -> Kinds]
  /\ deleted \subseteq Ids
  /\ refs \subseteq Cells \X Ids
  /\ owner \in [Ids -> Players \cup {Nobody}]
  /\ sessions \subseteq Players
  /\ centre \in [Players -> Cells]
  /\ context \in [Players -> SUBSET Cells]
  /\ known \in [Players -> SUBSET Ids]
  /\ settled \subseteq Things
  /\ \A x \in deleted : cellOf[x] = None

Init ==
  /\ cellOf = [x \in Ids |-> None]
  /\ kind = [x \in Ids |-> IF x \in Players THEN "player" ELSE "object"]
  /\ deleted = {}
  /\ refs = {}
  /\ owner = [x \in Ids |-> Nobody]
  /\ sessions = {}
  /\ centre = [p \in Players |-> Zero]
  /\ context = [p \in Players |-> {Zero}]
  /\ known = [p \in Players |-> {}]
  /\ settled = {}

-----------------------------------------------------------------------------
(* The registry. *)

\* Mutant of Remove: the removed actor stays in the table of owners.
RemoveKeepsOwner(x) ==
  IF cellOf[x] = None
  THEN UNCHANGED registry
  ELSE /\ cellOf' = [cellOf EXCEPT ![x] = None]
       /\ deleted' = deleted \cup {x}
       /\ refs' = {r \in refs : r[2] # x}
       /\ UNCHANGED <<kind, owner>>

Remove(x) ==
  IF cellOf[x] = None
  THEN UNCHANGED registry
  ELSE /\ cellOf' = [cellOf EXCEPT ![x] = None]
       /\ deleted' = deleted \cup {x}
       /\ refs' = {r \in refs : r[2] # x}
       /\ owner' = [owner EXCEPT ![x] = Nobody]
       /\ UNCHANGED kind

Listed(c, x) == <<c, x>> \in refs
InSomeCell(cs) == {x \in Ids : \E c \in cs : Listed(c, x)}

\* Everybody else in the game is sent New or Remove for x.
Announce(x, from) ==
  known' = [p \in Players |-> IF p \in sessions \cup {from}
                              THEN known[p] \cup {x} ELSE known[p]]
Retract(x, ps) ==
  known' = [p \in Players |-> IF p \in ps THEN known[p] \ {x} ELSE known[p]]

-----------------------------------------------------------------------------
(* The connection. *)

\* The player object is made in the cell a script chose, the session starts
\* with cell 0 as its context, and the snapshot is taken for that context.
\* Every player already there is sent besides.  The id is a new one.
Join(p, spawn) ==
  /\ p \notin sessions \cup deleted
  /\ cellOf[p] = None
  /\ cellOf' = [cellOf EXCEPT ![p] = spawn]
  /\ sessions' = sessions \cup {p}
  /\ known' = [q \in Players |->
                 IF q = p THEN {p} \cup {x \in Registered : kind[x] = "player"}
                                   \cup (InSomeCell(context[p]) \cap Registered)
                 ELSE IF q \in sessions THEN known[q] \cup {p}
                 ELSE known[q]]
  /\ UNCHANGED <<kind, deleted, refs, owner, centre, context, settled>>

\* The others are told of the NPCs set free, and not of the player gone.
Disconnect(p) ==
  /\ p \in sessions
  /\ sessions' = sessions \ {p}
  /\ cellOf' = [cellOf EXCEPT ![p] = None]
  /\ deleted' = IF cellOf[p] = None THEN deleted ELSE deleted \cup {p}
  /\ refs' = IF cellOf[p] = None THEN refs ELSE {r \in refs : r[2] # p}
  /\ owner' = [x \in Ids |->
                 IF owner[x] = p \/ (x = p /\ cellOf[p] # None) THEN Nobody ELSE owner[x]]
  /\ UNCHANGED <<kind, centre, context, known, settled>>

-----------------------------------------------------------------------------
(* Requests of a client. *)

\* What an id stands for is replaced by the latest report of it; the lists
\* only gain entries.
Register(x, as, c) ==
  /\ cellOf' = [cellOf EXCEPT ![x] = c]
  /\ kind' = [kind EXCEPT ![x] = as]

ObjectNew(p, x, c) ==
  /\ p \in sessions
  /\ x \notin deleted
  /\ Register(x, "object", c)
  /\ refs' = refs \cup {<<c, x>>}
  /\ Announce(x, p)
  /\ settled' = settled \cup ({x} \cap Things)
  /\ UNCHANGED <<deleted, owner, clients>>

\* A container is in no list, and cell 0 stands for nowhere.
ContainerNew(p, x) ==
  /\ p \in sessions
  /\ x \notin deleted
  /\ Register(x, "container", Zero)
  /\ Announce(x, p)
  /\ settled' = settled \ {x}
  /\ UNCHANGED <<deleted, refs, owner, clients>>

\* An NPC is put in the cell its first reporter is in.
ActorNew(p, x) ==
  /\ p \in sessions
  /\ x \notin deleted
  /\ owner[x] = Nobody
  /\ owner' = [owner EXCEPT ![x] = p]
  /\ Register(x, "actor", centre[p])
  /\ refs' = refs \cup {<<centre[p], x>>}
  /\ Announce(x, p)
  /\ settled' = settled \cup ({x} \cap Things)
  /\ UNCHANGED <<deleted, clients>>

Claim(p, x) ==
  /\ p \in sessions
  /\ cellOf[x] # None
  /\ owner[x] = Nobody
  /\ owner' = [owner EXCEPT ![x] = p]
  /\ UNCHANGED <<cellOf, kind, deleted, refs, clients, known, settled>>

Owned(p, x) == x = p \/ owner[x] = p
HasCell(x) == cellOf[x] # None /\ kind[x] # "container"

\* The thing gets its new cell and an entry in the new list.  It stays in
\* the old list, and the relay means nothing to a client that does not
\* know it.
UpdateCell(p, x, c) ==
  /\ p \in sessions
  /\ Owned(p, x)
  /\ cellOf' = IF HasCell(x) THEN [cellOf EXCEPT ![x] = c] ELSE cellOf
  /\ refs' = refs \cup {<<c, x>>}
  /\ settled' = settled \ {x}
  /\ UNCHANGED <<kind, deleted, owner, clients, known>>

\* The own cell of a player follows its context, while its object is one.
PlayerCell(p, c) ==
  IF cellOf[p] # None /\ kind[p] = "player" THEN [cellOf EXCEPT ![p] = c] ELSE cellOf

\* Mutant of UpdateContext: what is listed in a left cell is removed even
\* though it stands in a cell that stays.
UpdateContextForgetful(p, c) ==
  LET cells == Neighbours[c]
      enter == cells \ context[p]
      leave == context[p] \ cells
      cell  == PlayerCell(p, c)
  IN /\ p \in sessions
     /\ cellOf' = cell
     /\ centre' = [centre EXCEPT ![p] = c]
     /\ context' = [context EXCEPT ![p] = cells]
     /\ known' = [known EXCEPT ![p] =
                    (@ \cup ((InSomeCell(enter) \cap Registered) \ {p}))
                    \ (InSomeCell(leave) \ {p})]
     /\ UNCHANGED <<kind, deleted, refs, owner, sessions, settled>>

\* The new context and the player's own cell are in place before the lists
\* are read: New for what the entered cells list, then a silent Remove for
\* what the left cells list and no remaining cell holds.
UpdateContext(p, c) ==
  LET cells == Neighbours[c]
      enter == cells \ context[p]
      leave == context[p] \ cells
      cell  == PlayerCell(p, c)
      stay(x) == HasCell(x) /\ cell[x] \in cells
  IN /\ p \in sessions
     /\ cellOf' = cell
     /\ centre' = [centre EXCEPT ![p] = c]
     /\ context' = [context EXCEPT ![p] = cells]
     /\ known' = [known EXCEPT ![p] =
                    (@ \cup ((InSomeCell(enter) \cap Registered) \ {p}))
                    \ {x \in InSomeCell(leave) : ~stay(x)}]
     /\ UNCHANGED <<kind, deleted, refs, owner, sessions, settled>>

\* Anybody may remove anything; a silent removal is not relayed.
ObjectRemove(p, x, silent) ==
  /\ p \in sessions
  /\ Remove(x)
  /\ Retract(x, IF silent THEN {p} ELSE sessions)
  /\ settled' = settled \ {x}
  /\ UNCHANGED clients

-----------------------------------------------------------------------------
(* Scripts change the registry and tell nobody. *)

ScriptCreate(t, as, c) ==
  /\ t \notin deleted
  /\ cellOf[t] = None
  /\ Register(t, as, c)
  /\ refs' = refs \cup {<<c, t>>}
  /\ UNCHANGED <<deleted, owner, clients, known, settled>>

ScriptDestroy(x) ==
  /\ cellOf[x] # None
  /\ Remove(x)
  /\ settled' = settled \ {x}
  /\ UNCHANGED <<clients, known>>

\* The ids that stand for something by now.
Named == Things \cup {p \in Players : p \in sessions \cup deleted}

ClientNext ==
  \E p \in Players :
    \/ \E c \in Cells : Join(p, c) \/ UpdateContext(p, c)
    \/ Disconnect(p)
    \/ \E x \in Named :
         \/ \E c \in Cells : ObjectNew(p, x, c) \/ UpdateCell(p, x, c)
         \/ ContainerNew(p, x)
         \/ ActorNew(p, x)
         \/ Claim(p, x)
         \/ \E silent \in BOOLEAN : ObjectRemove(p, x, silent)

ScriptNext ==
  \/ \E x \in Ids : ScriptDestroy(x)
  \/ \E t \in Things, as \in {"object", "actor"}, c \in Cells : ScriptCreate(t, as, c)

Next == ClientNext \/ ScriptNext

Spec == Init /\ [][Next]_vars

-----------------------------------------------------------------------------
(* Properties. *)

\* The two indexes agree where it matters: a thing that has a cell is in the
\* list of that cell, so that a client entering the cell is told of it.
PlacedIsListed ==
  \A t \in Things : HasCell(t) => Listed(cellOf[t], t)

\* A removed thing is in no list.  Its owner may still be sending moves for
\* it; each is refused only because the removal took the ownership too.
ListedIsRegistered ==
  \A t \in Things : \A c \in Cells : Listed(c, t) => cellOf[t] # None

\* A client in the game knows every thing that was announced to all and has
\* not changed cell since, whenever it stands in the client's nine cells:
\* by the relay, by the snapshot on joining, or by entering the cell.
SettledIsKnown ==
  \A p \in sessions, t \in settled :
    cellOf[t] \in context[p] => t \in known[p]

\* A client is not told that its own player left its sight, although the
\* lists of the cells it leaves name it: its cell is moved first.  Whoever
\* removes the player's object or registers something else under its id
\* breaks this.
SelfIsKnown ==
  \A p \in sessions : cellOf[p] # None /\ kind[p] = "player" => p \in known[p]

\* What the streaming of cells is for: a client in the game knows an NPC
\* that another player simulates and that stands in the client's nine cells.
OwnedInViewIsKnown ==
  \A p \in sessions, t \in Things :
    owner[t] \notin {Nobody, p} /\ HasCell(t) /\ cellOf[t] \in context[p]
      => t \in known[p]
=============================================================================
