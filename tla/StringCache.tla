----------------------------- MODULE StringCache -----------------------------
(***************************************************************************)
(* The name table of a connection.  The server binds a name to an id when  *)
(* it first sends the name on a connection and sends the id alone after    *)
(* that; the client builds its table from what arrives.                    *)
(*                                                                         *)
(* The table is bound before the packet enters the send window, which may  *)
(* refuse it.  The network and the client's transport (see Downlink) lose, *)
(* repeat and reorder what was sent.  When the player connects again the   *)
(* server starts a new table and the client keeps its old one.             *)
(*                                                                         *)
(* The packets here are those whose name the client reads: ObjectNew,      *)
(* UpdateName and GameChat.  The other kinds that carry a name are only    *)
(* passed on between clients, and no client sends them.                    *)
(***************************************************************************)
EXTENDS Integers, Sequences

CONSTANTS
  Names,        \* the names the server sends
  Empty,        \* the empty name, which the client cannot tell from no name
  IdSpace,      \* ids there are: 2^16
  MaxSent,      \* bound: packets the server sends in a session
  MaxSessions   \* bound: how often the player connects

\* What the constants must satisfy.
StringCacheAssumption ==
  /\ Empty \in Names
  /\ IdSpace \in Nat \ {0}
  /\ MaxSent \in Nat
  /\ MaxSessions \in Nat \ {0}

NameIds == 0 .. IdSpace - 1

VARIABLES
  bound,      \* server: the id of each name in this session's table (by_str)
  entries,    \* server: how many entries that table has (by_id.len())
  by_id,      \* client: its table; the entry of id i is by_id[i + 1]
  wire,       \* packets under way, oldest first
  inherited,  \* history: the client's table when the session began
  shown,      \* history: the id and name of this session's last packet, and what the client made of it
  sent,       \* packets sent in this session
  session,    \* which session this is
  disturbed   \* history: whether a packet was refused, lost, repeated or overtaken

cacheVars == <<bound, entries, by_id, wire, inherited, shown, sent, session, disturbed>>

serverVars == <<bound, entries, sent, session>>
clientVars == <<by_id, inherited, shown>>

Packets == [id : NameIds, name : Names, inline : BOOLEAN]

NothingShown == [id |-> 0, meant |-> Empty, seen |-> Empty]

CacheInit ==
  /\ bound = [n \in {} |-> 0]
  /\ entries = 0
  /\ by_id = <<>>
  /\ wire = <<>>
  /\ inherited = <<>>
  /\ shown = NothingShown
  /\ sent = 0
  /\ session = 1
  /\ disturbed = FALSE

-----------------------------------------------------------------------------
(* The server. *)

\* Mutant of FreshId: one id too few.
FreshIdNarrow == entries % (IdSpace - 1)

\* StringTable::intern: the id is the length of the table, cut to 16 bits.
FreshId == entries % IdSpace

\* CachedString::intern on a name: the packet that goes out.
Interned(n) ==
  IF n \in DOMAIN bound
    THEN [id |-> bound[n], name |-> n, inline |-> FALSE]
    ELSE [id |-> FreshId, name |-> n, inline |-> TRUE]

\* finalize_strings: the binding it leaves in the table.
Bind(n) ==
  IF n \in DOMAIN bound
    THEN UNCHANGED <<bound, entries>>
    ELSE /\ bound' = [m \in DOMAIN bound \cup {n} |-> IF m = n THEN FreshId ELSE bound[m]]
         /\ entries' = entries + 1

\* DedicatedServer::send: the send window takes the packet or refuses it, and
\* nobody looks which.
Send(n) ==
  /\ sent < MaxSent
  /\ sent' = sent + 1
  /\ Bind(n)
  /\ \/ wire' = Append(wire, Interned(n)) /\ UNCHANGED disturbed
     \/ disturbed' = TRUE /\ UNCHANGED wire
  /\ UNCHANGED <<clientVars, session>>

-----------------------------------------------------------------------------
(* The client. *)

\* StringTable::lookup: an empty entry reads as missing.
Entry(table, id) == IF id + 1 \in DOMAIN table THEN table[id + 1] ELSE Empty
Lookup(id) == Entry(by_id, id)

\* Mutant of EndingWith: a new table, with nothing before the entry.
EndingWithOnly(id, n) == [i \in 1 .. id + 1 |-> IF i = id + 1 THEN n ELSE Empty]

\* The table cut or filled up to end with the given entry: Vec::resize, then
\* the assignment.
EndingWith(id, n) ==
  [i \in 1 .. id + 1 |-> IF i = id + 1 THEN n ELSE Lookup(i - 1)]

\* CachedString::resolve.
Resolve(p) ==
  /\ by_id' = IF p.inline /\ Lookup(p.id) = Empty THEN EndingWith(p.id, p.name) ELSE by_id
  /\ shown' = [id |-> p.id, meant |-> p.name, seen |-> IF p.inline THEN p.name ELSE Lookup(p.id)]

Without(i) == [j \in 1 .. Len(wire) - 1 |-> IF j < i THEN wire[j] ELSE wire[j + 1]]

\* The packet at place i reaches apply_packet; it may come again.
Receive(i) ==
  /\ Resolve(wire[i])
  /\ \/ wire' = Without(i) /\ disturbed' = (disturbed \/ i # 1)
     \/ UNCHANGED wire /\ disturbed' = TRUE
  /\ UNCHANGED <<serverVars, inherited>>

Lose(i) ==
  /\ wire' = Without(i)
  /\ disturbed' = TRUE
  /\ UNCHANGED <<serverVars, clientVars>>

\* Game::connect and handle_auth: a new socket, a new session and its empty
\* table; nothing resets the client's registry.
Reconnect ==
  /\ session < MaxSessions
  /\ session' = session + 1
  /\ bound' = [n \in {} |-> 0]
  /\ entries' = 0
  /\ sent' = 0
  /\ wire' = <<>>
  /\ inherited' = by_id
  /\ shown' = NothingShown
  /\ UNCHANGED <<by_id, disturbed>>

-----------------------------------------------------------------------------
CacheNext ==
  \/ \E n \in Names : Send(n)
  \/ \E i \in DOMAIN wire : Receive(i) \/ Lose(i)
  \/ Reconnect

CacheSpec == CacheInit /\ [][CacheNext]_cacheVars

-----------------------------------------------------------------------------
(* Properties. *)

\* The types of the variables.
CacheTypeOK ==
  /\ DOMAIN bound \subseteq Names
  /\ bound \in [DOMAIN bound -> NameIds]
  /\ entries \in Nat
  /\ by_id \in Seq(Names)
  /\ wire \in Seq(Packets)
  /\ inherited \in Seq(Names)
  /\ shown \in [id : NameIds, meant : Names, seen : Names]
  /\ sent \in 0 .. MaxSent
  /\ session \in 1 .. MaxSessions
  /\ disturbed \in BOOLEAN

\* What the client shows is the name the server meant, or nothing, or a name
\* that an earlier connection left under the id: within a connection no
\* refused, lost, repeated or late packet makes a name stand for another.
NeverWrongName == shown.seen \in {shown.meant, Empty, Entry(inherited, shown.id)}

\* On a quiet network every name is shown, unless an earlier connection left
\* one under its id: an id goes out alone only after the packet with its name.
NamesAreShown ==
  ~ disturbed =>
    \/ shown.seen = shown.meant
    \/ Entry(inherited, shown.id) # Empty /\ shown.seen = Entry(inherited, shown.id)
=============================================================================
