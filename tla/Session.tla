------------------------------- MODULE Session -------------------------------
(***************************************************************************)
(* How a client gets a session on the server, keeps it and loses it: the   *)
(* reliable channels of NetworkManager, the session map of DedicatedServer *)
(* and the copies the network makes of what a client sent.                 *)
(*                                                                         *)
(* Frame 0 of a client is its GameAuth, frame 1 its GameModList, every     *)
(* later one is play.  A frame once sent may arrive at any time, in any    *)
(* order and more than once, also after the client is gone or the server   *)
(* has removed the session; or it may never arrive.  Unreliable positions  *)
(* carry no number.  Acknowledgements of a client change no session and    *)
(* are left out.  Fewer frames are sent than there are sequence numbers.   *)
(***************************************************************************)
EXTENDS Integers, FiniteSets, FiniteSetsExt

CONSTANTS
  Addrs,          \* client addresses: each is one connection of one client
  WrongMods,      \* the clients whose load order is not the server's
  None,           \* no channel, no session
  Connections,    \* config.server.connections
  RecvWindow,     \* RECV_WINDOW
  Patience,       \* the ticks in 30 seconds
  MaxFrames,      \* bound: frames a client sends
  MaxArrivals     \* bound: datagrams that arrive

\* take is the front of the ready queue, next the number waited for (recv_seq),
\* and held what recv_buffer holds.
Channel == [take : Nat, next : Nat, held : SUBSET Nat]

\* quiet counts the ticks since last_recv; checked is mods_verified, and played
\* whether play was handled.
Record == [player : Nat, quiet : Nat, checked : BOOLEAN, played : BOOLEAN]

ASSUME SessionAssumption ==
  /\ IsFiniteSet(Addrs) /\ WrongMods \subseteq Addrs
  /\ {Connections, Patience, MaxArrivals} \subseteq Nat
  /\ RecvWindow \in Nat \ {0}
  /\ MaxFrames \in Nat \ {0, 1}
  /\ None \notin Channel /\ None \notin Record

VARIABLES
  sent,       \* how many frames each client has sent
  gone,       \* the clients whose process has ended
  arrivals,   \* how many datagrams have arrived
  channels,   \* the receiving half of each ReliableChannel, or None
  sessions,   \* the Session of each address, or None
  players,    \* the player objects in the registry
  next_id     \* the next player id

sessionVars == <<sent, gone, arrivals, channels, sessions, players, next_id>>

Frames == 0 .. MaxFrames - 1

Fresh == [take |-> 0, next |-> 0, held |-> {}]

Live == {a \in Addrs : sessions[a] # None}

SessionInit ==
  /\ sent = [a \in Addrs |-> 0]
  /\ gone = {}
  /\ arrivals = 0
  /\ channels = [a \in Addrs |-> None]
  /\ sessions = [a \in Addrs |-> None]
  /\ players = {}
  /\ next_id = 1

-----------------------------------------------------------------------------
(* The clients. *)

\* authenticate sends the first two frames; play follows.  No frame is sent twice.
ClientSend(a) ==
  /\ a \notin gone
  /\ sent[a] < MaxFrames
  /\ sent' = [sent EXCEPT ![a] = @ + (IF @ = 0 THEN 2 ELSE 1)]
  /\ UNCHANGED <<gone, arrivals, channels, sessions, players, next_id>>

\* The process ends: closed or crashed.  No client says goodbye.
ClientQuit(a) ==
  /\ sent[a] > 0
  /\ a \notin gone
  /\ gone' = gone \cup {a}
  /\ UNCHANGED <<sent, arrivals, channels, sessions, players, next_id>>

-----------------------------------------------------------------------------
(* The reliable channel of an address. *)

\* Mutants of Recv: a number already seen is taken again, and a packet ahead of
\* its turn is handed over.
RecvAgain(c, n) ==
  IF n < c.next THEN [c EXCEPT !.take = n, !.next = n + 1] ELSE
  IF n = c.next THEN [c EXCEPT !.next = n + 1, !.held = {}] ELSE c
RecvAhead(c, n) == IF n >= c.next THEN [c EXCEPT !.take = n, !.next = n + 1] ELSE c

\* ReliableChannel::recv: the number waited for and the run held behind it become
\* ready; a number ahead within the window is held; every other one is dropped.
Recv(c, n) ==
  IF n = c.next
  THEN LET end == Min({m \in n + 1 .. MaxFrames : m \notin c.held})
       IN  [c EXCEPT !.next = end, !.held = {m \in @ : m > end}]
  ELSE [c EXCEPT !.held = IF n \in c.next + 1 .. c.next + RecvWindow - 1
                          THEN @ \cup {n} ELSE @]

\* First contact registers the channel.
ChannelOf(a) == IF channels[a] = None THEN Fresh ELSE channels[a]

-----------------------------------------------------------------------------
(* The server. *)

\* Mutant of Ended: the sweep removes the channel and forgets the map itself.
EndedChannels(map, left, culled) ==
  /\ sessions' = [a \in Addrs |-> IF a \in left THEN None ELSE map[a]]
  /\ channels' = [a \in Addrs |-> IF a \in left \cup culled THEN None ELSE channels[a]]
  /\ players' = players \ {sessions[a].player : a \in left}

\* What is left of the session map: disconnect removes a session with its player
\* object and its channel; a culled session loses only the channel.
Ended(map, left, culled) ==
  /\ sessions' = [a \in Addrs |-> IF a \in left \cup culled THEN None ELSE map[a]]
  /\ channels' = [a \in Addrs |-> IF a \in left \cup culled THEN None ELSE channels[a]]
  /\ players' = players \ {sessions[a].player : a \in left}

\* handle_auth: refused when the server is full, by a script's vote, or for the
\* name or version; otherwise a new player, whatever the map holds at the address.
HandleAuth(a) ==
  \/ UNCHANGED <<sessions, players, next_id>>
  \/ /\ Cardinality(Live) < Connections
     /\ sessions' = [sessions EXCEPT ![a] =
                       [player |-> next_id, quiet |-> 0, checked |-> FALSE, played |-> FALSE]]
     /\ players' = players \cup {next_id}
     /\ next_id' = next_id + 1

\* dispatch of a packet to the session of its address, if there is one: the mod
\* list is judged, play is play.
Dispatch(a, n) ==
  /\ a \in Live
  /\ sessions' = [sessions EXCEPT ![a].quiet = 0,
                                  ![a].checked = @ \/ n = 1,
                                  ![a].played = @ \/ n > 1]
  /\ UNCHANGED <<players, next_id>>

\* handle_recv of a frame that makes nothing ready.
Hold(a, n) ==
  LET c == Recv(ChannelOf(a), n) IN
  /\ c.take = c.next
  /\ channels' = [channels EXCEPT ![a] = c]
  /\ UNCHANGED <<sessions, players, next_id>>

\* handle_recv of a frame after which a packet is ready: that one is handled.
Handle(a, n) ==
  LET c == Recv(ChannelOf(a), n)
      p == c.take
      kept == channels' = [channels EXCEPT ![a] = [c EXCEPT !.take = p + 1]]
  IN
  /\ p < c.next
  /\ \/ p = 0 /\ kept /\ HandleAuth(a)
     \/ p = 1 /\ a \in WrongMods /\ a \in Live /\ Ended(sessions, {a}, {}) /\ UNCHANGED next_id
     \/ p > 0 /\ (p = 1 => a \notin WrongMods) /\ kept /\ Dispatch(a, p)
     \/ p > 0 /\ a \notin Live /\ kept /\ UNCHANGED <<sessions, players, next_id>>

\* A datagram arrives.
Arrive ==
  /\ arrivals < MaxArrivals
  /\ arrivals' = arrivals + 1
  /\ UNCHANGED <<sent, gone>>

FrameArrives(a) == Arrive /\ \E n \in 0 .. sent[a] - 1 : Hold(a, n) \/ Handle(a, n)

\* An unreliable UpdatePos needs no channel and waits for nothing.
PositionArrives(a) ==
  /\ sent[a] > 0
  /\ Arrive
  /\ a \in Live
  /\ sessions' = [sessions EXCEPT ![a].quiet = 0]
  /\ UNCHANGED <<channels, players, next_id>>

\* Mutant of Aged: the silence counted stops at the limit it is compared with.
AgedShort(s) == [s EXCEPT !.quiet = IF @ < Patience THEN @ + 1 ELSE @]

\* A tick's worth of silence.
Aged(s) == [s EXCEPT !.quiet = @ + 1]

\* tick: scripts kick players; then the sessions silent for more than 30 seconds
\* are culled.
Tick(kicked) ==
  LET aged  == [a \in Addrs |-> IF a \in Live THEN Aged(sessions[a]) ELSE None]
      stale == {a \in Live \ kicked : aged[a].quiet > Patience}
  IN
  /\ Ended(aged, kicked, stale)
  /\ UNCHANGED <<sent, gone, arrivals, next_id>>

SessionNext ==
  \/ \E a \in Addrs : ClientSend(a) \/ ClientQuit(a) \/ FrameArrives(a) \/ PositionArrives(a)
  \/ \E kicked \in SUBSET Live : Tick(kicked)

SessionSpec == SessionInit /\ [][SessionNext]_sessionVars

\* The loop of run waits for its interval and ticks.
FairSessionSpec == SessionSpec /\ WF_sessionVars(Tick({}))

-----------------------------------------------------------------------------
(* Properties. *)

\* The types of the variables; a channel holds numbers of its window only.
SessionTypeOK ==
  /\ sent \in [Addrs -> 0 .. MaxFrames]
  /\ gone \subseteq Addrs
  /\ arrivals \in 0 .. MaxArrivals
  /\ channels \in [Addrs -> Channel \cup {None}]
  /\ \A a \in Addrs : channels[a] # None =>
       channels[a].held \subseteq
         Frames \cap channels[a].next + 1 .. channels[a].next + RecvWindow - 1
  /\ sessions \in [Addrs -> Record \cup {None}]
  /\ players \subseteq Nat
  /\ next_id \in Nat

\* Every session has a channel that is past its GameAuth, and a registered player
\* that is no other session's, whatever copies arrive after a kick or a cull.
SessionsAreWhole ==
  /\ \A a \in Live : channels[a] # None /\ channels[a].take > 0
  /\ \A a \in Live : sessions[a].player \in players
  /\ \A a, b \in Live : sessions[a].player = sessions[b].player => a = b

\* A copy of GameAuth never replaces a session that lives: its player stays the
\* same until the session ends.
NeverReplaced ==
  [][\A a \in Live : sessions'[a] # None => sessions'[a].player = sessions[a].player]_sessionVars

\* No numbered play packet is handled in a session before its mod list was
\* accepted, not even in a session that late copies brought about.
PlayIsChecked == \A a \in Live : sessions[a].played => sessions[a].checked /\ a \notin WrongMods

\* When a client is gone its session ends, also one a late copy of its GameAuth
\* made: no ghost holds one of the connections for ever.
SilentAreCulled == \A a \in Addrs : []<>(a \in gone => a \notin Live)
=============================================================================
