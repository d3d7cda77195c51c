------------------------------ MODULE WorldSync ------------------------------
(***************************************************************************)
(* How the dedicated server keeps its clients agreed on a world value: the *)
(* weather, a quest's stage, a global variable, the game clock             *)
(* (dedicated.rs).  A newcomer is sent the values in force, a client's     *)
(* change is relayed to the others, and every tick broadcasts what differs *)
(* from what was sent last.  The values do not depend on one another, so a *)
(* behaviour follows one of them: topic.  A connection is FIFO here        *)
(* (Uplink and Downlink are about that); it does refuse a packet when its  *)
(* send window is full, and the server ignores the refusal.                *)
(***************************************************************************)
EXTENDS Integers, Sequences, SequencesExt

CONSTANTS
  Clients,      \* addresses a player may connect from
  Values,       \* the values of the topic
  NoValue,      \* no such entry: an unset quest or global, no clock sent yet
  Window,       \* packets a connection holds before it refuses one
  MaxChanges,   \* bound: how often the value is assigned
  MaxJoins,     \* bound: how many connections are accepted
  MaxUp         \* bound: changes a client has under way

ASSUME NoValueAssumption == NoValue \notin Values
ASSUME WindowAssumption == Window \in Nat \ {0}

VARIABLES
  topic,      \* the value this behaviour is about
  val,        \* the server's value (weather, quests, globals, game_time)
  last,       \* what the last tick sent (last_weather, last_quest_stages, ...)
  sessions,   \* the clients in game
  down,       \* what is on its way to each client
  up,         \* the changes each client has on their way to the server
  heard,      \* the last value each client has seen
  refused,    \* history: the newest packet for the client was refused
  since,      \* history: values in force since the last broadcast
  changes, joins

vars == <<topic, val, last, sessions, down, up, heard, refused, since,
          changes, joins>>

Topics == {"weather", "stage", "global", "clock"}

\* Mutant of Synced: quest stages are left to the relay.
SyncedWithoutQuests == {"weather", "clock"}

\* The topics a tick compares with what it sent last.
Synced == {"weather", "stage", "clock"}

\* The topics a client may change with a packet of its own.
ClientSettable == {"weather", "stage", "global"}

\* What the next packet for each of cs finds: room, or a refusal.
Broadcast(cs, v) ==
  LET room == {c \in cs : Len(down[c]) < Window}
  IN  /\ down' = [c \in Clients |->
                    IF c \in room THEN Append(down[c], v) ELSE down[c]]
      /\ refused' = [c \in Clients |->
                       IF c \in cs THEN c \notin room ELSE refused[c]]

Assign(v) ==
  /\ changes < MaxChanges
  /\ changes' = changes + 1
  /\ val' = v
  /\ since' = since \cup {v}

Init ==
  /\ topic \in Topics
  /\ val \in IF topic \in {"weather", "clock"} THEN Values ELSE {NoValue}
  /\ last = IF topic = "weather" THEN val ELSE NoValue
  /\ sessions = {}
  /\ down = [c \in Clients |-> <<>>]
  /\ up = [c \in Clients |-> <<>>]
  /\ heard = [c \in Clients |-> NoValue]
  /\ refused = [c \in Clients |-> FALSE]
  /\ since = {val}
  /\ changes = 0
  /\ joins = 0

\* A callback of a script stores a value: set_game_weather, set_game_time,
\* set_quest_stage; nothing is sent before the next tick.  No host function
\* stores a global.
ScriptSets(v) ==
  /\ topic \in Synced
  /\ Assign(v)
  /\ UNCHANGED <<topic, last, sessions, down, up, heard, refused, joins>>

\* A client changes the value in its own game and reports it.
ClientChanges(c, v) ==
  /\ topic \in ClientSettable
  /\ c \in sessions
  /\ Len(up[c]) < MaxUp
  /\ heard' = [heard EXCEPT ![c] = v]
  /\ up' = [up EXCEPT ![c] = Append(@, v)]
  /\ UNCHANGED <<topic, val, last, sessions, down, refused, since, changes,
                 joins>>

\* The report is dispatched: stored, then relayed to everybody else.
HandleChange(c) ==
  /\ up[c] # <<>>
  /\ Assign(Head(up[c]))
  /\ up' = [up EXCEPT ![c] = Tail(@)]
  /\ Broadcast(sessions \ {c}, Head(up[c]))
  /\ UNCHANGED <<topic, last, sessions, heard, joins>>

\* A tick finds the value it sent last.
TickQuiet ==
  /\ topic \notin Synced \/ val = last
  /\ UNCHANGED vars

\* A tick finds another value: it notes it as sent, then sends it to all.
TickSync ==
  /\ topic \in Synced
  /\ val # last
  /\ last' = val
  /\ Broadcast(sessions, val)
  /\ since' = {val}
  /\ UNCHANGED <<topic, val, sessions, up, heard, changes, joins>>

\* A tick in which a game hour fills up: the clock moves first, and is then
\* compared and sent within the same tick.
TickHour(v) ==
  /\ topic = "clock"
  /\ changes < MaxChanges
  /\ changes' = changes + 1
  /\ v # val
  /\ val' = v
  /\ last' = v
  /\ IF v = last
       THEN since' = since \cup {v} /\ UNCHANGED <<down, refused>>
       ELSE since' = {v} /\ Broadcast(sessions, v)
  /\ UNCHANGED <<topic, sessions, up, heard, joins>>

\* Mutant of Join: the newcomer is sent what the last tick sent.
JoinWithLast(c) ==
  /\ joins < MaxJoins
  /\ c \notin sessions
  /\ joins' = joins + 1
  /\ sessions' = sessions \cup {c}
  /\ down' = [down EXCEPT ![c] = IF last = NoValue THEN <<>> ELSE <<last>>]
  /\ heard' = [heard EXCEPT ![c] = NoValue]
  /\ refused' = [refused EXCEPT ![c] = FALSE]
  /\ UNCHANGED <<topic, val, last, up, since, changes>>

\* GameAuth is accepted: the newcomer is sent the value, if there is one.
Join(c) ==
  /\ joins < MaxJoins
  /\ c \notin sessions
  /\ joins' = joins + 1
  /\ sessions' = sessions \cup {c}
  /\ down' = [down EXCEPT ![c] = IF val = NoValue THEN <<>> ELSE <<val>>]
  /\ heard' = [heard EXCEPT ![c] = NoValue]
  /\ refused' = [refused EXCEPT ![c] = FALSE]
  /\ UNCHANGED <<topic, val, last, up, since, changes>>

\* GameEnd, a kick or the cull: the session and its channels are removed.
Leave(c) ==
  /\ c \in sessions
  /\ sessions' = sessions \ {c}
  /\ down' = [down EXCEPT ![c] = <<>>]
  /\ up' = [up EXCEPT ![c] = <<>>]
  /\ UNCHANGED <<topic, val, last, heard, refused, since, changes, joins>>

ClientHears(c) ==
  /\ down[c] # <<>>
  /\ heard' = [heard EXCEPT ![c] = Head(down[c])]
  /\ down' = [down EXCEPT ![c] = Tail(@)]
  /\ UNCHANGED <<topic, val, last, sessions, up, refused, since, changes,
                 joins>>

Next ==
  \/ \E v \in Values : ScriptSets(v)
  \/ \E c \in Clients, v \in Values : ClientChanges(c, v)
  \/ \E c \in Clients : HandleChange(c)
  \/ TickQuiet
  \/ TickSync
  \/ \E v \in Values : TickHour(v)
  \/ \E c \in Clients : Join(c)
  \/ \E c \in Clients : Leave(c)
  \/ \E c \in Clients : ClientHears(c)

Spec == Init /\ [][Next]_vars

\* The interval timer fires for ever and the sockets are read for ever.
Fairness ==
  /\ WF_vars(TickSync)
  /\ \A c \in Clients : WF_vars(HandleChange(c)) /\ WF_vars(ClientHears(c))

FairSpec == Spec /\ Fairness
-----------------------------------------------------------------------------
TypeOK ==
  /\ topic \in Topics
  /\ val \in Values \cup {NoValue}
  /\ last \in Values \cup {NoValue}
  /\ sessions \subseteq Clients
  /\ down \in [Clients -> Seq(Values)]
  /\ up \in [Clients -> Seq(Values)]
  /\ heard \in [Clients -> Values \cup {NoValue}]
  /\ refused \in [Clients -> BOOLEAN]
  /\ since \subseteq Values \cup {NoValue}
  /\ changes \in Nat
  /\ joins \in Nat

\* What a client will show once it has read everything sent to it.
Latest(c) == IF down[c] = <<>> THEN heard[c] ELSE down[c][Len(down[c])]

\* A client is never more than one broadcast behind: once its own changes
\* have been handled, and unless its window refused the newest packet, what
\* it ends up showing has been in force since the last broadcast - however
\* joins, relays, its own changes and the ticks cross one another.
HeardIsRecent ==
  \A c \in sessions :
    up[c] # <<>> \/ refused[c] \/ Latest(c) \in since

\* The value went to another one and back between two broadcasts: no tick
\* ever sees a difference.
Reverted == val = last /\ since # {val}

Agreed == \A c \in sessions : heard[c] = val

\* When the changes stop, every client whose window had room ends up with
\* the server's value, for each topic the ticks compare, unless the value
\* was set away and back between two ticks.
EventuallyAgreed ==
  topic \in {"weather", "stage", "clock"} =>
    <>[](\/ Agreed
         \/ Reverted
         \/ \E c \in sessions : refused[c]
         \/ changes = MaxChanges /\ \E c \in sessions : up[c] # <<>>)

\* dedicated.rs:331-332 says of the tick's sync that it broadcasts the
\* "server-authored world-state deltas" and "Catches script-driven changes
\* between ticks": once a tick has nothing to send and nothing is on its
\* way, a client that was refused nothing shows the server's value.
QuietMeansAgreed ==
  topic = "weather" /\ val = last =>
    \A c \in sessions : down[c] = <<>> /\ up[c] = <<>> /\ ~refused[c]
                          => heard[c] = val
=============================================================================
