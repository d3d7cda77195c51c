----------------------------- MODULE GameModes -----------------------------
(***************************************************************************)
(* The two game modes the server ships with, loaded side by side: freeroam *)
(* (a friendly-fire switch, commands for the clock and the weather) and    *)
(* shared-quest (every NPC kill counts towards one quest of the server).   *)
(* Each keeps a table of the players it was told of, of a fixed size, and  *)
(* decides by it who is a player; what the server tells a mode, and when,  *)
(* is the other half of the model.                                         *)
(*                                                                         *)
(* A module is asked or told in the middle of the handling of a packet, so *)
(* a packet and what the modes make of it are one step.  The chat lines a  *)
(* mode sends are taken as delivered (module ScriptHost is about that).    *)
(***************************************************************************)
EXTENDS Integers, Sequences, SequencesExt, FiniteSetsExt

CONSTANTS
  Addrs,        \* addresses
  Npcs,         \* actors of the world that are no players
  Slots,        \* length of a mode's table of players
  Targets,      \* kills each stage of the quest takes
  Connections,  \* the most sessions the server admits
  NameLengths,  \* lengths of the names players come with
  Arguments,    \* what follows a command: digits, and Other for another character
  Other,
  MaxLost,      \* bound: players in the world at a time whose session was dropped
  MaxPlayers,   \* bound: players admitted in one behaviour
  MaxKills      \* bound: kills credited between two resets

\* What the constants must satisfy.
ASSUME GameModesAssumption ==
  /\ Slots \in Nat \ {0}
  /\ Targets \in Seq(Nat \ {0}) /\ Targets # <<>>
  /\ Npcs \cap Nat = {}
  /\ Other \notin 0 .. 9 /\ Arguments \subseteq Seq((0 .. 9) \cup {Other})
  /\ Connections \in Nat /\ MaxLost \in Nat
  /\ MaxPlayers \in Nat /\ MaxKills \in Nat

VARIABLES
  player,    \* the player of each address, 0 without a session
  lastId,    \* the last id given to a player
  present,   \* the players the registry holds
  dead,      \* the actors the server takes for dead
  serverPvp, \* the server's own setting
  freeroam,  \* freeroam's table of players
  freeroamPvp, \* freeroam's switch
  hour,      \* the clock of the world, set by freeroam
  questers,  \* shared-quest's table of players
  stage, kills,
  told,      \* the progress each address was last told of
  hurt,      \* players that were hit by a player since they came
  credit     \* history: NPCs that died of hits since the quest was last reset

net == <<player, lastId, present>>
freeroamVars == <<freeroam, freeroamPvp, hour>>
quest == <<questers, stage, kills>>
modesVars == <<net, dead, serverPvp, freeroamVars, quest, told, hurt, credit>>

Free == 0
Nothing == <<0, 0>>

Players == 1 .. MaxPlayers
InGame == {player[c] : c \in Addrs} \ {Free}

(***************************************************************************)
(* A table of players: the first free slot takes a new one, and one that   *)
(* finds no slot is not kept.                                              *)
(***************************************************************************)
Has(table, id) == \E s \in 1 .. Slots : table[s] = id

First(table, id) == CHOOSE s \in 1 .. Slots : table[s] = id /\ \A t \in 1 .. s - 1 : table[t] # id

\* Mutant of Register: a new player takes the first slot, free or not.
RegisterOver(table, id) == [table EXCEPT ![1] = id]

Register(table, id) ==
  IF Has(table, Free) THEN [table EXCEPT ![First(table, Free)] = id] ELSE table

Unregister(table, id) ==
  IF Has(table, id) THEN [table EXCEPT ![First(table, id)] = Free] ELSE table

(***************************************************************************)
(* Players come and go.                                                    *)
(***************************************************************************)
CanLose == Cardinality(present \ InGame) < MaxLost

FreeroamSpawn(id) == freeroam' = Register(freeroam, id)

\* shared-quest tells a new player how far the quest has come.
QuestSpawn(c, id) ==
  /\ questers' = Register(questers, id)
  /\ told' = [told EXCEPT ![c] = <<stage, kills>>]

\* Both modes turn away an empty name and a long one.
Admits(length) == length > 0 /\ length <= 16

\* The modes vote on the name; then the player is in the world and in their
\* tables before its session replaces the one its address may have, which is
\* dropped unheard.
Join(c, length) ==
  /\ Admits(length)
  /\ lastId < MaxPlayers
  /\ Cardinality(InGame) < Connections
  /\ player[c] = Free \/ CanLose
  /\ LET id == lastId + 1 IN
       /\ lastId' = id
       /\ present' = present \cup {id}
       /\ player' = [player EXCEPT ![c] = id]
       /\ FreeroamSpawn(id)
       /\ QuestSpawn(c, id)
  /\ UNCHANGED <<dead, serverPvp, freeroamPvp, hour, stage, kills, hurt, credit>>

Leave(c) ==
  /\ player[c] # Free
  /\ freeroam' = Unregister(freeroam, player[c])
  /\ questers' = Unregister(questers, player[c])
  /\ present' = present \ {player[c]}
  /\ player' = [player EXCEPT ![c] = Free]
  /\ dead' = dead \ {player[c]}
  /\ hurt' = hurt \ {player[c]}
  /\ told' = [told EXCEPT ![c] = Nothing]
  /\ UNCHANGED <<lastId, serverPvp, freeroamPvp, hour, stage, kills, credit>>

\* A stale session is dropped and nobody is told: its player stays in the
\* world and in the tables.
Cull(c) ==
  /\ CanLose
  /\ player[c] # Free
  /\ player' = [player EXCEPT ![c] = Free]
  /\ told' = [told EXCEPT ![c] = Nothing]
  /\ UNCHANGED <<lastId, present, dead, serverPvp, freeroamVars, quest, hurt, credit>>

(***************************************************************************)
(* Commands.  A line of chat is offered to the modes in turn; the first to *)
(* consume it keeps it from the others, and no two share a command.        *)
(***************************************************************************)
\* The number at the head of an argument, of four characters at the most, and
\* zero if it starts with another character; a byte cannot exceed 255.
ParseByte(arg) ==
  LET digits == {n \in 0 .. Len(arg) : n <= 4 /\ \A i \in 1 .. n : arg[i] # Other}
      head == SubSeq(arg, 1, CHOOSE n \in digits : \A m \in digits : m <= n)
      value == FoldLeft(LAMBDA v, d : v * 10 + d, 0, head)
  IN IF value < 255 THEN value ELSE 255

TogglePvp(c) ==
  /\ player[c] # Free
  /\ freeroamPvp' = ~freeroamPvp
  /\ UNCHANGED <<net, dead, serverPvp, freeroam, hour, quest, told, hurt, credit>>

SetTime(c, arg) ==
  /\ player[c] # Free
  /\ hour' = IF ParseByte(arg) <= 23 THEN ParseByte(arg) ELSE hour
  /\ UNCHANGED <<net, dead, serverPvp, freeroam, freeroamPvp, quest, told, hurt, credit>>

\* A line that only speaks: !resurrect revives no player, for the server
\* revives actors, !weather and !quest change nothing modelled here.
AskProgress(c) ==
  /\ player[c] # Free
  /\ told' = [told EXCEPT ![c] = <<stage, kills>>]
  /\ UNCHANGED <<net, dead, serverPvp, freeroamVars, quest, hurt, credit>>

\* What shared-quest sends to its table reaches the addresses of the players
\* in it.
Announce(progress) ==
  told' = [c \in Addrs |->
    IF player[c] # Free /\ Has(questers, player[c]) THEN progress ELSE told[c]]

ResetQuest(c) ==
  /\ player[c] # Free
  /\ stage' = 0
  /\ kills' = 0
  /\ credit' = 0
  /\ Announce(<<0, 0>>)
  /\ UNCHANGED <<net, dead, serverPvp, freeroamVars, questers, hurt>>

(***************************************************************************)
(* Hits and deaths.                                                        *)
(***************************************************************************)
\* With the switch off freeroam lets a player hit whoever is no player.
FreeroamAllows(target, attacker) ==
  freeroamPvp \/ ~Has(freeroam, target) \/ ~Has(freeroam, attacker)

\* The server's own setting.
ServerAllows(target) == serverPvp \/ target \notin Nat

\* The modes are asked first: a hit they block is not resolved.
HitGate(c, target) == FreeroamAllows(target, player[c]) /\ ServerAllows(target)

\* Mutant of Progress: a stage takes one kill too many.
ProgressLate ==
  IF kills < Targets[stage + 1] THEN <<stage, kills + 1>>
  ELSE IF stage + 1 < Len(Targets) THEN <<stage + 1, 0>>
  ELSE <<0, 0>>

\* The stage and the kills of it after one more kill: the next stage starts
\* when this one has its kills, and the first one after the last.
Progress ==
  IF kills + 1 < Targets[stage + 1] THEN <<stage, kills + 1>>
  ELSE IF stage + 1 < Len(Targets) THEN <<stage + 1, 0>>
  ELSE <<0, 0>>

\* Mutant of QuestDeath: progress is announced once a stage is done.
QuestDeathQuiet(actor) ==
  IF Has(questers, actor)
  THEN UNCHANGED <<stage, kills, told>>
  ELSE /\ stage' = Progress[1]
       /\ kills' = Progress[2]
       /\ IF Progress[2] = 0 THEN Announce(Progress) ELSE UNCHANGED told

\* shared-quest hears of a death: a player's is not counted.
QuestDeath(actor) ==
  IF Has(questers, actor)
  THEN UNCHANGED <<stage, kills, told>>
  ELSE /\ stage' = Progress[1]
       /\ kills' = Progress[2]
       /\ Announce(Progress)

\* The player of c hits an actor.  What the hit takes from the target's health
\* is left out (module WorldRelay has it): it kills or it does not.  Of the
\* deaths only those of hits are made known to the modes.
PlayerHits(c, target, fatal) ==
  /\ player[c] # Free
  /\ target \in (present \cup Npcs) \ dead
  /\ credit < MaxKills
  /\ HitGate(c, target)
  /\ hurt' = IF target \in Nat THEN hurt \cup {target} ELSE hurt
  /\ IF fatal
     THEN /\ dead' = dead \cup {target}
          /\ QuestDeath(target)
          /\ credit' = IF target \in Nat THEN credit ELSE credit + 1
     ELSE UNCHANGED <<dead, stage, kills, told, credit>>
  /\ UNCHANGED <<net, serverPvp, freeroamVars, questers>>

\* The client that simulates an actor reports its death or its revival: the
\* server notes it, the modes hear nothing.
ActorDead(actor, b) ==
  /\ actor \in InGame \cup Npcs
  /\ dead' = IF b THEN dead \cup {actor} ELSE dead \ {actor}
  /\ UNCHANGED <<net, serverPvp, freeroamVars, quest, told, hurt, credit>>

(***************************************************************************)
(* The specification.                                                      *)
(***************************************************************************)
\* The modes start with the server, before anybody is there to be told.
ModesInit ==
  /\ player = [c \in Addrs |-> Free]
  /\ lastId = 0
  /\ present = {}
  /\ dead = {}
  /\ serverPvp \in BOOLEAN
  /\ freeroam = [s \in 1 .. Slots |-> Free]
  /\ freeroamPvp = FALSE
  /\ hour = 9
  /\ questers = [s \in 1 .. Slots |-> Free]
  /\ stage = 0
  /\ kills = 0
  /\ told = [c \in Addrs |-> Nothing]
  /\ hurt = {}
  /\ credit = 0

Chat(c) ==
  \/ TogglePvp(c) \/ AskProgress(c) \/ ResetQuest(c)
  \/ \E arg \in Arguments : SetTime(c, arg)

ModesNext ==
  \/ \E c \in Addrs, length \in NameLengths : Join(c, length)
  \/ \E c \in Addrs : Leave(c) \/ Cull(c) \/ Chat(c)
  \/ \E c \in Addrs, target \in Players \cup Npcs,
       fatal \in BOOLEAN : PlayerHits(c, target, fatal)
  \/ \E actor \in Players \cup Npcs, b \in BOOLEAN : ActorDead(actor, b)

ModesSpec == ModesInit /\ [][ModesNext]_modesVars

(***************************************************************************)
(* Properties.                                                             *)
(***************************************************************************)
ModesTypeOK ==
  /\ player \in [Addrs -> 0 .. MaxPlayers]
  /\ lastId \in 0 .. MaxPlayers
  /\ present \subseteq 1 .. lastId
  /\ dead \subseteq present \cup Npcs
  /\ hurt \subseteq present
  /\ serverPvp \in BOOLEAN /\ freeroamPvp \in BOOLEAN
  /\ freeroam \in [1 .. Slots -> 0 .. lastId]
  /\ questers \in [1 .. Slots -> 0 .. lastId]
  /\ hour \in 0 .. 23
  /\ stage \in 0 .. Len(Targets) - 1
  /\ kills \in 0 .. Targets[stage + 1] - 1
  /\ told \in [Addrs -> (0 .. Len(Targets) - 1) \X Nat]
  /\ credit \in 0 .. MaxKills
  /\ InGame \subseteq present

\* While freeroam's switch is off no player in the game is hit by a player.
FriendlyFire == \E id \in InGame : id \in hurt' \ hurt
FriendlyFireBlocked == [][~ freeroamPvp => ~ FriendlyFire]_modesVars

\* The progress of the quest is the number of NPCs the players have killed
\* since it was reset: none is counted twice, and no player is counted.
AllKills == FoldLeft(LAMBDA a, b : a + b, 0, Targets)
Before(s) == FoldLeft(LAMBDA a, b : a + b, 0, SubSeq(Targets, 1, s))
ProgressIsKills == Before(stage) + kills = credit % AllKills

\* Every player in the game was last told the progress as it is now, whoever
\* made it and whoever reset it.
ProgressIsKnown == \A c \in Addrs : player[c] # Free => told[c] = <<stage, kills>>
=============================================================================
