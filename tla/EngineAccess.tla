---------------------------- MODULE EngineAccess ----------------------------
(***************************************************************************)
(* How what the server says of a remote entity reaches the running game.   *)
(* The client turns packets into commands, the bridge checks that a        *)
(* command has the parameters it needs and then writes the engine's object *)
(* word by word, or calls the engine, on its connection thread, while the  *)
(* game thread runs the engine on the same memory.  The game is Fallout 3  *)
(* in one of two builds, which share the layout of an object and differ in *)
(* the engine's routines.  The bridge has branches for New Vegas, too, and *)
(* takes none of them: nothing ever sets the engine that is_fnv asks for.  *)
(*                                                                         *)
(* A float is the natural number of its bit pattern; an address is its     *)
(* offset in the object.                                                   *)
(***************************************************************************)
EXTENDS Integers, Sequences

CONSTANTS
  Builds,      \* those looked at: a subset of {"gog", "steam"}
  Ids, Local,  \* entities the server names, the player's own among them
  Points,      \* positions and angles, as words
  Scales, Cells,   \* bit patterns of scales, numbers of cells
  MaxPackets, MaxEngine   \* bounds

\* What the constants must satisfy.
EngineAssumption ==
  /\ Builds \subseteq {"gog", "steam"}
  /\ Points \subseteq [1..3 -> Nat]
  /\ Scales \subseteq Nat /\ Cells \subseteq Nat

VARIABLES
  build,
  \* the client
  commands,    \* pending_commands and what the pipe holds of them
  \* the engine
  loaded,      \* references the engine has an object for
  mem,         \* the words of each object
  dead,
  \* the connection thread
  order,       \* the command it executes
  steps,       \* what it has still to do for it
  held,        \* what it has read
  calls,       \* engine routines run so far, with the thread that ran them
  \* history
  packets, moves,   \* counters
  told,        \* what the last command about each attribute said
  spoilt       \* attributes whose command found no object, or that the
               \* engine changed since the command was begun

engineVars == <<build, commands, loaded, mem, dead, order, steps, held, calls, packets, moves,
                told, spoilt>>

GameRefs == Ids
Attributes == {"pos", "angle", "scale", "lock", "enabled", "cell", "dead"}
Nothing == <<>>
NoOrder == [op |-> "none"]

----------------------------------------------------------------------------
(* Where the fields are *)

PosOffset(i) == 44 + 4 * (i - 1)
AngleOffset(i) == 32 + 4 * (i - 1)
\* Mutant of ScaleOffset: the offset in New Vegas.
ScaleOffsetNV == 60
ScaleOffset == 56
ParentCellOffset == 60
EnabledOffset == 80
EnabledBit == 2
OtherFlag == 4     \* one the engine keeps in the same word
LockOffset == 10   \* a byte of its own
LockBit == 1

Offsets == {10, 80} \cup {32 + 4 * i : i \in 0..7}

HasBit(word, bit) == (word \div bit) % 2 = 1

WithBit(word, bit, on) ==
  IF HasBit(word, bit) = on THEN word ELSE IF on THEN word + bit ELSE word - bit

\* The getters, and what a reference without an object answers.
GetPos(r) == IF r \in loaded THEN [i \in 1..3 |-> mem[r][PosOffset(i)]] ELSE <<0, 0, 0>>
GetAngle(r) == IF r \in loaded THEN [i \in 1..3 |-> mem[r][AngleOffset(i)]] ELSE <<0, 0, 0>>
GetScale(r) == mem[r][ScaleOffset]
GetParentCell(r) == mem[r][ParentCellOffset]
GetEnabled(r) == ~ HasBit(mem[r][EnabledOffset], EnabledBit)
GetLock(r) == HasBit(mem[r][LockOffset], LockBit)
IsDead(r) == dead[r]

Reading(r, a) ==
  CASE a = "pos" -> GetPos(r)         [] a = "angle" -> GetAngle(r)
    [] a = "scale" -> GetScale(r)     [] a = "lock" -> GetLock(r)
    [] a = "enabled" -> GetEnabled(r) [] a = "cell" -> GetParentCell(r)
    [] a = "dead" -> IsDead(r)

----------------------------------------------------------------------------
(* Commands *)

\* What the client makes of the server's packets: the attribute it is about,
\* the value, and how many bytes of parameters it sends, reference included.
\* An angle comes as two numbers and leaves as three.
PacketOrders(r) ==
  [op : {"set_pos"}, ref : {r}, arg : Points, size : {16}]
    \cup [op : {"set_angle"}, ref : {r}, arg : {[p EXCEPT ![2] = 0] : p \in Points}, size : {16}]
    \cup [op : {"set_actor_value"}, ref : {r}, arg : {TRUE}, size : {9}]
    \cup [op : {"kill"}, ref : {r}, arg : {TRUE}, size : {10}]
    \cup [op : {"get_activate"}, ref : {r}, arg : {TRUE}, size : {4}]
    \cup [op : {"fire_weapon", "play_sound"}, ref : {r}, arg : {TRUE}, size : {8}]
    \cup [op : {"set_lock"}, ref : {r}, arg : BOOLEAN, size : {8}]
    \cup [op : {"set_scale"}, ref : {r}, arg : Scales, size : {8}]

\* Items, damage, animation groups, weather and restraint: the bridge takes
\* the parameters, answers success and does nothing.
StubOrders(r) == [op : {"stub"}, ref : {r}, arg : {TRUE}, size : {13}]

\* Commands the bridge knows and the client has no packet for.
OtherOrders(r) ==
  [op : {"set_cell"}, ref : {r}, arg : Cells, size : {8}]
    \cup [op : {"move_to"}, ref : {r}, arg : Cells \X Points, size : {20}]
    \cup [op : {"set_enabled"}, ref : {r}, arg : BOOLEAN, size : {5}]
    \cup [op : {"set_name"}, ref : {r}, arg : {TRUE}, size : {6}]
    \cup StubOrders(r)

\* Positions, angles, values, deaths and shots of the player's own are not
\* applied to the game it plays in.
NotOnSelf == {"set_pos", "set_angle", "set_actor_value", "kill", "fire_weapon"}

\* The parameters a command must at least have.
Needs(op) ==
  CASE op \in {"set_pos", "set_angle"} -> 16
    [] op = "move_to" -> 20
    [] op = "kill" -> 10
    [] op = "set_actor_value" -> 9
    [] op \in {"set_cell", "set_lock", "set_scale", "fire_weapon", "play_sound"} -> 8
    [] op = "stub" -> 13
    [] op \in {"set_enabled", "set_name"} -> 5
    [] op = "get_activate" -> 4

\* The attributes a command sets, with what they should read afterwards.
Effects(o) ==
  CASE o.op = "set_pos" -> {<<"pos", o.arg>>}
    [] o.op = "set_angle" -> {<<"angle", o.arg>>}
    [] o.op = "kill" -> {<<"dead", TRUE>>}
    [] o.op = "set_lock" -> {<<"lock", o.arg>>}
    [] o.op = "set_scale" -> {<<"scale", o.arg>>}
    [] o.op = "set_cell" -> {<<"cell", o.arg>>}
    [] o.op = "set_enabled" -> {<<"enabled", o.arg>>}
    [] o.op = "move_to" -> {<<"cell", o.arg[1]>>, <<"pos", o.arg[2]>>}
    [] OTHER -> {}

----------------------------------------------------------------------------
(* What the bridge does for a command, one access after the other *)

Write(at, word) == [do |-> "write", at |-> at, word |-> word]
ReadWord(at) == [do |-> "read", at |-> at]
Mix(at, bit, on) == [do |-> "mix", at |-> at, bit |-> bit, on |-> on]
Call(routine) == [do |-> "call", routine |-> routine]

SetPos(p) == [i \in 1..3 |-> Write(PosOffset(i), p[i])]
SetAngle(p) == [i \in 1..3 |-> Write(AngleOffset(i), p[i])]
SetScale(s) == <<Write(ScaleOffset, s)>>
SetParentCell(c) == <<Write(ParentCellOffset, c)>>
\* Flags are read, changed and written back.
SetLock(on) == <<ReadWord(LockOffset), Mix(LockOffset, LockBit, on)>>
SetEnabled(on) == <<ReadWord(EnabledOffset), Mix(EnabledOffset, EnabledBit, ~ on)>>

\* Meant to read a value and to add what is missing, by the routines 12 and
\* 928 bytes into two tables.  The bytes are taken for numbers of entries, so
\* that what is called stands elsewhere, or beyond the end of the table.
SetActorValue == <<Call("Entries")>>
\* The engine's own routines, where a build's are known.
KillActor == IF build = "gog" THEN <<Call("Kill"), Call("ProcessDeath")>> ELSE <<>>
FireWeapon == <<Call("Fire")>>
PlaySound == IF build = "gog" THEN <<Call("PlaySound")>> ELSE <<>>
SetName == <<>>

Program(o) ==
  CASE o.op = "set_pos" -> SetPos(o.arg)
    [] o.op = "set_angle" -> SetAngle(o.arg)
    [] o.op = "set_scale" -> SetScale(o.arg)
    [] o.op = "set_cell" -> SetParentCell(o.arg)
    [] o.op = "move_to" -> SetParentCell(o.arg[1]) \o SetPos(o.arg[2])
    [] o.op = "set_lock" -> SetLock(o.arg)
    [] o.op = "set_enabled" -> SetEnabled(o.arg)
    [] o.op = "set_actor_value" -> SetActorValue
    [] o.op = "kill" -> KillActor
    [] o.op = "fire_weapon" -> FireWeapon
    [] o.op = "play_sound" -> PlaySound
    [] o.op = "set_name" -> SetName
    [] o.op \in {"get_activate", "stub"} -> <<>>   \* answered only

----------------------------------------------------------------------------

Fresh == [at \in Offsets |-> 0]

EngineInit ==
  /\ build \in Builds
  /\ commands = <<>>
  /\ loaded \in SUBSET GameRefs
  /\ mem = [r \in GameRefs |-> Fresh]
  /\ dead = [r \in GameRefs |-> FALSE]
  /\ order = NoOrder /\ steps = <<>> /\ held = 0 /\ calls = {}
  /\ packets = 0 /\ moves = 0
  /\ told = [r \in GameRefs |-> [a \in Attributes |-> Nothing]]
  /\ spoilt = [r \in GameRefs |-> {}]

\* handle_packet queues the command, flush_commands sends it.
Send(r) ==
  /\ packets < MaxPackets
  /\ \E o \in PacketOrders(r) \cup OtherOrders(r) :
       /\ r = Local => o.op \notin NotOnSelf
       /\ commands' = Append(commands, o)
  /\ packets' = packets + 1
  /\ UNCHANGED <<build, loaded, mem, dead, order, steps, held, calls, moves, told, spoilt>>

\* Told of what the command should achieve, whatever becomes of it.
Tell(o) ==
  told' = [told EXCEPT ![o.ref] =
             [a \in Attributes |->
                IF \E e \in Effects(o) : e[1] = a
                  THEN <<(CHOOSE e \in Effects(o) : e[1] = a)[2]>> ELSE @[a]]]

\* execute: too few parameters, or a reference the engine has no object for,
\* and nothing happens; the client is not told.
Begin ==
  /\ order = NoOrder /\ commands # <<>>
  /\ LET o == Head(commands)
         able == o.size >= Needs(o.op) /\ o.ref \in loaded
         about == {e[1] : e \in Effects(o)}
     IN /\ order' = IF able THEN o ELSE NoOrder
        /\ steps' = IF able THEN Program(o) ELSE <<>>
        /\ Tell(o)
        /\ spoilt' = [spoilt EXCEPT ![o.ref] =
                        IF o.ref \in loaded THEN @ \ about ELSE @ \cup about]
  /\ commands' = Tail(commands)
  /\ held' = 0
  /\ UNCHANGED <<build, loaded, mem, dead, calls, packets, moves>>

Spoil(r, as) == spoilt' = [spoilt EXCEPT ![r] = @ \cup as]

\* Nothing is called if the actor's table of values is not where the build
\* should have it.  Otherwise the routines leave anything in the object.
Entries(r) ==
  \/ UNCHANGED <<mem, dead, calls, spoilt>>
  \/ /\ \E word \in {0} \cup Scales : mem' = [mem EXCEPT ![r] = [at \in Offsets |-> word]]
     /\ \E died \in BOOLEAN : dead' = [dead EXCEPT ![r] = died]
     /\ calls' = calls \cup {<<"Entries", "pipe">>}
     /\ Spoil(r, Attributes)

Routine(r, name) ==
  \/ name = "Entries" /\ Entries(r)
  \/ /\ name # "Entries"
     /\ calls' = calls \cup {<<name, "pipe">>}
     /\ dead' = IF name = "Kill" THEN [dead EXCEPT ![r] = TRUE] ELSE dead
     /\ UNCHANGED <<mem, spoilt>>

Access(r, s) ==
  \/ s.do = "write" /\ mem' = [mem EXCEPT ![r][s.at] = s.word]
       /\ UNCHANGED <<held, dead, calls, spoilt>>
  \/ s.do = "read" /\ held' = mem[r][s.at]
       /\ UNCHANGED <<mem, dead, calls, spoilt>>
  \/ s.do = "mix" /\ mem' = [mem EXCEPT ![r][s.at] = WithBit(held, s.bit, s.on)]
       /\ UNCHANGED <<held, dead, calls, spoilt>>
  \/ s.do = "call" /\ Routine(r, s.routine) /\ UNCHANGED held

Step ==
  /\ steps # <<>>
  /\ Access(order.ref, Head(steps))
  /\ steps' = Tail(steps)
  /\ UNCHANGED <<build, commands, loaded, order, packets, moves, told>>

Answer ==
  /\ order # NoOrder /\ steps = <<>>
  /\ order' = NoOrder
  /\ UNCHANGED <<build, commands, loaded, mem, dead, steps, held, calls, packets, moves,
                 told, spoilt>>

----------------------------------------------------------------------------
(* The game thread *)

\* The engine moves what it simulates, word by word.
EngineMoves(r) ==
  /\ moves < MaxEngine /\ r \in loaded
  /\ \E i \in 1..3, p \in Points : mem' = [mem EXCEPT ![r][PosOffset(i)] = p[i]]
  /\ moves' = moves + 1
  /\ Spoil(r, {"pos"})
  /\ UNCHANGED <<build, commands, loaded, dead, order, steps, held, calls, packets, told>>

\* It keeps flags of its own beside the one the bridge sets.
EngineFlags(r) ==
  /\ moves < MaxEngine /\ r \in loaded
  /\ \E on \in BOOLEAN :
       mem' = [mem EXCEPT ![r][EnabledOffset] = WithBit(@, OtherFlag, on)]
  /\ moves' = moves + 1
  /\ UNCHANGED <<build, commands, loaded, dead, order, steps, held, calls, packets, told, spoilt>>

\* Objects come and go with the cells around the player.  The pointer a
\* command has looked up is not told: what it still does is lost to whatever
\* has the memory now.
Load(r) ==
  /\ moves < MaxEngine /\ r \notin loaded
  /\ loaded' = loaded \cup {r}
  /\ mem' = [mem EXCEPT ![r] = Fresh]
  /\ dead' = [dead EXCEPT ![r] = FALSE]
  /\ moves' = moves + 1
  /\ UNCHANGED <<build, commands, order, steps, held, calls, packets, told, spoilt>>

Unload(r) ==
  /\ moves < MaxEngine /\ r \in loaded
  /\ loaded' = loaded \ {r}
  /\ Spoil(r, Attributes)
  /\ steps' = IF order # NoOrder /\ order.ref = r THEN <<>> ELSE steps
  /\ moves' = moves + 1
  /\ UNCHANGED <<build, commands, mem, dead, order, held, calls, packets, told>>

EngineNext ==
  \/ \E r \in GameRefs : Send(r)
  \/ Begin \/ Step \/ Answer
  \/ \E r \in GameRefs : EngineMoves(r) \/ EngineFlags(r) \/ Load(r) \/ Unload(r)

EngineSpec == EngineInit /\ [][EngineNext]_engineVars

----------------------------------------------------------------------------
(* Properties *)

\* The engine's objects hold words, and the thread is between two accesses
\* of one command or idle.
EngineTypeOK ==
  /\ build \in Builds /\ loaded \subseteq GameRefs
  /\ mem \in [GameRefs -> [Offsets -> Nat]]
  /\ dead \in [GameRefs -> BOOLEAN]
  /\ (order = NoOrder) => steps = <<>>
  /\ spoilt \in [GameRefs -> SUBSET Attributes]

\* Once the pipe is empty every attribute reads what the last command about
\* it said, whatever commands about the others came between, unless the
\* object was not there, the engine itself moved it, or a routine nobody
\* meant to call was run on it since: the setters and the getters agree, no
\* field overlaps another, and a flag that is written back carries the word
\* as it was read, but its own bit as it was told.
\* (On Steam a death is not applied: kill_actor returns before any call.
\* Values of actors are no attribute here: the bridge cannot set them.)
NotKept == IF build = "steam" THEN {"dead"} ELSE {}

FieldsFollow ==
  commands = <<>> /\ order = NoOrder =>
    \A r \in loaded, a \in Attributes \ NotKept :
      told[r][a] # Nothing /\ a \notin spoilt[r] => told[r][a] = <<Reading(r, a)>>

\* The calls that change the engine run on the game thread.
CallsOnGameThread == \A c \in calls : c[2] = "game"
=============================================================================
