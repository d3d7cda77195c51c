# Ashfall in TLA+

Ashfall is a cooperative mod for Fallout 3 and New Vegas: a dedicated server,
a client beside each player's game, and a bridge injected into the game.  This
directory holds TLA+ models of the parts whose correctness depends on the order
of events, the TLC runs that check them on small instances, and TLAPS proofs of
what holds for every instance.  Source paths below are relative to
`src/crates/`.

## The system

| Component | State it keeps | Operations | Talks to |
|---|---|---|---|
| Reliable transport, server half (`ashfall-server/src/network.rs`) | per address: `send_seq`, three send queues, `recv_seq`, reassembly buffer, ready queue, pending ACK and NACKs, RTT estimate; rate limiters | `send_reliable`, `try_recv`, `ack_recv`, `nack_retransmit`, `tick` | UDP, `dedicated.rs` |
| Reliable transport, client half (`ashfall-client/src/network.rs`) | `send_seq`, queued ACKs | `send`, `recv`, `flush_acks` | UDP, `game.rs` |
| Dedicated server (`dedicated.rs`, `session.rs`) | session map, last broadcast weather, stages and clock | `handle_recv`, `handle_auth`, `disconnect`, `tick` with cull, script effects, `sync_world_state` | transport, dispatcher, scripts |
| Object registry (`world/registry.rs`, `world/objects.rs`) | objects, tombstones, owners, reference map, cells, counts | `insert`, `remove`, `set_owner`, `release_player_owned`, `map_ref` | handlers |
| Handlers and dispatcher (`dispatch.rs`, `handlers/*`) | none of their own | one per packet type | registry, combat, quests, scripts |
| Combat, anti-cheat (`combat/*`, `anti_cheat.rs`, `world/position_history.rs`) | limbs and health in objects, last positions, history | hit resolution, movement and rate checks | handlers |
| Cells (`world/cell.rs`, `handlers/player.rs`) | each session's 3x3 context | `UpdateContext` | registry |
| Scripts (`script/*`, crate `ashfall-script`) | WASM instances, timers, effect queue, shared clock | callbacks, votes, timers | server tick |
| Client (`game.rs`, `dispatch.rs`, `sync.rs`, `world/*`) | connection state, local player, world view, owned actors, command queue | `authenticate`, `handle_packet`, `poll_bridge`, `flush_commands` | transport, bridge |
| Bridge (`ashfall-bridge/src`) | last NPC snapshot, tracked actors, event and command queues | discovery hook, 10 Hz flush, command dispatch | game engine, client over a pipe |
| Wire codec, string cache (`ashfall-core/src`) | per connection name table | varints, control frames, `Inline`/`Id` names | everything |
| Engine hooks (`ashfall-bridge/src/hooks`, `commands.rs`) | patches written, `INITIALIZED`, pending commands | `DllMain`, detours, get and set of fields | the game's code and memory |
| Game modes (`src/scripts/*`) | tables of players, PvP switch, stage and kills | callbacks of the script host | scripts |
| Server-driven GUI (`script/host.rs`, client `ui/widgets.rs`) | the last widget id at the server, `GuiState` at the client | create, show, remove, click, list items | scripts, client |
| ESM import (`ashfall-server/src/db`) | the content database | import of plugins in load order, start of the server | scripts, quests |
| Master list (`ashfall-master`) | announced servers with expiry | announce, list | server heartbeat |

The server is one task: a datagram is handled to the end before the next, so a
handler is one step.  The hard parts are around it: UDP loses, repeats and
reorders; each game sees NPCs at its own time; grants and releases are under
way while claims arrive; sessions end by `GameEnd`, kick or silence; 16-bit
numbers wrap.

What makes each part correct:

* transport: what is dispatched is the sender's stream, in order, once each;
  nothing is forgotten before it arrived; a full window reopens;
* sessions: one per address, each with a channel, a player and a checked mod list,
  and none for ever after its client is gone;
* registry: one simulator per NPC, always a player in the game, handed over on
  leaving; a tombstone is final; ids are never shared;
* coop loop: clients believe what the server decided; an NPC in view gets a
  simulator;
* world state: what every client shows is what the server last decided;
* cells: lists hold what exists, and who stands near a thing knows it;
* relay and combat: updates and hits change another player's body only after a grant
  or with PvP on, and copies follow what was relayed;
* scripts: timers are served, killed timers are dead, an effect reaches the
  players in the game and nobody after a farewell;
* game modes: kills count once, everybody knows the progress, no friendly fire;
* GUI: what the scripts drew is what is seen, and clicks are heard in order and none twice;
* string cache: the client never takes an id for another name than the server;
* bridge: no event or command is lost, doubled or overtaken on the pipe;
* hooks: detours replace whole instructions where the guards name them, fields follow the commands;
* import: the database is what the complete plugins say;
* master list: a server that is heard is listed, one that is gone is not.

## Modules

| Module | Models | Correspondence |
|---|---|---|
| `SeqNum` | the u16 numbers and wrapping arithmetic of both ends | `SeqNo(n)` is the number of the n-th packet; `WrapAdd`, `WrapSub` are `wrapping_add`, `wrapping_sub` |
| `OrderedDelivery` | abstract: an ordered, exactly-once stream | the delivered sequence grows by the next packet of the sent ones |
| `Uplink` | `ClientNetwork::send`; `ReliableChannel::recv`, `take_ready`, `take_control_frames`; `try_recv` | packets are their positions in the stream; `TryRecv` is the whole of `try_recv` on a reliable frame, one of three cases of `recv` and then `take_ready` |
| `Downlink` | `send_reliable`, `retransmit_expired`, `ack_recv`; `ClientNetwork::recv`, `flush_acks` | `SendReliable`, `Retransmit`, `AckRecv`, `ClientRecv`, `ClientSend`; any unacknowledged packet may have timed out |
| `Session` | `handle_recv`, `handle_auth`, the mod list, kicks and the cull of `tick`, with the channels of `network.rs` beneath | a frame that arrives, also a late copy, is one step through channel, session and handler |
| `OwnershipTransfer` | abstract: who simulates which NPC | the promise of docs/architecture.md section 8.5 |
| `ActorRegistry` | sessions, player objects, `ObjectRegistry`, `handle_auth`, `disconnect`, the cull, `handle_actor_new`, `handle_ownership_claim`, `handle_object_remove` | one variable per map of the code; clients are open: any address sends any packet at any time |
| `CoopLoop` | `ActorRegistry` closed with clients and bridges | `Connect`, `Observe` (bridge flush and client poll), `ClientRecv`, `ServerRecv`, `Kick`; FIFO queues each way |
| `CellView` | the lists of the cells, `handle_update_context`, `handle_update_cell`, announcements and removals | `known` is what each client was told of and not told to drop |
| `WorldRelay` | positions, values, deaths, items, hits, and reports, claims and removals of any id: handlers, speed check, combat, script setters, and the copies at the clients | `entities` is the server's state, `copy` what each client holds, `unread` what it has yet to read |
| `WorldSync` | weather, quest stages, globals and the clock: scripts, client packets, `sync_world_state`, joins, refused sends | one value `val`, what was last broadcast, what is on its way to each client |
| `ScriptHost` | timers, callbacks, the effect queue, votes, and their order within `tick` | one action per stage of the tick; what a callback asks for is chosen freely |
| `GameModes` | `freeroam` and `shared-quest`, and when the server calls them | a packet and what both modes make of it are one step |
| `ServerGui` | the widget functions of `host.rs`, `GuiState` of the client, clicks, failed sends and culled players | each call queues a packet for those in the game at the next tick; the server keeps no widgets; a click is its number among the player's, in `gui[c].clicks`, then `up[c]`, then `heard[c]` or in `lost[c]` |
| `StringCache` | `StringTable`, `CachedString`, `finalize_strings`, `DedicatedServer::send`, the name fields of `apply_packet` | `Send`, `Receive`, `Lose`, `Reconnect`; `bound` and `entries` are the server's table, `by_id` the client's |
| `BridgePipe` | the bridge's three threads, one stream of frames, the client's reader, request keys, panics, reconnection | `toBridge` and `toClient` hold half frames; `Poll` (a datagram of the server), `PollBridge`, `Execute`, `Await`, `TakeReturn` and `Disconnected` are the client's frame (`main.rs:38`) |
| `EngineAccess` | `commands.rs` and the get and set of `hooks`, word by word, against an engine that moves, flags and unloads things | `mem` holds the words of each object; the two builds of Fallout 3 differ in the routines called |
| `HookInstall` | `DllMain`, the plugin loader, patch groups, `INITIALIZED`, thunks and trampolines | `image` is the set of guards the bytes of the game's build satisfy |
| `EsmImport` | groups and records, load order, `BEGIN`/`COMMIT`, cut and corrupt files, crashes, the server's start on the result | one step per group and per plugin; a crash is a rollback |
| `MasterList` | heartbeats, loss, `cull_stale`, the browser's query | time in steps of 30 seconds |

The theorems are in eight modules: `UplinkProofs`; `DownlinkProofs`; `GameProofs`
(registry, coop loop, `EngineAccess`, `HookInstall`); `ClientViewProofs`
(`CellView`, `StringCache`); `StreamsProofs` (`WorldSync`, `BridgePipe`);
`ServerTickProofs` (`ScriptHost`, `Session`, `MasterList`); `PlayProofs`
(`GameModes`, `WorldRelay`); `ServerGuiProofs`.

The modules `MC...` are instances for TLC.  Most combine several components: a
variable `part`, chosen at the start and constant, says which of them moves, and
the others stand still.  The components do not interact there; the interactions
are in `CoopLoop` (registry, clients and bridges), `Session` (channels and
handlers) and `GameModes` (server and scripts).

A definition whose comment begins "Mutant of" is a deliberately wrong version of
the definition after it; no specification uses it.  Putting it in the place of
the right one must break the property it stands for, which shows that the
property depends on the code.

### What is abstracted

* Bytes.  Frames carry a packet's number and identity, or its kind; codecs are
  not modelled.  `EngineAccess` keeps words where words are what is torn.
* Time.  A timeout may fire whenever its condition is possible: the cull may hit
  any session when `CanCull` holds, so may a retransmission.  `ScriptHost`,
  `Session` and `MasterList` count ticks, where who waits longer matters.
* The downlink sends no NACK fast retransmits, for no client sends a NACK
  (`ashfall-client/src/network.rs` only ever encodes ACKs).
* `ActorRegistry` keeps of a player object its existence, of an actor its
  existence, owner, reference and tombstone.  Values and positions are in
  `WorldRelay`, cells in `CellView`.
* In `CoopLoop` packets arrive in order and once, as the transport does while
  the network behaves; a client connects once; the bridge's flush and the
  client's next poll are one step.  `owned_actors` of the client and the
  bridge's tracked list change together and are one set.
* `StringCache` keeps of a packet its name field, and of the transport that a
  packet may be refused, lost, repeated or overtaken.  It has the three kinds of
  packet whose name the client reads (`ObjectNew`, `UpdateName`, `GameChat`);
  the others with a name are only passed on, and no client sends them.
* `ServerGui` keeps of a widget its kind, parent and visibility: checkboxes and
  radio buttons behave as buttons do, texts as lists with no items.
* `ServerGui` has of the uplink that a click on its way may stay there: the client
  resends nothing, and a packet that is lost holds back what comes after it
  (`Uplink`).  Late copies that a new session of the same address would read are in
  `Session` and not here.
* What a player "hears" in `ScriptHost` is what the server asked the channel to
  send; refusals of a full window are in `Downlink`, `WorldSync` and `StringCache`.
* `CellView!ListedIsRegistered` speaks of things: of a player whose object was
  removed the next move lists the id again (`object.rs:137`).
* `HookInstall` takes `VirtualProtect` to succeed.  The game's code and memory are
  external in `EngineAccess` and `HookInstall`: they may do anything the bridge's
  code is written to expect.
* `WorldSync` follows one value at a time (`topic`); `CellView` in `MCCellView`
  follows one thing or player at a time (`focus`), since what happens to one never
  reads the state of another.

## Runs

| Run | Behaviours | Shows |
|---|---|---|
| `Connection` | uplink around its numbers (`laps`) and in any disorder (`storm`); downlink first in first out (`fifo`) and losing (`loss`); the registry with culls and second logins (`registry`); the coop loop with nobody leaving (`coop`) | what is dispatched is the client's stream (`DeliversInOrder`), all of it is put in order in the end when nothing is lost (`EveryPacketAccepted`), a full send window reopens (`EveryPacketLeavesWindow`); the downlink's queues are one run, and cumulative ACKs are right when nothing is lost (`DownlinkKeepsOrder`); owners own present actors, tombstones are final, what is seen is simulated |
| `Game` | two clients, of which one may be kicked, and NPCs coming and going; commands against the engine, once with two references in one build (`engine`) and once with one reference and more interference in the other (`busy`); installation of the hooks | beliefs are backed and simulators unique while grants and releases are under way, the registry refines `OwnershipTransfer`; every attribute of an object, actor values excepted, reads what the last command said unless the engine changed it; none of the six instructions that guards name is torn, in any mixture of patched and foreign sites |
| `CellView` | two players, scripts and one thing or player, made, claimed or removed by anybody, in the lists of three cells, one of them cell 0 and one overlapping | nothing removed is listed; who stands near a thing that was announced and stayed put knows it |
| `Streams` | `sync`: a value between scripts, two clients, ticks and joins; `bridge`: three threads, torn frames, panics, killed clients | nobody is more than a broadcast behind and all agree in the end; events and commands are conserved, NPC stories make sense, a command is answered or fails, and the events come to a client that hears from the server again and again |
| `ServerTick` | `scripts`: timers that kill and create timers; `session`: two clients under late copies; `master`: a server that comes and goes | timers and effects are exact and served; sessions whole, checked, never replaced and ended once their client is gone; the list current and forgetful |
| `ServerGui` | `screen`: scripts and a player who joins, leaves and looks; `clicks`: two players, a window with a button, failed sends and ended sessions | who has read everything sees what the scripts have; clicks are heard in order and none twice, and none is lost but by a failed send or the end of a session |
| `World` | `import`: base game and DLCs, cut, corrupt, crashed; `relay`: two players, an NPC, an item, each in focus or both players; `modes`: players under both modes; `names`: two connections of names | the database is what the complete plugins say; copies differ only in what no packet told of, another player's entity changes only by a grant, a report or a removal; kills count once and everybody knows the progress, no friendly fire; no name stands for another |

Five runs are expected to find a violation.  Each checks one property that a
comment, document or test of the repository states and the code breaks; the
quotation is in `PROJECT.json`.

| Run | Shows |
|---|---|
| `UplinkReorder` | one swap of two packets leaves one in the ready queue for ever: `try_recv` returns one packet per datagram |
| `DownlinkForgets` | a lost frame followed by an acknowledged one is forgotten: the client ACKs each number by itself, the server takes it as cumulative |
| `CoopReturn` | an NPC that left one player's view is tombstoned and rejected for ever |
| `CellViewWalkIn` | an NPC that its owner walks into the view of a player who was told it had gone stays unknown to that player |
| `WorldRelayWalk` | the speed check measures from a time that was just reset and rejects ordinary strides |

### Bounds

* `SeqSpace` 8 instead of 65536.  What matters is that it is at least twice the
  window where the code's is (`SeqSpace \div 2` against `MaxInflight`), larger
  than the receive window, and smaller than `MaxSent` where wrapping is the
  question, so that the numbers go round (9 and 10 packets).
* `RecvWindow` 3, so that there are packets at its edge and outside it;
  `MaxInflight` 2 with two queues, so that the window fills.
* `ReorderDepth`, `CopyLife`: how far a datagram overtakes others and how long a
  copy lives: 3 and 3 around the numbers, larger than the stream in `storm`.
* `NetBound` 2 or 3: datagrams under way in one direction.  Sending is held back
  by it, which only removes behaviours with more under way.
* Two NPCs and two or three addresses: an ownership conflict needs two players,
  a release of "every" actor needs two NPCs, a full server needs a third
  address.  `MaxPlayers` 4 gives the third address a player after others left;
  `MaxReports` 3 or 4 allows a report again after a removal or a release.
  `MaxQueue` 2: a spawn is two packets and a removal one, so a spawn or two
  removals are under way to a client at once; 4, without kicks and in
  `CoopReturn`, allows two spawns.  The safety properties of this part are proved
  for every bound.
* `StringCache`: three names, one of them empty, and as many ids: a gap below
  and above an id, and no id used twice.  Two connections, for what the first
  leaves behind; four packets in each, so that every name is sent and one again.
  The wrap of the 16-bit ids, at the 65537th name of a connection, is outside: ids
  are as many as names, and the theorem assumes so.
* `WorldSync`: a window of 2, which two broadcasts fill; three changes and two
  joins, so that a joining client meets a change before and one after it.
* `BridgePipe`: the pipe holds three halves, a frame and a half, so that both a
  whole frame and a torn one fit; two connections; three events, two commands.
* `ScriptHost`: two instances with two timers, of which one may kill the other;
  two timers and effects in all, so that two timers, a timer and an
  effect, or two effects meet.  Intervals of one and of two steps.
* `Session`: four arrivals, of them late copies; a patience of one tick.
  `MasterList`: heartbeat 2, stale 4, cull every 2 and delay 1, the code's 60, 120
  and 60 seconds in steps of 30.
* `EngineAccess`: two commands and one or two deeds of the engine: one to come
  between the words of a command, one after.  `HookInstall`: one loader beside
  `DllMain`.
* `ServerGui`: four widgets, enough for a window, a list in it, an item and a
  second window; one change and one leave of each player.  Two clicks of each of two
  players: they may be sent together, one by one, one in each of two connections, or
  one of them not at all.
* `EsmImport`: five plugins, of which a base game and two DLCs at index 1; two
  imports and one start.  `WorldRelay`: three packets handled, all about the
  entities in focus (both players, one of them, the NPC, the item), with PvP on in
  two of these.  `GameModes`: two
  addresses, three slots and as many players, one of them dropped, a quest of two
  stages.

Deadlock is not checked: every run stops when its bounds are used up or its
clients have nothing more to say.

### Fairness

* `Uplink!FairSpec`: a datagram that is not lost arrives.
* `Downlink!FairSpec`: weak fairness of retransmission (the server ticks at
  30 Hz and every timeout passes); strong fairness of arrival, since a frame
  resent for ever gets through in the end; strong fairness of the client's send,
  which is what flushes ACKs: the client of a playing user sends positions all
  the time.  A client that never sends is outside this assumption (see the
  hazards).
* `CoopLoop!FairCoopSpec`: packets under way arrive and are handled; nothing is
  assumed of connecting, seeing, or kicking.
* `ScriptHost!Fairness`: strong fairness of the timer branch and of time, for
  `tokio::select!` picks at random among the branches that are ready; weak
  fairness of the stages of a tick, which is sequential code.
* `Session!FairSpec`: the tick goes on.  `MasterList!FairSpec`: the clocks go on.
* `WorldSync!Fairness`: the tick goes on and packets are handled.
* `BridgePipe!PipeFairSpec`: the threads of the bridge go on when they can, and so
  does the client's frame once a datagram has come (`PollBridge` and what
  `execute` does).  Nothing is assumed of the datagram: `ClientNetwork::poll` waits
  in `recv` without a timeout before `poll_bridge` runs, and a server that says
  nothing leaves the bridge unread.  `EventsArrive` therefore has `[]<>(frame =
  "heard")` as its condition, without which TLC finds it violated.  A server does
  speak again and again to a session it keeps while its clock runs (`GameTime` every
  game hour, `dedicated.rs:224`) or a frame is not acknowledged, and to nobody after a
  cull.  Nothing is assumed of the engine, of panics or of anybody's end either.

The liveness properties of the composed runs are written `[]<>(P => Q)`: the
conditions P stay true once they are, for which this is `P ~> Q`.

## Proofs

The theorems hold for every value of the constants that the named assumptions
allow: any number of clients, NPCs, names, timers, any window and any bound.

**Uplink.**  `TypeCorrect`, `DispatchedInOrder`, `BufferInWindow` and
`UplinkImplementsDelivery` (the run's `DeliversInOrder`) are proved under `NoLap`:
either the stream and a window together are at most a lap
(`MaxSent + RecvWindow <= SeqSpace`), or the network loses nothing, reorders
by at most a window (`ReorderDepth <= RecvWindow`), and delivers no copy later
than a lap less a window (`CopyLife + RecvWindow <= SeqSpace`);
`NothingThrownAway` on an orderly network.  `NoLap` cannot be dropped: without it
the server takes a packet of the next lap for the missing one.  The inductive
invariant says of every datagram under way that its number is that of its packet,
of every packet in the buffer that it is filed under its own number and lies in
the window ahead of the accepted ones, that `recv_seq` is the number of the count
accepted, and, on an orderly network, that everything from the accepted count on
is under way or buffered.  That the next packet is appended in order follows only
from the buffer holding the right packet under the right number, and that from
what may still be under way.

**Downlink.**  Both theorems are about a network that keeps the order of datagrams,
and about a sequence space of at least four windows (`InOrderNetwork`; the code has
32 packets in 65536 numbers).  `AcksClearTheOldEnd`: whatever is lost, an ACK empties
the send queues from their old end only, also around the wrap, so that they hold one
unbroken run.  `StreamArrivesInOrder`: where nothing is lost the server forgets only
what the client has, and the client's first sight of the packets is in the order of
sending, however often the timer resends meanwhile.  Together they are the run's
`DownlinkKeepsOrder`.  The invariant puts everything that is under way on one round
trip (`Trip`): the ACKs, then the numbers the client has still to send, then the data
frames, as packets and not as numbers.  Along the trip a packet is less than a window
older than any before it (`Windowed`), since what is resent is still in the window;
so an ACK is never more than a window late, and the comparison by half the
sequence space puts it on the right side of every packet in the queues.  Without losses
the frames under way bring what the client has not got, each packet after its
predecessors (`Gapless`).  Without `InOrderNetwork` the first theorem's property is
not claimed, and with losses the second's fails (`DownlinkForgets`).
`DownlinkTypesHold` is for any network.

**Registry.**  `TypeCorrect`, `PlayersAreDistinct`, `OwnersOfPresentActors` and
`TombstonesAreFinal` for every registry; `NoOrphans` and `RegistryKeepsPromise`
(the refinement of `OwnershipTransfer`) under `SessionsEndInDisconnect`: no cull,
and no second authentication from an address with a session.  The assumption is
needed: a culled player goes on owning its actors.  The invariant joins to the
properties that ids in use are below `next_id` (a new session must not get the id
of an old owner), that a tombstoned actor is not in the registry, and what holds
while sessions end by disconnect only (`Accounted`).

**Coop loop.**  `BeliefsAreBacked` and `AtMostOneSimulator`, for any number of
clients, NPCs and queued packets.  `Simulates(a)` is what a client owns and what
grants on their way to it will give it: the two properties speak of it and not of
`owned` alone, which is what makes them inductive, with `NewcomersKnowNothing` for
clients that have not connected.  `CoopImplementsRegistry` shows that every step
of the closed loop is a step of the open registry or leaves it alone, so the
registry's theorems hold of the loop: `CoopOwnedIsPresent`, `CoopDeadStayDead`
and, while sessions end in `Disconnect`, `CoopKeepsPromise`.

**Cells.**  `ListsHoldNoRemovedThing` and `SettledThingsAreKnown`, with
`PlacedThingsAreListed` and `PlayersKnowThemselves`, for any cells and any
neighbourhoods that contain the cell itself (`CellViewAssumption`), and whoever
reports, claims or removes which id.  The last is about players whose object is
their own: any client may remove another player's object or report something else
under its id, and that player is then told to drop itself when it moves on.

**World state.**  `ClientsAreRecent`: a client that has nothing under way and was
refused nothing shows, once it has read its packets, a value that was in force
since the last broadcast.  What a client with changes of its own under way may
show besides is one of those changes (`AllExplained`); the invariant also needs
that the value in force is one of them (`InForceIsRecent`).

**Bridge.**  `StoriesAreSound`: for every NPC spawns and removals come in turn, and
at most one late sample after the client let it go, whatever the engine's windows
hold.  The invariant relates the list the flush thread is in the middle of to
what it has announced (`StoryIsAnnounced`, `SpawnsAlternate`) and to the table of
tracked NPCs (`LastSample`).

**Bridge commands.**  `LastWordIsRead` (the run's `FieldsFollow`): whatever words,
points, bit patterns and references there are, however the engine comes between
the words of a command, an attribute of an object that is there reads as the last
command about it said, unless the engine changed it since.  The invariant says it
of a command that is half done, too: each word it has yet to write is still among
its steps, or reads as it should already (`Underway`); what is left of a command
fits the command, so that a flag's word is written back with its own bit as told,
whatever else the word was read as (`StepsFit`); and what was said of an
object that is not there counts for nothing (`GoneIsSpoilt`).  The layout is
Fallout 3's.  Two attributes are outside: actor values, which the bridge cannot
set (see the disagreements), and on Steam deaths, which it does not apply.

**Hooks.**  `DetoursStayWhole` (the run's `DetoursAreWhole`): for any number of loads
and any mixture of patched, foreign and untouched sites, none of the instructions
that guards name (`GuardedInstructions`: three of the Steam respawn group, three at
frame sites) is torn, the trampoline is that of the site that was detoured, and no byte is written
twice.  An install that is under way may be followed by another, of the other
copy of the bridge, which goes by the bytes of the game alone.  The invariant
therefore says of each group that none of its bytes was written, or that each of
its patches that a guard can see was made or is still to be made by the install
that is running (`WholeOrUntouched`): the next install finds all of the group
there or none of it.  That needs the groups' patches and the sites of the
predicate to share no byte (`PatchesApart`), which is a fact about the tables of
addresses, and that what is to be written is untouched (`RemainingAreFree`).

**Scripts.**  `KilledTimersStayDead`, `OneShotTimersFireOnce` and
`NobodyHearsAfterFarewell`, for any instances, exports and callbacks.  The invariant
(`TimerInv`) says of the calls a tick has already collected that those of one-shot
timers are each there once, of a timer that is no longer alive, for an instance it
has not called yet; that a living one-shot timer has called nobody; and that
killed timers are not alive.  `ScriptTypesHold` is only proved: the
run spends nothing on it.  `PlayersHearWhatWasAsked` (the run's `InboxIsExact`): what
is applied, what the tick has taken out of the queue and what is still queued
are together the log of everything asked for, in that order (`LogInv`); so an effect
that is applied is the next in the log, and who hears it hears it after all the others
that were meant for it.

**Sessions.**  `SessionsStayWhole`, `PlayFollowsModList` and `SessionsAreNotReplaced`
under any arrivals of any late frames.  They need each other: that no
authentication meets a session holds because a session's channel is past number
0, which holds because a session is made by the frame with number 0.

**Master list.**  `HeardServersStayListed` under `Heartbeat + Delay < Stale`, as the
code's 60 and 120 seconds are: what is in flight is never older than `Delay`, so an
entry of a server that is heard is never as old as `Stale`.

**Game modes.**  `EverybodyKnowsProgress` and `NoFriendlyFire` under `RoomForAll`: the
tables have a slot for every player in the game and every one whose session was
dropped without a farewell.  It is needed: the tables never give up a slot of a
culled player, and someone who finds no slot is nobody for the modes.  The
invariant says that both tables list exactly the players of the world; that a free
slot is found is the pigeonhole principle, proved by `Lists` and cardinalities.
`QuestCountsKills` (the run's `ProgressIsKills`) needs it as well: who dies and is in
no table counts as an NPC.  Its invariant says that the kills are those of some
whole quests, of the stages before this one and of this one (`KillsFit`), which
holds through a change of stage because the kills before the next stage are those
before this one and its own (`BeforeCounts`).  `ModesTypesHold` holds without
`RoomForAll`; it rests on the numerals of a command being cut at 255.

**Relay.**  `PlayersKeepToThemselves`: with PvP off no update and no hit of a client
changes the entity of another player that the server did not grant it; only a report
or a removal of that id does (`Replaces`), since the handlers of those take any id.
It speaks of clients whose own entity is still a player: the rule of `combat.rs` asks
the registry what attacker and target are.  `RelayTypesHold` is its invariant.
`CopiesFollow` (the run's `OthersAgree`) is about every packet that is still unread: a
client's copy with all of them applied agrees with the server's entities but for
the fields listed in `missed`.  The steps of a client that reads change nothing of
that, and a packet that is sent is the last to be read (`ReadFirst`, `ReadLast`).  A
change that is relayed as a packet the copies ignore, or to some of the others only,
has to enlarge `missed`; a client that is announced an entity loses what it had
missed of it, except where the announcement differs from the entity.  The proof
found that the initial state must not have an NPC whose finder reported a health
of 0: in the code its announcement says 0, which the clients show as 100, and the
report follows in a packet of its own; the model now comes to that state by these
two packets.

**Folds.**  `FoldLeft` of the community modules is a recursive function on sets of
places.  `FoldExists` shows that there is one, by the least number without
(`CountUp`), and `FoldIsRun` that it takes the sequence element by element; sums of
kills, numerals and packets to read are runs of that kind.

**GUI.**  `ScreensAreWanted` and `ClicksAreHeardInOrder` (the runs' `ScreenIsWanted` and
`ClicksAreHeard`).  The invariant of the first gives everybody
a view: a client's widgets and items, the packets it has yet to read and those not
yet sent, against what the scripts have.  Widgets come in the order of their ids
and before anything said of them (`NewsInOrder`); what the scripts have is there or
comes, and does not go (`WantedStays`); the last word on visibility is theirs
(`WantedIsVisible`); what they do not have goes, or hangs below something that
does (`UnwantedGoes`: a removal that finds no children leaves orphans, which are
not drawn); and lists hold their items in order.  Whoever joins next has a view
with nothing in it, and `Send` gives every view its packets.  The theorem is
about clients that have never been away, as the property is: `GuiState` is kept
when the connection ends, and what it then holds is a matter of the connection
before.  Of the clicks the invariant says that those heard, those on their way and
those to be sent are three rising sequences, each before the next, and that the
others are lost (`Clicks`); it says nothing of a click's arriving, which the code
does not promise.

**String cache.**  `NamesAreNeverWrong` for any number of names, packets and
connections, provided there are ids for all the names (with the code's 16 bits:
up to 65536 different names in a connection).  The invariant adds that the
server's ids are handed out one after the other, one per name; that a packet
under way carries the id the server has for its name; and that each entry of the
client's table is the server's name for its id or was there when the connection
began.  `QuietNamesAreShown`, for a network that takes and delivers everything in
order, adds that the packet with a name goes before those with its id alone and
that higher ids come later, so that the cut of the client's table by
`Vec::resize` takes no name of this connection away.

### Only model-checked

* Liveness: `EveryPacketAccepted`, `EveryPacketLeavesWindow`, `SeenIsSimulated`,
  `EventuallyAgreed`, `PipeMoves`, `TicksServe`, `GoneIsForgotten`.  It needs
  `ENABLED`, which the prover does not handle.
* `FramesConserved`: it filters sequences with `SelectSeq` and flattens others, of
  which the provers know nothing.
* `ContentIsPlugins`: what a plugin holds is read off by a recursive operator over
  its groups.
* The types of `EsmImport`, and everything about cut and corrupt files, crashes and
  imports, whose modules recursive operators run through.

## Known disagreements

Met while modelling and kept as definitions, comments or hazards beside the five
findings.

Definitions that the code breaks and on which no run spends its time:

* `Uplink!EveryPacketDispatched` also fails when a single client packet is lost
  (the client keeps no copy); a loss followed by a lap of packets makes the server
  accept a packet of the next lap as the missing one.
* `Downlink!NothingRepeated` fails without any loss (a retransmission crossing its
  ACK); `ReceivedInOrder` fails under reordering.
* `ActorRegistry!CountIsExact` (an overwrite counts twice) and `OnlyOwnerRemoves`
  (a removal is not checked against the owner); `OwnerIsInGame` when sessions are
  culled.
* `CoopLoop!SeenIsSimulated` fails when the bridge sees NPCs before the client has
  its player (`SeesEarly`), and after a kick (`CanKick`): the survivor is told that
  the NPC is free and does nothing, where the repository's README promises that
  ownership "hands off cleanly on disconnect".
* `StringCache!NeverWrongName` needs its exception: after a second connection the
  client shows names of the first under the new ids.
* `WorldSync!QuietMeansAgreed`: a value that goes to another one and back between two
  broadcasts is never seen to differ, and whoever joined in between keeps the other.
* `EngineAccess!CallsOnGameThread`: calls run on the pipe's thread;
  `HookInstall!InitOnce`: the proxy and the bridge have a flag each.
* `MasterList!JoinReachesServer`: the browser takes the source of a reply for the
  server's address.

Transport and sessions: the ACK of a frame does not keep a session alive, and the
cull tells nobody; a culled client that lives on gets a fresh channel that waits
for number 0 for ever; a rejected authentication leaves a channel that is never
removed; a kick sends `GameEnd` once and drops the channel that would repeat it; RTT
samples are taken from resent frames; the world is handed over before any mod list
(the comment at `ashfall-client/src/game.rs:118` says otherwise) and unreliable
positions pass the check by.  The client's poll blocks in `recv` while it holds the
game, and only a datagram lets it look at the bridge or send what the bridge
reported.  The client's `local_player_id` is the first player it is told of.  The first
announcement to the master comes after a whole heartbeat, and `_deregister` has no
caller.

Relay and combat: any client may remove another player's object, claim it while
nobody owns it and then update it, or report another thing under its id
(`handlers/object.rs:272`, `actor.rs:106`, `actor.rs:23`), though
`handlers/object.rs:14` says that a client may mutate the entities it owns; the
repository's client sends only ids it made itself.  Copies at others are stale after hits, item updates marked
silent reach only their sender, caches ignore cells, angles and scales; `kill_actor`
of a script relays nothing; health starts at 0 at the server and 100 at the client;
a client's own samples overwrite the damage the server did; the first position of an
NPC is measured from the origin; lag compensation is never used.

Game modes: `!resurrect` revives no player; only `ActorDeathExt` tells the scripts
of a death; `!time abc` sets hour 0 and long numbers are cut; `on_server_init`
broadcasts to nobody; the two PvP switches know nothing of each other.

GUI: `GuiState` survives the connection; who joins late never gets the windows there
are; nested windows are not drawn; the main loop never calls `render_server_gui`;
the dispatcher drops the client's checkbox, radio, text and list packets; an edit
field sends a click in every frame.

Import and items: insert errors are swallowed; a file cut at the boundary of a top
group imports without a word; DLCs at the same default index collide; u32 values
come back as negative; `link_item_to_container` does not take the item out of the
container it was in, and `destroy_object` detaches nothing.

Engine: `get_actor_value` and `set_actor_value` pass byte offsets (0x0C, 0x3A0) where
`vtable_entry` takes the number of an entry (`hooks/vtable.rs:598`, `689`, `691`), so
other routines are called; nothing stores the engine that `is_fnv` asks for
(`hooks/mod.rs:40`, `52`, `132`), so every branch for New Vegas is dead; a flag that
the engine changes between the read and the write of its word is undone
(`hooks/vtable.rs:762`); only two of 34 sites are compared before they are written; the classic
delegator's call of five bytes at 0x6EEC86 stands on a span that is likely of
eleven, as its author notes (`hooks/vaultmp.rs:1255`-`1265`), and is outside
`DetoursAreWhole`; uninstalling clears a flag and
no patch; `CommandResult::decode` knows two kinds of result; events before the local
player is known are lost, and so is the removal of the last NPC; an event frame has
no length prefix of its own and an image dump overflows a u16 length.

## Plan

Done: every component named in the table of modules, with the runs above and the
theorems above.  What is left, in order:

1. `EsmImport`: its types, and `DlcsStayApart` once rows are a recursive function.
2. An abstract specification for `WorldSync` ("each client shows the last value")
   and for `BridgePipe` (two streams), of which the proved invariants are most of
   the refinement.

## Not modelled, and why

* Wire codec and framing: pure encodings of one packet, which tests round-trip.
* AI and physics: no loop of the server runs them; numeric.
* Configuration and start-up: read once.
* Client main loop and UI: presentation; what the order of its calls means for the
  protocols is in the modules of those.
* Of modelled components: the arithmetic of the round trip estimator, the roll-over
  of days and years, the cell grid (`world/cell.rs`, which only tests use), lag
  compensation, layout, dialogue flags, `MasterUpdate`, the interpolation buffer,
  and the addresses of the game.
