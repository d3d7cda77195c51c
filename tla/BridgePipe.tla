----------------------------- MODULE BridgePipe -----------------------------
(***************************************************************************)
(* The pipe between the bridge inside the game and the client.  In the     *)
(* game three threads feed it: the game thread notes the actors the engine *)
(* processes and samples the player, the flush thread turns the difference *)
(* between two windows into spawns and removals and samples the NPCs this  *)
(* client simulates, and the connection thread runs the client's commands  *)
(* and writes their answers, then every queued event.  The pipe is a       *)
(* stream: a frame is two halves that a read may take apart, and each      *)
(* direction holds Capacity of them.  The client looks at the pipe once a  *)
(* frame of its own, after it has waited for a datagram of the server: one *)
(* to which the server says nothing takes nothing from the bridge either.  *)
(* A handler that panics closes its connection; the client then connects   *)
(* again or does not, and the queue of events and the table of tracked     *)
(* NPCs outlive the connection.                                            *)
(***************************************************************************)
EXTENDS Integers, Sequences, FiniteSets, SequencesExt

CONSTANTS
  Npcs,
  Player,        \* the local player's reference, 0x14
  Capacity,      \* halves one direction of a connection holds
  MaxEvents, MaxCommands, MaxLinks,   \* bounds on each of these, and
  MaxWork                             \* on all of them together

\* What the constants must satisfy.
ASSUME BridgePipeAssumption ==
  /\ IsFiniteSet(Npcs) /\ Player \notin Npcs
  /\ Capacity \in Nat \ {0}
  /\ MaxEvents \in Nat /\ MaxCommands \in Nat /\ MaxLinks \in Nat \ {0} /\ MaxWork \in Nat

VARIABLES
  \* the game thread and the flush thread
  current,    \* CURRENT: seen since the last flush
  announced,  \* LAST: announced to the client
  tracked,    \* TRACKED_ACTORS
  flush,      \* where the flush thread is
  todo,       \* the events it has still to push
  events,     \* EVENT_QUEUE
  \* the connection thread
  serving,    \* the connection it handles, 0 when it waits for one
  pend,       \* read and not yet dispatched
  out,        \* what is left to write of this round
  \* the connections
  toBridge, toClient, \* halves in flight to the bridge and to the client
  open,       \* which ends are open
  \* the client
  mine,       \* its connection, 0 before the first
  frame,      \* where its loop is: it waits for a datagram, has got one and
              \* has still to look at the pipe, or has looked
  nextKey,    \* of the next command on this connection
  running,    \* the key it waits for, 0 when none
  returns, readBuf, eventBuf,
  known,      \* the server has told it which player is its own
  \* history
  made,       \* events pushed so far
  written,    \* the events written for each connection
  got,        \* the events the client took from each
  handed,     \* the events it made packets of
  issued,     \* commands sent so far
  ran,        \* the commands the bridge has run
  answers,    \* what execute returned: the command sent, the one answered
  late,       \* samples of an NPC pushed since it was let go, Held before
  story       \* the spawns and removals of each NPC

game == <<current, announced, flush, todo, story>>
wire == <<toBridge, toClient, open>>
client == <<mine, frame, nextKey, running, returns, readBuf, eventBuf, known, handed, got,
            issued, answers>>
server == <<serving, pend, out, written>>
pipeVars == <<current, announced, tracked, flush, todo, events, serving, pend, out,
          toBridge, toClient, open, mine, frame, nextKey, running, returns, readBuf, eventBuf, known,
          made, written, got, handed, issued, ran, answers, late, story>>

Links == 1..MaxLinks
Held == -1
Tracking == [op : {"track", "untrack"}, ref : Npcs]
Event == [kind : {"spawn", "remove", "sample"}, ref : Npcs] \cup [kind : {"player"}]
Numbered == [event : Event, n : 1..MaxEvents]
Frame == [kind : {"command"}, key : 1..MaxCommands, id : 1..MaxCommands, order : Tracking]
            \cup [kind : {"return"}, key : 1..MaxCommands, id : 1..MaxCommands]
            \cup [kind : {"event"}, what : Numbered]
Half == Frame \X {1, 2}

----------------------------------------------------------------------------
(* Framing *)

\* A frame on the stream, and a stream cut back into whole frames.  A length
\* read from the middle of a frame gives one of an unknown opcode.
EncodeFrame(f) == <<<<f, 1>>, <<f, 2>>>>
EncodeAll(fs) == FlattenSeq([i \in DOMAIN fs |-> EncodeFrame(fs[i])])
Whole(buf) ==
  [i \in 1..Len(buf) \div 2 |->
     IF buf[2 * i - 1][2] = 1 /\ buf[2 * i] = <<buf[2 * i - 1][1], 2>>
       THEN buf[2 * i][1] ELSE [kind |-> "unknown"]]

\* Mutant of Rest: a read that ends inside a frame loses its beginning.
RestDrops(buf) == <<>>

Rest(buf) == SubSeq(buf, 2 * (Len(buf) \div 2) + 1, Len(buf))

OfKind(fs, kind) == SelectSeq(fs, LAMBDA f : f.kind = kind)
Numbers(es) == [i \in DOMAIN es |-> es[i].n]
Payloads(fs) == [i \in DOMAIN fs |-> fs[i].what]

----------------------------------------------------------------------------
(* The threads inside the game *)

PipeInit ==
  /\ current = {} /\ announced = {} /\ tracked = {}
  /\ flush = "diff" /\ todo = <<>> /\ events = <<>>
  /\ serving = 0 /\ pend = <<>> /\ out = <<>>
  /\ toBridge = [l \in Links |-> <<>>] /\ toClient = [l \in Links |-> <<>>]
  /\ open = [l \in Links |-> {}]
  /\ mine = 0 /\ frame = "wait" /\ nextKey = 1 /\ running = 0
  /\ returns = <<>> /\ readBuf = <<>> /\ eventBuf = <<>> /\ known = FALSE
  /\ made = 0
  /\ written = [l \in Links |-> <<>>] /\ got = [l \in Links |-> <<>>] /\ handed = <<>>
  /\ issued = 0 /\ ran = <<>> /\ answers = <<>>
  /\ late = [n \in Npcs |-> 0] /\ story = [n \in Npcs |-> <<>>]

\* collect_actor_ptr, called for an actor each time the engine processes it:
\* it may process anybody at any time, or nobody for a while.
Collect(n) ==
  /\ n \notin current
  /\ current' = current \cup {n}
  /\ UNCHANGED <<announced, tracked, flush, todo, events, made, late, story, ran>>
  /\ UNCHANGED wire /\ UNCHANGED client /\ UNCHANGED server

Work == made + issued + mine

PushEvent(e) ==
  /\ made < MaxEvents /\ Work < MaxWork
  /\ made' = made + 1
  /\ events' = Append(events, [event |-> e, n |-> made + 1])

\* report_player_state_due when a sample is due.
SamplePlayer ==
  /\ PushEvent([kind |-> "player"])
  /\ UNCHANGED <<tracked, late, ran>>
  /\ UNCHANGED game /\ UNCHANGED wire /\ UNCHANGED client /\ UNCHANGED server

\* With its list done the flush thread goes on to the samples, or sleeps
\* 100 ms and starts again.
After(at, list) ==
  IF list # <<>> THEN at ELSE IF at = "pushDiff" THEN "sample" ELSE "diff"

\* flush_npc_diff: an empty window says nothing, any other is compared with
\* the last; the sets are walked in no particular order.
NpcDiff ==
  /\ flush = "diff"
  /\ IF current = {} THEN flush' = "sample" /\ UNCHANGED <<announced, todo>>
     ELSE /\ \E added \in SetToSeqs(current \ (announced \cup {Player})),
               removed \in SetToSeqs(announced \ current) :
               todo' = [i \in DOMAIN added |-> [kind |-> "spawn", ref |-> added[i]]]
                         \o [i \in DOMAIN removed |-> [kind |-> "remove", ref |-> removed[i]]]
          /\ announced' = current \ {Player}
          /\ flush' = After("pushDiff", todo')
  /\ current' = {}
  /\ UNCHANGED <<tracked, events, made, late, story, ran>>
  /\ UNCHANGED wire /\ UNCHANGED client /\ UNCHANGED server

\* Mutant of SampleTracked: every NPC announced is sampled.
SampleAnnounced ==
  /\ flush = "sample"
  /\ \E list \in SetToSeqs(announced) :
       todo' = [i \in DOMAIN list |-> [kind |-> "sample", ref |-> list[i]]]
  /\ flush' = After("pushSamples", todo')
  /\ UNCHANGED <<current, announced, tracked, events, made, late, story, ran>>
  /\ UNCHANGED wire /\ UNCHANGED client /\ UNCHANGED server

\* sample_tracked copies the table, unlocks it and then samples each NPC.  The
\* order the table keeps decides only which of them is sampled first.
SampleTracked ==
  /\ flush = "sample"
  /\ \E list \in SetToSeqs(tracked) :
       todo' = [i \in DOMAIN list |-> [kind |-> "sample", ref |-> list[i]]]
  /\ flush' = After("pushSamples", todo')
  /\ UNCHANGED <<current, announced, tracked, events, made, late, story, ran>>
  /\ UNCHANGED wire /\ UNCHANGED client /\ UNCHANGED server

PushNext ==
  /\ todo # <<>>
  /\ PushEvent(Head(todo))
  /\ todo' = Tail(todo)
  /\ flush' = After(flush, Tail(todo))
  /\ LET e == Head(todo) IN
       /\ late' = IF e.kind = "sample" /\ late[e.ref] # Held
                    THEN [late EXCEPT ![e.ref] = @ + 1] ELSE late
       /\ story' = IF e.kind = "sample" THEN story
                     ELSE [story EXCEPT ![e.ref] = Append(@, e.kind)]
  /\ UNCHANGED <<current, announced, tracked, ran>>
  /\ UNCHANGED wire /\ UNCHANGED client /\ UNCHANGED server

----------------------------------------------------------------------------
(* The connection thread *)

\* run_server: the next connection, one at a time and in the order made.
Accept ==
  /\ serving = 0
  /\ \E l \in Links :
       /\ "waiting" \in open[l]
       /\ \A k \in 1..l - 1 : "waiting" \notin open[k]
       /\ serving' = l
       /\ open' = [open EXCEPT ![l] = (@ \ {"waiting"}) \cup {"bridge"}]
  /\ pend' = <<>> /\ out' = <<>>
  /\ UNCHANGED <<tracked, events, made, late, ran, toBridge, toClient, written>>
  /\ UNCHANGED game /\ UNCHANGED client

\* What NPC n is after some orders: the last that names it decides.
Ordered(orders, n, otherwise, held, free) ==
  LET naming == {i \in DOMAIN orders : orders[i].ref = n}
  IN  IF naming = {} THEN otherwise
      ELSE IF orders[Max(naming)].op = "track" THEN held ELSE free

\* track_actor and untrack_actor, reached through commands::execute.
Tracked(orders) == {n \in Npcs : Ordered(orders, n, n \in tracked, TRUE, FALSE)}

\* dispatch: a command is run and answered under its key, anything that is
\* not a command is told to close.
Answer(f) ==
  IF f.kind = "command" THEN [kind |-> "return", key |-> f.key, id |-> f.id]
  ELSE [kind |-> "close"]

\* One round of handle_client: what was read, the commands it completes, and
\* their answers followed by every queued event, ready to be written.
Round(data) ==
  LET buf == pend \o data
      fs == Whole(buf)
      cs == OfKind(fs, "command")
      orders == [i \in DOMAIN cs |-> cs[i].order]
  IN /\ pend' = Rest(buf)
     /\ tracked' = Tracked(orders)
     /\ ran' = ran \o [i \in DOMAIN cs |-> cs[i].id]
     /\ late' = [n \in Npcs |-> Ordered(orders, n, late[n], Held, 0)]
     /\ out' = EncodeAll([i \in DOMAIN fs |-> Answer(fs[i])]
                   \o [i \in DOMAIN events |-> [kind |-> "event", what |-> events[i]]])
     /\ events' = <<>>
     /\ written' = [written EXCEPT ![serving] = @ \o Numbers(events)]

\* The read gives part of what has arrived, or times out with nothing.
Serve ==
  /\ serving # 0 /\ out = <<>>
  /\ \E k \in 0..Len(toBridge[serving]) :
       /\ k = 0 => toBridge[serving] = <<>> /\ "client" \in open[serving]
       /\ Round(SubSeq(toBridge[serving], 1, k))
       /\ toBridge' = [toBridge EXCEPT ![serving] = SubSeq(@, k + 1, Len(@))]
  /\ UNCHANGED <<made, serving, toClient, open>>
  /\ UNCHANGED game /\ UNCHANGED client

\* Mutant of Write: only what fits as a whole is written.
WriteWhole ==
  /\ out # <<>>
  /\ \/ /\ "client" \in open[serving]
        /\ Len(toClient[serving]) + Len(out) =< Capacity
        /\ toClient' = [toClient EXCEPT ![serving] = @ \o out]
        /\ out' = <<>>
     \/ /\ "client" \notin open[serving]
        /\ out' = <<>>
        /\ UNCHANGED toClient
  /\ UNCHANGED <<tracked, events, made, late, ran, toBridge, open, serving, pend, written>>
  /\ UNCHANGED game /\ UNCHANGED client

\* write_all: as much as the connection has room for; an error is ignored.
Write ==
  /\ out # <<>>
  /\ \/ /\ "client" \in open[serving]
        /\ LET k == Min({Len(out), Capacity - Len(toClient[serving])}) IN
             /\ k > 0
             /\ toClient' = [toClient EXCEPT ![serving] = @ \o SubSeq(out, 1, k)]
             /\ out' = SubSeq(out, k + 1, Len(out))
     \/ /\ "client" \notin open[serving]
        /\ out' = <<>>
        /\ UNCHANGED toClient
  /\ UNCHANGED <<tracked, events, made, late, ran, toBridge, open, serving, pend, written>>
  /\ UNCHANGED game /\ UNCHANGED client

\* The stream is closed and the thread goes back to accepting.
Close ==
  /\ open' = [open EXCEPT ![serving] = @ \ {"bridge"}]
  /\ toBridge' = [toBridge EXCEPT ![serving] = <<>>]
  /\ serving' = 0 /\ pend' = <<>> /\ out' = <<>>
  /\ UNCHANGED <<tracked, events, made, late, ran, toClient, written>>
  /\ UNCHANGED game /\ UNCHANGED client

\* read says the client has gone.
Eof ==
  /\ serving # 0 /\ out = <<>>
  /\ "client" \notin open[serving] /\ toBridge[serving] = <<>>
  /\ Close

\* A command panics; catch_unwind keeps the thread alive.
Panic ==
  /\ serving # 0 /\ out = <<>>
  /\ OfKind(Whole(pend \o toBridge[serving]), "command") # <<>>
  /\ Close

----------------------------------------------------------------------------
(* The client's loop *)

\* A new pipe replaces the one in use; what was on its way is lost, to the
\* bridge only if the system resets the connection.
Reopen ==
  /\ mine < MaxLinks /\ Work < MaxWork
  /\ mine' = mine + 1
  /\ open' = [l \in Links |-> IF l = mine' THEN {"client", "waiting"}
                               ELSE IF l = mine THEN open[l] \ {"client"} ELSE open[l]]
  /\ \/ UNCHANGED toBridge
     \/ mine # 0 /\ toBridge' = [toBridge EXCEPT ![mine] = <<>>]
  /\ toClient' = [l \in Links |-> IF l = mine THEN <<>> ELSE toClient[l]]
  /\ frame' = "wait" /\ nextKey' = 1 /\ running' = 0
  /\ returns' = <<>> /\ readBuf' = <<>> /\ eventBuf' = <<>>
  /\ UNCHANGED <<tracked, events, made, late, ran, handed, got, issued, answers>>
  /\ UNCHANGED game /\ UNCHANGED server

\* Game::connect, in the same process and after a frame.
Connect == running = 0 /\ frame # "heard" /\ Reopen /\ UNCHANGED known

\* The client is killed, in the middle of a command or not, and started again.
Restart == mine # 0 /\ Reopen /\ known' = FALSE

\* Game::poll waits in recv until a datagram comes, whatever is in it; it may
\* tell the client which player is its own.
Poll ==
  /\ mine # 0 /\ running = 0 /\ frame # "heard"
  /\ frame' = "heard"
  /\ known' \in {known, TRUE}
  /\ UNCHANGED <<tracked, events, made, late, ran, mine, nextKey, running, returns, readBuf,
                 eventBuf, handed, got, issued, answers>>
  /\ UNCHANGED game /\ UNCHANGED server /\ UNCHANGED wire

\* Everything that has arrived is read and sorted into answers and events.
Ingest ==
  LET fs == Whole(readBuf \o toClient[mine])
  IN /\ readBuf' = Rest(readBuf \o toClient[mine])
     /\ returns' = returns \o OfKind(fs, "return")
     /\ got' = [got EXCEPT ![mine] = @ \o Numbers(Payloads(OfKind(fs, "event")))]
     /\ toClient' = [toClient EXCEPT ![mine] = <<>>]

Arrived == Payloads(OfKind(Whole(readBuf \o toClient[mine]), "event"))

\* poll_bridge: what can be read now, then everything buffered, of which
\* packets are made only once the client knows its player; a send that fails
\* drops the rest of them.
PollBridge ==
  /\ frame = "heard"
  /\ frame' = "looked"
  /\ Ingest
  /\ LET all == Numbers(eventBuf \o Arrived) IN
       \E sent \in IF known THEN Prefixes(all) ELSE {<<>>} : handed' = handed \o sent
  /\ eventBuf' = <<>>
  /\ UNCHANGED <<tracked, events, made, late, ran, toBridge, open, mine, nextKey, running, known,
                 issued, answers>>
  /\ UNCHANGED game /\ UNCHANGED server

\* flush_commands, at the end of a frame: execute sends a command for an
\* ownership the server gave or took, and waits; nothing else of the client
\* runs meanwhile.
Execute(order) ==
  /\ frame = "looked" /\ running = 0 /\ issued < MaxCommands /\ Work < MaxWork
  /\ issued' = issued + 1
  /\ running' = nextKey
  /\ nextKey' = nextKey + 1
  /\ toBridge' = IF open[mine] \cap {"bridge", "waiting"} = {} THEN toBridge
           ELSE [toBridge EXCEPT ![mine] = @ \o EncodeFrame(
                   [kind |-> "command", key |-> nextKey, id |-> issued', order |-> order])]
  /\ UNCHANGED <<tracked, events, made, late, ran, toClient, open, mine, frame, returns, readBuf, eventBuf,
                 known, handed, got, answers>>
  /\ UNCHANGED game /\ UNCHANGED server

Answered == {i \in DOMAIN returns : returns[i].key = running}

\* recv, while the answer has not come: events that come first are kept.
Await ==
  /\ running # 0 /\ Answered = {} /\ toClient[mine] # <<>>
  /\ Ingest
  /\ eventBuf' = eventBuf \o Arrived
  /\ UNCHANGED <<tracked, events, made, late, ran, toBridge, open, mine, frame, nextKey, running, known,
                 handed, issued, answers>>
  /\ UNCHANGED game /\ UNCHANGED server

\* take_return finds the answer by its key.
TakeReturn ==
  /\ running # 0 /\ Answered # {}
  /\ LET i == CHOOSE i \in Answered : \A j \in Answered : i =< j IN
       /\ returns' = RemoveAt(returns, i)
       /\ answers' = Append(answers, <<issued, returns[i].id>>)
  /\ running' = 0
  /\ UNCHANGED <<tracked, events, made, late, ran, mine, frame, nextKey, readBuf, eventBuf, known, handed,
                 got, issued>>
  /\ UNCHANGED game /\ UNCHANGED server /\ UNCHANGED wire

\* recv returns nothing, the other end being closed: execute is an error.
Disconnected ==
  /\ running # 0 /\ Answered = {} /\ toClient[mine] = <<>>
  /\ open[mine] \cap {"bridge", "waiting"} = {}
  /\ running' = 0
  /\ UNCHANGED <<tracked, events, made, late, ran, mine, frame, nextKey, returns, readBuf, eventBuf, known,
                 handed, got, issued, answers>>
  /\ UNCHANGED game /\ UNCHANGED server /\ UNCHANGED wire

PipeNext ==
  \/ \E n \in Npcs \cup {Player} : Collect(n)
  \/ SamplePlayer \/ NpcDiff \/ SampleTracked \/ PushNext
  \/ Accept \/ Serve \/ Write \/ Eof \/ Panic
  \/ Connect \/ Restart \/ Poll \/ PollBridge
  \/ \E order \in Tracking : Execute(order)
  \/ Await \/ TakeReturn \/ Disconnected

PipeSpec == PipeInit /\ [][PipeNext]_pipeVars

\* The connection thread never stops, and neither does the client once it has
\* got a datagram; nothing is assumed of the server's sending one, of the
\* engine, of panics or of anybody connecting.
PipeFairSpec ==
  PipeSpec /\ WF_pipeVars(Accept) /\ WF_pipeVars(Serve) /\ WF_pipeVars(Write) /\ WF_pipeVars(Eof)
       /\ WF_pipeVars(PollBridge) /\ WF_pipeVars(Await) /\ WF_pipeVars(TakeReturn)
       /\ WF_pipeVars(Disconnected)

----------------------------------------------------------------------------
(* Properties *)

\* Every thread's state keeps to its values: the streams hold halves of the
\* frames the two sides exchange and nothing else.
PipeTypeOK ==
  /\ current \subseteq Npcs \cup {Player} /\ announced \subseteq Npcs
  /\ tracked \subseteq Npcs /\ todo \in Seq(Event)
  /\ flush \in {"diff", "pushDiff", "sample", "pushSamples"}
  /\ events \in Seq(Numbered) /\ eventBuf \in Seq(Numbered)
  /\ serving \in 0..mine /\ mine \in 0..MaxLinks
  /\ pend \in Seq(Half) /\ out \in Seq(Half) /\ readBuf \in Seq(Half)
  /\ toBridge \in [Links -> Seq(Half)] /\ toClient \in [Links -> Seq(Half)]
  /\ \A l \in Links : Len(toClient[l]) =< Capacity
  /\ open \in [Links -> SUBSET {"client", "waiting", "bridge"}]
  /\ frame \in {"wait", "heard", "looked"} /\ running \in 0..MaxCommands /\ nextKey \in 1..MaxCommands + 1
  /\ returns \in Seq(Frame) /\ late \in [Npcs -> Nat \cup {Held}] /\ known \in BOOLEAN
  /\ made \in 0..MaxEvents /\ issued \in 0..MaxCommands

\* Every event is written for one connection or still queued, in the order
\* the threads pushed it, and a client takes from its connection a prefix of
\* what was written for it: none is lost, doubled or overtaken as long as
\* the connection lasts (the queue outliving the connection, the buffers on
\* both sides, and execute keeping what comes before its answer).
EventsConserved ==
  /\ FlattenSeq(written) \o Numbers(events) = [i \in 1..made |-> i]
  /\ \A l \in Links : IsPrefix(got[l], written[l])

\* Packets are made of events in the order they were pushed, each once.
HandedInOrder == \A i, j \in DOMAIN handed : i < j => handed[i] < handed[j]

\* The bridge runs commands in the order they were sent and none twice, also
\* those of a connection whose client has died; and execute returns the
\* answer of the very command it sent, which has been run.
CommandsRunOnce ==
  /\ \A i, j \in DOMAIN ran : i < j => ran[i] < ran[j]
  /\ \A i \in DOMAIN answers :
       answers[i][1] = answers[i][2] /\ Contains(ran, answers[i][1])

\* After the client has let an NPC go, at most one more sample of it is
\* pushed: the one the flush thread had copied from the table before.
LateSampleOnce == \A n \in Npcs : late[n] =< 1

\* The client hears of an NPC spawn, remove, spawn and so on, whatever the
\* engine's windows contain.
SpawnsAlternate ==
  \A n \in Npcs : \A i \in DOMAIN story[n] :
    story[n][i] = IF i % 2 = 1 THEN "spawn" ELSE "remove"

\* What a client hears of an NPC makes sense.
NpcStoryIsSound == SpawnsAlternate /\ LateSampleOnce

\* A client that waits for an answer gets it or an error, even when the pipe
\* is full of events in the other direction.
ExecuteReturns == []<>(running = 0)

\* A connected client that hears from the server again and again comes to
\* have every event there is, unless its connection ends.
EventsArrive ==
  LET UpToDate == events = <<>> /\ \A l \in Links : l = mine => got[l] = written[l]
  IN []<>(frame = "heard") => []<>(mine # 0 /\ serving = mine => UpToDate)
=============================================================================
