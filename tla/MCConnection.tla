---------------------------- MODULE MCConnection ----------------------------
(***************************************************************************)
(* The two directions of a connection, the registry behind them and the    *)
(* coop loop for TLC.  A behaviour is one of these, chosen at the start    *)
(* (part); the others stay as they were.                                   *)
(*                                                                         *)
(*   "laps"     the uplink going around its sequence numbers, with bounded *)
(*              reordering and old copies and nothing lost                 *)
(*   "storm"    the uplink under loss, copies and any reordering, for less *)
(*              than a lap                                                 *)
(*   "fifo"     the downlink, first in first out, around its numbers       *)
(*   "loss"     the downlink losing data and acknowledgements              *)
(*   "registry" three addresses that also fall silent or log in twice      *)
(*   "coop"     two clients whose packets arrive and are handled           *)
(*                                                                         *)
(* RecvWindow is small enough for packets to fall outside it; half the     *)
(* downlink's sequence space is at least twice its window, as it is in the *)
(* code (0x8000 and 32).  MaxReports and MaxPlayers of "coop" are more     *)
(* than its clients can use up.                                            *)
(***************************************************************************)
EXTENDS Uplink, ActorRegistry

CONSTANTS a1, a2, n1, n2

VARIABLES
  part,
  downSent, send_queues, downlink, ack_queue, acks, received, repeated,
  state, seen, owned, up, down

Storm == INSTANCE Uplink WITH
  RecvWindow <- 3, MaxSent <- 5, CanLose <- TRUE,
  CanDuplicate <- TRUE, ReorderDepth <- 6, CopyLife <- 8

Fifo == INSTANCE Downlink WITH
  LastChannel <- 1, MaxInflight <- 2, MaxSent <- 10, NetBound <- 2,
  CanLose <- FALSE, ReorderDepth <- 1, sent <- downSent

Loss == INSTANCE Downlink WITH
  LastChannel <- 1, MaxInflight <- 2, MaxSent <- 3, NetBound <- 2,
  CanLose <- TRUE, ReorderDepth <- 1, sent <- downSent

\* Each reference has an id of its own, as it does while references stay below 2^31.
MCRefs == 1 .. 2
MCEntityId == <<n1, n2>>
MCNpcs == {n1, n2}

Coop == INSTANCE CoopLoop WITH
  Addrs <- {a1, a2}, MaxPlayers <- 2, MaxReports <- 4, CanCull <- FALSE,
  CanReauth <- FALSE, CanKick <- FALSE, CanLoseSight <- FALSE, SeesEarly <- FALSE,
  MaxQueue <- 4

ASSUME Fifo!DownlinkAssumption /\ Loss!DownlinkAssumption

downVars   == <<downSent, send_queues, downlink, ack_queue, acks, received, repeated>>
clientSide == <<state, seen, owned, up, down>>
worldVars  == <<registryVars, clientSide>>
allVars    == <<vars, downVars, worldVars, part>>

MCInit ==
  /\ part \in {"laps", "storm", "fifo", "loss", "registry", "coop"}
  /\ Init
  /\ Fifo!Init
  /\ \/ /\ part = "registry"
        /\ RegistryInit
        /\ state = <<>> /\ seen = <<>> /\ owned = <<>> /\ up = <<>> /\ down = <<>>
     \/ part # "registry" /\ Coop!CoopInit

InUplink(A)   == A /\ UNCHANGED <<downVars, worldVars, part>>
InDownlink(A) == A /\ UNCHANGED <<vars, worldVars, part>>
InWorld(A)    == A /\ UNCHANGED <<vars, downVars, part>>

MCNext ==
  \/ part = "laps" /\ InUplink(Next)
  \/ part = "storm" /\ InUplink(Storm!Next)
  \/ part = "fifo" /\ InDownlink(Fifo!Next)
  \/ part = "loss" /\ InDownlink(Loss!Next)
  \/ part = "registry" /\ InWorld(RegistryNext /\ UNCHANGED clientSide)
  \/ part = "coop" /\ InWorld(Coop!CoopNext)

\* The fairness of the components: see FairSpec of Uplink and of Downlink, and
\* FairCoopSpec of CoopLoop.
MCSpec ==
  /\ MCInit /\ [][MCNext]_allVars
  /\ WF_allVars(part = "laps" /\ InUplink(\E d \in Arriving \cap inFlight : TryRecv(d)))
  /\ WF_allVars(part = "loss" /\ InDownlink(Loss!Retransmit(Loss!Unacked)))
  /\ SF_allVars(part = "loss" /\ InDownlink(\E i \in Loss!Deliverable(downlink) : Loss!ClientRecv(i)))
  /\ SF_allVars(part = "loss" /\ InDownlink(Loss!ClientSend))
  /\ SF_allVars(part = "loss" /\ InDownlink(\E i \in Loss!Deliverable(acks) : Loss!AckRecv(i)))
  /\ \A a \in {a1, a2} :
       /\ WF_allVars(part = "coop" /\ InWorld(Coop!ClientRecv(a)))
       /\ WF_allVars(part = "coop" /\ InWorld(Coop!ServerRecv(a)))

-----------------------------------------------------------------------------
(* The properties of the components, each of the behaviours it is about.   *)

\* The type invariants.
TypesOK ==
  /\ part = "laps" => TypeOK
  /\ part = "fifo" => Fifo!TypeOK
  /\ part = "loss" => Loss!TypeOK
  /\ part = "registry" => RegistryTypeOK
  /\ part = "coop" => Coop!CoopTypeOK

\* The liveness properties below speak of conditions that stay true once they are:
\* []<>(P => Q) is P ~> Q, and cheaper to check.

\* While nothing is lost, every packet a client sends is put in order in the end,
\* lap after lap of the sequence numbers.
EveryPacketAccepted ==
  \A p \in 0 .. MaxSent - 1 : []<>(part = "laps" /\ sent > p => Accepted > p)

\* The send queues are one unbroken run up to the last packet sent. Where frames
\* stay in order and none is lost, the server forgets a packet only once the
\* client has it, and the client's first sight of the packets is in the order of
\* sending.
DownlinkKeepsOrder ==
  /\ part = "fifo" => Fifo!BufferIsSuffix /\ Fifo!ForgottenWasReceived /\ Fifo!ReceivedInOrder
  /\ part = "loss" => Loss!BufferIsSuffix

\* Under loss every packet leaves the send queues in the end: a full window reopens.
EveryPacketLeavesWindow ==
  \A p \in Loss!Packets : []<>(part = "loss" => p \notin Loss!Unacked)

\* While nobody leaves and nothing goes out of view, an NPC that a player has in
\* view gets somebody to simulate it.
SeenIsSimulated ==
  \A a \in {a1, a2}, r \in Refs :
    []<>(part = "coop" /\ a \in Coop!Connected /\ r \in seen[a]
           => owners[EntityId[r]] # Nobody)
=============================================================================
