------------------------------ MODULE Downlink ------------------------------
(***************************************************************************)
(* The server-to-client half of a connection: the sending half of the      *)
(* server's ReliableChannel (send window, three priority queues, timed     *)
(* retransmission, cumulative acknowledgement) and ClientNetwork, which    *)
(* hands over whatever arrives and acknowledges that very number.          *)
(*                                                                         *)
(* A packet is its position in the server's stream; its number on the wire *)
(* is SeqNo of it.  The clock is left out: any unacknowledged packet may   *)
(* have outlived its timeout at a tick.  The server retransmits on time    *)
(* only, because no client ever sends a NACK.  What the client sends of    *)
(* its own is the Uplink module's; here it matters because the queued      *)
(* acknowledgements leave with it and not before.                          *)
(*                                                                         *)
(* A send queue is the set of its packets: the code only appends the       *)
(* newest to it and retains some of it, so it stays in order of sending.   *)
(***************************************************************************)
EXTENDS SeqNum, SequencesExt

CONSTANTS
  LastChannel,   \* send queues 0 .. LastChannel, drained in that order; 2 in the code
  MaxInflight,   \* MAX_INFLIGHT, 32 in the code
  MaxSent,       \* bound: reliable packets the server sends
  NetBound,      \* bound: datagrams under way, and acknowledgements waiting
  CanLose,       \* whether a datagram may be lost
  ReorderDepth   \* a datagram overtakes fewer than this many others

\* What the code's constants satisfy.
DownlinkAssumption ==
  /\ LastChannel \in Nat
  /\ MaxInflight \in Nat \ {0}
  /\ SeqSpace % 2 = 0
  /\ MaxSent \in Nat
  /\ NetBound \in Nat \ {0}
  /\ CanLose \in BOOLEAN
  /\ ReorderDepth \in Nat \ {0}

VARIABLES
  sent,         \* server: packets sent; send_seq is SeqNo(sent)
  send_queues,  \* server: unacknowledged packets, by channel
  downlink,     \* data frames under way, oldest first
  ack_queue,    \* client: numbers to acknowledge with its next send
  acks,         \* ACK frames under way, oldest first
  received,     \* history: the packets the client has dispatched, in the order of their first arrival
  repeated      \* history: whether it has dispatched some packet more than once

serverVars == <<sent, send_queues>>
clientVars == <<ack_queue, received, repeated>>
vars       == <<sent, send_queues, downlink, ack_queue, acks, received, repeated>>

Channels == 0 .. LastChannel
Packets  == 0 .. MaxSent - 1

Init ==
  /\ sent = 0
  /\ send_queues = [c \in Channels |-> {}]
  /\ downlink = <<>>
  /\ ack_queue = <<>>
  /\ acks = <<>>
  /\ received = <<>>
  /\ repeated = FALSE

Unacked == UNION {send_queues[c] : c \in Channels}

-----------------------------------------------------------------------------
(* The server. *)

\* The queues' lengths together: a packet is in one of them.
CanSend == Cardinality(Unacked) < MaxInflight

\* send_reliable; with the window full it refuses the packet and changes nothing.
SendReliable(c) ==
  /\ CanSend
  /\ sent < MaxSent /\ Len(downlink) < NetBound
  /\ sent' = sent + 1
  /\ send_queues' = [send_queues EXCEPT ![c] = @ \cup {sent}]
  /\ downlink' = Append(downlink, sent)
  /\ UNCHANGED <<clientVars, acks>>

\* System first, then Game, then Chat, each queue from its old end.
Before(p, q) ==
  \E c, d \in Channels :
    /\ p \in send_queues[c] /\ q \in send_queues[d]
    /\ c < d \/ (c = d /\ p < q)

\* Mutant of InDrainOrder: the last queue is never looked at.
InDrainOrderShort(expired) ==
  LET found == expired \ send_queues[LastChannel] IN
  {line \in [1 .. Cardinality(found) -> found] :
     \A i, j \in DOMAIN line : i < j => Before(line[i], line[j])}

\* The packets of the set, queue by queue: there is one such line.
InDrainOrder(expired) ==
  {line \in [1 .. Cardinality(expired) -> expired] :
     \A i, j \in DOMAIN line : i < j => Before(line[i], line[j])}

\* tick: retransmit_expired.
Retransmit(expired) ==
  /\ expired # {}
  /\ Len(downlink) + Cardinality(expired) <= NetBound
  /\ \E line \in InDrainOrder(expired) : downlink' = downlink \o line
  /\ UNCHANGED <<serverVars, clientVars, acks>>

\* Mutant of Keeps: the comparison looks ahead too short a way.
KeepsNear(ack, p) == SeqNo(p) # ack /\ WrapSub(SeqNo(p), ack) < SeqSpace \div 4

\* What ack_recv keeps: the numbers less than half the sequence space after the ACK.
Keeps(ack, p) == SeqNo(p) # ack /\ WrapSub(SeqNo(p), ack) < SeqSpace \div 2

\* handle_ctrl_frame on an ACK: everything up to it leaves the queues.
AckRecv(i) ==
  /\ send_queues' = [c \in Channels |->
                       {p \in send_queues[c] : Keeps(acks[i], p)}]
  /\ acks' = RemoveAt(acks, i)
  /\ UNCHANGED <<sent, downlink, clientVars>>

-----------------------------------------------------------------------------
(* The client. *)

\* recv: the packet goes to dispatch at once, whatever its number, and that
\* number is queued as an acknowledgement.
ClientRecv(i) ==
  LET p == downlink[i] IN
  /\ Len(ack_queue) < NetBound
  /\ downlink' = RemoveAt(downlink, i)
  /\ ack_queue' = Append(ack_queue, SeqNo(p))
  /\ IF p \in ToSet(received)
       THEN repeated' = TRUE /\ UNCHANGED received
       ELSE received' = Append(received, p) /\ UNCHANGED repeated
  /\ UNCHANGED <<serverVars, acks>>

\* flush_acks, which only send calls.
ClientSend ==
  /\ ack_queue # <<>>
  /\ Len(acks) + Len(ack_queue) <= NetBound
  /\ acks' = acks \o ack_queue
  /\ ack_queue' = <<>>
  /\ UNCHANGED <<serverVars, downlink, received, repeated>>

-----------------------------------------------------------------------------
(* The network. *)

LoseData(i) ==
  /\ CanLose
  /\ downlink' = RemoveAt(downlink, i)
  /\ UNCHANGED <<serverVars, clientVars, acks>>

LoseAck(i) ==
  /\ CanLose
  /\ acks' = RemoveAt(acks, i)
  /\ UNCHANGED <<serverVars, downlink, clientVars>>

\* The places of a line that may be delivered next.
Deliverable(line) == {i \in DOMAIN line : i <= ReorderDepth}

-----------------------------------------------------------------------------
Next ==
  \/ \E c \in Channels : SendReliable(c)
  \/ \E expired \in SUBSET Unacked : Retransmit(expired)
  \/ \E i \in Deliverable(acks) : AckRecv(i)
  \/ \E i \in Deliverable(downlink) : ClientRecv(i)
  \/ ClientSend
  \/ \E i \in DOMAIN downlink : LoseData(i)
  \/ \E i \in DOMAIN acks : LoseAck(i)

Spec == Init /\ [][Next]_vars

\* Timeouts pass and ticks come; the client keeps sending; a frame resent for
\* ever arrives in the end.
FairSpec ==
  /\ Spec
  /\ WF_vars(Retransmit(Unacked))
  /\ SF_vars(\E i \in Deliverable(downlink) : ClientRecv(i))
  /\ SF_vars(ClientSend)
  /\ SF_vars(\E i \in Deliverable(acks) : AckRecv(i))

-----------------------------------------------------------------------------
(* Properties. *)

\* The types of the variables, and the bounds on them.
TypeOK ==
  /\ sent \in 0 .. MaxSent
  /\ send_queues \in [Channels -> SUBSET Packets]
  /\ downlink \in Seq(Packets)
  /\ ack_queue \in Seq(Seqs)
  /\ acks \in Seq(Seqs)
  /\ received \in Seq(Packets)
  /\ repeated \in BOOLEAN

\* The send queues hold, between them, one unbroken run of packets up to the
\* last one sent: an acknowledgement, however late, takes packets off the old
\* end only, also where the numbers wrap.
BufferIsSuffix ==
  \A p \in 0 .. sent - 1 : p \in Unacked => p + 1 \in Unacked \cup {sent}

\* The server forgets a packet only once the client has it.
ForgottenWasReceived == 0 .. sent - 1 \subseteq Unacked \cup ToSet(received)

\* The client's first sight of the packets is in the order they were sent.
ReceivedInOrder == \A i \in DOMAIN received : received[i] = i - 1

\* No packet is dispatched twice.
NothingRepeated == ~ repeated

\* A packet leaves the send queues in the end, so a full window reopens, even
\* though data frames and acknowledgements get lost.
EveryPacketLeavesWindow ==
  \A p \in Packets : (p \in Unacked) ~> (p \notin Unacked)
=============================================================================
