------------------------------- MODULE Uplink -------------------------------
(***************************************************************************)
(* The client-to-server half of a connection: ClientNetwork::send on one   *)
(* side, the receiving half of the server's ReliableChannel behind         *)
(* NetworkManager::try_recv on the other, and UDP between them.            *)
(*                                                                         *)
(* The client numbers its reliable packets and forgets them: it keeps no   *)
(* send buffer, has no send window and ignores the server's ACK and NACK   *)
(* frames.  The server reassembles, and hands at most one packet to the    *)
(* dispatcher for each reliable datagram that arrives.                     *)
(*                                                                         *)
(* A packet is its position in the client's stream.  The network loses a   *)
(* datagram (as does the server's own rate limiter, before try_recv),      *)
(* delivers it again, and lets it overtake others.                         *)
(***************************************************************************)
EXTENDS SeqNum, Sequences

CONSTANTS
  RecvWindow,    \* RECV_WINDOW, 32 in the code
  MaxSent,       \* bound: reliable packets the client sends
  CanLose,       \* whether a datagram may be lost
  CanDuplicate,  \* whether a delivered datagram may arrive again
  ReorderDepth,  \* a datagram overtakes only those sent fewer than this many before it
  CopyLife       \* a second copy arrives before this many further packets are sent

ASSUME UplinkAssumption ==
  /\ RecvWindow \in Nat \ {0}
  /\ RecvWindow < SeqSpace
  /\ MaxSent \in Nat
  /\ CanLose \in BOOLEAN
  /\ CanDuplicate \in BOOLEAN
  /\ ReorderDepth \in Nat \ {0}
  /\ CopyLife \in Nat

VARIABLES
  sent,          \* client: packets sent; send_seq is SeqNo(sent)
  inFlight,      \* datagrams that have not arrived yet
  echoes,        \* datagrams that arrived once and may arrive again
  recv_seq,      \* server: the sequence number expected next
  recv_buffer,   \* server: packets held back for reassembly, by sequence number
  ready_queue,   \* server: packets in order, waiting to be taken
  ack_pending,   \* server: an ACK is owed
  pending_nacks, \* server: numbers to NACK; nack_pending holds when it is not empty
  dispatched     \* history: the packets handed to handle_recv, oldest first

clientVars  == <<sent>>
networkVars == <<inFlight, echoes>>
serverVars  == <<recv_seq, recv_buffer, ready_queue, ack_pending, pending_nacks, dispatched>>
vars        == <<sent, inFlight, echoes, recv_seq, recv_buffer, ready_queue,
                 ack_pending, pending_nacks, dispatched>>

Datagrams == [seq : Seqs, pkt : Nat]

Init ==
  /\ sent = 0
  /\ inFlight = {}
  /\ echoes = {}
  /\ recv_seq = 0
  /\ recv_buffer = [s \in {} |-> 0]
  /\ ready_queue = <<>>
  /\ ack_pending = FALSE
  /\ pending_nacks = {}
  /\ dispatched = <<>>

-----------------------------------------------------------------------------
(* The client. *)

Send ==
  /\ sent < MaxSent
  /\ sent' = sent + 1
  /\ inFlight' = inFlight \cup {[seq |-> SeqNo(sent), pkt |-> sent]}
  /\ echoes' = {d \in echoes : sent < d.pkt + CopyLife}
  /\ UNCHANGED serverVars

-----------------------------------------------------------------------------
(* The network. *)

Lose(d) ==
  /\ CanLose
  /\ inFlight' = inFlight \ {d}
  /\ UNCHANGED <<clientVars, echoes, serverVars>>

\* The datagrams that may arrive now.
Arriving ==
  echoes \cup {d \in inFlight : \A e \in inFlight : d.pkt < e.pkt + ReorderDepth}

Arrive(d) ==
  /\ inFlight' = inFlight \ {d}
  /\ \/ echoes' = echoes \ {d}
     \/ /\ CanDuplicate
        /\ sent <= d.pkt + CopyLife
        /\ echoes' = echoes \cup {d}

-----------------------------------------------------------------------------
(* The server: try_recv on a reliable frame is one of the three cases of   *)
(* ReliableChannel::recv followed by take_ready.                           *)

\* Mutant of TakeReady: the queue is taken from its young end.
TakeReadyLast(queue) ==
  \/ queue = <<>> /\ ready_queue' = <<>> /\ UNCHANGED dispatched
  \/ /\ queue # <<>>
     /\ ready_queue' = SubSeq(queue, 1, Len(queue) - 1)
     /\ dispatched' = Append(dispatched, queue[Len(queue)])

\* take_ready: at most one packet of the queue goes to the dispatcher.
TakeReady(queue) ==
  \/ /\ queue = <<>>
     /\ ready_queue' = <<>>
     /\ UNCHANGED dispatched
  \/ /\ queue # <<>>
     /\ ready_queue' = Tail(queue)
     /\ dispatched' = Append(dispatched, Head(queue))

Buffered(k) == WrapAdd(recv_seq, k) \in DOMAIN recv_buffer

\* Mutant of RunLength: the packets held back stay where they are.
RunLengthNone(k) == k = 0

\* How many buffered packets follow the expected one without a gap.
RunLength(k) ==
  /\ \A j \in 1 .. k : Buffered(j)
  /\ ~ Buffered(k + 1)

\* The expected packet: it and the buffered run after it become ready.
RecvExpected(d) ==
  /\ d.seq = recv_seq
  /\ \E k \in 0 .. RecvWindow :
       /\ RunLength(k)
       /\ recv_seq' = WrapAdd(recv_seq, k + 1)
       /\ recv_buffer' = [s \in DOMAIN recv_buffer \ {WrapAdd(recv_seq, j) : j \in 1 .. k}
                            |-> recv_buffer[s]]
       /\ TakeReady(ready_queue \o <<d.pkt>>
                      \o [j \in 1 .. k |-> recv_buffer[WrapAdd(recv_seq, j)]])
  /\ ack_pending' = TRUE
  /\ UNCHANGED pending_nacks

\* A packet ahead of a gap but inside the window: held back, the gap is NACKed.
RecvAhead(d) ==
  LET gap == WrapSub(d.seq, recv_seq) IN
  /\ gap # 0
  /\ gap < RecvWindow
  /\ recv_buffer' = [s \in DOMAIN recv_buffer \cup {d.seq} |->
                       IF s = d.seq THEN d.pkt ELSE recv_buffer[s]]
  /\ pending_nacks' = pending_nacks \cup
       {WrapAdd(recv_seq, i) : i \in {j \in 0 .. gap - 1 : ~ Buffered(j)}}
  /\ TakeReady(ready_queue)
  /\ UNCHANGED <<recv_seq, ack_pending>>

\* Too far ahead, or already accepted: dropped, but take_ready still runs.
RecvOutside(d) ==
  /\ WrapSub(d.seq, recv_seq) >= RecvWindow
  /\ TakeReady(ready_queue)
  /\ UNCHANGED <<recv_seq, recv_buffer, ack_pending, pending_nacks>>

TryRecv(d) ==
  /\ Arrive(d)
  /\ RecvExpected(d) \/ RecvAhead(d) \/ RecvOutside(d)
  /\ UNCHANGED clientVars

\* NetworkManager::tick sends what take_control_frames returns; the client
\* ignores it.
Tick ==
  /\ ack_pending \/ pending_nacks # {}
  /\ ack_pending' = FALSE
  /\ pending_nacks' = {}
  /\ UNCHANGED <<clientVars, networkVars, recv_seq, recv_buffer, ready_queue, dispatched>>

-----------------------------------------------------------------------------
Next ==
  \/ Send
  \/ \E d \in inFlight : Lose(d)
  \/ \E d \in Arriving : TryRecv(d)
  \/ Tick

Spec == Init /\ [][Next]_vars

\* Every datagram that is not lost arrives.
FairSpec == Spec /\ WF_vars(\E d \in Arriving \cap inFlight : TryRecv(d))

-----------------------------------------------------------------------------
(* Properties. *)

\* How many packets of the stream the server has put in order so far.
Accepted == Len(dispatched) + Len(ready_queue)

\* The types of the variables.
TypeOK ==
  /\ sent \in Nat
  /\ inFlight \subseteq Datagrams
  /\ echoes \subseteq Datagrams
  /\ recv_seq \in Seqs
  /\ DOMAIN recv_buffer \subseteq Seqs
  /\ recv_buffer \in [DOMAIN recv_buffer -> Nat]
  /\ ready_queue \in Seq(Nat)
  /\ ack_pending \in BOOLEAN
  /\ pending_nacks \subseteq Seqs
  /\ dispatched \in Seq(Nat)

\* What the handlers have seen is a prefix of what the client sent, and the
\* ready queue continues it: nothing is skipped, repeated or swapped by
\* reassembly, whatever the network does.
InOrder ==
  /\ \A i \in 1 .. Len(dispatched) : dispatched[i] = i - 1
  /\ \A i \in 1 .. Len(ready_queue) : ready_queue[i] = Len(dispatched) + i - 1

\* Each packet held back is one the server still waits to reach, less than a
\* window ahead, filed under its own number; so two laps of the sequence
\* numbers never meet in the reassembly buffer.
HeldBack ==
  \A s \in DOMAIN recv_buffer :
    /\ recv_buffer[s] \in Accepted + 1 .. Accepted + RecvWindow - 1
    /\ SeqNo(recv_buffer[s]) = s

\* When the network loses nothing, the packet the server waits for is on its
\* way: no arrival is thrown away that the client would have to send again.
ExpectedIsComing ==
  (~ CanLose /\ Accepted < sent) => \E d \in inFlight : d.pkt = Accepted

\* The uplink implements ordered, exactly-once delivery.
Delivery == INSTANCE OrderedDelivery
DeliversInOrder == Delivery!Spec

\* Every packet the client sends reaches the dispatcher.
EveryPacketDispatched ==
  \A p \in 0 .. MaxSent - 1 : (sent > p) ~> (Len(dispatched) > p)
=============================================================================
