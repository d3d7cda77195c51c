---------------------------- MODULE UplinkProofs ----------------------------
(***************************************************************************)
(* Proofs about the uplink, for every size of the sequence space and of    *)
(* the window.  They hold as long as no two laps of the sequence numbers   *)
(* can meet, which NoLap states: either the whole connection stays within  *)
(* one lap, or nothing is lost and reordering stays within the window.     *)
(***************************************************************************)
EXTENDS Uplink, TLAPS

\* The connection ends before its sequence numbers start over.
ShortStream == MaxSent + RecvWindow <= SeqSpace

\* The network loses nothing, reorders within the window, and no copy arrives
\* most of a lap late.
OrderlyNetwork ==
  /\ ~ CanLose
  /\ ReorderDepth <= RecvWindow
  /\ CopyLife + RecvWindow <= SeqSpace

NoLap == ShortStream \/ OrderlyNetwork

-----------------------------------------------------------------------------
(* Wrapping arithmetic. *)

\* Subtracting the numbers of two packets gives their distance, as long as
\* the first is not older and they are less than a lap apart.
LEMMA SeqDistance ==
  ASSUME SeqSpaceAssumption, NEW a \in Nat, NEW b \in Nat, b <= a, a < b + SeqSpace
  PROVE  WrapSub(SeqNo(a), SeqNo(b)) = a - b
<1> DEFINE qa == a \div SeqSpace
           qb == b \div SeqSpace
           ra == a % SeqSpace
           rb == b % SeqSpace
<1>1. /\ qa \in Int /\ ra \in 0 .. (SeqSpace - 1) /\ a = SeqSpace * qa + ra
      /\ qb \in Int /\ rb \in 0 .. (SeqSpace - 1) /\ b = SeqSpace * qb + rb
  BY DEF SeqSpaceAssumption
<1> HIDE DEF qa, qb, ra, rb
<1>2. a - b = SeqSpace * (qa - qb) + (ra - rb)
  BY <1>1 DEF SeqSpaceAssumption
<1>3. qa - qb < 2
  BY <1>1, <1>2 DEF SeqSpaceAssumption
<1>4. qa - qb > -1
  BY <1>1, <1>2 DEF SeqSpaceAssumption
<1>5. CASE qa = qb
  <2>1. ra - rb = a - b
    BY <1>1, <1>2, <1>5 DEF SeqSpaceAssumption
  <2>2. (a - b) % SeqSpace = a - b
    BY DEF SeqSpaceAssumption
  <2> QED BY <2>1, <2>2 DEF ra, rb, SeqNo, WrapSub
<1>6. CASE qa = qb + 1
  <2>1. ra - rb = a - b - SeqSpace
    BY <1>1, <1>2, <1>6 DEF SeqSpaceAssumption
  <2>2. (a - b - SeqSpace) % SeqSpace = a - b
    BY DEF SeqSpaceAssumption
  <2> QED BY <2>1, <2>2 DEF ra, rb, SeqNo, WrapSub
<1>7. QED
  BY <1>1, <1>3, <1>4, <1>5, <1>6

\* The same when the first packet is the older one: the distance wraps.
LEMMA SeqDistanceBack ==
  ASSUME SeqSpaceAssumption, NEW a \in Nat, NEW b \in Nat, a < b, b <= a + SeqSpace
  PROVE  WrapSub(SeqNo(a), SeqNo(b)) = (a - b) + SeqSpace \/ b = a + SeqSpace
<1> SUFFICES ASSUME b # a + SeqSpace
             PROVE  WrapSub(SeqNo(a), SeqNo(b)) = (a - b) + SeqSpace
  OBVIOUS
<1>1. WrapSub(SeqNo(b), SeqNo(a)) = b - a
  BY SeqDistance
<1> DEFINE x == SeqNo(a) - SeqNo(b)
<1>2. /\ SeqNo(a) \in Seqs
      /\ SeqNo(b) \in Seqs
  BY DEF SeqNo, Seqs, SeqSpaceAssumption
<1>3. x \in Int /\ -SeqSpace < x /\ x < SeqSpace
  BY <1>2 DEF Seqs, SeqSpaceAssumption
<1>4. (-x) % SeqSpace = b - a
  BY <1>1, <1>2 DEF WrapSub, Seqs
<1>5. x % SeqSpace = (a - b) + SeqSpace
  <2> HIDE DEF x
  <2>1. CASE x <= 0
    <3>1. (-x) % SeqSpace = -x
      BY <1>3, <2>1 DEF SeqSpaceAssumption
    <3>2. x # 0 /\ x = a - b
      BY <1>3, <1>4, <3>1
    <3> QED BY <1>3, <2>1, <3>2 DEF SeqSpaceAssumption
  <2>2. CASE x > 0
    <3>1. (-x) % SeqSpace = SeqSpace - x
      BY <1>3, <2>2 DEF SeqSpaceAssumption
    <3>2. x = (a - b) + SeqSpace
      BY <1>3, <1>4, <3>1 DEF SeqSpaceAssumption
    <3> QED BY <1>3, <2>2, <3>2 DEF SeqSpaceAssumption
  <2> QED BY <1>3, <2>1, <2>2
<1> QED BY <1>5 DEF WrapSub

\* Two packets less than a lap apart with the same number are the same.
LEMMA SeqInjective ==
  ASSUME SeqSpaceAssumption, NEW a \in Nat, NEW b \in Nat,
         a < b + SeqSpace, b < a + SeqSpace, SeqNo(a) = SeqNo(b)
  PROVE  a = b
<1>1. SeqNo(a) \in Int
  BY DEF SeqNo, SeqSpaceAssumption
<1>2. WrapSub(SeqNo(a), SeqNo(b)) = 0
  BY <1>1 DEF WrapSub, SeqSpaceAssumption
<1>3. CASE b <= a
  BY <1>2, <1>3, SeqDistance
<1>4. CASE a < b
  BY <1>2, <1>4, SeqDistance, SeqDistanceBack DEF SeqSpaceAssumption
<1> QED BY <1>3, <1>4

\* Advancing a number by k is the number of the packet k places on.
LEMMA SeqAdvance ==
  ASSUME SeqSpaceAssumption, NEW n \in Nat, NEW k \in Nat
  PROVE  WrapAdd(SeqNo(n), k) = SeqNo(n + k)
<1> DEFINE q == n \div SeqSpace
           r == n % SeqSpace
           t == (n + k) \div SeqSpace
           u == (n + k) % SeqSpace
           v == (r + k) \div SeqSpace
           w == (r + k) % SeqSpace
<1>1. /\ q \in Int /\ r \in 0 .. (SeqSpace - 1) /\ n = SeqSpace * q + r
      /\ t \in Int /\ u \in 0 .. (SeqSpace - 1) /\ n + k = SeqSpace * t + u
  BY DEF SeqSpaceAssumption
<1>2. v \in Int /\ w \in 0 .. (SeqSpace - 1) /\ r + k = SeqSpace * v + w
  BY <1>1 DEF SeqSpaceAssumption
<1> HIDE DEF q, r, t, u, v, w
<1>3. SeqSpace * (t - q - v) = w - u
  BY <1>1, <1>2 DEF SeqSpaceAssumption
<1>4. t - q - v < 1
  BY <1>1, <1>2, <1>3 DEF SeqSpaceAssumption
<1>5. t - q - v > -1
  BY <1>1, <1>2, <1>3 DEF SeqSpaceAssumption
<1>6. t - q - v = 0
  BY <1>1, <1>2, <1>4, <1>5
<1>7. w = u
  BY <1>1, <1>2, <1>3, <1>6 DEF SeqSpaceAssumption
<1> QED BY <1>7 DEF w, u, r, SeqNo, WrapAdd

-----------------------------------------------------------------------------
(* The inductive invariant. *)

\* Every datagram carries the number of its packet; what has arrived once is
\* no longer in flight, and second copies are recent.
Labelled ==
  /\ \A d \in inFlight \cup echoes : d.seq = SeqNo(d.pkt) /\ d.pkt < sent
  /\ \A d \in inFlight, e \in echoes : d.pkt # e.pkt
  /\ \A e \in echoes : sent <= e.pkt + CopyLife

\* The server's counter is the number of the next packet of the stream, and
\* nobody counts past the packets that were sent.
Counted ==
  /\ recv_seq = SeqNo(Accepted)
  /\ Accepted <= sent
  /\ sent <= MaxSent
  /\ \A s \in DOMAIN recv_buffer : recv_buffer[s] < sent

\* A datagram in flight is neither accepted nor held back yet.
Fresh ==
  \A d \in inFlight :
    /\ Accepted <= d.pkt
    /\ \A s \in DOMAIN recv_buffer : recv_buffer[s] # d.pkt

\* On an orderly network every packet not accepted is in flight or held back,
\* and nothing that arrived was beyond the window.
Tracked ==
  OrderlyNetwork =>
    /\ \A p \in Accepted .. sent - 1 :
         \/ \E d \in inFlight : d.pkt = p
         \/ \E s \in DOMAIN recv_buffer : recv_buffer[s] = p
    /\ \A e \in echoes : e.pkt < Accepted + RecvWindow

IInv == TypeOK /\ InOrder /\ HeldBack /\ Labelled /\ Counted /\ Fresh /\ Tracked

-----------------------------------------------------------------------------
(* Facts about a state that satisfies the invariant. *)

LEMMA AcceptedType == TypeOK => Accepted \in Nat
BY DEF TypeOK, Accepted

\* A datagram that may arrive carries a packet less than a lap ahead of the
\* expected one and at least a window short of a lap behind it.
LEMMA ArrivingRange ==
  ASSUME NoLap, IInv, NEW d \in Arriving
  PROVE  /\ d \in Datagrams
         /\ d.pkt \in Nat
         /\ d.seq = SeqNo(d.pkt)
         /\ d.pkt < sent
         /\ Accepted + RecvWindow <= d.pkt + SeqSpace
         /\ d.pkt < Accepted + SeqSpace
         /\ OrderlyNetwork => d.pkt < Accepted + RecvWindow
<1> USE UplinkAssumption, SeqSpaceAssumption
<1>1. /\ d \in Datagrams
      /\ d.pkt \in Nat
      /\ d.seq = SeqNo(d.pkt)
      /\ d.pkt < sent
  BY DEF Arriving, IInv, TypeOK, Labelled, Datagrams
<1>2. /\ Accepted \in Nat /\ sent \in Nat
      /\ Accepted <= sent /\ sent <= MaxSent
  BY AcceptedType DEF IInv, TypeOK, Counted
<1>3. CASE OrderlyNetwork
  <2>1. d.pkt < Accepted + RecvWindow
    <3>1. CASE d \in echoes
      BY <1>3, <3>1 DEF IInv, Tracked
    <3>2. CASE d \in inFlight
      <4>1. PICK e \in inFlight : e.pkt = Accepted
        <5>1. Accepted \in Accepted .. sent - 1
          BY <1>1, <1>2, <3>2 DEF IInv, Fresh
        <5>2. ASSUME NEW s \in DOMAIN recv_buffer PROVE recv_buffer[s] # Accepted
          BY <1>2 DEF IInv, HeldBack, UplinkAssumption
        <5> QED BY <1>3, <5>1, <5>2 DEF IInv, Tracked
      <4>2. d.pkt < Accepted + ReorderDepth
        BY <3>2, <4>1 DEF Arriving, IInv, Labelled
      <4> QED BY <1>1, <1>2, <1>3, <4>2 DEF UplinkAssumption, OrderlyNetwork
    <3> QED BY <3>1, <3>2 DEF Arriving
  <2>2. Accepted + RecvWindow <= d.pkt + SeqSpace
    <3>1. CASE d \in echoes
      BY <1>1, <1>2, <1>3, <3>1
      DEF IInv, Labelled, OrderlyNetwork, UplinkAssumption, SeqSpaceAssumption
    <3>2. CASE d \in inFlight
      BY <1>1, <1>2, <3>2 DEF IInv, Fresh, UplinkAssumption, SeqSpaceAssumption
    <3> QED BY <3>1, <3>2 DEF Arriving
  <2> QED BY <1>1, <1>2, <2>1, <2>2 DEF UplinkAssumption, SeqSpaceAssumption
<1>4. CASE ShortStream /\ ~ OrderlyNetwork
  BY <1>1, <1>2, <1>4 DEF ShortStream, UplinkAssumption, SeqSpaceAssumption
<1> QED
  BY <1>3, <1>4 DEF NoLap

\* What the server's arithmetic on the numbers says of an arriving packet.
LEMMA ArrivingGap ==
  ASSUME NoLap, IInv, NEW d \in Arriving
  PROVE  /\ d.seq = recv_seq => d.pkt = Accepted
         /\ WrapSub(d.seq, recv_seq) \in Nat
         /\ WrapSub(d.seq, recv_seq) < RecvWindow => d.pkt = Accepted + WrapSub(d.seq, recv_seq)
         /\ WrapSub(d.seq, recv_seq) >= RecvWindow => d.pkt \notin Accepted .. Accepted + RecvWindow - 1
<1> USE UplinkAssumption, SeqSpaceAssumption DEF UplinkAssumption, SeqSpaceAssumption
<1>1. /\ d.pkt \in Nat /\ d.seq = SeqNo(d.pkt)
      /\ Accepted + RecvWindow <= d.pkt + SeqSpace
      /\ d.pkt < Accepted + SeqSpace
  BY ArrivingRange
<1>2. /\ Accepted \in Nat /\ recv_seq = SeqNo(Accepted)
  BY AcceptedType DEF IInv, Counted
<1>3. d.seq = recv_seq => d.pkt = Accepted
  <2>1. Accepted < d.pkt + SeqSpace
    BY <1>1, <1>2
  <2> QED BY <1>1, <1>2, <2>1, SeqInjective
<1>4. CASE Accepted <= d.pkt
  <2>1. WrapSub(d.seq, recv_seq) = d.pkt - Accepted
    BY <1>1, <1>2, <1>4, SeqDistance
  <2> QED BY <1>1, <1>2, <1>3, <1>4, <2>1
<1>5. CASE d.pkt < Accepted
  <2>1. Accepted # d.pkt + SeqSpace /\ Accepted <= d.pkt + SeqSpace
    BY <1>1, <1>2
  <2>2. WrapSub(d.seq, recv_seq) = (d.pkt - Accepted) + SeqSpace
    BY <1>1, <1>2, <1>5, <2>1, SeqDistanceBack
  <2> QED BY <1>1, <1>2, <1>3, <1>5, <2>2
<1> QED BY <1>1, <1>2, <1>4, <1>5

\* The buffer slot k places on holds the packet k places on.
LEMMA BufferedPacket ==
  ASSUME IInv, NEW k \in 1 .. RecvWindow
  PROVE  /\ WrapAdd(recv_seq, k) = SeqNo(Accepted + k)
         /\ Buffered(k) => recv_buffer[WrapAdd(recv_seq, k)] = Accepted + k
<1> USE UplinkAssumption, SeqSpaceAssumption DEF UplinkAssumption, SeqSpaceAssumption
<1>1. Accepted \in Nat /\ k \in Nat
  BY AcceptedType DEF IInv
<1>2. WrapAdd(recv_seq, k) = SeqNo(Accepted + k)
  BY <1>1, SeqAdvance DEF IInv, Counted
<1>3. ASSUME Buffered(k)
      PROVE  recv_buffer[WrapAdd(recv_seq, k)] = Accepted + k
  <2> DEFINE p == recv_buffer[WrapAdd(recv_seq, k)]
  <2>1. /\ p \in Accepted + 1 .. Accepted + RecvWindow - 1
        /\ SeqNo(p) = SeqNo(Accepted + k)
    BY <1>2, <1>3 DEF IInv, HeldBack, Buffered
  <2>2. p \in Nat /\ Accepted + k \in Nat /\ p < (Accepted + k) + SeqSpace /\ Accepted + k < p + SeqSpace
    BY <1>1, <2>1
  <2> HIDE DEF p
  <2>3. p = Accepted + k
    BY <2>1, <2>2, SeqInjective
  <2> QED BY <2>3 DEF p
<1> QED BY <1>2, <1>3

\* take_ready keeps a stream in order and hands over at most its head.
LEMMA TakeReadyInOrder ==
  ASSUME NEW queue \in Seq(Nat), TakeReady(queue), dispatched \in Seq(Nat),
         \A i \in 1 .. Len(dispatched) : dispatched[i] = i - 1,
         \A i \in 1 .. Len(queue) : queue[i] = Len(dispatched) + i - 1
  PROVE  /\ ready_queue' \in Seq(Nat)
         /\ dispatched' \in Seq(Nat)
         /\ InOrder'
         /\ Accepted' = Len(dispatched) + Len(queue)
<1>1. CASE queue = <<>>
  <2>1. ready_queue' = <<>> /\ dispatched' = dispatched
    BY <1>1 DEF TakeReady
  <2> QED BY <1>1, <2>1 DEF InOrder, Accepted
<1>2. CASE queue # <<>>
  <2>1. ready_queue' = Tail(queue) /\ dispatched' = Append(dispatched, Head(queue))
    BY <1>2 DEF TakeReady
  <2>2. Len(queue) >= 1 /\ Head(queue) = Len(dispatched)
    BY <1>2
  <2>3. /\ dispatched' \in Seq(Nat) /\ Len(dispatched') = Len(dispatched) + 1
        /\ \A i \in 1 .. Len(dispatched') : dispatched'[i] = i - 1
    BY <2>1, <2>2
  <2>4. /\ ready_queue' \in Seq(Nat) /\ Len(ready_queue') = Len(queue) - 1
        /\ \A i \in 1 .. Len(ready_queue') : ready_queue'[i] = Len(dispatched) + i
    BY <1>2, <2>1
  <2> QED BY <2>2, <2>3, <2>4 DEF InOrder, Accepted
<1> QED BY <1>1, <1>2

-----------------------------------------------------------------------------
(* Every step keeps the invariant. *)

LEMMA InitIInv == Init => IInv
<1> SUFFICES ASSUME Init PROVE IInv
  OBVIOUS
<1> USE UplinkAssumption, SeqSpaceAssumption DEF UplinkAssumption, SeqSpaceAssumption
<1>1. Accepted = 0
  BY DEF Init, Accepted
<1>2. TypeOK
  <2>1. recv_buffer \in [DOMAIN recv_buffer -> Nat] /\ DOMAIN recv_buffer \subseteq Seqs
    BY DEF Init
  <2>2. ready_queue \in Seq(Nat) /\ dispatched \in Seq(Nat)
    BY DEF Init
  <2>3. recv_seq \in Seqs /\ sent \in Nat
    BY DEF Init, Seqs
  <2> QED BY <2>1, <2>2, <2>3 DEF Init, TypeOK
<1>3. InOrder /\ HeldBack
  BY DEF Init, InOrder, HeldBack
<1>4. Labelled /\ Fresh /\ Tracked
  BY <1>1 DEF Init, Labelled, Fresh, Tracked
<1>5. Counted
  BY <1>1 DEF Init, Counted, SeqNo
<1> QED BY <1>2, <1>3, <1>4, <1>5 DEF IInv

LEMMA SendIInv == IInv /\ Send => IInv'
<1> SUFFICES ASSUME IInv, Send PROVE IInv'
  OBVIOUS
<1> USE UplinkAssumption, SeqSpaceAssumption DEF UplinkAssumption, SeqSpaceAssumption
<1> DEFINE new == [seq |-> SeqNo(sent), pkt |-> sent]
<1>1. /\ UNCHANGED serverVars
      /\ sent' = sent + 1 /\ sent < MaxSent
      /\ inFlight' = inFlight \cup {new}
      /\ echoes' = {d \in echoes : sent < d.pkt + CopyLife}
  BY DEF Send
<1>2. Accepted' = Accepted /\ Accepted \in Nat /\ sent \in Nat /\ Accepted <= sent
  BY <1>1, AcceptedType DEF serverVars, Accepted, IInv, Counted, TypeOK
<1>3. new \in Datagrams /\ new.pkt = sent /\ new.seq = SeqNo(sent)
  BY <1>2 DEF Datagrams, SeqNo, Seqs
<1> HIDE DEF new
<1>4. TypeOK'
  BY <1>1, <1>2, <1>3 DEF IInv, TypeOK, serverVars
<1>5. InOrder' /\ HeldBack'
  BY <1>1, <1>2 DEF IInv, InOrder, HeldBack, serverVars
<1>6. \A d \in inFlight \cup echoes : d \in Datagrams /\ d.pkt \in Nat /\ d.pkt < sent
  BY DEF IInv, TypeOK, Labelled, Datagrams
<1>7. Labelled'
  <2>1. \A d \in inFlight' \cup echoes' : d.seq = SeqNo(d.pkt) /\ d.pkt < sent'
    BY <1>1, <1>2, <1>3, <1>6 DEF IInv, Labelled
  <2>2. \A d \in inFlight', e \in echoes' : d.pkt # e.pkt
    BY <1>1, <1>2, <1>3, <1>6 DEF IInv, Labelled
  <2>3. \A e \in echoes' : sent' <= e.pkt + CopyLife
    BY <1>1, <1>2, <1>6
  <2> QED BY <2>1, <2>2, <2>3 DEF Labelled
<1>8. Counted'
  BY <1>1, <1>2 DEF IInv, TypeOK, Counted, serverVars
<1>9. Fresh'
  BY <1>1, <1>2, <1>3 DEF IInv, Fresh, Counted, serverVars
<1>10. Tracked'
  <2> SUFFICES ASSUME OrderlyNetwork
               PROVE  /\ \A p \in Accepted .. sent :
                           \/ \E d \in inFlight' : d.pkt = p
                           \/ \E s \in DOMAIN recv_buffer : recv_buffer[s] = p
                      /\ \A e \in echoes' : e.pkt < Accepted + RecvWindow
    BY <1>1, <1>2 DEF Tracked, serverVars, OrderlyNetwork
  <2>1. ASSUME NEW p \in Accepted .. sent
        PROVE  \/ \E d \in inFlight' : d.pkt = p
               \/ \E s \in DOMAIN recv_buffer : recv_buffer[s] = p
    <3>1. CASE p = sent
      BY <1>1, <1>3, <3>1
    <3>2. CASE p # sent
      <4>1. p \in Accepted .. sent - 1
        BY <1>2, <3>2
      <4> QED BY <1>1, <4>1 DEF IInv, Tracked
    <3> QED BY <3>1, <3>2
  <2>2. \A e \in echoes' : e.pkt < Accepted + RecvWindow
    BY <1>1 DEF IInv, Tracked
  <2> QED BY <2>1, <2>2
<1> QED BY <1>4, <1>5, <1>7, <1>8, <1>9, <1>10 DEF IInv

LEMMA LoseIInv ==
  ASSUME IInv, NEW d \in inFlight, Lose(d)
  PROVE  IInv'
<1>1. /\ CanLose /\ inFlight' = inFlight \ {d}
      /\ UNCHANGED <<sent, echoes>> /\ UNCHANGED serverVars
  BY DEF Lose, clientVars
<1>2. Accepted' = Accepted
  BY <1>1 DEF serverVars, Accepted
<1>3. TypeOK' /\ InOrder' /\ HeldBack' /\ Labelled'
  BY <1>1, <1>2 DEF IInv, TypeOK, InOrder, HeldBack, Labelled, serverVars
<1>4. Counted' /\ Fresh'
  BY <1>1, <1>2 DEF IInv, Counted, Fresh, serverVars
<1>5. Tracked'
  BY <1>1 DEF Tracked, OrderlyNetwork
<1> QED BY <1>3, <1>4, <1>5 DEF IInv

LEMMA TickIInv == IInv /\ Tick => IInv'
<1> SUFFICES ASSUME IInv, Tick PROVE IInv'
  OBVIOUS
<1>1. /\ UNCHANGED <<sent, inFlight, echoes, recv_seq, recv_buffer, ready_queue, dispatched>>
      /\ ack_pending' \in BOOLEAN /\ pending_nacks' \subseteq Seqs
  BY DEF Tick, clientVars, networkVars
<1>2. Accepted' = Accepted
  BY <1>1 DEF Accepted
<1>3. TypeOK' /\ InOrder' /\ HeldBack' /\ Labelled'
  BY <1>1, <1>2 DEF IInv, TypeOK, InOrder, HeldBack, Labelled
<1>4. Counted' /\ Fresh' /\ Tracked'
  BY <1>1, <1>2 DEF IInv, Counted, Fresh, Tracked
<1> QED BY <1>3, <1>4 DEF IInv

\* What an arrival does to the network, whatever the server makes of it.
LEMMA ArriveLabelled ==
  ASSUME NoLap, IInv, NEW d \in Arriving, Arrive(d), sent' = sent
  PROVE  /\ inFlight' \subseteq Datagrams
         /\ echoes' \subseteq Datagrams
         /\ Labelled'
         /\ \A e \in inFlight' : e \in inFlight /\ e.pkt # d.pkt
<1>1. /\ inFlight' = inFlight \ {d}
      /\ echoes' \subseteq echoes \cup {d}
      /\ d \in echoes' => d \in echoes \/ sent <= d.pkt + CopyLife
  BY DEF Arrive
<1>2. /\ d \in Datagrams
      /\ d.seq = SeqNo(d.pkt)
      /\ d.pkt < sent
      /\ d \in inFlight \/ d \in echoes
  BY ArrivingRange DEF Arriving
<1>3. inFlight \subseteq Datagrams /\ echoes \subseteq Datagrams
  BY DEF IInv, TypeOK
<1>4. \A e \in inFlight' : e \in inFlight /\ e.pkt # d.pkt
  <2> SUFFICES ASSUME NEW e \in inFlight, e # d, e.pkt = d.pkt
               PROVE  FALSE
    BY <1>1
  <2>1. CASE d \in echoes
    BY <2>1 DEF IInv, Labelled
  <2>2. CASE d \in inFlight
    <3>1. e.seq = d.seq
      BY <1>2 DEF IInv, Labelled
    <3>2. e = d
      BY <1>2, <1>3, <3>1 DEF Datagrams
    <3> QED BY <3>2
  <2> QED BY <1>2, <2>1, <2>2
<1>5. Labelled'
  <2>1. \A f \in inFlight' \cup echoes' : f.seq = SeqNo(f.pkt) /\ f.pkt < sent'
    BY <1>1, <1>2 DEF IInv, Labelled
  <2>2. \A f \in inFlight', e \in echoes' : f.pkt # e.pkt
    BY <1>1, <1>4 DEF IInv, Labelled
  <2>3. \A e \in echoes' : sent' <= e.pkt + CopyLife
    BY <1>1 DEF IInv, Labelled
  <2> QED BY <2>1, <2>2, <2>3 DEF Labelled
<1> QED BY <1>1, <1>2, <1>3, <1>4, <1>5

LEMMA OutsideIInv ==
  ASSUME NoLap, IInv, NEW d \in Arriving, Arrive(d), RecvOutside(d), sent' = sent
  PROVE  IInv'
<1> USE UplinkAssumption, SeqSpaceAssumption DEF UplinkAssumption, SeqSpaceAssumption
<1>1. /\ WrapSub(d.seq, recv_seq) >= RecvWindow
      /\ TakeReady(ready_queue)
      /\ UNCHANGED <<recv_seq, recv_buffer, ack_pending, pending_nacks>>
  BY DEF RecvOutside
<1>2. /\ ready_queue' \in Seq(Nat)
      /\ dispatched' \in Seq(Nat)
      /\ InOrder'
      /\ Accepted' = Accepted
  BY <1>1, TakeReadyInOrder DEF IInv, TypeOK, InOrder, Accepted
<1>3. d.pkt \notin Accepted .. Accepted + RecvWindow - 1
  BY <1>1, ArrivingGap
<1>4. TypeOK' /\ Labelled'
  BY <1>1, <1>2, ArriveLabelled DEF IInv, TypeOK
<1>5. HeldBack' /\ Counted'
  BY <1>1, <1>2 DEF IInv, HeldBack, Counted
<1>6. Fresh'
  BY <1>1, <1>2, ArriveLabelled DEF IInv, Fresh
<1>7. Tracked'
  <2> SUFFICES ASSUME OrderlyNetwork
               PROVE  /\ \A p \in Accepted .. sent - 1 :
                           \/ \E e \in inFlight' : e.pkt = p
                           \/ \E s \in DOMAIN recv_buffer : recv_buffer[s] = p
                      /\ \A e \in echoes' : e.pkt < Accepted + RecvWindow
    BY <1>1, <1>2 DEF Tracked, OrderlyNetwork
  <2>1. d.pkt < Accepted
    BY <1>3, ArrivingRange, AcceptedType DEF IInv
  <2>2. inFlight' = inFlight \ {d} /\ echoes' \subseteq echoes \cup {d}
    BY DEF Arrive
  <2>3. \A p \in Accepted .. sent - 1 :
           \/ \E e \in inFlight' : e.pkt = p
           \/ \E s \in DOMAIN recv_buffer : recv_buffer[s] = p
    <3> SUFFICES ASSUME NEW p \in Accepted .. sent - 1,
                        ~ \E s \in DOMAIN recv_buffer : recv_buffer[s] = p
                 PROVE  \E e \in inFlight' : e.pkt = p
      OBVIOUS
    <3>1. PICK e \in inFlight : e.pkt = p
      BY DEF IInv, Tracked
    <3>2. e # d
      BY <2>1, <3>1, AcceptedType, ArrivingRange DEF IInv, TypeOK
    <3> QED BY <2>2, <3>1, <3>2
  <2>4. \A e \in echoes' : e.pkt < Accepted + RecvWindow
    BY <2>2, ArrivingRange DEF IInv, Tracked
  <2> QED BY <2>3, <2>4
<1> QED BY <1>2, <1>4, <1>5, <1>6, <1>7 DEF IInv

LEMMA AheadIInv ==
  ASSUME NoLap, IInv, NEW d \in Arriving, Arrive(d), RecvAhead(d), sent' = sent
  PROVE  IInv'
<1> USE UplinkAssumption, SeqSpaceAssumption DEF UplinkAssumption, SeqSpaceAssumption
<1> DEFINE gap == WrapSub(d.seq, recv_seq)
<1>1. /\ gap # 0 /\ gap < RecvWindow
      /\ recv_buffer' = [s \in DOMAIN recv_buffer \cup {d.seq} |->
                           IF s = d.seq THEN d.pkt ELSE recv_buffer[s]]
      /\ pending_nacks' = pending_nacks \cup
           {WrapAdd(recv_seq, i) : i \in {j \in 0 .. gap - 1 : ~ Buffered(j)}}
      /\ TakeReady(ready_queue)
      /\ UNCHANGED <<recv_seq, ack_pending>>
  BY DEF RecvAhead
<1>2. /\ ready_queue' \in Seq(Nat)
      /\ dispatched' \in Seq(Nat)
      /\ InOrder'
      /\ Accepted' = Accepted
  BY <1>1, TakeReadyInOrder DEF IInv, TypeOK, InOrder, Accepted
<1>3. /\ Accepted \in Nat /\ gap \in Nat
      /\ d.pkt = Accepted + gap
      /\ d.pkt \in Nat /\ d.pkt < sent
      /\ d.seq = SeqNo(d.pkt) /\ d \in Datagrams
  BY <1>1, ArrivingGap, ArrivingRange, AcceptedType DEF IInv
<1>4. d.seq \in Seqs
  BY <1>3 DEF Datagrams
<1> HIDE DEF gap
<1>5. pending_nacks' \subseteq Seqs
  <2>1. ASSUME NEW i \in 0 .. gap - 1 PROVE WrapAdd(recv_seq, i) \in Seqs
    <3>1. i \in Int /\ recv_seq \in Int
      BY <1>3 DEF IInv, TypeOK, Seqs
    <3> QED BY <3>1 DEF WrapAdd, Seqs
  <2> QED BY <1>1, <2>1 DEF IInv, TypeOK
<1>6. TypeOK'
  <2>1. DOMAIN recv_buffer' \subseteq Seqs /\ recv_buffer' \in [DOMAIN recv_buffer' -> Nat]
    BY <1>1, <1>3, <1>4 DEF IInv, TypeOK
  <2> QED BY <1>1, <1>2, <1>5, <2>1, ArriveLabelled DEF IInv, TypeOK
<1>7. HeldBack'
  <2> SUFFICES ASSUME NEW s \in DOMAIN recv_buffer'
               PROVE  /\ recv_buffer'[s] \in Accepted + 1 .. Accepted + RecvWindow - 1
                      /\ SeqNo(recv_buffer'[s]) = s
    BY <1>2 DEF HeldBack
  <2>1. CASE s = d.seq
    BY <1>1, <1>3, <2>1
  <2>2. CASE s # d.seq
    BY <1>1, <2>2 DEF IInv, HeldBack
  <2> QED BY <2>1, <2>2
<1>8. Counted'
  BY <1>1, <1>2, <1>3 DEF IInv, Counted
<1>9. Fresh'
  BY <1>1, <1>2, ArriveLabelled DEF IInv, Fresh
<1>10. Tracked'
  <2> SUFFICES ASSUME OrderlyNetwork
               PROVE  /\ \A p \in Accepted .. sent - 1 :
                           \/ \E e \in inFlight' : e.pkt = p
                           \/ \E s \in DOMAIN recv_buffer' : recv_buffer'[s] = p
                      /\ \A e \in echoes' : e.pkt < Accepted + RecvWindow
    BY <1>1, <1>2 DEF Tracked, OrderlyNetwork
  <2>1. inFlight' = inFlight \ {d} /\ echoes' \subseteq echoes \cup {d}
    BY DEF Arrive
  <2>2. ASSUME NEW p \in Accepted .. sent - 1
        PROVE  \/ \E e \in inFlight' : e.pkt = p
               \/ \E s \in DOMAIN recv_buffer' : recv_buffer'[s] = p
    <3>1. CASE p = d.pkt
      BY <1>1, <3>1
    <3>2. CASE p # d.pkt /\ \E e \in inFlight : e.pkt = p
      BY <2>1, <3>2
    <3>3. CASE p # d.pkt /\ \E s \in DOMAIN recv_buffer : recv_buffer[s] = p
      <4>1. PICK s \in DOMAIN recv_buffer : recv_buffer[s] = p
        BY <3>3
      <4>2. s # d.seq
        <5> SUFFICES ASSUME s = d.seq PROVE FALSE
          OBVIOUS
        <5>1. SeqNo(p) = SeqNo(d.pkt) /\ p \in Accepted + 1 .. Accepted + RecvWindow - 1
          BY <1>3, <4>1 DEF IInv, HeldBack
        <5>2. p \in Nat /\ p < d.pkt + SeqSpace /\ d.pkt < p + SeqSpace
          BY <1>1, <1>3, <5>1
        <5>3. p = d.pkt
          BY <1>3, <5>1, <5>2, SeqInjective
        <5> QED BY <3>3, <5>3
      <4> QED BY <1>1, <4>1, <4>2
    <3> QED BY <3>1, <3>2, <3>3 DEF IInv, Tracked
  <2>3. \A e \in echoes' : e.pkt < Accepted + RecvWindow
    BY <2>1, ArrivingRange DEF IInv, Tracked
  <2> QED BY <2>2, <2>3
<1> QED BY <1>2, <1>6, <1>7, <1>8, <1>9, <1>10, ArriveLabelled DEF IInv

LEMMA ExpectedIInv ==
  ASSUME NoLap, IInv, NEW d \in Arriving, Arrive(d), RecvExpected(d), sent' = sent
  PROVE  IInv'
<1> USE UplinkAssumption, SeqSpaceAssumption DEF UplinkAssumption, SeqSpaceAssumption
<1>1. PICK k \in 0 .. RecvWindow :
        /\ RunLength(k)
        /\ recv_seq' = WrapAdd(recv_seq, k + 1)
        /\ recv_buffer' = [s \in DOMAIN recv_buffer \ {WrapAdd(recv_seq, j) : j \in 1 .. k}
                             |-> recv_buffer[s]]
        /\ TakeReady(ready_queue \o <<d.pkt>>
                       \o [j \in 1 .. k |-> recv_buffer[WrapAdd(recv_seq, j)]])
  BY DEF RecvExpected
<1>2. /\ d.seq = recv_seq
      /\ ack_pending' = TRUE /\ UNCHANGED pending_nacks
  BY DEF RecvExpected
<1>3. /\ Accepted \in Nat /\ Accepted = Len(dispatched) + Len(ready_queue)
      /\ d.pkt = Accepted /\ d.pkt < sent /\ sent \in Nat /\ k \in Nat
      /\ ready_queue \in Seq(Nat) /\ dispatched \in Seq(Nat)
  <2>1. TypeOK
    BY DEF IInv
  <2>2. d.pkt = Accepted /\ d.pkt < sent
    BY <1>2, ArrivingGap, ArrivingRange
  <2>3. /\ ready_queue \in Seq(Nat) /\ dispatched \in Seq(Nat) /\ sent \in Nat
        /\ Accepted \in Nat
    BY <2>1, AcceptedType DEF TypeOK
  <2> QED BY <2>2, <2>3 DEF Accepted
<1>4. \A j \in 1 .. k : recv_buffer[WrapAdd(recv_seq, j)] = Accepted + j
  BY <1>1, BufferedPacket DEF RunLength
<1> DEFINE run == [j \in 1 .. k |-> recv_buffer[WrapAdd(recv_seq, j)]]
           queue == ready_queue \o <<d.pkt>> \o run
<1>5. /\ queue \in Seq(Nat)
      /\ Len(queue) = Len(ready_queue) + 1 + k
      /\ \A i \in 1 .. Len(queue) : queue[i] = Len(dispatched) + i - 1
  <2>1. /\ run \in Seq(Nat) /\ Len(run) = k
        /\ \A j \in 1 .. k : run[j] = Accepted + j
    BY <1>3, <1>4
  <2> HIDE DEF run
  <2> DEFINE front == ready_queue \o <<d.pkt>>
  <2>2. /\ front \in Seq(Nat)
        /\ Len(front) = Len(ready_queue) + 1
        /\ \A i \in 1 .. Len(ready_queue) : front[i] = ready_queue[i]
        /\ front[Len(ready_queue) + 1] = d.pkt
    BY <1>3
  <2>3. queue = front \o run
    OBVIOUS
  <2> HIDE DEF front, queue
  <2>4. ASSUME NEW i \in 1 .. Len(ready_queue) + 1
        PROVE  front[i] = Len(dispatched) + i - 1
    <3>1. CASE i = Len(ready_queue) + 1
      BY <1>3, <2>2, <3>1
    <3>2. CASE i \in 1 .. Len(ready_queue)
      BY <2>2, <3>2 DEF IInv, InOrder
    <3> QED BY <1>3, <3>1, <3>2
  <2>5. /\ queue \in Seq(Nat)
        /\ Len(queue) = Len(ready_queue) + 1 + k
        /\ \A i \in 1 .. Len(queue) :
             queue[i] = IF i <= Len(front) THEN front[i] ELSE run[i - Len(front)]
    <3>1. front \o run \in Seq(Nat) /\ Len(front \o run) = Len(front) + Len(run)
      BY <2>1, <2>2
    <3>2. ASSUME NEW i \in 1 .. Len(front) + Len(run)
          PROVE  (front \o run)[i] = IF i <= Len(front) THEN front[i] ELSE run[i - Len(front)]
      BY <2>1, <2>2
    <3>3. Len(front) + Len(run) = Len(ready_queue) + 1 + k
      BY <1>3, <2>1, <2>2
    <3> QED BY <2>3, <3>1, <3>2, <3>3
  <2>6. ASSUME NEW i \in 1 .. Len(queue)
        PROVE  queue[i] = Len(dispatched) + i - 1
    <3>1. CASE i <= Len(ready_queue) + 1
      BY <1>3, <2>2, <2>4, <2>5, <3>1
    <3>2. CASE i > Len(ready_queue) + 1
      <4>1. i - Len(front) \in 1 .. k
        BY <1>3, <2>2, <2>5, <3>2
      <4>2. queue[i] = Accepted + (i - Len(front))
        BY <1>3, <2>1, <2>2, <2>5, <3>2, <4>1
      <4> QED BY <1>3, <2>2, <4>2
    <3> QED BY <1>3, <3>1, <3>2
  <2> QED BY <2>5, <2>6
<1>6. /\ ready_queue' \in Seq(Nat)
      /\ dispatched' \in Seq(Nat)
      /\ InOrder'
      /\ Accepted' = Accepted + 1 + k
  <2>1. TakeReady(queue)
    BY <1>1
  <2> HIDE DEF queue
  <2>2. /\ ready_queue' \in Seq(Nat)
        /\ dispatched' \in Seq(Nat)
        /\ InOrder'
        /\ Accepted' = Len(dispatched) + Len(queue)
    BY <1>3, <1>5, <2>1, TakeReadyInOrder DEF IInv, InOrder
  <2> QED BY <1>3, <1>5, <2>2
<1> HIDE DEF queue, run
<1>7. recv_seq' = SeqNo(Accepted') /\ recv_seq' \in Seqs
  <2>1. WrapAdd(recv_seq, k + 1) = SeqNo(Accepted + (k + 1))
    BY <1>3, SeqAdvance DEF IInv, Counted
  <2>2. SeqNo(Accepted + (k + 1)) \in Seqs
    BY <1>3 DEF SeqNo, Seqs
  <2> QED BY <1>1, <1>3, <1>6, <2>1, <2>2
\* A packet that stays held back lies beyond the run.
<1>8. ASSUME NEW s \in DOMAIN recv_buffer'
      PROVE  /\ s \in DOMAIN recv_buffer /\ recv_buffer'[s] = recv_buffer[s]
             /\ recv_buffer[s] \in Accepted' + 1 .. Accepted' + RecvWindow - 1
  <2>1. /\ s \in DOMAIN recv_buffer /\ recv_buffer'[s] = recv_buffer[s]
        /\ s \notin {WrapAdd(recv_seq, j) : j \in 1 .. k}
    BY <1>1
  <2>2. /\ recv_buffer[s] \in Accepted + 1 .. Accepted + RecvWindow - 1
        /\ SeqNo(recv_buffer[s]) = s
    BY <2>1 DEF IInv, HeldBack
  <2>3. recv_buffer[s] # Accepted + k + 1
    <3> SUFFICES ASSUME recv_buffer[s] = Accepted + k + 1 PROVE FALSE
      OBVIOUS
    <3>1. k + 1 \in 1 .. RecvWindow
      BY <1>3, <2>2
    <3>2. WrapAdd(recv_seq, k + 1) = s
      BY <1>3, <2>2, <3>1, BufferedPacket
    <3> QED BY <1>1, <2>1, <3>2 DEF RunLength, Buffered
  <2>4. ASSUME NEW j \in 1 .. k PROVE recv_buffer[s] # Accepted + j
    BY <2>1, <2>2, BufferedPacket
  <2>5. recv_buffer[s] > Accepted + k + 1
    <3> SUFFICES ASSUME recv_buffer[s] <= Accepted + k + 1 PROVE FALSE
      BY <1>3, <2>2
    <3>1. recv_buffer[s] - Accepted \in 1 .. k
      <4> DEFINE p == recv_buffer[s]
      <4>1. p \in Int /\ p >= Accepted + 1 /\ p # Accepted + k + 1 /\ p <= Accepted + k + 1
        BY <1>3, <2>2, <2>3
      <4> HIDE DEF p
      <4>2. Accepted \in Int /\ k \in Int
        BY <1>3
      <4>3. p < Accepted + k + 1
        BY <4>1, <4>2
      <4>4. p - Accepted \in Int /\ p - Accepted >= 1 /\ p - Accepted <= k
        BY <4>1, <4>2, <4>3
      <4> QED BY <4>2, <4>4 DEF p
    <3>2. recv_buffer[s] # Accepted + (recv_buffer[s] - Accepted)
      BY <2>4, <3>1
    <3> QED BY <1>3, <2>2, <3>2
  <2> QED BY <1>3, <1>6, <2>1, <2>2, <2>5
<1>9. TypeOK'
  <2>1. DOMAIN recv_buffer' \subseteq Seqs /\ recv_buffer' \in [DOMAIN recv_buffer' -> Nat]
    BY <1>1 DEF IInv, TypeOK
  <2> QED BY <1>2, <1>6, <1>7, <2>1, ArriveLabelled DEF IInv, TypeOK
<1>10. HeldBack'
  BY <1>8 DEF IInv, HeldBack
\* The run ends at a packet that was sent.
<1>11. Counted'
  <2>1. Accepted + 1 + k <= sent
    <3>1. CASE k = 0
      BY <1>3, <3>1
    <3>2. CASE k > 0
      <4>1. k \in 1 .. RecvWindow /\ Buffered(k)
        BY <1>1, <3>2 DEF RunLength
      <4>2. recv_buffer[WrapAdd(recv_seq, k)] < sent
        BY <4>1 DEF Buffered, IInv, Counted
      <4> QED BY <1>3, <1>4, <3>2, <4>1, <4>2
    <3> QED BY <3>1, <3>2
  <2> QED BY <1>6, <1>7, <1>8, <2>1 DEF IInv, Counted
\* Nothing in flight is part of the run.
<1>12. Fresh'
  <2> SUFFICES ASSUME NEW e \in inFlight'
               PROVE  /\ Accepted' <= e.pkt
                      /\ \A s \in DOMAIN recv_buffer' : recv_buffer'[s] # e.pkt
    BY DEF Fresh
  <2>1. /\ e \in inFlight /\ e.pkt # d.pkt /\ e.pkt \in Nat
        /\ Accepted <= e.pkt
        /\ \A s \in DOMAIN recv_buffer : recv_buffer[s] # e.pkt
    BY ArriveLabelled DEF IInv, Fresh, TypeOK, Datagrams
  <2>2. Accepted' <= e.pkt
    <3> SUFFICES ASSUME e.pkt < Accepted + 1 + k PROVE FALSE
      BY <1>3, <1>6, <2>1
    <3>1. e.pkt - Accepted \in 1 .. k
      BY <1>3, <2>1
    <3>2. /\ WrapAdd(recv_seq, e.pkt - Accepted) \in DOMAIN recv_buffer
          /\ recv_buffer[WrapAdd(recv_seq, e.pkt - Accepted)] = Accepted + (e.pkt - Accepted)
      BY <1>1, <1>4, <3>1 DEF RunLength, Buffered
    <3> QED BY <1>3, <2>1, <3>2
  <2> QED BY <1>8, <2>1, <2>2
<1>13. Tracked'
  <2> SUFFICES ASSUME OrderlyNetwork
               PROVE  /\ \A p \in Accepted' .. sent - 1 :
                           \/ \E e \in inFlight' : e.pkt = p
                           \/ \E s \in DOMAIN recv_buffer' : recv_buffer'[s] = p
                      /\ \A e \in echoes' : e.pkt < Accepted' + RecvWindow
    BY DEF Tracked, OrderlyNetwork
  <2>1. inFlight' = inFlight \ {d} /\ echoes' \subseteq echoes \cup {d}
    BY DEF Arrive
  <2>2. ASSUME NEW p \in Accepted' .. sent - 1
        PROVE  \/ \E e \in inFlight' : e.pkt = p
               \/ \E s \in DOMAIN recv_buffer' : recv_buffer'[s] = p
    <3>1. p \in Accepted .. sent - 1 /\ p # d.pkt /\ p \in Nat /\ p > Accepted + k
      BY <1>3, <1>6 DEF IInv, TypeOK
    <3>2. CASE \E e \in inFlight : e.pkt = p
      BY <2>1, <3>1, <3>2
    <3>3. CASE \E s \in DOMAIN recv_buffer : recv_buffer[s] = p
      <4>1. PICK s \in DOMAIN recv_buffer : recv_buffer[s] = p
        BY <3>3
      <4>2. ASSUME NEW j \in 1 .. k PROVE s # WrapAdd(recv_seq, j)
        BY <1>3, <1>4, <3>1, <4>1
      <4> QED BY <1>1, <4>1, <4>2
    <3> QED BY <3>1, <3>2, <3>3 DEF IInv, Tracked
  <2>3. \A e \in echoes' : e.pkt < Accepted' + RecvWindow
    <3> SUFFICES ASSUME NEW e \in echoes \cup {d}
                 PROVE  e.pkt < Accepted' + RecvWindow
      BY <2>1
    <3>1. e.pkt < Accepted + RecvWindow /\ e.pkt \in Nat
      BY ArrivingRange DEF IInv, Tracked, TypeOK, Datagrams
    <3> QED BY <1>3, <1>6, <3>1
  <2> QED BY <2>2, <2>3
<1> QED BY <1>6, <1>9, <1>10, <1>11, <1>12, <1>13, ArriveLabelled DEF IInv

LEMMA NextIInv == NoLap /\ IInv /\ [Next]_vars => IInv'
<1> SUFFICES ASSUME NoLap, IInv, [Next]_vars PROVE IInv'
  OBVIOUS
<1>1. CASE Send
  BY <1>1, SendIInv
<1>2. CASE \E d \in inFlight : Lose(d)
  BY <1>2, LoseIInv
<1>3. CASE \E d \in Arriving : TryRecv(d)
  <2>1. PICK d \in Arriving : TryRecv(d)
    BY <1>3
  <2>2. Arrive(d) /\ sent' = sent
    BY <2>1 DEF TryRecv, clientVars
  <2>3. CASE RecvExpected(d)
    BY <2>2, <2>3, ExpectedIInv
  <2>4. CASE RecvAhead(d)
    BY <2>2, <2>4, AheadIInv
  <2>5. CASE RecvOutside(d)
    BY <2>2, <2>5, OutsideIInv
  <2> QED BY <2>1, <2>3, <2>4, <2>5 DEF TryRecv
<1>4. CASE Tick
  BY <1>4, TickIInv
<1>5. CASE UNCHANGED vars
  <2>1. Accepted' = Accepted
    BY <1>5 DEF vars, Accepted
  <2> QED
    BY <1>5, <2>1 DEF vars, IInv, TypeOK, InOrder, HeldBack, Labelled, Counted, Fresh, Tracked
<1> QED BY <1>1, <1>2, <1>3, <1>4, <1>5 DEF Next

LEMMA SpecIInv ==
  ASSUME NoLap
  PROVE  Spec => []IInv
<1>1. Init => IInv
  BY InitIInv
<1>2. IInv /\ [Next]_vars => IInv'
  BY NextIInv
<1> QED BY <1>1, <1>2, PTL DEF Spec
-----------------------------------------------------------------------------
(* The theorems. *)

\* The variables keep their types.
THEOREM TypeCorrect ==
  ASSUME NoLap
  PROVE  Spec => []TypeOK
<1>1. IInv => TypeOK
  BY DEF IInv
<1> QED BY <1>1, SpecIInv, PTL

\* The handlers see a prefix of the client's stream, in order and once each
\* (ReliableChannel::recv and take_ready), on a network that loses, repeats and
\* reorders datagrams.
THEOREM DispatchedInOrder ==
  ASSUME NoLap
  PROVE  Spec => []InOrder
<1>1. IInv => InOrder
  BY DEF IInv
<1> QED BY <1>1, SpecIInv, PTL

\* The reassembly buffer holds only packets of the window ahead, under their
\* own numbers: recv_buffer is bounded by RECV_WINDOW - 1 and laps never mix.
THEOREM BufferInWindow ==
  ASSUME NoLap
  PROVE  Spec => []HeldBack
<1>1. IInv => HeldBack
  BY DEF IInv
<1> QED BY <1>1, SpecIInv, PTL

\* On an orderly network the packet the server waits for never has to be sent
\* again, however long the connection runs.
THEOREM NothingThrownAway ==
  ASSUME OrderlyNetwork
  PROVE  Spec => []ExpectedIsComing
<1>1. NoLap
  BY DEF NoLap
<1>2. ASSUME IInv, Accepted < sent
      PROVE  \E d \in inFlight : d.pkt = Accepted
  <2>1. Accepted \in Nat /\ sent \in Nat
    BY <1>2, AcceptedType DEF IInv, TypeOK
  <2>2. Accepted \in Accepted .. sent - 1
    BY <1>2, <2>1
  <2>3. \A s \in DOMAIN recv_buffer : recv_buffer[s] # Accepted
    BY <1>2, <2>1, UplinkAssumption DEF IInv, HeldBack, UplinkAssumption
  <2> QED BY <1>2, <2>2, <2>3 DEF IInv, Tracked
<1>3. IInv => ExpectedIsComing
  BY <1>2 DEF ExpectedIsComing
<1> QED BY <1>1, <1>3, SpecIInv, PTL

\* A step of the uplink is a step of the abstract channel or none of its.
LEMMA StepRefines ==
  ASSUME NoLap, IInv, IInv', [Next]_vars
  PROVE  [Delivery!Next]_(Delivery!vars)
<1> USE DEF Delivery!Next, Delivery!vars, Delivery!Send, Delivery!Dispatch
<1>1. CASE Send
  BY <1>1 DEF Send, serverVars
<1>2. CASE \E d \in inFlight : Lose(d)
  BY <1>2 DEF Lose, clientVars, serverVars
<1>3. CASE \E d \in Arriving : TryRecv(d)
  <2>1. PICK d \in Arriving : TryRecv(d)
    BY <1>3
  <2>2. sent' = sent
    BY <2>1 DEF TryRecv, clientVars
  <2>3. PICK queue : TakeReady(queue)
    BY <2>1 DEF TryRecv, RecvExpected, RecvAhead, RecvOutside
  <2>4. CASE queue = <<>>
    BY <2>2, <2>3, <2>4 DEF TakeReady
  <2>5. CASE queue # <<>>
    <3>1. dispatched' = Append(dispatched, Head(queue))
      BY <2>3, <2>5 DEF TakeReady
    <3>2. dispatched \in Seq(Nat) /\ dispatched' \in Seq(Nat) /\ sent \in Nat /\ Accepted' <= sent
      BY <2>2 DEF IInv, TypeOK, Counted
    <3>3. ready_queue' \in Seq(Nat)
      BY DEF IInv, TypeOK
    <3>4. Len(dispatched') = Len(dispatched) + 1 /\ Len(dispatched') <= sent
      <4>1. Len(dispatched') <= Accepted' /\ Accepted' \in Nat
        BY <3>2, <3>3 DEF Accepted
      <4>2. Len(dispatched') = Len(dispatched) + 1
        <5> DEFINE h == Head(queue)
        <5>1. dispatched' = Append(dispatched, h)
          BY <3>1
        <5> HIDE DEF h
        <5> QED BY <3>2, <5>1
      <4> QED BY <3>2, <4>1, <4>2
    <3>5. Head(queue) = Len(dispatched)
      <4> DEFINE h == Head(queue)
      <4>1. dispatched' = Append(dispatched, h)
        BY <3>1
      <4> HIDE DEF h
      <4>2. dispatched'[Len(dispatched) + 1] = h
        BY <3>2, <4>1
      <4>3. dispatched'[Len(dispatched) + 1] = Len(dispatched)
        BY <3>2, <3>4 DEF IInv, InOrder
      <4> QED BY <4>2, <4>3 DEF h
    <3> QED BY <2>2, <3>1, <3>2, <3>4, <3>5
  <2> QED BY <2>4, <2>5
<1>4. CASE Tick
  BY <1>4 DEF Tick, clientVars
<1>5. CASE UNCHANGED vars
  BY <1>5 DEF vars
<1> QED BY <1>1, <1>2, <1>3, <1>4, <1>5 DEF Next

\* The reliable uplink implements ordered, exactly-once delivery: what the
\* dispatcher is given at each step is the next packet of the client's stream.
THEOREM UplinkImplementsDelivery ==
  ASSUME NoLap
  PROVE  Spec => DeliversInOrder
<1>1. Init => Delivery!Init
  BY DEF Init, Delivery!Init
<1>2. IInv /\ IInv' /\ [Next]_vars => [Delivery!Next]_(Delivery!vars)
  BY StepRefines
<1> QED BY <1>1, <1>2, SpecIInv, PTL DEF Spec, DeliversInOrder, Delivery!Spec
=============================================================================
