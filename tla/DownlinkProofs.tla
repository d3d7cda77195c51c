--------------------------- MODULE DownlinkProofs ---------------------------
(***************************************************************************)
(* Proofs about the downlink, for any number of channels, any window, any  *)
(* stream and any sequence space of at least four windows: on a network    *)
(* that keeps datagrams in order a late ACK never empties the wrong end of *)
(* the send queues, and on one that also loses none the server forgets     *)
(* only what the client has, which sees the stream in order.               *)
(***************************************************************************)
EXTENDS Downlink, FiniteSetTheorems, SequenceTheorems, TLAPS

\* Datagrams do not overtake one another, and half the sequence space is at least
\* two windows; 0x8000 and 32 in the code.
InOrderNetwork ==
  /\ ReorderDepth = 1
  /\ 4 * MaxInflight <= SeqSpace

-----------------------------------------------------------------------------
(* Wrapping arithmetic. *)

\* The number of one packet minus that of another is their distance around the
\* sequence space.
LEMMA SeqDistance ==
  ASSUME NEW p \in Nat, NEW q \in Nat, p - q < SeqSpace, q - p < SeqSpace
  PROVE  WrapSub(SeqNo(p), SeqNo(q)) = IF q <= p THEN p - q ELSE p - q + SeqSpace
<1> USE SeqSpaceAssumption DEF SeqSpaceAssumption
<1> DEFINE a == p \div SeqSpace
           b == q \div SeqSpace
           r == p % SeqSpace
           s == q % SeqSpace
<1>1. /\ a \in Int /\ r \in 0 .. SeqSpace - 1 /\ p = SeqSpace * a + r
      /\ b \in Int /\ s \in 0 .. SeqSpace - 1 /\ q = SeqSpace * b + s
  OBVIOUS
<1> HIDE DEF a, b, r, s
<1>2. p - q = SeqSpace * (a - b) + (r - s)
  BY <1>1
<1>3. a - b < 2 /\ a - b > -2
  BY <1>1, <1>2
<1>4. a - b \in {-1, 0, 1}
  BY <1>1, <1>3
<1>5. r - s \in {p - q + SeqSpace, p - q, p - q - SeqSpace}
  <2>1. CASE a - b = -1
    BY <1>1, <1>2, <2>1
  <2>2. CASE a - b = 0
    BY <1>1, <1>2, <2>2
  <2>3. CASE a - b = 1
    BY <1>1, <1>2, <2>3
  <2> QED
    BY <1>4, <2>1, <2>2, <2>3
<1>6. \A x \in Int : /\ x \in 0 .. SeqSpace - 1 => x % SeqSpace = x
                     /\ x \in -SeqSpace .. -1 => x % SeqSpace = x + SeqSpace
  OBVIOUS
<1>7. (r - s) % SeqSpace = IF q <= p THEN p - q ELSE p - q + SeqSpace
  BY <1>1, <1>5, <1>6
<1> QED
  BY <1>7 DEF r, s, SeqNo, WrapSub

\* ack_recv keeps what is newer than the packet acknowledged, as long as the two
\* are less than half the sequence space apart.
LEMMA KeepsNewer ==
  ASSUME DownlinkAssumption, NEW p \in Nat, NEW q \in Nat,
         p - q < SeqSpace \div 2, q - p <= SeqSpace \div 2
  PROVE  Keeps(SeqNo(q), p) <=> q < p
<1> USE SeqSpaceAssumption DEF SeqSpaceAssumption
<1> DEFINE half == SeqSpace \div 2
<1>1. half \in Nat /\ SeqSpace = 2 * half /\ half # 0
  BY DEF DownlinkAssumption
<1> HIDE DEF half
<1>2. WrapSub(SeqNo(p), SeqNo(q)) = IF q <= p THEN p - q ELSE p - q + SeqSpace
  BY <1>1, SeqDistance DEF half
<1>3. SeqNo(p) \in 0 .. SeqSpace - 1 /\ SeqNo(q) \in 0 .. SeqSpace - 1
  BY DEF SeqNo
<1>4. SeqNo(p) = SeqNo(q) => WrapSub(SeqNo(p), SeqNo(q)) = 0
  BY <1>3 DEF WrapSub
<1>5. CASE q < p
  <2>1. WrapSub(SeqNo(p), SeqNo(q)) = p - q /\ p - q # 0
    BY <1>2, <1>5
  <2> QED
    BY <1>4, <1>5, <2>1 DEF Keeps, half
<1>6. CASE q = p
  BY <1>6 DEF Keeps
<1>7. CASE p < q
  <2>1. WrapSub(SeqNo(p), SeqNo(q)) \in Nat /\ ~ WrapSub(SeqNo(p), SeqNo(q)) < half
    BY <1>1, <1>2, <1>7 DEF half
  <2> QED
    BY <1>7, <2>1 DEF Keeps, half
<1> QED
  BY <1>5, <1>6, <1>7

\* A line after another.
LEMMA ConcatParts ==
  ASSUME NEW S, NEW T, NEW s \in Seq(S), NEW t \in Seq(T)
  PROVE  /\ Len(s \o t) = Len(s) + Len(t)
         /\ \A i \in 1 .. Len(s) : (s \o t)[i] = s[i]
         /\ \A i \in 1 .. Len(t) : (s \o t)[Len(s) + i] = t[i]
<1>1. s \in Seq(S \cup T) /\ t \in Seq(S \cup T)
  BY SeqMonotonic
<1>2. Len(s) \in Nat /\ Len(t) \in Nat
  OBVIOUS
<1>3. \A i \in 1 .. Len(t) : (s \o t)[Len(s) + i] = t[i]
  <2> TAKE i \in 1 .. Len(t)
  <2>1. /\ Len(s) + i \in 1 .. Len(s) + Len(t)
        /\ ~ Len(s) + i <= Len(s) /\ Len(s) + i - Len(s) = i
    BY <1>2
  <2> QED
    BY <1>1, <2>1, ConcatProperties
<1> QED
  BY <1>1, <1>3

\* What is left of a line when one place is taken out.
LEMMA RemoveAtParts ==
  ASSUME NEW S, NEW s \in Seq(S), NEW i \in 1 .. Len(s)
  PROVE  /\ RemoveAt(s, i) \in Seq(S)
         /\ Len(RemoveAt(s, i)) = Len(s) - 1
         /\ \A j \in 1 .. Len(s) - 1 :
              RemoveAt(s, i)[j] = s[IF j < i THEN j ELSE j + 1]
<1> DEFINE front == SubSeq(s, 1, i - 1)
           back  == SubSeq(s, i + 1, Len(s))
<1>1. front \in Seq(S) /\ Len(front) = i - 1
      /\ \A j \in 1 .. i - 1 : front[j] = s[j]
  OBVIOUS
<1>2. back \in Seq(S) /\ Len(back) = Len(s) - i
      /\ \A j \in 1 .. Len(s) - i : back[j] = s[i + j]
  OBVIOUS
<1> HIDE DEF front, back
<1>3. RemoveAt(s, i) = front \o back
  BY DEF RemoveAt, front, back
<1>4. /\ front \o back \in Seq(S)
      /\ Len(front \o back) = Len(s) - 1
  BY <1>1, <1>2
<1>5. ASSUME NEW j \in 1 .. Len(s) - 1
      PROVE  (front \o back)[j] = s[IF j < i THEN j ELSE j + 1]
  <2>1. CASE j < i
    BY <1>1, <1>2, <2>1
  <2>2. CASE ~ j < i
    <3>1. (front \o back)[j] = back[j - (i - 1)] /\ j - (i - 1) \in 1 .. Len(s) - i
      BY <1>1, <1>2, <2>2
    <3> QED
      BY <1>2, <2>2, <3>1
  <2> QED
    BY <2>1, <2>2
<1> QED
  BY <1>3, <1>4, <1>5

-----------------------------------------------------------------------------
(* Types. *)

LEMMA UnackedIsFinite ==
  ASSUME DownlinkAssumption, TypeOK, NEW S \in SUBSET Unacked
  PROVE  IsFiniteSet(S) /\ Cardinality(S) \in Nat
<1>1. IsFiniteSet(Packets)
  BY FS_Interval DEF Packets, DownlinkAssumption
<1>2. S \subseteq Packets
  BY DEF Unacked, TypeOK
<1> QED
  BY <1>1, <1>2, FS_Subset, FS_CardinalityType

\* What the server resends is what has expired.
LEMMA DrainedLine ==
  ASSUME DownlinkAssumption, TypeOK, NEW S \in SUBSET Unacked, NEW line \in InDrainOrder(S),
         NEW T, S \subseteq T
  PROVE  line \in Seq(T)
<1>1. Cardinality(S) \in Nat
  BY UnackedIsFinite
<1>2. line \in [1 .. Cardinality(S) -> T]
  BY DEF InDrainOrder
<1> QED
  BY <1>1, <1>2

LEMMA TypeStep ==
  ASSUME DownlinkAssumption, TypeOK, [Next]_vars
  PROVE  TypeOK'
<1> USE DEF Deliverable
<1>0. sent \in Nat /\ \A n \in Nat : SeqNo(n) \in Seqs
  BY SeqSpaceAssumption DEF TypeOK, SeqSpaceAssumption, SeqNo, Seqs, DownlinkAssumption
<1>1. ASSUME NEW c \in Channels, SendReliable(c)
      PROVE  TypeOK'
  <2>1. sent \in Packets /\ sent' \in 0 .. MaxSent
    BY <1>1 DEF SendReliable, TypeOK, Packets, DownlinkAssumption
  <2> QED
    BY <1>1, <2>1 DEF SendReliable, TypeOK, clientVars
<1>2. ASSUME NEW expired \in SUBSET Unacked, Retransmit(expired)
      PROVE  TypeOK'
  <2>1. PICK line \in InDrainOrder(expired) : downlink' = downlink \o line
    BY <1>2 DEF Retransmit
  <2>2. expired \subseteq Packets
    BY DEF Unacked, TypeOK
  <2>3. line \in Seq(Packets)
    BY <2>2, DrainedLine
  <2>4. downlink' \in Seq(Packets)
    BY <2>1, <2>3 DEF TypeOK
  <2> QED
    BY <1>2, <2>4 DEF Retransmit, TypeOK, serverVars, clientVars
<1>3. ASSUME NEW i \in Deliverable(acks), AckRecv(i)
      PROVE  TypeOK'
  <2>1. acks' \in Seq(Seqs)
    BY <1>3, RemoveAtParts DEF AckRecv, TypeOK
  <2> QED
    BY <1>3, <2>1 DEF AckRecv, TypeOK, clientVars
<1>4. ASSUME NEW i \in Deliverable(downlink), ClientRecv(i)
      PROVE  TypeOK'
  <2>1. downlink' \in Seq(Packets) /\ downlink[i] \in Packets
    BY <1>4, RemoveAtParts DEF ClientRecv, TypeOK
  <2>2. ack_queue' \in Seq(Seqs)
    BY <1>0, <1>4, <2>1 DEF ClientRecv, TypeOK, Packets
  <2>3. received' \in Seq(Packets)
    <3>1. received' = received \/ received' = Append(received, downlink[i])
      BY <1>4 DEF ClientRecv
    <3>2. received \in Seq(Packets) /\ downlink[i] \in Packets
      BY <2>1 DEF TypeOK
    <3> QED
      BY <3>1, <3>2
  <2>4. repeated' \in BOOLEAN
    BY <1>4 DEF ClientRecv, TypeOK
  <2> QED
    BY <1>4, <2>1, <2>2, <2>3, <2>4 DEF ClientRecv, TypeOK, serverVars
<1>5. CASE ClientSend
  BY <1>5 DEF ClientSend, TypeOK, serverVars
<1>6. ASSUME NEW i \in DOMAIN downlink, LoseData(i)
      PROVE  TypeOK'
  <2>1. downlink' \in Seq(Packets)
    BY <1>6, RemoveAtParts DEF LoseData, TypeOK
  <2> QED
    BY <1>6, <2>1 DEF LoseData, TypeOK, serverVars, clientVars
<1>7. ASSUME NEW i \in DOMAIN acks, LoseAck(i)
      PROVE  TypeOK'
  <2>1. acks' \in Seq(Seqs)
    BY <1>7, RemoveAtParts DEF LoseAck, TypeOK
  <2> QED
    BY <1>7, <2>1 DEF LoseAck, TypeOK, serverVars, clientVars
<1>8. CASE UNCHANGED vars
  BY <1>8 DEF vars, TypeOK
<1> QED
  BY <1>1, <1>2, <1>3, <1>4, <1>5, <1>6, <1>7, <1>8 DEF Next

\* TypeOK: nothing but packets and sequence numbers is under way, and no more
\* is sent than the stream has, on any network.
THEOREM DownlinkTypesHold ==
  ASSUME DownlinkAssumption
  PROVE  Spec => []TypeOK
<1>1. Init => TypeOK
  <2>1. <<>> \in Seq(Packets) /\ <<>> \in Seq(Seqs)
    OBVIOUS
  <2>2. 0 \in 0 .. MaxSent
    BY DEF DownlinkAssumption
  <2> QED
    BY <2>1, <2>2 DEF Init, TypeOK
<1> QED
  BY <1>1, TypeStep, PTL DEF Spec

-----------------------------------------------------------------------------
(* The inductive invariant. *)

\* The packets on their round trip, those nearest to its end first: the ACKs
\* under way, the numbers the client has still to send, the data frames under way.
Heard == Len(acks) + Len(ack_queue)

Trip(loop) ==
  /\ Len(loop) = Heard + Len(downlink)
  /\ \A i \in 1 .. Len(acks) : acks[i] = SeqNo(loop[i])
  /\ \A i \in 1 .. Len(ack_queue) : ack_queue[i] = SeqNo(loop[Len(acks) + i])
  /\ \A i \in 1 .. Len(downlink) : downlink[i] = loop[Heard + i]

\* The window goes from lo to top.  What is on its trip is less than a window
\* older than what goes before it, so an ACK is never more than a window late.
Windowed(lo, top, loop) ==
  /\ lo <= top /\ top <= lo + MaxInflight
  /\ \A i \in 1 .. Len(loop) : loop[i] < top /\ lo <= loop[i] + MaxInflight
  /\ \A i, j \in 1 .. Len(loop) : i < j => loop[i] < loop[j] + MaxInflight

\* The client has the first n packets, of which the h nearest on the trip are;
\* the frames under way bring the others up to top, none before its predecessors.
Gapless(n, top, h, loop) ==
  /\ n <= top
  /\ \A i \in 1 .. h : loop[i] < n
  /\ \A j \in h + 1 .. Len(loop) : \A p \in n .. loop[j] - 1 :
       \E m \in h + 1 .. j - 1 : loop[m] = p
  /\ \A p \in n .. top - 1 : \E m \in h + 1 .. Len(loop) : loop[m] = p

\* What the client has had is a beginning of the stream, and more than the server
\* has forgotten.
Linked(lo, loop) ==
  /\ Trip(loop) /\ Windowed(lo, sent, loop)
  /\ Unacked = lo .. sent - 1
  /\ ~ CanLose =>
       /\ Gapless(Len(received), sent, Heard, loop) /\ lo <= Len(received)
       /\ \A i \in 1 .. Len(received) : received[i] = i - 1

LinkInv == \E lo \in Nat, loop \in Seq(Nat) : Linked(lo, loop)

LEMMA InitLinkInv ==
  ASSUME DownlinkAssumption, Init
  PROVE  LinkInv
<1>1. Unacked = {}
  BY DEF Init, Unacked
<1>2. Linked(0, <<>>)
  BY <1>1 DEF Init, Linked, Trip, Heard, Windowed, Gapless, DownlinkAssumption
<1>3. 0 \in Nat /\ <<>> \in Seq(Nat)
  OBVIOUS
<1> QED
  BY <1>2, <1>3 DEF LinkInv

-----------------------------------------------------------------------------
(* What becomes of a trip. *)

\* Packets of the window may join it at its far end.
LEMMA JoinsWindow ==
  ASSUME NEW lo \in Nat, NEW top \in Nat, NEW loop \in Seq(Nat), MaxInflight \in Nat,
         Windowed(lo, top, loop), NEW line \in Seq(lo .. top - 1)
  PROVE  Windowed(lo, top, loop \o line)
<1> DEFINE both == loop \o line
           k == Len(loop)
           l == Len(line)
<1>1. k \in Nat /\ l \in Nat /\ Len(both) = k + l
  OBVIOUS
<1>2. /\ \A i \in 1 .. k : both[i] = loop[i] /\ loop[i] \in Nat
      /\ \A i \in 1 .. k + l : i \notin 1 .. k => both[i] \in lo .. top - 1
  <2>1. ASSUME NEW i \in 1 .. k + l, i \notin 1 .. k
        PROVE  both[i] \in lo .. top - 1
    <3>1. both[i] = line[i - k] /\ i - k \in 1 .. l
      BY <1>1, <2>1
    <3> QED
      BY <3>1
  <2> QED
    BY <1>1, <2>1
<1>3. /\ lo <= top /\ top <= lo + MaxInflight
      /\ \A i \in 1 .. k : loop[i] < top /\ lo <= loop[i] + MaxInflight
      /\ \A i, j \in 1 .. k : i < j => loop[i] < loop[j] + MaxInflight
  BY DEF Windowed
<1> HIDE DEF both, k, l
<1>4. \A i \in 1 .. k + l : both[i] < top /\ lo <= both[i] + MaxInflight
  BY <1>1, <1>2, <1>3
<1>5. ASSUME NEW i \in 1 .. k + l, NEW j \in 1 .. k + l, i < j
      PROVE  both[i] < both[j] + MaxInflight
  <2>1. CASE j \in 1 .. k
    <3>1. i \in 1 .. k
      BY <1>1, <1>5, <2>1
    <3> QED
      BY <1>2, <1>3, <1>5, <2>1, <3>1
  <2>2. CASE j \notin 1 .. k
    <3>1. both[j] \in lo .. top - 1 /\ both[i] < top
      BY <1>2, <1>4, <2>2
    <3>2. both[i] \in Int
      BY <1>2
    <3> QED
      BY <1>3, <3>1, <3>2
  <2> QED
    BY <2>1, <2>2
<1>6. Windowed(lo, top, both)
  BY <1>1, <1>3, <1>4, <1>5 DEF Windowed
<1> QED
  BY <1>6 DEF both

LEMMA JoinsGapless ==
  ASSUME NEW n \in Nat, NEW top \in Nat, NEW h \in Nat, NEW loop \in Seq(Nat), h <= Len(loop),
         Gapless(n, top, h, loop), NEW line \in Seq(0 .. top - 1)
  PROVE  Gapless(n, top, h, loop \o line)
<1> DEFINE both == loop \o line
           k == Len(loop)
           l == Len(line)
<1>1. k \in Nat /\ l \in Nat /\ Len(both) = k + l
  OBVIOUS
<1>2. /\ \A i \in 1 .. k : both[i] = loop[i] /\ loop[i] \in Nat
      /\ \A i \in 1 .. k + l : i \notin 1 .. k => both[i] \in 0 .. top - 1
  <2>1. ASSUME NEW i \in 1 .. k + l, i \notin 1 .. k
        PROVE  both[i] \in 0 .. top - 1
    <3>1. both[i] = line[i - k] /\ i - k \in 1 .. l
      BY <1>1, <2>1
    <3> QED
      BY <3>1
  <2> QED
    BY <1>1, <2>1
<1>3. /\ n <= top /\ h <= k
      /\ \A i \in 1 .. h : loop[i] < n
      /\ \A j \in h + 1 .. k : \A p \in n .. loop[j] - 1 :
           \E m \in h + 1 .. j - 1 : loop[m] = p
      /\ \A p \in n .. top - 1 : \E m \in h + 1 .. k : loop[m] = p
  BY DEF Gapless
<1> HIDE DEF both, k, l
<1>4. \A i \in 1 .. h : both[i] < n
  <2> TAKE i \in 1 .. h
  <2>1. i \in 1 .. k
    BY <1>1, <1>3
  <2>2. both[i] = loop[i]
    BY <1>2, <2>1
  <2> QED
    BY <1>3, <2>2
<1>5. \A p \in n .. top - 1 : \E m \in h + 1 .. k : both[m] = p
  <2> TAKE p \in n .. top - 1
  <2>1. PICK m \in h + 1 .. k : loop[m] = p
    BY <1>3
  <2>2. both[m] = p
    BY <1>1, <1>2, <2>1
  <2> QED
    BY <2>2
<1>6. ASSUME NEW j \in h + 1 .. k + l, NEW p \in n .. both[j] - 1
      PROVE  \E m \in h + 1 .. j - 1 : both[m] = p
  <2>1. CASE j \in h + 1 .. k
    <3>1. both[j] = loop[j]
      BY <1>1, <1>2, <2>1
    <3>2. PICK m \in h + 1 .. j - 1 : loop[m] = p
      BY <1>3, <2>1, <3>1
    <3>3. both[m] = p
      BY <1>1, <1>2, <2>1, <3>2
    <3> QED
      BY <3>3
  <2>2. CASE j \notin h + 1 .. k
    <3>1. both[j] \in 0 .. top - 1
      BY <1>1, <1>2, <1>6, <2>2
    <3>2. p \in n .. top - 1
      BY <3>1
    <3>3. PICK m \in h + 1 .. k : both[m] = p
      BY <1>5, <3>2
    <3> QED
      BY <1>1, <1>6, <2>2, <3>3
  <2> QED
    BY <2>1, <2>2
<1>7. \A p \in n .. top - 1 : \E m \in h + 1 .. k + l : both[m] = p
  <2>1. \A m \in h + 1 .. k : m \in h + 1 .. k + l
    BY <1>1
  <2> QED
    BY <1>5, <2>1
<1>8. Gapless(n, top, h, both)
  BY <1>1, <1>3, <1>4, <1>6, <1>7 DEF Gapless
<1> QED
  BY <1>8 DEF both

\* Any may leave it.
LEMMA LeavesWindow ==
  ASSUME NEW lo \in Nat, NEW top \in Nat, NEW loop \in Seq(Nat),
         Windowed(lo, top, loop), NEW i \in 1 .. Len(loop)
  PROVE  Windowed(lo, top, RemoveAt(loop, i))
<1> DEFINE rest == RemoveAt(loop, i)
           k == Len(loop)
           At(j) == IF j < i THEN j ELSE j + 1
<1>1. k \in Nat /\ i \in 1 .. k
  OBVIOUS
<1>2. Len(rest) = k - 1 /\ \A j \in 1 .. k - 1 : rest[j] = loop[At(j)]
  BY RemoveAtParts
<1>3. /\ lo <= top /\ top <= lo + MaxInflight
      /\ \A j \in 1 .. k : loop[j] < top /\ lo <= loop[j] + MaxInflight
      /\ \A j, m \in 1 .. k : j < m => loop[j] < loop[m] + MaxInflight
  BY DEF Windowed
<1> HIDE DEF rest, k
<1>4. \A j \in 1 .. k - 1 : At(j) \in 1 .. k
  BY <1>1
<1>5. \A j, m \in 1 .. k - 1 : j < m => At(j) < At(m)
  BY <1>1
<1> HIDE DEF At
<1>6. /\ \A j \in 1 .. k - 1 : rest[j] < top /\ lo <= rest[j] + MaxInflight
      /\ \A j, m \in 1 .. k - 1 : j < m => rest[j] < rest[m] + MaxInflight
  BY <1>2, <1>3, <1>4, <1>5
<1>7. Windowed(lo, top, rest)
  BY <1>2, <1>3, <1>6 DEF Windowed
<1> QED
  BY <1>7 DEF rest

\* The ACK at the end of the trip moves the start of the window behind its packet,
\* if it was not there already.
LEMMA EndsTrip ==
  ASSUME NEW lo \in Nat, NEW top \in Nat, NEW loop \in Seq(Nat), loop # <<>>, MaxInflight \in Nat,
         Windowed(lo, top, loop), NEW start \in Nat,
         start = IF loop[1] < lo THEN lo ELSE loop[1] + 1
  PROVE  Windowed(start, top, RemoveAt(loop, 1))
<1> DEFINE rest == RemoveAt(loop, 1)
           k == Len(loop)
<1>1. k \in Nat /\ 1 \in 1 .. k /\ \A j \in 1 .. k : loop[j] \in Nat
  OBVIOUS
<1>2. Len(rest) = k - 1 /\ \A j \in 1 .. k - 1 : rest[j] = loop[j + 1]
  <2>1. /\ Len(rest) = k - 1
        /\ \A j \in 1 .. k - 1 : rest[j] = loop[IF j < 1 THEN j ELSE j + 1]
    BY <1>1, RemoveAtParts
  <2> HIDE DEF rest, k
  <2> QED
    BY <1>1, <2>1
<1>3. /\ lo <= top /\ top <= lo + MaxInflight
      /\ \A j \in 1 .. k : loop[j] < top /\ lo <= loop[j] + MaxInflight
      /\ \A j, m \in 1 .. k : j < m => loop[j] < loop[m] + MaxInflight
  BY DEF Windowed
<1>4. Windowed(lo, top, rest)
  BY <1>1, LeavesWindow
<1> HIDE DEF rest, k
<1>5. start <= top /\ top <= start + MaxInflight
  BY <1>1, <1>3
<1>6. ASSUME NEW j \in 1 .. k - 1
      PROVE  start <= rest[j] + MaxInflight
  <2>1. j + 1 \in 1 .. k /\ 1 < j + 1
    BY <1>1, <1>6
  <2>2. /\ lo <= loop[j + 1] + MaxInflight
        /\ loop[1] < loop[j + 1] + MaxInflight
        /\ loop[j + 1] \in Nat /\ loop[1] \in Nat
    BY <1>1, <1>3, <2>1
  <2> QED
    BY <1>2, <2>2
<1>7. Windowed(start, top, rest)
  BY <1>2, <1>4, <1>5, <1>6 DEF Windowed
<1> QED
  BY <1>7 DEF rest

\* With room in the window the next packet may go out.
LEMMA OpensWindow ==
  ASSUME NEW lo \in Nat, NEW top \in Nat, NEW loop \in Seq(Nat), MaxInflight \in Nat,
         Windowed(lo, top, loop), top < lo + MaxInflight
  PROVE  Windowed(lo, top + 1, loop \o <<top>>)
<1>1. \A i \in 1 .. Len(loop) : loop[i] \in Nat
  OBVIOUS
<1>2. PICK next \in Nat : next = top + 1
  OBVIOUS
<1>3. Windowed(lo, next, loop)
  BY <1>1, <1>2 DEF Windowed
<1>4. <<top>> \in Seq(lo .. next - 1)
  BY <1>2 DEF Windowed
<1>5. Windowed(lo, next, loop \o <<top>>)
  BY <1>3, <1>4, JoinsWindow
<1> QED
  BY <1>2, <1>5

\* The newest packet goes last.
LEMMA OpensGapless ==
  ASSUME NEW n \in Nat, NEW top \in Nat, NEW h \in Nat, NEW loop \in Seq(Nat), h <= Len(loop),
         Gapless(n, top, h, loop)
  PROVE  Gapless(n, top + 1, h, loop \o <<top>>)
<1> DEFINE both == loop \o <<top>>
           k == Len(loop)
<1>1. k \in Nat /\ Len(both) = k + 1 /\ h <= k
      /\ both[k + 1] = top /\ \A i \in 1 .. k : both[i] = loop[i]
  OBVIOUS
<1>2. /\ n <= top
      /\ \A i \in 1 .. h : loop[i] < n
      /\ \A j \in h + 1 .. k : \A p \in n .. loop[j] - 1 :
           \E m \in h + 1 .. j - 1 : loop[m] = p
      /\ \A p \in n .. top - 1 : \E m \in h + 1 .. k : loop[m] = p
  BY DEF Gapless
<1> HIDE DEF both, k
<1>3. /\ \A i \in 1 .. h : i \in 1 .. k
      /\ \A i \in h + 1 .. k : i \in 1 .. k
      /\ \A i \in h + 1 .. k + 1 : i \in h + 1 .. k \/ i = k + 1
      /\ \A i \in h + 1 .. k : i \in h + 1 .. k + 1 - 1 /\ i \in h + 1 .. k + 1
      /\ k + 1 \in h + 1 .. k + 1
  BY <1>1
<1>4. \A i \in 1 .. h : both[i] < n
  BY <1>1, <1>2, <1>3
<1>5. \A p \in n .. top - 1 : \E m \in h + 1 .. k : both[m] = p
  BY <1>1, <1>2, <1>3
<1>6. ASSUME NEW j \in h + 1 .. k + 1, NEW p \in n .. both[j] - 1
      PROVE  \E m \in h + 1 .. j - 1 : both[m] = p
  <2>1. CASE j \in h + 1 .. k
    <3>1. PICK m \in h + 1 .. j - 1 : loop[m] = p
      BY <1>1, <1>2, <1>3, <2>1
    <3>2. m \in 1 .. k
      BY <1>1, <2>1
    <3> QED
      BY <1>1, <3>1, <3>2
  <2>2. CASE j = k + 1
    BY <1>1, <1>3, <1>5, <2>2
  <2> QED
    BY <1>3, <2>1, <2>2
<1>7. ASSUME NEW p \in n .. top + 1 - 1
      PROVE  \E m \in h + 1 .. k + 1 : both[m] = p
  <2>1. p \in n .. top - 1 \/ p = top
    OBVIOUS
  <2> QED
    BY <1>1, <1>3, <1>5, <2>1
<1>8. n <= top + 1
  BY <1>2
<1>9. Gapless(n, top + 1, h, both)
  BY <1>1, <1>4, <1>6, <1>7, <1>8 DEF Gapless
<1> QED
  BY <1>9 DEF both

\* The frame that arrives is the next the client needs, or one it has had.
LEMMA ArrivesGapless ==
  ASSUME NEW n \in Nat, NEW top \in Nat, NEW h \in Nat, NEW loop \in Seq(Nat), h < Len(loop),
         Gapless(n, top, h, loop), loop[h + 1] < top
  PROVE  /\ loop[h + 1] <= n
         /\ loop[h + 1] < n => Gapless(n, top, h + 1, loop)
         /\ loop[h + 1] = n => Gapless(n + 1, top, h + 1, loop)
<1> DEFINE k == Len(loop)
           q == loop[h + 1]
<1>1. k \in Nat /\ h < k /\ \A i \in 1 .. k : loop[i] \in Nat
  OBVIOUS
<1>2. /\ n <= top
      /\ \A i \in 1 .. h : loop[i] < n
      /\ \A j \in h + 1 .. k : \A p \in n .. loop[j] - 1 :
           \E m \in h + 1 .. j - 1 : loop[m] = p
      /\ \A p \in n .. top - 1 : \E m \in h + 1 .. k : loop[m] = p
  BY DEF Gapless
<1> HIDE DEF k
<1>3. q \in Nat /\ h + 1 \in h + 1 .. k
  BY <1>1
<1>4. q <= n
  <2> SUFFICES ASSUME n < q PROVE FALSE
    BY <1>3
  <2>1. n \in n .. q - 1
    BY <1>3
  <2>2. \E m \in h + 1 .. h + 1 - 1 : loop[m] = n
    BY <1>2, <1>3, <2>1
  <2> QED
    BY <2>2
<1>5. ASSUME NEW r \in Nat, n <= r, q < r, r <= top
      PROVE  Gapless(r, top, h + 1, loop)
  <2>1. \A i \in 1 .. h + 1 : loop[i] < r
    <3> TAKE i \in 1 .. h + 1
    <3>1. i \in 1 .. h \/ i = h + 1
      OBVIOUS
    <3>2. i \in 1 .. k
      BY <1>1
    <3> QED
      BY <1>1, <1>2, <1>5, <3>1, <3>2
  <2>2. ASSUME NEW j \in h + 1 + 1 .. k, NEW p \in r .. loop[j] - 1
        PROVE  \E m \in h + 1 + 1 .. j - 1 : loop[m] = p
    <3>1. j \in h + 1 .. k /\ p \in n .. loop[j] - 1
      BY <1>1, <1>5, <2>2
    <3>2. PICK m \in h + 1 .. j - 1 : loop[m] = p
      BY <1>2, <3>1
    <3>3. m # h + 1
      BY <1>3, <1>5, <3>2
    <3>4. m \in h + 1 + 1 .. j - 1
      BY <3>3
    <3> QED
      BY <3>2, <3>4
  <2>3. ASSUME NEW p \in r .. top - 1
        PROVE  \E m \in h + 1 + 1 .. k : loop[m] = p
    <3>1. p \in n .. top - 1
      BY <1>5
    <3>2. PICK m \in h + 1 .. k : loop[m] = p
      BY <1>2, <3>1
    <3>3. m # h + 1
      BY <1>3, <1>5, <3>2
    <3>4. m \in h + 1 + 1 .. k
      BY <3>3
    <3> QED
      BY <3>2, <3>4
  <2> QED
    BY <1>5, <2>1, <2>2, <2>3 DEF Gapless, k
<1>6. q < n => Gapless(n, top, h + 1, loop)
  BY <1>2, <1>5
<1>7. q = n => Gapless(n + 1, top, h + 1, loop)
  <2>1. q = n => n <= n + 1 /\ q < n + 1 /\ n + 1 <= top /\ n + 1 \in Nat
    OBVIOUS
  <2> QED
    BY <1>5, <2>1
<1> QED
  BY <1>4, <1>6, <1>7

\* An ACK that ends its trip is of a packet the client has.
LEMMA EndsGapless ==
  ASSUME NEW n \in Nat, NEW top \in Nat, NEW h \in Nat, NEW loop \in Seq(Nat), h <= Len(loop),
         Gapless(n, top, h, loop), 1 <= h
  PROVE  loop[1] < n /\ Gapless(n, top, h - 1, RemoveAt(loop, 1))
<1> DEFINE rest == RemoveAt(loop, 1)
           k == Len(loop)
<1>1. k \in Nat /\ 1 \in 1 .. k /\ h <= k
  OBVIOUS
<1>2. Len(rest) = k - 1 /\ \A j \in 1 .. k - 1 : rest[j] = loop[j + 1]
  <2>1. /\ Len(rest) = k - 1
        /\ \A j \in 1 .. k - 1 : rest[j] = loop[IF j < 1 THEN j ELSE j + 1]
    BY <1>1, RemoveAtParts
  <2> HIDE DEF rest, k
  <2> QED
    BY <1>1, <2>1
<1>3. /\ n <= top
      /\ \A i \in 1 .. h : loop[i] < n
      /\ \A j \in h + 1 .. k : \A p \in n .. loop[j] - 1 :
           \E m \in h + 1 .. j - 1 : loop[m] = p
      /\ \A p \in n .. top - 1 : \E m \in h + 1 .. k : loop[m] = p
  BY DEF Gapless
<1> HIDE DEF rest, k
<1>4. loop[1] < n
  BY <1>3
<1>5. \A i \in 1 .. h - 1 : rest[i] < n
  <2> TAKE i \in 1 .. h - 1
  <2>1. i \in 1 .. k - 1 /\ i + 1 \in 1 .. h
    BY <1>1
  <2> QED
    BY <1>2, <1>3, <2>1
<1>6. ASSUME NEW j \in h - 1 + 1 .. k - 1, NEW p \in n .. rest[j] - 1
      PROVE  \E m \in h - 1 + 1 .. j - 1 : rest[m] = p
  <2>1. j \in 1 .. k - 1 /\ j + 1 \in h + 1 .. k
    BY <1>1
  <2>2. p \in n .. loop[j + 1] - 1
    BY <1>2, <2>1
  <2>3. PICK m \in h + 1 .. j + 1 - 1 : loop[m] = p
    BY <1>3, <2>1, <2>2
  <2>4. m - 1 \in h - 1 + 1 .. j - 1 /\ m - 1 \in 1 .. k - 1 /\ m - 1 + 1 = m
    BY <1>1, <2>1
  <2> QED
    BY <1>2, <2>3, <2>4
<1>7. ASSUME NEW p \in n .. top - 1
      PROVE  \E m \in h - 1 + 1 .. k - 1 : rest[m] = p
  <2>1. PICK m \in h + 1 .. k : loop[m] = p
    BY <1>3
  <2>2. m - 1 \in h - 1 + 1 .. k - 1 /\ m - 1 \in 1 .. k - 1 /\ m - 1 + 1 = m
    BY <1>1, <2>1
  <2> QED
    BY <1>2, <2>1, <2>2
<1>8. Gapless(n, top, h - 1, rest)
  BY <1>2, <1>3, <1>5, <1>6, <1>7 DEF Gapless
<1> QED
  BY <1>4, <1>8 DEF rest

-----------------------------------------------------------------------------
(* The steps. *)

LEMMA LengthsAreNat ==
  ASSUME DownlinkAssumption, TypeOK
  PROVE  /\ Len(acks) \in Nat /\ Len(ack_queue) \in Nat /\ Len(downlink) \in Nat
         /\ Heard \in Nat /\ Heard = Len(acks) + Len(ack_queue)
         /\ sent \in Nat /\ Len(received) \in Nat /\ MaxInflight \in Nat
BY DEF TypeOK, DownlinkAssumption, Heard

\* Packets that join the trip, as data frames.
LEMMA TripJoins ==
  ASSUME DownlinkAssumption, TypeOK, NEW loop \in Seq(Nat), NEW line \in Seq(Nat), Trip(loop),
         downlink' = downlink \o line, UNCHANGED <<acks, ack_queue>>
  PROVE  Trip(loop \o line)'
<1> DEFINE a == Len(acks)
           b == Len(ack_queue)
           c == Len(downlink)
           l == Len(line)
           both == loop \o line
<1>1. /\ a \in Nat /\ b \in Nat /\ c \in Nat /\ l \in Nat /\ Heard = a + b
      /\ Len(loop) = a + b + c
  BY LengthsAreNat DEF Trip
<1>2. /\ Len(downlink') = c + l /\ Len(both) = a + b + c + l
      /\ \A i \in 1 .. c : downlink'[i] = downlink[i]
      /\ \A i \in 1 .. l : downlink'[c + i] = line[i]
      /\ \A i \in 1 .. a + b + c : both[i] = loop[i]
      /\ \A i \in 1 .. l : both[a + b + c + i] = line[i]
  <2>1. downlink \in Seq(Packets)
    BY DEF TypeOK
  <2>2. /\ Len(downlink') = c + l
        /\ \A i \in 1 .. c : downlink'[i] = downlink[i]
        /\ \A i \in 1 .. l : downlink'[c + i] = line[i]
    BY <2>1, ConcatParts
  <2>3. /\ Len(both) = Len(loop) + l
        /\ \A i \in 1 .. Len(loop) : both[i] = loop[i]
        /\ \A i \in 1 .. l : both[Len(loop) + i] = line[i]
    BY ConcatParts
  <2> QED
    BY <1>1, <2>2, <2>3
<1>3. /\ \A i \in 1 .. a : acks[i] = SeqNo(loop[i])
      /\ \A i \in 1 .. b : ack_queue[i] = SeqNo(loop[a + i])
      /\ \A i \in 1 .. c : downlink[i] = loop[a + b + i]
  BY <1>1 DEF Trip
<1>4. Heard' = a + b
  BY DEF Heard
<1>5. a = Len(acks') /\ b = Len(ack_queue') /\ UNCHANGED <<acks, ack_queue>>
  OBVIOUS
<1> HIDE DEF a, b, c, l, both
<1>6. \A i \in 1 .. a : acks[i] = SeqNo(both[i])
  <2>1. \A i \in 1 .. a : i \in 1 .. a + b + c
    BY <1>1
  <2> QED
    BY <1>2, <1>3, <2>1
<1>7. \A i \in 1 .. b : ack_queue[i] = SeqNo(both[a + i])
  <2>1. \A i \in 1 .. b : a + i \in 1 .. a + b + c
    BY <1>1
  <2> QED
    BY <1>2, <1>3, <2>1
<1>8. ASSUME NEW i \in 1 .. c + l
      PROVE  downlink'[i] = both[a + b + i]
  <2>1. CASE i \in 1 .. c
    <3>1. a + b + i \in 1 .. a + b + c
      BY <1>1, <2>1
    <3> QED
      BY <1>2, <1>3, <2>1, <3>1
  <2>2. CASE i \notin 1 .. c
    <3>1. PICK j : j = i - c
      OBVIOUS
    <3>2. j \in 1 .. l /\ i = c + j /\ a + b + i = a + b + c + j
      BY <1>1, <2>2, <3>1
    <3> QED
      BY <1>2, <3>2
  <2> QED
    BY <2>1, <2>2
<1>9. a + b + c + l = a + b + (c + l)
  BY <1>1
<1> QED
  BY <1>2, <1>4, <1>5, <1>6, <1>7, <1>8, <1>9 DEF Trip, both

LEMMA SendStep ==
  ASSUME DownlinkAssumption, TypeOK, NEW lo \in Nat, NEW loop \in Seq(Nat), Linked(lo, loop),
         NEW c \in Channels, SendReliable(c)
  PROVE  LinkInv'
<1>1. PICK line : line = <<sent>>
  OBVIOUS
<1>2. sent \in Nat /\ Heard \in Nat /\ MaxInflight \in Nat /\ Len(received) \in Nat
      /\ Len(downlink) \in Nat
  BY LengthsAreNat
<1>3. /\ sent' = sent + 1 /\ downlink' = Append(downlink, sent)
      /\ UNCHANGED <<acks, ack_queue, received>> /\ Heard' = Heard
  BY DEF SendReliable, clientVars, Heard
<1>4. Trip(loop) /\ Windowed(lo, sent, loop) /\ Unacked = lo .. sent - 1
  BY DEF Linked
<1>5. sent < lo + MaxInflight
  <2>1. Cardinality(lo .. sent - 1) = IF lo > sent - 1 THEN 0 ELSE sent - 1 - lo + 1
    BY <1>2, FS_Interval
  <2>2. Cardinality(lo .. sent - 1) < MaxInflight
    BY <1>4 DEF SendReliable, CanSend
  <2> QED
    BY <1>2, <1>4, <2>1, <2>2 DEF Windowed
<1>6. line \in Seq(Nat) /\ downlink' = downlink \o line /\ loop \o line \in Seq(Nat)
  BY <1>1, <1>2, <1>3 DEF TypeOK
<1>7. Trip(loop \o line)'
  BY <1>3, <1>4, <1>6, TripJoins
<1>8. Windowed(lo, sent', loop \o line)
  BY <1>1, <1>2, <1>3, <1>4, <1>5, OpensWindow
<1>9. Unacked' = lo .. sent' - 1
  <2>1. Unacked' = Unacked \cup {sent}
    BY DEF SendReliable, Unacked, TypeOK
  <2> QED
    BY <1>2, <1>3, <1>4, <2>1 DEF Windowed
<1>10. ASSUME ~ CanLose
       PROVE  /\ Gapless(Len(received), sent', Heard, loop \o line) /\ lo <= Len(received)
              /\ \A i \in 1 .. Len(received) : received[i] = i - 1
  <2>1. /\ Gapless(Len(received), sent, Heard, loop) /\ lo <= Len(received)
        /\ \A i \in 1 .. Len(received) : received[i] = i - 1
    BY <1>10 DEF Linked
  <2>2. Heard <= Len(loop)
    BY <1>2, <1>4 DEF Trip
  <2> QED
    BY <1>1, <1>2, <1>3, <2>1, <2>2, OpensGapless
<1>11. Linked(lo, loop \o line)'
  BY <1>3, <1>7, <1>8, <1>9, <1>10 DEF Linked
<1> QED
  BY <1>6, <1>11 DEF LinkInv

LEMMA RetransmitStep ==
  ASSUME DownlinkAssumption, TypeOK, NEW lo \in Nat, NEW loop \in Seq(Nat), Linked(lo, loop),
         NEW expired \in SUBSET Unacked, Retransmit(expired)
  PROVE  LinkInv'
<1>1. PICK line \in InDrainOrder(expired) : downlink' = downlink \o line
  BY DEF Retransmit
<1>2. sent \in Nat /\ Heard \in Nat /\ MaxInflight \in Nat /\ Len(received) \in Nat
      /\ Len(downlink) \in Nat
  BY LengthsAreNat
<1>3. UNCHANGED <<sent, send_queues, acks, ack_queue, received>> /\ Heard' = Heard
  BY DEF Retransmit, serverVars, clientVars, Heard
<1>4. Trip(loop) /\ Windowed(lo, sent, loop) /\ Unacked = lo .. sent - 1
  BY DEF Linked
<1>5. line \in Seq(lo .. sent - 1)
  BY <1>4, DrainedLine
<1>6. line \in Seq(Nat) /\ line \in Seq(0 .. sent - 1) /\ loop \o line \in Seq(Nat)
  <2>1. expired \subseteq 0 .. sent - 1 /\ expired \subseteq Nat
    BY <1>2, <1>4
  <2>2. line \in Seq(Nat) /\ line \in Seq(0 .. sent - 1)
    BY <2>1, DrainedLine
  <2> QED
    BY <2>2
<1>7. Trip(loop \o line)'
  BY <1>1, <1>3, <1>4, <1>6, TripJoins
<1>8. Windowed(lo, sent, loop \o line)
  BY <1>2, <1>4, <1>5, JoinsWindow
<1>9. Unacked' = Unacked
  BY <1>3 DEF Unacked
<1>10. ASSUME ~ CanLose
       PROVE  /\ Gapless(Len(received), sent, Heard, loop \o line) /\ lo <= Len(received)
              /\ \A i \in 1 .. Len(received) : received[i] = i - 1
  <2>1. /\ Gapless(Len(received), sent, Heard, loop) /\ lo <= Len(received)
        /\ \A i \in 1 .. Len(received) : received[i] = i - 1
    BY <1>10 DEF Linked
  <2>2. Heard <= Len(loop)
    BY <1>2, <1>4 DEF Trip
  <2> QED
    BY <1>2, <1>6, <2>1, <2>2, JoinsGapless
<1>11. Linked(lo, loop \o line)'
  BY <1>3, <1>4, <1>7, <1>8, <1>9, <1>10 DEF Linked
<1> QED
  BY <1>6, <1>11 DEF LinkInv

\* ack_recv at the end of the trip takes off the old end of the window only.
LEMMA AckStep ==
  ASSUME DownlinkAssumption, InOrderNetwork, TypeOK,
         NEW lo \in Nat, NEW loop \in Seq(Nat), Linked(lo, loop),
         NEW i \in Deliverable(acks), AckRecv(i)
  PROVE  LinkInv'
<1>1. /\ Len(acks) \in Nat /\ Len(ack_queue) \in Nat /\ Len(downlink) \in Nat
      /\ Heard \in Nat /\ Heard = Len(acks) + Len(ack_queue)
      /\ sent \in Nat /\ Len(received) \in Nat /\ MaxInflight \in Nat
  BY LengthsAreNat
<1>2. i = 1 /\ Len(acks) >= 1 /\ acks \in Seq(Seqs)
  BY DEF Deliverable, InOrderNetwork, TypeOK
<1>3. /\ acks' = RemoveAt(acks, 1)
      /\ UNCHANGED <<sent, downlink, ack_queue, received>>
  BY <1>2 DEF AckRecv, clientVars
<1>4. Trip(loop) /\ Windowed(lo, sent, loop) /\ Unacked = lo .. sent - 1
  BY DEF Linked
<1>5. Len(loop) = Heard + Len(downlink) /\ loop[1] \in Nat /\ acks[1] = SeqNo(loop[1])
      /\ loop # <<>> /\ 1 \in 1 .. Len(loop)
  BY <1>1, <1>2, <1>4 DEF Trip
<1>6. loop[1] < sent /\ lo <= loop[1] + MaxInflight /\ lo <= sent /\ sent <= lo + MaxInflight
  BY <1>4, <1>5 DEF Windowed
<1>7. PICK rest, start : rest = RemoveAt(loop, 1) /\ start = IF loop[1] < lo THEN lo ELSE loop[1] + 1
  OBVIOUS
<1>8. start \in Nat /\ rest \in Seq(Nat)
  BY <1>5, <1>7, RemoveAtParts
<1>9. /\ Len(acks') = Len(acks) - 1
      /\ \A j \in 1 .. Len(acks) - 1 : acks'[j] = acks[j + 1]
  <2>1. 1 \in 1 .. Len(acks)
    BY <1>1, <1>2
  <2>2. /\ Len(acks') = Len(acks) - 1
        /\ \A j \in 1 .. Len(acks) - 1 : acks'[j] = acks[IF j < 1 THEN j ELSE j + 1]
    BY <1>2, <1>3, <2>1, RemoveAtParts
  <2>3. \A j \in 1 .. Len(acks) - 1 : ~ j < 1
    BY <1>1
  <2> QED
    BY <2>2, <2>3
<1>10. /\ Len(rest) = Len(loop) - 1
       /\ \A j \in 1 .. Len(loop) - 1 : rest[j] = loop[j + 1]
  <2>1. /\ Len(rest) = Len(loop) - 1
        /\ \A j \in 1 .. Len(loop) - 1 : rest[j] = loop[IF j < 1 THEN j ELSE j + 1]
    BY <1>5, <1>7, RemoveAtParts
  <2>2. \A j \in 1 .. Len(loop) - 1 : ~ j < 1
    BY <1>1, <1>5
  <2> QED
    BY <2>1, <2>2
<1>11. Heard' = Heard - 1
  <2>1. Heard' = Len(acks') + Len(ack_queue)
    BY <1>3 DEF Heard
  <2> QED
    BY <1>1, <1>9, <2>1
<1>12. Trip(rest)'
  <2> DEFINE a == Len(acks)
             b == Len(ack_queue)
             c == Len(downlink)
  <2>1. /\ \A j \in 1 .. a : acks[j] = SeqNo(loop[j])
        /\ \A j \in 1 .. b : ack_queue[j] = SeqNo(loop[a + j])
        /\ \A j \in 1 .. c : downlink[j] = loop[a + b + j]
    BY <1>1, <1>4 DEF Trip
  <2>2. a \in Nat /\ b \in Nat /\ c \in Nat /\ Len(loop) = a + b + c /\ a >= 1 /\ Heard = a + b
    BY <1>1, <1>2, <1>5
  <2> HIDE DEF a, b, c
  <2>3. \A j \in 1 .. a - 1 : j \in 1 .. a + b + c - 1 /\ j + 1 \in 1 .. a
    BY <2>2
  <2>4. \A j \in 1 .. b : a - 1 + j \in 1 .. a + b + c - 1 /\ a - 1 + j + 1 = a + j
    BY <2>2
  <2>5. \A j \in 1 .. c : a + b - 1 + j \in 1 .. a + b + c - 1 /\ a + b - 1 + j + 1 = a + b + j
    BY <2>2
  <2>6. \A j \in 1 .. a + b + c - 1 : rest[j] = loop[j + 1]
    BY <1>10, <2>2
  <2>7. \A j \in 1 .. a - 1 : acks'[j] = SeqNo(rest[j])
    BY <1>9, <2>1, <2>3, <2>6 DEF a
  <2>8. \A j \in 1 .. b : ack_queue[j] = SeqNo(rest[a - 1 + j])
    BY <2>1, <2>4, <2>6
  <2>9. \A j \in 1 .. c : downlink[j] = rest[a + b - 1 + j]
    BY <2>1, <2>5, <2>6
  <2>10. /\ Len(acks') = a - 1 /\ Len(ack_queue') = b /\ Len(downlink') = c
         /\ UNCHANGED <<ack_queue, downlink>> /\ Heard' = a + b - 1
         /\ Len(rest) = a + b - 1 + c
    BY <1>3, <1>9, <1>10, <1>11, <2>2 DEF a, b, c
  <2> QED
    BY <2>7, <2>8, <2>9, <2>10 DEF Trip
<1>13. Windowed(start, sent, rest)
  BY <1>1, <1>4, <1>5, <1>7, <1>8, EndsTrip
<1>14. Unacked' = start .. sent - 1
  <2>1. \A p \in lo .. sent - 1 : Keeps(acks[1], p) <=> loop[1] < p
    <3> TAKE p \in lo .. sent - 1
    <3> DEFINE w == MaxInflight
               h == loop[1]
    <3>0. /\ h \in Nat /\ w \in Nat /\ sent \in Nat
          /\ h < sent /\ lo <= h + w /\ sent <= lo + w
      BY <1>1, <1>5, <1>6
    <3> HIDE DEF w, h
    <3>1. p \in Nat /\ p - h < 2 * w /\ h - p < w
      BY <3>0
    <3>2. 2 * w <= SeqSpace \div 2 /\ SeqSpace \div 2 \in Int
      BY <1>1, SeqSpaceAssumption DEF w, InOrderNetwork, DownlinkAssumption, SeqSpaceAssumption
    <3>3. PICK half : half = SeqSpace \div 2
      OBVIOUS
    <3>4. p - h < half /\ h - p <= half
      BY <3>0, <3>1, <3>2, <3>3
    <3>5. Keeps(SeqNo(h), p) <=> h < p
      BY <3>0, <3>1, <3>3, <3>4, KeepsNewer
    <3> QED
      BY <1>5, <3>5 DEF h
  <2>2. Unacked' = {p \in Unacked : Keeps(acks[1], p)}
    BY <1>2 DEF AckRecv, Unacked
  <2>3. \A p \in lo .. sent - 1 : loop[1] < p <=> p \in start .. sent - 1
    BY <1>1, <1>5, <1>7
  <2>4. start .. sent - 1 \subseteq lo .. sent - 1
    BY <1>1, <1>5, <1>7
  <2> QED
    BY <1>4, <2>1, <2>2, <2>3, <2>4
<1>15. ASSUME ~ CanLose
       PROVE  /\ Gapless(Len(received), sent, Heard - 1, rest) /\ start <= Len(received)
              /\ \A j \in 1 .. Len(received) : received[j] = j - 1
  <2>1. /\ Gapless(Len(received), sent, Heard, loop) /\ lo <= Len(received)
        /\ \A j \in 1 .. Len(received) : received[j] = j - 1
    BY <1>15 DEF Linked
  <2>2. 1 <= Heard /\ Heard <= Len(loop)
    BY <1>1, <1>2, <1>5
  <2>3. loop[1] < Len(received) /\ Gapless(Len(received), sent, Heard - 1, rest)
    BY <1>1, <1>7, <2>1, <2>2, EndsGapless
  <2> QED
    BY <1>1, <1>5, <1>7, <2>1, <2>3
<1>16. Linked(start, rest)'
  BY <1>3, <1>11, <1>12, <1>13, <1>14, <1>15 DEF Linked
<1> QED
  BY <1>8, <1>16 DEF LinkInv

\* A datagram or an ACK that is lost leaves the trip.
LEMMA LossStep ==
  ASSUME DownlinkAssumption, TypeOK, NEW lo \in Nat, NEW loop \in Seq(Nat), Linked(lo, loop),
         \/ \E i \in DOMAIN downlink : LoseData(i)
         \/ \E i \in DOMAIN acks : LoseAck(i)
  PROVE  LinkInv'
<1> DEFINE a == Len(acks)
           b == Len(ack_queue)
           c == Len(downlink)
<1>1. /\ a \in Nat /\ b \in Nat /\ c \in Nat /\ Heard = a + b /\ sent \in Nat
      /\ acks \in Seq(Seqs) /\ downlink \in Seq(Packets)
  BY LengthsAreNat DEF TypeOK
<1>2. Trip(loop) /\ Windowed(lo, sent, loop) /\ Unacked = lo .. sent - 1
  BY DEF Linked
<1>3. /\ Len(loop) = a + b + c
      /\ \A j \in 1 .. a : acks[j] = SeqNo(loop[j])
      /\ \A j \in 1 .. b : ack_queue[j] = SeqNo(loop[a + j])
      /\ \A j \in 1 .. c : downlink[j] = loop[a + b + j]
  BY <1>1, <1>2 DEF Trip
<1>4. CanLose /\ UNCHANGED <<sent, send_queues, ack_queue, received>> /\ Unacked' = Unacked
  BY DEF LoseData, LoseAck, serverVars, clientVars, Unacked
<1>5. ASSUME NEW i \in 1 .. Len(loop), Trip(RemoveAt(loop, i))'
      PROVE  LinkInv'
  <2>1. PICK rest : rest = RemoveAt(loop, i)
    OBVIOUS
  <2>2. rest \in Seq(Nat) /\ Windowed(lo, sent, rest) /\ Trip(rest)'
    BY <1>1, <1>2, <1>5, <2>1, RemoveAtParts, LeavesWindow
  <2>3. Linked(lo, rest)'
    BY <1>2, <1>4, <2>2 DEF Linked
  <2> QED
    BY <2>2, <2>3 DEF LinkInv
<1>6. ASSUME NEW i \in DOMAIN downlink, LoseData(i)
      PROVE  LinkInv'
  <2>1. PICK at : at = a + b + i
    OBVIOUS
  <2>2. i \in 1 .. c /\ at \in 1 .. a + b + c
    BY <1>1, <2>1
  <2>3. PICK rest : rest = RemoveAt(loop, at)
    OBVIOUS
  <2>4. /\ Len(rest) = a + b + c - 1
        /\ \A j \in 1 .. a + b + c - 1 : rest[j] = loop[IF j < at THEN j ELSE j + 1]
    <3>1. at \in 1 .. Len(loop)
      BY <1>3, <2>2
    <3>2. /\ Len(rest) = Len(loop) - 1
          /\ \A j \in 1 .. Len(loop) - 1 : rest[j] = loop[IF j < at THEN j ELSE j + 1]
      BY <2>3, <3>1, RemoveAtParts
    <3> QED
      BY <1>3, <3>2
  <2>5. /\ Len(downlink') = c - 1 /\ UNCHANGED <<acks, ack_queue>>
        /\ \A j \in 1 .. c - 1 : downlink'[j] = downlink[IF j < i THEN j ELSE j + 1]
    BY <1>1, <1>6, <2>2, RemoveAtParts DEF LoseData, serverVars, clientVars
  <2>6. Heard' = a + b /\ Len(acks') = a /\ Len(ack_queue') = b
    BY <2>5 DEF Heard
  <2> HIDE DEF a, b, c
  <2>7. \A j \in 1 .. a : acks[j] = SeqNo(rest[j])
    <3>1. \A j \in 1 .. a : j \in 1 .. a + b + c - 1 /\ j < at
      BY <1>1, <2>1, <2>2
    <3> QED
      BY <1>3, <2>4, <3>1
  <2>8. \A j \in 1 .. b : ack_queue[j] = SeqNo(rest[a + j])
    <3>1. \A j \in 1 .. b : a + j \in 1 .. a + b + c - 1 /\ a + j < at
      BY <1>1, <2>1, <2>2
    <3> QED
      BY <1>3, <2>4, <3>1
  <2>9. ASSUME NEW j \in 1 .. c - 1
        PROVE  downlink'[j] = rest[a + b + j]
    <3>1. a + b + j \in 1 .. a + b + c - 1
      BY <1>1, <2>9
    <3>2. CASE j < i
      <4>1. a + b + j < at /\ j \in 1 .. c
        BY <1>1, <2>1, <2>2, <2>9, <3>2
      <4>2. rest[a + b + j] = loop[a + b + j]
        BY <2>4, <3>1, <4>1
      <4> QED
        BY <1>3, <2>5, <2>9, <3>2, <4>1, <4>2
    <3>3. CASE ~ j < i
      <4>1. ~ a + b + j < at /\ j + 1 \in 1 .. c /\ a + b + j + 1 = a + b + (j + 1)
        BY <1>1, <2>1, <2>2, <2>9, <3>3
      <4>2. rest[a + b + j] = loop[a + b + (j + 1)]
        BY <2>4, <3>1, <4>1
      <4> QED
        BY <1>3, <2>5, <2>9, <3>3, <4>1, <4>2
    <3> QED
      BY <3>2, <3>3
  <2>10. a + b + c - 1 = a + b + (c - 1)
    BY <1>1
  <2>11. Trip(rest)'
    BY <2>4, <2>5, <2>6, <2>7, <2>8, <2>9, <2>10 DEF Trip
  <2> QED
    BY <1>3, <1>5, <2>2, <2>3, <2>11
<1>7. ASSUME NEW i \in DOMAIN acks, LoseAck(i)
      PROVE  LinkInv'
  <2>1. i \in 1 .. a /\ i \in 1 .. a + b + c
    BY <1>1
  <2>2. PICK rest : rest = RemoveAt(loop, i)
    OBVIOUS
  <2>3. /\ Len(rest) = a + b + c - 1
        /\ \A j \in 1 .. a + b + c - 1 : rest[j] = loop[IF j < i THEN j ELSE j + 1]
    <3>1. i \in 1 .. Len(loop)
      BY <1>3, <2>1
    <3>2. /\ Len(rest) = Len(loop) - 1
          /\ \A j \in 1 .. Len(loop) - 1 : rest[j] = loop[IF j < i THEN j ELSE j + 1]
      BY <2>2, <3>1, RemoveAtParts
    <3> QED
      BY <1>3, <3>2
  <2>4. /\ Len(acks') = a - 1 /\ UNCHANGED <<downlink, ack_queue>>
        /\ \A j \in 1 .. a - 1 : acks'[j] = acks[IF j < i THEN j ELSE j + 1]
    BY <1>1, <1>7, <2>1, RemoveAtParts DEF LoseAck, serverVars, clientVars
  <2>5. Heard' = a - 1 + b /\ Len(ack_queue') = b /\ Len(downlink') = c
    BY <2>4 DEF Heard
  <2> HIDE DEF a, b, c
  <2>6. \A j \in 1 .. a - 1 : acks'[j] = SeqNo(rest[j])
    <3>1. \A j \in 1 .. a - 1 : j \in 1 .. a + b + c - 1 /\ j \in 1 .. a /\ j + 1 \in 1 .. a
      BY <1>1
    <3> QED
      BY <1>3, <2>3, <2>4, <3>1
  <2>7. ASSUME NEW j \in 1 .. b
        PROVE  ack_queue[j] = SeqNo(rest[a - 1 + j])
    <3>1. PICK t : t = a - 1 + j
      OBVIOUS
    <3>2. t \in 1 .. a + b + c - 1 /\ ~ t < i /\ t + 1 = a + j
      BY <1>1, <2>1, <2>7, <3>1
    <3> QED
      BY <1>3, <2>3, <3>1, <3>2
  <2>8. ASSUME NEW j \in 1 .. c
        PROVE  downlink[j] = rest[a - 1 + b + j]
    <3>1. PICK t : t = a - 1 + b + j
      OBVIOUS
    <3>2. t \in 1 .. a + b + c - 1 /\ ~ t < i /\ t + 1 = a + b + j
      BY <1>1, <2>1, <2>8, <3>1
    <3> QED
      BY <1>3, <2>3, <3>1, <3>2
  <2>9. a + b + c - 1 = a - 1 + b + c
    BY <1>1
  <2>10. Trip(rest)'
    BY <2>3, <2>4, <2>5, <2>6, <2>7, <2>8, <2>9 DEF Trip
  <2> QED
    BY <1>3, <1>5, <2>1, <2>2, <2>10
<1> QED
  BY <1>6, <1>7

\* A data frame that arrives becomes the number the client is to acknowledge: its
\* packet keeps its place on the trip.
LEMMA ReceiveStep ==
  ASSUME DownlinkAssumption, InOrderNetwork, TypeOK,
         NEW lo \in Nat, NEW loop \in Seq(Nat), Linked(lo, loop),
         NEW i \in Deliverable(downlink), ClientRecv(i)
  PROVE  LinkInv'
<1> DEFINE a == Len(acks)
           b == Len(ack_queue)
           c == Len(downlink)
           n == Len(received)
           q == loop[Heard + 1]
<1>1. /\ a \in Nat /\ b \in Nat /\ c \in Nat /\ Heard = a + b /\ sent \in Nat /\ n \in Nat
      /\ downlink \in Seq(Packets) /\ ack_queue \in Seq(Seqs) /\ received \in Seq(Packets)
  BY LengthsAreNat DEF TypeOK
<1>2. Trip(loop) /\ Windowed(lo, sent, loop) /\ Unacked = lo .. sent - 1
  BY DEF Linked
<1>3. /\ Len(loop) = a + b + c
      /\ \A j \in 1 .. a : acks[j] = SeqNo(loop[j])
      /\ \A j \in 1 .. b : ack_queue[j] = SeqNo(loop[a + j])
      /\ \A j \in 1 .. c : downlink[j] = loop[a + b + j]
  BY <1>1, <1>2 DEF Trip
<1>4. i = 1 /\ 1 \in 1 .. c
  BY <1>1 DEF Deliverable, InOrderNetwork
<1>5. q = downlink[1] /\ q \in Nat /\ q < sent /\ Heard < Len(loop)
  <2> HIDE DEF a, b, c, n
  <2>1. Heard + 1 \in 1 .. Len(loop) /\ Heard + 1 = a + b + 1 /\ Heard < Len(loop)
    BY <1>1, <1>3, <1>4
  <2>2. \A j \in 1 .. Len(loop) : loop[j] \in Nat /\ loop[j] < sent
    BY <1>2 DEF Windowed
  <2> QED
    BY <1>3, <1>4, <2>1, <2>2
<1>6. /\ downlink' = RemoveAt(downlink, 1) /\ ack_queue' = Append(ack_queue, SeqNo(q))
      /\ UNCHANGED <<sent, send_queues, acks>> /\ Unacked' = Unacked
      /\ IF q \in ToSet(received) THEN received' = received
         ELSE received' = Append(received, q)
  BY <1>4, <1>5 DEF ClientRecv, serverVars, Unacked
<1>7. /\ Len(downlink') = c - 1
      /\ \A j \in 1 .. c - 1 : downlink'[j] = downlink[j + 1]
  <2>1. /\ Len(downlink') = c - 1
        /\ \A j \in 1 .. c - 1 : downlink'[j] = downlink[IF j < 1 THEN j ELSE j + 1]
    BY <1>1, <1>4, <1>6, RemoveAtParts
  <2>2. \A j \in 1 .. c - 1 : ~ j < 1
    BY <1>1
  <2> QED
    BY <2>1, <2>2
<1>8. /\ Len(ack_queue') = b + 1 /\ ack_queue'[b + 1] = SeqNo(q)
      /\ \A j \in 1 .. b : ack_queue'[j] = ack_queue[j]
  BY <1>1, <1>6
<1>9. Heard' = Heard + 1
  <2>1. Heard' = Len(acks) + Len(ack_queue')
    BY <1>6 DEF Heard
  <2> QED
    BY <1>1, <1>8, <2>1
<1> HIDE DEF a, b, c, n, q
<1>10. Trip(loop)'
  <2>1. Len(acks') = a /\ \A j \in 1 .. a : acks'[j] = SeqNo(loop[j])
    BY <1>3, <1>6 DEF a
  <2>2. ASSUME NEW j \in 1 .. b + 1
        PROVE  ack_queue'[j] = SeqNo(loop[a + j])
    <3>1. CASE j = b + 1
      <4>1. a + j = Heard + 1
        BY <1>1, <3>1
      <4> QED
        BY <1>8, <3>1, <4>1 DEF q
    <3>2. CASE j \in 1 .. b
      BY <1>3, <1>8, <3>2
    <3> QED
      BY <1>1, <3>1, <3>2
  <2>3. ASSUME NEW j \in 1 .. c - 1
        PROVE  downlink'[j] = loop[Heard' + j]
    <3>1. j + 1 \in 1 .. c /\ a + b + (j + 1) = Heard' + j
      BY <1>1, <1>9
    <3> QED
      BY <1>3, <1>7, <3>1
  <2>4. Len(loop) = Heard' + (c - 1)
    BY <1>1, <1>3, <1>9
  <2> QED
    BY <1>7, <1>8, <2>1, <2>2, <2>3, <2>4 DEF Trip
<1>11. ASSUME ~ CanLose
       PROVE  /\ Gapless(Len(received'), sent, Heard + 1, loop) /\ lo <= Len(received')
              /\ \A j \in 1 .. Len(received') : received'[j] = j - 1
  <2>1. /\ Gapless(n, sent, Heard, loop) /\ lo <= n
        /\ \A j \in 1 .. n : received[j] = j - 1
    BY <1>11 DEF Linked, n
  <2>2. /\ q <= n
        /\ q < n => Gapless(n, sent, Heard + 1, loop)
        /\ q = n => Gapless(n + 1, sent, Heard + 1, loop)
    <3>1. n \in Nat /\ sent \in Nat /\ Heard \in Nat /\ Heard < Len(loop) /\ loop[Heard + 1] < sent
      BY <1>1, <1>5 DEF q
    <3> QED
      BY <2>1, <3>1, ArrivesGapless DEF q
  <2>3. CASE q < n
    <3>1. q \in Nat /\ n \in Nat
      BY <1>1, <1>5
    <3>2. q + 1 \in 1 .. n /\ q + 1 - 1 = q
      BY <2>3, <3>1
    <3>3. received[q + 1] = q
      <4>1. PICK j \in 1 .. n : j = q + 1
        BY <3>2
      <4>2. received[j] = j - 1
        BY <2>1
      <4>3. j - 1 = q
        BY <3>1, <4>1
      <4>4. received[j] = q
        BY <4>2, <4>3
      <4> QED
        BY <4>1, <4>4
    <3>4. received' = received
      BY <1>6, <3>2, <3>3 DEF ToSet, n
    <3> QED
      BY <2>1, <2>2, <2>3, <3>4 DEF n
  <2>4. CASE q = n
    <3>1. \A j \in 1 .. n : received[j] # q
      BY <1>1, <2>1, <2>4
    <3>2. q \notin ToSet(received)
      BY <1>1, <3>1 DEF ToSet, n
    <3>3. received' = Append(received, q)
      BY <1>6, <3>2
    <3>4. /\ Len(received') = n + 1 /\ received'[n + 1] = q
          /\ \A j \in 1 .. n : received'[j] = received[j]
      BY <1>1, <3>3 DEF n
    <3>5. \A j \in 1 .. n + 1 : received'[j] = j - 1
      <4> TAKE j \in 1 .. n + 1
      <4>1. j \in 1 .. n \/ j = n + 1
        BY <1>1
      <4> QED
        BY <1>1, <2>1, <2>4, <3>4, <4>1
    <3>6. lo <= n + 1
      BY <1>1, <2>1
    <3> QED
      BY <2>2, <2>4, <3>4, <3>5, <3>6
  <2> QED
    BY <1>1, <1>5, <2>2, <2>3, <2>4
<1>12. Linked(lo, loop)'
  BY <1>2, <1>6, <1>9, <1>10, <1>11 DEF Linked
<1> QED
  BY <1>12 DEF LinkInv

\* What the client sends leaves the trip as it is.
LEMMA ClientSendStep ==
  ASSUME DownlinkAssumption, TypeOK, NEW lo \in Nat, NEW loop \in Seq(Nat), Linked(lo, loop),
         ClientSend
  PROVE  LinkInv'
<1> DEFINE a == Len(acks)
           b == Len(ack_queue)
           c == Len(downlink)
<1>1. /\ a \in Nat /\ b \in Nat /\ c \in Nat /\ Heard = a + b
      /\ acks \in Seq(Seqs) /\ ack_queue \in Seq(Seqs)
  BY LengthsAreNat DEF TypeOK
<1>2. Trip(loop) /\ Windowed(lo, sent, loop) /\ Unacked = lo .. sent - 1
  BY DEF Linked
<1>3. /\ Len(loop) = a + b + c
      /\ \A j \in 1 .. a : acks[j] = SeqNo(loop[j])
      /\ \A j \in 1 .. b : ack_queue[j] = SeqNo(loop[a + j])
      /\ \A j \in 1 .. c : downlink[j] = loop[Heard + j]
  BY <1>1, <1>2 DEF Trip
<1>4. /\ acks' = acks \o ack_queue /\ ack_queue' = <<>> /\ Len(ack_queue') = 0
      /\ UNCHANGED <<sent, send_queues, downlink, received>> /\ Unacked' = Unacked
  BY DEF ClientSend, serverVars, Unacked
<1>5. /\ Len(acks') = a + b
      /\ \A j \in 1 .. a : acks'[j] = acks[j]
      /\ \A j \in 1 .. b : acks'[a + j] = ack_queue[j]
  BY <1>1, <1>4, ConcatParts
<1>6. Heard' = Heard /\ Len(downlink') = c
  <2>1. Heard' = Len(acks') + 0
    BY <1>4 DEF Heard
  <2> QED
    BY <1>1, <1>4, <1>5, <2>1
<1> HIDE DEF a, b, c
<1>7. ASSUME NEW j \in 1 .. a + b
      PROVE  acks'[j] = SeqNo(loop[j])
  <2>1. CASE j \in 1 .. a
    BY <1>3, <1>5, <2>1
  <2>2. CASE j \notin 1 .. a
    <3>1. PICK m : m = j - a
      OBVIOUS
    <3>2. m \in 1 .. b /\ j = a + m
      BY <1>1, <2>2, <3>1
    <3> QED
      BY <1>3, <1>5, <3>2
  <2> QED
    BY <2>1, <2>2
<1>8. Len(loop) = Heard + c /\ \A j \in 1 .. 0 : FALSE
  BY <1>1, <1>3
<1>9. Trip(loop)'
  BY <1>3, <1>4, <1>5, <1>6, <1>7, <1>8 DEF Trip
<1>10. Linked(lo, loop)'
  BY <1>2, <1>4, <1>6, <1>9 DEF Linked
<1> QED
  BY <1>10 DEF LinkInv

LEMMA LinkStep ==
  ASSUME DownlinkAssumption, InOrderNetwork, TypeOK, LinkInv, [Next]_vars
  PROVE  LinkInv'
<1> PICK lo \in Nat, loop \in Seq(Nat) : Linked(lo, loop)
  BY DEF LinkInv
<1>1. CASE UNCHANGED vars
  <2>1. /\ UNCHANGED <<sent, send_queues, downlink, ack_queue, acks, received>>
        /\ Heard' = Heard /\ Unacked' = Unacked
    BY <1>1 DEF vars, Heard, Unacked
  <2>2. Linked(lo, loop)'
    BY <2>1 DEF Linked, Trip
  <2> QED
    BY <2>2 DEF LinkInv
<1>2. CASE Next
  BY <1>2, SendStep, RetransmitStep, AckStep, ReceiveStep, ClientSendStep, LossStep DEF Next
<1> QED
  BY <1>1, <1>2

LEMMA SpecLinkInv ==
  ASSUME DownlinkAssumption, InOrderNetwork
  PROVE  Spec => []LinkInv
<1>1. Init => LinkInv
  BY InitLinkInv
<1>2. Spec => []TypeOK
  BY DownlinkTypesHold
<1>3. TypeOK /\ LinkInv /\ [Next]_vars => LinkInv'
  BY LinkStep
<1> QED
  BY <1>1, <1>2, <1>3, PTL DEF Spec

-----------------------------------------------------------------------------
(* The theorems. *)

\* BufferIsSuffix: ack_recv compares by half range, and an ACK of a network that
\* keeps order is less than a window late, so retain takes packets off the old end
\* of the queues only, around the wrap too and whatever is lost.
THEOREM AcksClearTheOldEnd ==
  ASSUME DownlinkAssumption, InOrderNetwork
  PROVE  Spec => []BufferIsSuffix
<1>1. TypeOK /\ LinkInv => BufferIsSuffix
  <2> SUFFICES ASSUME TypeOK, NEW lo \in Nat, NEW loop \in Seq(Nat), Linked(lo, loop)
               PROVE  BufferIsSuffix
    BY DEF LinkInv
  <2>1. sent \in Nat /\ Unacked = lo .. sent - 1
    BY LengthsAreNat DEF Linked
  <2> QED
    BY <2>1 DEF BufferIsSuffix
<1>2. Spec => []TypeOK
  BY DownlinkTypesHold
<1>3. Spec => []LinkInv
  BY SpecLinkInv
<1> QED
  BY <1>1, <1>2, <1>3, PTL

\* ForgottenWasReceived and ReceivedInOrder: the client hands over what arrives and
\* acknowledges just that; where nothing is lost or overtaken this is enough for
\* reliable delivery in order, whatever the server resends meanwhile.
THEOREM StreamArrivesInOrder ==
  ASSUME DownlinkAssumption, InOrderNetwork, ~ CanLose
  PROVE  Spec => [](ForgottenWasReceived /\ ReceivedInOrder)
<1>1. TypeOK /\ LinkInv => ForgottenWasReceived /\ ReceivedInOrder
  <2> SUFFICES ASSUME TypeOK, NEW lo \in Nat, NEW loop \in Seq(Nat), Linked(lo, loop)
               PROVE  ForgottenWasReceived /\ ReceivedInOrder
    BY DEF LinkInv
  <2>1. /\ sent \in Nat /\ Unacked = lo .. sent - 1 /\ Len(received) \in Nat
        /\ lo <= Len(received) /\ \A i \in 1 .. Len(received) : received[i] = i - 1
        /\ DOMAIN received = 1 .. Len(received)
    BY LengthsAreNat DEF Linked, TypeOK
  <2>2. ASSUME NEW p \in 0 .. sent - 1, p \notin Unacked
        PROVE  p \in ToSet(received)
    <3>1. p + 1 \in 1 .. Len(received) /\ received[p + 1] = p
      BY <2>1, <2>2
    <3> QED
      BY <2>1, <3>1 DEF ToSet
  <2> QED
    BY <2>1, <2>2 DEF ForgottenWasReceived, ReceivedInOrder
<1>2. Spec => []TypeOK
  BY DownlinkTypesHold
<1>3. Spec => []LinkInv
  BY SpecLinkInv
<1> QED
  BY <1>1, <1>2, <1>3, PTL
=============================================================================
