---------------------------- MODULE StreamsProofs ----------------------------
(***************************************************************************)
(* Proofs about WorldSync and BridgePipe.                                  *)
(*                                                                         *)
(* WorldSync, for any clients, values, window and bounds: the state keeps  *)
(* its type, and a client is never more than one broadcast behind.  The    *)
(* strengthening says what a client with changes under way may show        *)
(* besides: one of those changes.                                          *)
(*                                                                         *)
(* BridgePipe, for any finite set of NPCs, capacity and bounds: what the   *)
(* client hears of each NPC makes sense.  The strengthening relates the    *)
(* list the flush thread works through, and has in part worked through, to *)
(* what it has announced and to the table of NPCs tracked.                 *)
(***************************************************************************)
EXTENDS WorldSync, BridgePipe, SequenceTheorems, FiniteSetTheorems, TLAPS

-----------------------------------------------------------------------------
(* WorldSync                                                               *)

\* The changes of c the server has not handled yet.
Pending(c) == {up[c][i] : i \in 1..Len(up[c])}

Explained(c) == refused[c] \/ Latest(c) \in since \cup Pending(c)

AllExplained == \A c \in sessions : Explained(c)

\* A value that was sent was set, and no value is ever unset again.
UnsetWasNotSent == val = NoValue => last = NoValue

\* The value in force has been in force since the last broadcast.
InForceIsRecent == val \in since

IInv ==
  /\ TypeOK
  /\ UnsetWasNotSent
  /\ InForceIsRecent
  /\ AllExplained

\* The last element of a sequence that grew, and of one that lost its head.
LEMMA LastOfAppend ==
  ASSUME NEW S, NEW s \in Seq(S), NEW x \in S
  PROVE  /\ Append(s, x) \in Seq(S)
         /\ Append(s, x) # <<>>
         /\ Append(s, x)[Len(Append(s, x))] = x
  OBVIOUS

LEMMA LastOfTail ==
  ASSUME NEW S, NEW s \in Seq(S), s # <<>>
  PROVE  /\ Head(s) \in S
         /\ Tail(s) \in Seq(S)
         /\ Tail(s) = <<>> => Head(s) = s[Len(s)]
         /\ Tail(s) # <<>> => Tail(s)[Len(Tail(s))] = s[Len(s)]
<1>1. /\ Head(s) \in S /\ Head(s) = s[1]
      /\ Tail(s) \in Seq(S) /\ Len(Tail(s)) = Len(s) - 1
      /\ \A i \in 1..Len(s) - 1 : Tail(s)[i] = s[i + 1]
  BY HeadTailProperties
<1>2. Len(s) \in Nat \ {0}
  BY EmptySeq
<1>3. ASSUME Tail(s) = <<>> PROVE Head(s) = s[Len(s)]
  <2>1. Len(Tail(s)) = 0
    BY <1>3, EmptySeq
  <2>2. Len(s) = 1
    BY <2>1, <1>1, <1>2
  <2> QED BY <2>2, <1>1
<1>4. ASSUME Tail(s) # <<>> PROVE Tail(s)[Len(Tail(s))] = s[Len(s)]
  <2>1. Len(Tail(s)) \in Nat \ {0}
    BY <1>1, <1>4, EmptySeq
  <2>2. Len(s) - 1 \in 1..Len(s) - 1
    BY <2>1, <1>1, <1>2
  <2> QED BY <2>2, <1>1, <1>2
<1> QED BY <1>1, <1>3, <1>4

\* What a broadcast leaves each recipient with.
LEMMA BroadcastReaches ==
  ASSUME TypeOK, NEW cs \in SUBSET Clients, NEW v \in Values,
         Broadcast(cs, v), UNCHANGED heard
  PROVE  /\ down' \in [Clients -> Seq(Values)]
         /\ refused' \in [Clients -> BOOLEAN]
         /\ \A c \in cs : refused'[c] \/ Latest(c)' = v
         /\ \A c \in Clients \ cs : /\ refused'[c] = refused[c]
                                    /\ Latest(c)' = Latest(c)
<1> DEFINE room == {c \in cs : Len(down[c]) < Window}
<1>1. /\ down' = [c \in Clients |->
                    IF c \in room THEN Append(down[c], v) ELSE down[c]]
      /\ refused' = [c \in Clients |->
                       IF c \in cs THEN c \notin room ELSE refused[c]]
  BY DEF Broadcast
<1>2. \A c \in Clients : down[c] \in Seq(Values) /\ refused[c] \in BOOLEAN
  BY DEF TypeOK
<1> HIDE DEF room
<1>3. ASSUME NEW c \in Clients PROVE down'[c] \in Seq(Values)
  <2>1. CASE c \in room
    BY <2>1, <1>1, <1>2, LastOfAppend
  <2>2. CASE c \notin room
    BY <2>2, <1>1, <1>2
  <2> QED BY <2>1, <2>2
<1>4. ASSUME NEW c \in cs PROVE refused'[c] \/ Latest(c)' = v
  <2>1. CASE c \in room
    <3>1. down'[c] = Append(down[c], v)
      BY <2>1, <1>1
    <3> QED BY <3>1, <1>2, LastOfAppend DEF Latest
  <2>2. CASE c \notin room
    BY <2>2, <1>1
  <2> QED BY <2>1, <2>2
<1>5. ASSUME NEW c \in Clients \ cs
      PROVE  refused'[c] = refused[c] /\ Latest(c)' = Latest(c)
  <2>1. c \notin room
    BY DEF room
  <2> QED BY <2>1, <1>1 DEF Latest
<1>6. down' \in [Clients -> Seq(Values)]
  BY <1>1, <1>3
<1>7. refused' \in [Clients -> BOOLEAN]
  BY <1>1, <1>2
<1> QED BY <1>3, <1>4, <1>5, <1>6, <1>7

LEMMA InitIInv == Init => IInv
  BY NoValueAssumption DEF Init, IInv, TypeOK, UnsetWasNotSent, InForceIsRecent,
       AllExplained, Topics

\* A step of the value alone.
LEMMA ScriptSetsStep ==
  ASSUME IInv, NEW v \in Values, ScriptSets(v)
  PROVE  IInv'
<1>1. TypeOK'
  BY DEF IInv, TypeOK, ScriptSets, Assign
<1>2. AllExplained'
  BY DEF IInv, AllExplained, Explained, Latest, Pending, ScriptSets, Assign
<1> QED BY <1>1, <1>2, NoValueAssumption 
       DEF IInv, UnsetWasNotSent, InForceIsRecent, ScriptSets, Assign

LEMMA ClientChangesStep ==
  ASSUME IInv, NEW c \in Clients, NEW v \in Values, ClientChanges(c, v)
  PROVE  IInv'
<1>1. /\ heard' = [heard EXCEPT ![c] = v]
      /\ up' = [up EXCEPT ![c] = Append(@, v)]
      /\ UNCHANGED <<topic, val, last, sessions, down, refused, since,
                     changes, joins>>
  BY DEF ClientChanges
<1>2. up[c] \in Seq(Values) /\ Append(up[c], v) \in Seq(Values)
  BY LastOfAppend DEF IInv, TypeOK
<1>3. TypeOK'
  BY <1>1, <1>2 DEF IInv, TypeOK
<1>4. ASSUME NEW d \in sessions PROVE Explained(d)'
  <2>1. d \in Clients /\ Explained(d)
    BY DEF IInv, TypeOK, AllExplained
  <2>2. CASE d # c
    BY <2>1, <2>2, <1>1 DEF IInv, TypeOK, Explained, Latest, Pending
  <2>3. CASE d = c
    <3>1. up'[c] = Append(up[c], v)
      BY <1>1 DEF IInv, TypeOK
    <3>2. v \in Pending(c)' /\ Pending(c) \subseteq Pending(c)'
      BY <3>1, <1>2 DEF Pending
    <3>3. Latest(c)' = v \/ Latest(c)' = Latest(c)
      BY <1>1, <2>1, <2>3 DEF IInv, TypeOK, Latest
    <3> QED BY <2>1, <2>3, <3>2, <3>3, <1>1 DEF Explained
  <2> QED BY <2>2, <2>3
<1> QED BY <1>1, <1>3, <1>4 
       DEF IInv, UnsetWasNotSent, InForceIsRecent, AllExplained

LEMMA HandleChangeStep ==
  ASSUME IInv, NEW c \in Clients, HandleChange(c)
  PROVE  IInv'
<1> DEFINE v == Head(up[c])
<1>1. up[c] \in Seq(Values) /\ up[c] # <<>>
  BY DEF IInv, TypeOK, HandleChange
<1>2. v \in Values /\ Tail(up[c]) \in Seq(Values)
  BY <1>1, LastOfTail
<1>3. /\ val' = v /\ since' = since \cup {v} /\ changes' = changes + 1
      /\ up' = [up EXCEPT ![c] = Tail(@)]
      /\ Broadcast(sessions \ {c}, v)
      /\ UNCHANGED <<topic, last, sessions, heard, joins>>
  BY DEF HandleChange, Assign
<1>4. sessions \ {c} \in SUBSET Clients /\ TypeOK
  BY DEF IInv, TypeOK
<1> HIDE DEF v
<1>5. /\ down' \in [Clients -> Seq(Values)]
      /\ refused' \in [Clients -> BOOLEAN]
      /\ \A d \in sessions \ {c} : refused'[d] \/ Latest(d)' = v
      /\ \A d \in Clients \ (sessions \ {c}) : /\ refused'[d] = refused[d]
                                               /\ Latest(d)' = Latest(d)
  BY <1>2, <1>3, <1>4, BroadcastReaches
<1>6. up' \in [Clients -> Seq(Values)]
  BY <1>2, <1>3 DEF IInv, TypeOK
<1>7. TypeOK'
  BY <1>2, <1>3, <1>5, <1>6 DEF IInv, TypeOK
<1>8. ASSUME NEW d \in sessions PROVE Explained(d)'
  <2>1. d \in Clients /\ Explained(d)
    BY DEF IInv, TypeOK, AllExplained
  <2>2. CASE d # c
    BY <2>2, <1>3, <1>5 DEF Explained
  <2>3. CASE d = c
    <3>1. up'[c] = Tail(up[c])
      BY <1>3 DEF IInv, TypeOK
    <3>2. Pending(c) \subseteq {v} \cup Pending(c)'
      <4>1. SUFFICES ASSUME NEW i \in 1..Len(up[c])
                     PROVE  up[c][i] \in {v} \cup Pending(c)'
        BY DEF Pending
      <4>2. CASE i = 1
        BY <4>2, <1>1 DEF v
      <4>3. CASE i # 1
        <5>1. i - 1 \in 1..Len(Tail(up[c])) /\ Tail(up[c])[i - 1] = up[c][i]
          BY <4>3, <1>1
        <5> QED BY <5>1, <3>1 DEF Pending
      <4> QED BY <4>2, <4>3
    <3>3. Latest(c)' = Latest(c) /\ refused'[c] = refused[c]
      BY <1>5
    <3> QED BY <2>1, <2>3, <3>2, <3>3, <1>3 DEF Explained
  <2> QED BY <2>2, <2>3
<1> QED BY <1>2, <1>3, <1>7, <1>8, NoValueAssumption 
       DEF IInv, UnsetWasNotSent, InForceIsRecent, AllExplained

\* A broadcast of the value in force to everybody.
LEMMA SyncStep ==
  ASSUME IInv, NEW v \in Values, Broadcast(sessions, v), since' = {v},
         val' = v, last' = v, changes' \in Nat,
         UNCHANGED <<topic, sessions, up, heard, joins>>
  PROVE  IInv'
<1>1. sessions \in SUBSET Clients /\ TypeOK
  BY DEF IInv, TypeOK
<1>2. /\ down' \in [Clients -> Seq(Values)]
      /\ refused' \in [Clients -> BOOLEAN]
      /\ \A d \in sessions : refused'[d] \/ Latest(d)' = v
  BY <1>1, BroadcastReaches
<1>3. TypeOK'
  BY <1>2 DEF IInv, TypeOK
<1> QED BY <1>2, <1>3, NoValueAssumption 
       DEF IInv, UnsetWasNotSent, InForceIsRecent, AllExplained, Explained

LEMMA TickSyncStep ==
  ASSUME IInv, TickSync
  PROVE  IInv'
<1>1. val \in Values
  BY DEF TickSync, IInv, TypeOK, UnsetWasNotSent
<1> QED BY <1>1, SyncStep DEF TickSync, IInv, TypeOK

LEMMA TickHourStep ==
  ASSUME IInv, NEW v \in Values, TickHour(v)
  PROVE  IInv'
<1>1. /\ val' = v /\ last' = v /\ changes' \in Nat
      /\ UNCHANGED <<topic, sessions, up, heard, joins>>
  BY DEF TickHour, IInv, TypeOK
<1>2. CASE v = last
  <2>1. since' = since \cup {v} /\ UNCHANGED <<down, refused>>
    BY <1>2 DEF TickHour
  <2>2. TypeOK'
    BY <1>1, <2>1 DEF IInv, TypeOK
  <2>3. AllExplained'
    BY <1>1, <2>1 DEF IInv, AllExplained, Explained, Latest, Pending
  <2> QED BY <1>1, <2>1, <2>2, <2>3, NoValueAssumption
          DEF IInv, UnsetWasNotSent, InForceIsRecent
<1>3. CASE v # last
  BY <1>1, <1>3, SyncStep DEF TickHour
<1> QED BY <1>2, <1>3

LEMMA JoinStep ==
  ASSUME IInv, NEW c \in Clients, Join(c)
  PROVE  IInv'
<1>1. /\ sessions' = sessions \cup {c}
      /\ down' = [down EXCEPT ![c] = IF val = NoValue THEN <<>> ELSE <<val>>]
      /\ heard' = [heard EXCEPT ![c] = NoValue]
      /\ refused' = [refused EXCEPT ![c] = FALSE]
      /\ joins' = joins + 1
      /\ UNCHANGED <<topic, val, last, up, since, changes>>
  BY DEF Join
<1>2. TypeOK'
  BY <1>1 DEF IInv, TypeOK
<1>3. ASSUME NEW d \in sessions' PROVE Explained(d)'
  <2>1. CASE d # c
    BY <2>1, <1>1 DEF IInv, TypeOK, AllExplained, Explained, Latest, Pending
  <2>2. CASE d = c
    <3>1. Latest(c)' = val
      BY <1>1 DEF IInv, TypeOK, Latest
    <3>2. val \in since
      BY DEF IInv, InForceIsRecent
    <3> QED BY <2>2, <3>1, <3>2, <1>1 DEF Explained
  <2> QED BY <2>1, <2>2
<1> QED BY <1>1, <1>2, <1>3 DEF IInv, UnsetWasNotSent, InForceIsRecent, AllExplained

LEMMA LeaveStep ==
  ASSUME IInv, NEW c \in Clients, Leave(c)
  PROVE  IInv'
<1>1. TypeOK'
  BY DEF IInv, TypeOK, Leave
<1>2. AllExplained'
  BY DEF IInv, TypeOK, AllExplained, Explained, Latest, Pending, Leave
<1> QED BY <1>1, <1>2 DEF IInv, UnsetWasNotSent, InForceIsRecent, Leave

LEMMA ClientHearsStep ==
  ASSUME IInv, NEW c \in Clients, ClientHears(c)
  PROVE  IInv'
<1>1. /\ down[c] # <<>>
      /\ heard' = [heard EXCEPT ![c] = Head(down[c])]
      /\ down' = [down EXCEPT ![c] = Tail(@)]
      /\ UNCHANGED <<topic, val, last, sessions, up, refused, since, changes,
                     joins>>
  BY DEF ClientHears
<1>2. down[c] \in Seq(Values)
  BY DEF IInv, TypeOK
<1>3. TypeOK'
  BY <1>1, <1>2, LastOfTail DEF IInv, TypeOK
<1>4. ASSUME NEW d \in sessions PROVE Explained(d)'
  <2>1. Latest(d)' = Latest(d)
    <3>1. CASE d # c
      BY <3>1, <1>1 DEF IInv, TypeOK, Latest
    <3>2. CASE d = c
      <4>1. down'[c] = Tail(down[c]) /\ heard'[c] = Head(down[c])
        BY <1>1 DEF IInv, TypeOK
      <4> QED BY <3>2, <4>1, <1>1, <1>2, LastOfTail DEF Latest
    <3> QED BY <3>1, <3>2
  <2> QED BY <2>1, <1>1 DEF IInv, AllExplained, Explained, Pending
<1> QED BY <1>1, <1>3, <1>4 DEF IInv, UnsetWasNotSent, InForceIsRecent, AllExplained

\* Every step keeps the invariant.
LEMMA NextIInv == IInv /\ [Next]_vars => IInv'
<1> SUFFICES ASSUME IInv, [Next]_vars PROVE IInv'
  OBVIOUS
<1>1. CASE \E v \in Values : ScriptSets(v)
  BY <1>1, ScriptSetsStep
<1>2. CASE \E c \in Clients, v \in Values : ClientChanges(c, v)
  BY <1>2, ClientChangesStep
<1>3. CASE \E c \in Clients : HandleChange(c)
  BY <1>3, HandleChangeStep
<1>4. CASE TickQuiet \/ UNCHANGED vars
  <2>1. UNCHANGED vars
    BY <1>4 DEF TickQuiet
  <2>2. TypeOK'
    BY <2>1 DEF vars, IInv, TypeOK
  <2> QED BY <2>1, <2>2 DEF vars, IInv, UnsetWasNotSent,
              InForceIsRecent, AllExplained, Explained, Latest, Pending
<1>5. CASE TickSync
  BY <1>5, TickSyncStep
<1>6. CASE \E v \in Values : TickHour(v)
  BY <1>6, TickHourStep
<1>7. CASE \E c \in Clients : Join(c)
  BY <1>7, JoinStep
<1>8. CASE \E c \in Clients : Leave(c)
  BY <1>8, LeaveStep
<1>9. CASE \E c \in Clients : ClientHears(c)
  BY <1>9, ClientHearsStep
<1> QED BY <1>1, <1>2, <1>3, <1>4, <1>5, <1>6, <1>7, <1>8, <1>9 DEF Next

LEMMA SpecIInv == Spec => []IInv
  BY InitIInv, NextIInv, PTL DEF Spec

\* Every variable keeps to its values.
THEOREM TypeCorrect == Spec => []TypeOK
<1>1. IInv => TypeOK
  BY DEF IInv
<1> QED BY <1>1, SpecIInv, PTL

\* A client whose changes have been handled and whose window refused nothing
\* ends up showing a value that has been in force since the last broadcast,
\* whatever the joins, relays, changes and ticks that crossed one another.
THEOREM ClientsAreRecent == Spec => []HeardIsRecent
<1>1. IInv => HeardIsRecent
  BY DEF IInv, TypeOK, AllExplained, Explained, Pending, HeardIsRecent
<1> QED BY <1>1, SpecIInv, PTL

-----------------------------------------------------------------------------
(* BridgePipe                                                              *)

\* What the flush thread has to push.
Pushed == [kind : {"spawn", "remove", "sample"}, ref : Npcs]
Coming(n, kind) == \E i \in DOMAIN todo : todo[i] = [kind |-> kind, ref |-> n]

\* The list of the flush thread holds one thing about each NPC: spawns and
\* removals, or samples, and nothing between two rounds.
ListIsOfOneKind ==
  /\ todo \in Seq(Pushed)
  /\ flush \in {"diff", "pushDiff", "sample", "pushSamples"}
  /\ flush \in {"diff", "sample"} => todo = <<>>
  /\ flush = "pushDiff" => \A i \in DOMAIN todo : todo[i].kind # "sample"
  /\ flush = "pushSamples" => \A i \in DOMAIN todo : todo[i].kind = "sample"
  /\ \A i, j \in DOMAIN todo : todo[i].ref = todo[j].ref => i = j

\* The last the client heard of an NPC, and what it is about to hear, is that
\* the NPC is there exactly if the flush thread announced it.
Odd(k) == k % 2 = 1
StoryIsAnnounced ==
  /\ current \subseteq Npcs \cup {Player} /\ announced \subseteq Npcs
  /\ story \in [Npcs -> Seq({"spawn", "remove"})]
  /\ \A n \in Npcs : Coming(n, "spawn") => n \in announced /\ ~ Odd(Len(story[n]))
  /\ \A n \in Npcs : Coming(n, "remove") => n \notin announced /\ Odd(Len(story[n]))
  /\ \A n \in Npcs : \/ Coming(n, "spawn") \/ Coming(n, "remove")
                     \/ Odd(Len(story[n])) <=> n \in announced

\* Of an NPC let go, the last sample is pushed or to be pushed.
LastSample ==
  /\ tracked \subseteq Npcs
  /\ late \in [Npcs -> {Held, 0, 1}]
  /\ \A n \in Npcs : late[n] = Held <=> n \in tracked
  /\ \A n \in Npcs : late[n] = 1 => ~ Coming(n, "sample")

PipeInv == ListIsOfOneKind /\ StoryIsAnnounced /\ SpawnsAlternate /\ LastSample

-----------------------------------------------------------------------------

\* A list of the elements of a set holds each of them once.
LEMMA ListOfSet ==
  ASSUME NEW S, IsFiniteSet(S), NEW s \in SetToSeqs(S)
  PROVE  /\ Cardinality(S) \in Nat
         /\ DOMAIN s = 1 .. Cardinality(S)
         /\ \A i \in 1 .. Cardinality(S) : s[i] \in S
         /\ \A i, j \in 1 .. Cardinality(S) : s[i] = s[j] => i = j
         /\ \A x \in S : \E i \in 1 .. Cardinality(S) : s[i] = x
<1> DEFINE D == 1 .. Cardinality(S)
<1>1. s \in [D -> S] /\ \A i, j \in D : i # j => s[i] # s[j]
  BY DEF SetToSeqs
<1>2. Cardinality(S) \in Nat
  BY FS_CardinalityType
<1>3. s \in Injection(D, S)
  BY <1>1 DEF Injection, IsInjective
<1>4. IsFiniteSet(D) /\ Cardinality(D) = Cardinality(S)
  BY <1>2, FS_Interval
<1> HIDE DEF D
<1>5. s \in Surjection(D, S)
  BY <1>3, <1>4, FS_Injection
<1> QED BY <1>1, <1>2, <1>5 DEF D, Surjection

\* What the flush thread makes of such a list.
LEMMA ListToPush ==
  ASSUME NEW S \in SUBSET Npcs, NEW s \in SetToSeqs(S),
         NEW kind \in {"spawn", "remove", "sample"},
         NEW t, t = [i \in DOMAIN s |-> [kind |-> kind, ref |-> s[i]]]
  PROVE  /\ t \in Seq(Pushed)
         /\ \A i \in DOMAIN t : t[i].kind = kind /\ t[i].ref \in S
         /\ \A i, j \in DOMAIN t : t[i].ref = t[j].ref => i = j
         /\ \A n \in S : \E i \in DOMAIN t : t[i] = [kind |-> kind, ref |-> n]
<1> DEFINE k == Cardinality(S)
<1>1. IsFiniteSet(S)
  BY FS_Subset, BridgePipeAssumption DEF BridgePipeAssumption
<1>2. /\ k \in Nat /\ DOMAIN s = 1 .. k /\ \A i \in 1 .. k : s[i] \in S
      /\ \A i, j \in 1 .. k : s[i] = s[j] => i = j
      /\ \A n \in S : \E i \in 1 .. k : s[i] = n
  BY <1>1, ListOfSet
<1> HIDE DEF k
<1>3. DOMAIN t = 1 .. k /\ \A i \in 1 .. k : t[i] = [kind |-> kind, ref |-> s[i]]
  BY <1>2
<1>4. t \in [1 .. k -> Pushed]
  BY <1>2, <1>3 DEF Pushed
<1>5. t \in Seq(Pushed)
  BY <1>2, <1>4
<1>6. \A i \in DOMAIN t : t[i].kind = kind /\ t[i].ref = s[i]
  BY <1>3
<1>7. \A n \in S : \E i \in DOMAIN t : t[i] = [kind |-> kind, ref |-> n]
  BY <1>2, <1>3
<1> QED BY <1>2, <1>3, <1>5, <1>6, <1>7

\* The elements of two lists put together.
LEMMA ConcatElements ==
  ASSUME NEW T, NEW s \in Seq(T), NEW t \in Seq(T)
  PROVE  /\ \A i \in DOMAIN s : i \in DOMAIN (s \o t) /\ (s \o t)[i] = s[i]
         /\ \A i \in DOMAIN t : Len(s) + i \in DOMAIN (s \o t) /\ (s \o t)[Len(s) + i] = t[i]
         /\ \A i \in DOMAIN (s \o t) :
              \/ i \in DOMAIN s /\ (s \o t)[i] = s[i]
              \/ i - Len(s) \in DOMAIN t /\ (s \o t)[i] = t[i - Len(s)]
<1>1. /\ Len(s) \in Nat /\ Len(t) \in Nat
      /\ DOMAIN s = 1 .. Len(s) /\ DOMAIN t = 1 .. Len(t)
  BY LenProperties
<1>2. /\ s \o t \in Seq(T) /\ Len(s \o t) = Len(s) + Len(t)
      /\ \A i \in 1 .. Len(s) + Len(t) :
           (s \o t)[i] = IF i <= Len(s) THEN s[i] ELSE t[i - Len(s)]
  BY ConcatProperties
<1>3. DOMAIN (s \o t) = 1 .. Len(s) + Len(t)
  BY <1>2, LenProperties
<1> DEFINE u == s \o t
<1>4. DOMAIN u = 1 .. Len(s) + Len(t) /\ \A i \in 1 .. Len(s) + Len(t) :
           u[i] = IF i <= Len(s) THEN s[i] ELSE t[i - Len(s)]
  BY <1>2, <1>3
<1> HIDE DEF u
<1>5. \A i \in DOMAIN s : i \in DOMAIN u /\ u[i] = s[i]
  BY <1>1, <1>4
<1>6. \A i \in DOMAIN t : Len(s) + i \in DOMAIN u /\ u[Len(s) + i] = t[i]
  BY <1>1, <1>4
<1>7. \A i \in DOMAIN u : \/ i \in DOMAIN s /\ u[i] = s[i]
                          \/ i - Len(s) \in DOMAIN t /\ u[i] = t[i - Len(s)]
  BY <1>1, <1>4
<1> QED BY <1>5, <1>6, <1>7 DEF u

-----------------------------------------------------------------------------

LEMMA InitPipeInv == PipeInit => PipeInv
<1> SUFFICES ASSUME PipeInit PROVE PipeInv
  OBVIOUS
<1>1. todo = <<>> /\ flush = "diff" /\ announced = {} /\ current = {} /\ tracked = {}
  BY DEF PipeInit
<1>2. story = [n \in Npcs |-> <<>>] /\ late = [n \in Npcs |-> 0]
  BY DEF PipeInit
<1>3. DOMAIN todo = {} /\ todo \in Seq(Pushed)
  BY <1>1
<1>4. ListIsOfOneKind
  BY <1>1, <1>3 DEF ListIsOfOneKind
<1>5. \A n \in Npcs : /\ story[n] = <<>> /\ ~ Odd(Len(story[n]))
                      /\ story[n] \in Seq({"spawn", "remove"}) /\ DOMAIN story[n] = {}
  BY <1>2 DEF Odd
<1>6. StoryIsAnnounced /\ SpawnsAlternate
  BY <1>1, <1>2, <1>3, <1>5 DEF StoryIsAnnounced, SpawnsAlternate, Coming
<1>7. LastSample
  BY <1>1, <1>2, <1>3 DEF LastSample, Coming, Held
<1> QED BY <1>4, <1>6, <1>7 DEF PipeInv

\* What leaves the flush thread, the table and their histories alone.
LEMMA OtherPipeInv ==
  ASSUME PipeInv, UNCHANGED <<game, tracked, late>>
  PROVE  PipeInv'
BY DEF PipeInv, ListIsOfOneKind, StoryIsAnnounced, SpawnsAlternate, LastSample, Coming, game

\* collect_actor_ptr notes any actor.
LEMMA CollectPipeInv ==
  ASSUME PipeInv, NEW n \in Npcs \cup {Player}, Collect(n)
  PROVE  PipeInv'
BY DEF PipeInv, ListIsOfOneKind, StoryIsAnnounced, SpawnsAlternate, LastSample, Coming, Collect

\* flush_npc_diff lists what changed.
LEMMA NpcDiffPipeInv ==
  ASSUME PipeInv, NpcDiff
  PROVE  PipeInv'
<1>1. /\ todo = <<>> /\ current' = {} /\ UNCHANGED <<story, tracked, late>>
      /\ current \subseteq Npcs \cup {Player} /\ announced \subseteq Npcs
  BY DEF NpcDiff, PipeInv, ListIsOfOneKind, StoryIsAnnounced
<1>2. CASE flush' = "sample" /\ UNCHANGED <<announced, todo>>
  BY <1>1, <1>2 DEF PipeInv, ListIsOfOneKind, StoryIsAnnounced, SpawnsAlternate, LastSample,
     Coming
<1>3. CASE /\ \E added \in SetToSeqs(current \ (announced \cup {Player})),
                removed \in SetToSeqs(announced \ current) :
                todo' = [i \in DOMAIN added |-> [kind |-> "spawn", ref |-> added[i]]]
                          \o [i \in DOMAIN removed |-> [kind |-> "remove", ref |-> removed[i]]]
           /\ announced' = current \ {Player}
           /\ flush' = After("pushDiff", todo')
  <2> DEFINE New == current \ (announced \cup {Player})
             Old == announced \ current
  <2>1. PICK added \in SetToSeqs(New), removed \in SetToSeqs(Old) :
          todo' = [i \in DOMAIN added |-> [kind |-> "spawn", ref |-> added[i]]]
                    \o [i \in DOMAIN removed |-> [kind |-> "remove", ref |-> removed[i]]]
    BY <1>3
  <2> DEFINE s == [i \in DOMAIN added |-> [kind |-> "spawn", ref |-> added[i]]]
             t == [i \in DOMAIN removed |-> [kind |-> "remove", ref |-> removed[i]]]
  <2>2. New \in SUBSET Npcs /\ Old \in SUBSET Npcs
    BY <1>1
  <2>3. /\ s \in Seq(Pushed)
        /\ \A i \in DOMAIN s : s[i].kind = "spawn" /\ s[i].ref \in New
        /\ \A i, j \in DOMAIN s : s[i].ref = s[j].ref => i = j
        /\ \A n \in New : \E i \in DOMAIN s : s[i] = [kind |-> "spawn", ref |-> n]
    <3> HIDE DEF New, Old
    <3>1. added \in SetToSeqs(New) /\ New \in SUBSET Npcs
      BY <2>1, <2>2
    <3> HIDE DEF s
    <3>2. s = [i \in DOMAIN added |-> [kind |-> "spawn", ref |-> added[i]]]
      BY DEF s
    <3> QED BY <3>1, <3>2, ListToPush
  <2>4. /\ t \in Seq(Pushed)
        /\ \A i \in DOMAIN t : t[i].kind = "remove" /\ t[i].ref \in Old
        /\ \A i, j \in DOMAIN t : t[i].ref = t[j].ref => i = j
        /\ \A n \in Old : \E i \in DOMAIN t : t[i] = [kind |-> "remove", ref |-> n]
    <3> HIDE DEF New, Old
    <3>1. removed \in SetToSeqs(Old) /\ Old \in SUBSET Npcs
      BY <2>1, <2>2
    <3> HIDE DEF t
    <3>2. t = [i \in DOMAIN removed |-> [kind |-> "remove", ref |-> removed[i]]]
      BY DEF t
    <3> QED BY <3>1, <3>2, ListToPush
  <2>5. todo' = s \o t
    BY <2>1
  <2> HIDE DEF s, t
  <2>6. todo' \in Seq(Pushed)
    BY <2>3, <2>4, <2>5, ConcatProperties
  <2>7. /\ \A i \in DOMAIN s : i \in DOMAIN todo' /\ todo'[i] = s[i]
        /\ \A i \in DOMAIN t : Len(s) + i \in DOMAIN todo' /\ todo'[Len(s) + i] = t[i]
        /\ \A i \in DOMAIN todo' : \/ i \in DOMAIN s /\ todo'[i] = s[i]
                                   \/ i - Len(s) \in DOMAIN t /\ todo'[i] = t[i - Len(s)]
    BY <2>3, <2>4, <2>5, ConcatElements
  <2>8. /\ \A i \in DOMAIN todo' : \/ todo'[i].kind = "spawn" /\ todo'[i].ref \in New
                                   \/ todo'[i].kind = "remove" /\ todo'[i].ref \in Old
        /\ \A n \in New : Coming(n, "spawn")'
        /\ \A n \in Old : Coming(n, "remove")'
    BY <2>3, <2>4, <2>7 DEF Coming
  <2>9. \A i, j \in DOMAIN todo' : todo'[i].ref = todo'[j].ref => i = j
    <3> SUFFICES ASSUME NEW i \in DOMAIN todo', NEW j \in DOMAIN todo',
                        todo'[i].ref = todo'[j].ref
                 PROVE  i = j
      OBVIOUS
    <3>1. Len(s) \in Nat /\ i \in Int /\ j \in Int
      BY <2>3, <2>6, LenProperties
    <3>2. New \cap Old = {}
      OBVIOUS
    <3> HIDE DEF New, Old
    <3>3. CASE i \in DOMAIN s /\ todo'[i] = s[i] /\ j \in DOMAIN s /\ todo'[j] = s[j]
      BY <2>3, <3>3
    <3>4. CASE /\ i - Len(s) \in DOMAIN t /\ todo'[i] = t[i - Len(s)]
               /\ j - Len(s) \in DOMAIN t /\ todo'[j] = t[j - Len(s)]
      <4>1. i - Len(s) = j - Len(s)
        BY <2>4, <3>4
      <4> QED BY <3>1, <4>1
    <3>5. CASE /\ i \in DOMAIN s /\ todo'[i] = s[i]
               /\ j - Len(s) \in DOMAIN t /\ todo'[j] = t[j - Len(s)]
      BY <2>3, <2>4, <3>2, <3>5
    <3>6. CASE /\ i - Len(s) \in DOMAIN t /\ todo'[i] = t[i - Len(s)]
               /\ j \in DOMAIN s /\ todo'[j] = s[j]
      BY <2>3, <2>4, <3>2, <3>6
    <3> QED BY <2>7, <3>3, <3>4, <3>5, <3>6
  <2>10. \A n \in Npcs : /\ Coming(n, "spawn")' <=> n \in New
                         /\ Coming(n, "remove")' <=> n \in Old
                         /\ ~ Coming(n, "sample")'
    BY <2>8 DEF Coming
  <2>11. ListIsOfOneKind'
    <3>1. \A i \in DOMAIN todo' : todo'[i].kind # "sample"
      BY <2>8
    <3>2. flush' = IF todo' # <<>> THEN "pushDiff" ELSE "sample"
      BY <1>3 DEF After
    <3> HIDE DEF New, Old
    <3> QED BY <2>6, <2>9, <3>1, <3>2 DEF ListIsOfOneKind
  <2>12. \A n \in Npcs : Odd(Len(story[n])) <=> n \in announced
    BY <1>1 DEF PipeInv, StoryIsAnnounced, Coming
  <2>13. \A n \in Npcs : n \in announced' <=> n \in New \/ (n \in announced /\ n \notin Old)
    BY <1>3, BridgePipeAssumption DEF BridgePipeAssumption
  <2>14. announced' \subseteq Npcs
    BY <1>1, <1>3
  <2>15. StoryIsAnnounced'
    BY <1>1, <2>10, <2>12, <2>13, <2>14 DEF PipeInv, StoryIsAnnounced
  <2>16. SpawnsAlternate' /\ LastSample'
    BY <1>1, <2>10 DEF PipeInv, SpawnsAlternate, LastSample
  <2> QED BY <2>11, <2>15, <2>16 DEF PipeInv
<1> QED BY <1>2, <1>3 DEF NpcDiff

\* sample_tracked lists the NPCs tracked.
LEMMA SampleTrackedPipeInv ==
  ASSUME PipeInv, SampleTracked
  PROVE  PipeInv'
<1>1. /\ todo = <<>> /\ UNCHANGED <<current, announced, story, tracked, late>>
      /\ tracked \in SUBSET Npcs
      /\ flush' = After("pushSamples", todo')
  BY DEF SampleTracked, PipeInv, ListIsOfOneKind, LastSample
<1>2. PICK list \in SetToSeqs(tracked) :
        todo' = [i \in DOMAIN list |-> [kind |-> "sample", ref |-> list[i]]]
  BY DEF SampleTracked
<1>3. /\ todo' \in Seq(Pushed)
      /\ \A i \in DOMAIN todo' : todo'[i].kind = "sample" /\ todo'[i].ref \in tracked
      /\ \A i, j \in DOMAIN todo' : todo'[i].ref = todo'[j].ref => i = j
  BY <1>1, <1>2, ListToPush
<1>4. ListIsOfOneKind'
  BY <1>1, <1>3 DEF ListIsOfOneKind, After
<1>5. \A n \in Npcs : /\ ~ Coming(n, "spawn")' /\ ~ Coming(n, "remove")'
                      /\ Coming(n, "sample")' => n \in tracked
  BY <1>3 DEF Coming
<1>6. \A n \in Npcs : ~ Coming(n, "spawn") /\ ~ Coming(n, "remove")
  BY <1>1 DEF Coming
<1>7. StoryIsAnnounced' /\ SpawnsAlternate'
  BY <1>1, <1>5, <1>6 DEF PipeInv, StoryIsAnnounced, SpawnsAlternate
<1>8. LastSample'
  BY <1>1, <1>5 DEF PipeInv, LastSample, Held
<1> QED BY <1>4, <1>7, <1>8 DEF PipeInv

\* One of the list is pushed.
LEMMA PushNextPipeInv ==
  ASSUME PipeInv, PushNext
  PROVE  PipeInv'
<1> DEFINE e == Head(todo)
           rest == Tail(todo)
<1>1. /\ todo # <<>> /\ todo \in Seq(Pushed) /\ todo' = rest
      /\ flush' = After(flush, rest)
      /\ UNCHANGED <<current, announced, tracked>>
  BY DEF PushNext, PipeInv, ListIsOfOneKind
<1>2. /\ Len(todo) \in Nat \ {0} /\ DOMAIN todo = 1 .. Len(todo)
      /\ e \in Pushed /\ e = todo[1]
      /\ rest \in Seq(Pushed) /\ Len(rest) = Len(todo) - 1 /\ DOMAIN rest = 1 .. Len(todo) - 1
      /\ \A i \in 1 .. Len(todo) - 1 : rest[i] = todo[i + 1]
  BY <1>1, EmptySeq, LenProperties, HeadTailProperties
<1> HIDE DEF e, rest
<1>3. e.ref \in Npcs /\ e = [kind |-> e.kind, ref |-> e.ref]
      /\ e.kind \in {"spawn", "remove", "sample"}
  BY <1>2 DEF Pushed
<1>4. \A i, j \in DOMAIN todo : todo[i].ref = todo[j].ref => i = j
  BY DEF PipeInv, ListIsOfOneKind
<1>5. \A n \in Npcs, kind \in {"spawn", "remove", "sample"} :
        /\ n # e.ref => (Coming(n, kind)' <=> Coming(n, kind))
        /\ n = e.ref => ~ Coming(n, kind)'
        /\ n = e.ref => (Coming(n, kind) <=> kind = e.kind)
  <2>1. ASSUME NEW n \in Npcs, NEW kind \in {"spawn", "remove", "sample"}
        PROVE  Coming(n, kind)' <=>
                 \E i \in 1 .. Len(todo) - 1 : todo[i + 1] = [kind |-> kind, ref |-> n]
    BY <1>1, <1>2 DEF Coming
  <2>2. ASSUME NEW n \in Npcs, NEW kind \in {"spawn", "remove", "sample"}
        PROVE  Coming(n, kind)' <=>
                 \E i \in 2 .. Len(todo) : todo[i] = [kind |-> kind, ref |-> n]
    <3>1. \A i \in 2 .. Len(todo) : i - 1 \in 1 .. Len(todo) - 1 /\ i = (i - 1) + 1
      BY <1>2
    <3>2. \A i \in 1 .. Len(todo) - 1 : i + 1 \in 2 .. Len(todo)
      BY <1>2
    <3>3. ASSUME NEW i \in 2 .. Len(todo), todo[i] = [kind |-> kind, ref |-> n]
          PROVE  \E j \in 1 .. Len(todo) - 1 : todo[j + 1] = [kind |-> kind, ref |-> n]
      <4> WITNESS i - 1 \in 1 .. Len(todo) - 1
      <4> QED BY <3>1, <3>3
    <3> QED BY <2>1, <3>2, <3>3
  <2>3. ASSUME NEW n \in Npcs, NEW kind \in {"spawn", "remove", "sample"}
        PROVE  Coming(n, kind) <=> Coming(n, kind)' \/ e = [kind |-> kind, ref |-> n]
    <3>1. \A i \in DOMAIN todo : i = 1 \/ i \in 2 .. Len(todo)
      BY <1>2
    <3>2. 1 \in DOMAIN todo /\ 2 .. Len(todo) \subseteq DOMAIN todo
      BY <1>2
    <3>3. ASSUME Coming(n, kind) PROVE Coming(n, kind)' \/ e = [kind |-> kind, ref |-> n]
      <4>1. PICK i \in DOMAIN todo : todo[i] = [kind |-> kind, ref |-> n]
        BY <3>3 DEF Coming
      <4>2. CASE i = 1
        BY <1>2, <4>1, <4>2
      <4>3. CASE i \in 2 .. Len(todo)
        BY <2>2, <4>1, <4>3
      <4> QED BY <3>1, <4>2, <4>3
    <3>4. ASSUME Coming(n, kind)' PROVE Coming(n, kind)
      <4>1. PICK i \in 2 .. Len(todo) : todo[i] = [kind |-> kind, ref |-> n]
        BY <2>2, <3>4
      <4> QED BY <3>2, <4>1 DEF Coming
    <3>5. ASSUME e = [kind |-> kind, ref |-> n] PROVE Coming(n, kind)
      BY <1>2, <3>2, <3>5 DEF Coming
    <3> QED BY <3>3, <3>4, <3>5
  <2>4. ASSUME NEW kind \in {"spawn", "remove", "sample"}, NEW i \in 2 .. Len(todo),
               todo[i] = [kind |-> kind, ref |-> e.ref]
        PROVE  FALSE
    <3>1. e.ref = todo[1].ref /\ todo[i].ref = e.ref
      BY <1>2, <2>4
    <3>2. i \in DOMAIN todo /\ 1 \in DOMAIN todo /\ i # 1 /\ todo[i].ref = todo[1].ref
      BY <1>2, <3>1
    <3> QED BY <1>4, <3>2
  <2>5. ASSUME NEW n \in Npcs, NEW kind \in {"spawn", "remove", "sample"}, n = e.ref
        PROVE  ~ Coming(n, kind)'
    BY <2>2, <2>4, <2>5
  <2>6. ASSUME NEW n \in Npcs, NEW kind \in {"spawn", "remove", "sample"}
        PROVE  e = [kind |-> kind, ref |-> n] <=> n = e.ref /\ kind = e.kind
    BY <1>3
  <2>7. ASSUME NEW n \in Npcs, NEW kind \in {"spawn", "remove", "sample"}, n # e.ref
        PROVE  Coming(n, kind)' <=> Coming(n, kind)
    BY <2>3, <2>6, <2>7
  <2>8. ASSUME NEW n \in Npcs, NEW kind \in {"spawn", "remove", "sample"}, n = e.ref
        PROVE  Coming(n, kind) <=> kind = e.kind
    BY <2>3, <2>5, <2>6, <2>8
  <2> QED BY <2>5, <2>7, <2>8
<1>6. ListIsOfOneKind'
  <2>1. \A i, j \in DOMAIN todo' : todo'[i].ref = todo'[j].ref => i = j
    <3>1. ASSUME NEW i \in DOMAIN todo', NEW j \in DOMAIN todo', todo'[i].ref = todo'[j].ref
          PROVE  i = j
      <4>1. /\ i \in Int /\ j \in Int
            /\ i + 1 \in DOMAIN todo /\ todo'[i] = todo[i + 1]
            /\ j + 1 \in DOMAIN todo /\ todo'[j] = todo[j + 1]
        BY <1>1, <1>2
      <4>2. i + 1 = j + 1
        BY <1>4, <3>1, <4>1
      <4> QED BY <4>1, <4>2
    <3> QED BY <3>1
  <2>2. \A i \in DOMAIN todo' : i + 1 \in DOMAIN todo /\ todo'[i] = todo[i + 1]
    BY <1>1, <1>2
  <2>3. flush \in {"pushDiff", "pushSamples"}
    BY <1>1 DEF PipeInv, ListIsOfOneKind
  <2>4. flush' = IF rest # <<>> THEN flush ELSE IF flush = "pushDiff" THEN "sample" ELSE "diff"
    BY <1>1 DEF After
  <2> QED BY <1>1, <1>2, <2>1, <2>2, <2>3, <2>4 DEF PipeInv, ListIsOfOneKind
<1>7. CASE e.kind = "sample"
  <2>1. /\ story' = story
        /\ late' = IF late[e.ref] # Held THEN [late EXCEPT ![e.ref] = @ + 1] ELSE late
    BY <1>7 DEF PushNext, e
  <2>2. Coming(e.ref, "sample") /\ ~ Coming(e.ref, "spawn") /\ ~ Coming(e.ref, "remove")
    BY <1>3, <1>5, <1>7
  <2>3. StoryIsAnnounced' /\ SpawnsAlternate'
    BY <1>1, <1>3, <1>5, <2>1, <2>2 DEF PipeInv, StoryIsAnnounced, SpawnsAlternate
  <2>4. late[e.ref] \in {Held, 0}
    BY <1>3, <2>2 DEF PipeInv, LastSample
  <2>5. \A n \in Npcs : /\ late'[n] \in {Held, 0, 1} /\ (late'[n] = Held <=> late[n] = Held)
                        /\ n # e.ref => late'[n] = late[n]
    BY <1>3, <2>1, <2>4 DEF PipeInv, LastSample, Held
  <2>6. late' \in [Npcs -> {Held, 0, 1}]
    BY <2>1, <2>5 DEF PipeInv, LastSample
  <2>7. LastSample'
    BY <1>1, <1>5, <2>5, <2>6 DEF PipeInv, LastSample
  <2> QED BY <1>6, <2>3, <2>7 DEF PipeInv
<1>8. CASE e.kind # "sample"
  <2>1. late' = late /\ story' = [story EXCEPT ![e.ref] = Append(@, e.kind)]
    BY <1>8 DEF PushNext, e
  <2> DEFINE old == story[e.ref]
  <2>2. /\ old \in Seq({"spawn", "remove"}) /\ Len(old) \in Nat /\ DOMAIN old = 1 .. Len(old)
        /\ e.kind \in {"spawn", "remove"}
    BY <1>3, <1>8, LenProperties DEF PipeInv, StoryIsAnnounced
  <2> HIDE DEF old
  <2>3. /\ Append(old, e.kind) \in Seq({"spawn", "remove"})
        /\ Len(Append(old, e.kind)) = Len(old) + 1
        /\ DOMAIN Append(old, e.kind) = 1 .. Len(old) + 1
        /\ \A i \in 1 .. Len(old) + 1 :
             Append(old, e.kind)[i] = IF i = Len(old) + 1 THEN e.kind ELSE old[i]
    BY <2>2
  <2>4. \A n \in Npcs : story'[n] = IF n = e.ref THEN Append(old, e.kind) ELSE story[n]
    BY <1>3, <2>1 DEF PipeInv, StoryIsAnnounced, old
  <2>5. Odd(Len(old) + 1) <=> ~ Odd(Len(old))
    BY <2>2 DEF Odd
  <2>6. /\ e.kind = "spawn" => e.ref \in announced /\ ~ Odd(Len(old))
        /\ e.kind = "remove" => e.ref \notin announced /\ Odd(Len(old))
    BY <1>3, <1>5 DEF PipeInv, StoryIsAnnounced, old
  <2>7. story' \in [Npcs -> Seq({"spawn", "remove"})]
    BY <2>1, <2>3, <2>4 DEF PipeInv, StoryIsAnnounced
  <2>8. Odd(Len(story'[e.ref])) <=> e.ref \in announced'
    BY <1>1, <1>3, <2>2, <2>3, <2>4, <2>5, <2>6
  <2>9. StoryIsAnnounced'
    BY <1>1, <1>3, <1>5, <2>4, <2>7, <2>8 DEF PipeInv, StoryIsAnnounced
  <2>10. SpawnsAlternate'
    <3>1. ASSUME NEW i \in 1 .. Len(old) + 1
          PROVE  Append(old, e.kind)[i] = IF i % 2 = 1 THEN "spawn" ELSE "remove"
      <4>1. CASE i = Len(old) + 1
        BY <2>2, <2>3, <2>5, <2>6, <4>1 DEF Odd
      <4>2. CASE i # Len(old) + 1
        <5>1. i \in DOMAIN old
          BY <2>2, <4>2
        <5>2. old[i] = IF i % 2 = 1 THEN "spawn" ELSE "remove"
          BY <1>3, <5>1 DEF PipeInv, SpawnsAlternate, old
        <5> QED BY <2>3, <4>2, <5>2
      <4> QED BY <4>1, <4>2
    <3>2. ASSUME NEW n \in Npcs, NEW i \in DOMAIN story'[n]
          PROVE  story'[n][i] = IF i % 2 = 1 THEN "spawn" ELSE "remove"
      <4>1. CASE n = e.ref
        BY <2>3, <2>4, <3>1, <4>1
      <4>2. CASE n # e.ref
        BY <2>4, <4>2 DEF PipeInv, SpawnsAlternate
      <4> QED BY <4>1, <4>2
    <3> QED BY <3>2 DEF SpawnsAlternate
  <2>11. LastSample'
    BY <1>1, <1>3, <1>5, <2>1 DEF PipeInv, LastSample
  <2> QED BY <1>6, <2>9, <2>10, <2>11 DEF PipeInv
<1> QED BY <1>7, <1>8

\* The orders of a round decide who is tracked, and who is let go with no
\* sample pushed since.
LEMMA ServePipeInv ==
  ASSUME PipeInv, Serve
  PROVE  PipeInv'
<1>1. PICK k \in 0 .. Len(toBridge[serving]) : Round(SubSeq(toBridge[serving], 1, k))
  BY DEF Serve
<1>2. PICK orders : /\ tracked' = Tracked(orders)
                    /\ late' = [n \in Npcs |-> Ordered(orders, n, late[n], Held, 0)]
  BY <1>1 DEF Round
<1>3. UNCHANGED game
  BY DEF Serve
<1>4. ASSUME NEW n \in Npcs
      PROVE  /\ late'[n] \in {Held, 0, 1}
             /\ late'[n] = Held <=> n \in tracked'
             /\ late'[n] = 1 => late[n] = 1
  BY <1>2 DEF Tracked, Ordered, PipeInv, LastSample, Held
<1>5. LastSample'
  BY <1>2, <1>3, <1>4 DEF PipeInv, LastSample, Tracked, Coming, game
<1>6. ListIsOfOneKind' /\ StoryIsAnnounced' /\ SpawnsAlternate'
  BY <1>3 DEF PipeInv, ListIsOfOneKind, StoryIsAnnounced, SpawnsAlternate, Coming, game
<1> QED BY <1>5, <1>6 DEF PipeInv

LEMMA NextPipeInv ==
  ASSUME PipeInv, [PipeNext]_pipeVars
  PROVE  PipeInv'
<1>1. CASE SamplePlayer \/ Accept \/ Write \/ Eof \/ Panic
  BY <1>1, OtherPipeInv DEF SamplePlayer, Accept, Write, Eof, Panic, Close
<1>2. CASE \/ Connect \/ Restart \/ Poll \/ PollBridge \/ Await \/ TakeReturn \/ Disconnected
           \/ \E order \in Tracking : Execute(order)
  BY <1>2, OtherPipeInv DEF Connect, Restart, Reopen, Poll, PollBridge, Execute, Await,
     TakeReturn,
                            Disconnected
<1>3. CASE UNCHANGED pipeVars
  BY <1>3, OtherPipeInv DEF pipeVars, game
<1>4. CASE \/ \E n \in Npcs \cup {Player} : Collect(n)
           \/ NpcDiff \/ SampleTracked \/ PushNext \/ Serve
  BY <1>4, CollectPipeInv, NpcDiffPipeInv, SampleTrackedPipeInv, PushNextPipeInv, ServePipeInv
<1> QED BY <1>1, <1>2, <1>3, <1>4 DEF PipeNext

\* What the client hears of every NPC makes sense: spawns and removals in turn,
\* whatever the engine's windows hold, and after it has let an NPC go at most one
\* more sample of it (flush_npc_diff, sample_tracked and untrack_actor).
THEOREM StoriesAreSound == PipeSpec => []NpcStoryIsSound
<1>1. PipeInv => NpcStoryIsSound
  BY DEF PipeInv, NpcStoryIsSound, LateSampleOnce, LastSample, Held
<1>2. PipeInv /\ [PipeNext]_pipeVars => PipeInv'
  BY NextPipeInv
<1> QED BY <1>1, <1>2, InitPipeInv, PTL DEF PipeSpec
=============================================================================
