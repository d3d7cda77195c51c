-------------------------- MODULE ClientViewProofs --------------------------
(***************************************************************************)
(* Proofs about what a client is shown: the names of the string cache, and *)
(* the things of the cells around it.                                      *)
(*                                                                         *)
(* Of the string cache, for any number of names, packets and connections,  *)
(* as long as there are ids for all the names: ids that start over give    *)
(* two names one id.                                                       *)
(*                                                                         *)
(* Of the cell view, for any players, things, cells and any relation of    *)
(* neighbours.  The invariants of the runs hold together: that a settled   *)
(* thing is known rests on it being listed where it stands, which is what  *)
(* the lists keep, and that a removed thing is never listed again rests on *)
(* the removal taking its owner.                                           *)
(***************************************************************************)
EXTENDS StringCache, CellView, FiniteSetTheorems, TLAPS

\* There are at least as many ids as names.
EnoughIds == IsFiniteSet(Names) /\ Cardinality(Names) <= IdSpace

-----------------------------------------------------------------------------
(* The inductive invariant. *)

\* The server's ids are used one after the other and stand for one name each.
Injective ==
  /\ entries = Cardinality(DOMAIN bound)
  /\ \A n \in DOMAIN bound : bound[n] < entries
  /\ \A m, n \in DOMAIN bound : bound[m] = bound[n] => m = n

\* A packet under way carries an id that the server's table has for its name.
BoundOnWire ==
  \A i \in DOMAIN wire :
    wire[i].name \in DOMAIN bound /\ bound[wire[i].name] = wire[i].id

\* What the client's table has under an id is the server's name for it, or
\* was there when the connection began.
Known ==
  \A id \in NameIds :
    \/ Lookup(id) \in {Empty, Entry(inherited, id)}
    \/ Lookup(id) \in DOMAIN bound /\ bound[Lookup(id)] = id

CacheInv == CacheTypeOK /\ Injective /\ BoundOnWire /\ Known /\ NeverWrongName

\* On a quiet network the packet with a name in it comes before those with the
\* id alone,
NameGoesFirst ==
  \A i, k \in DOMAIN wire :
    wire[k].inline /\ wire[i].name = wire[k].name /\ i # k => k < i

\* the names that get a higher id come later, so that the cut of the client's
\* table in Vec::resize takes away no name of this connection,
HigherIdsComeLater ==
  \A j \in DOMAIN wire, n \in DOMAIN bound :
    wire[j].inline /\ bound[n] > wire[j].id =>
      \E k \in DOMAIN wire : k > j /\ wire[k].inline /\ wire[k].name = n

\* and a name the server has bound is in the client's table, unless an earlier
\* connection left another there, or it is on its way.
Settled(n) ==
  \/ Lookup(bound[n]) = n
  \/ Entry(inherited, bound[n]) # Empty /\ Lookup(bound[n]) = Entry(inherited, bound[n])

SettledOrComing ==
  \A n \in DOMAIN bound : Settled(n) \/ \E k \in DOMAIN wire : wire[k].inline /\ wire[k].name = n

Orderly == NameGoesFirst /\ HigherIdsComeLater /\ SettledOrComing /\ NamesAreShown

QuietInv == CacheInv /\ (~ disturbed => Orderly)

-----------------------------------------------------------------------------
(* Helpers. *)

\* An entry of a table of names is a name.
LEMMA EntryIsName ==
  ASSUME StringCacheAssumption, NEW table \in Seq(Names), NEW id \in NameIds
  PROVE  Entry(table, id) \in Names
<1>1. CASE id + 1 \in DOMAIN table
  BY <1>1 DEF Entry
<1>2. CASE id + 1 \notin DOMAIN table
  BY <1>2 DEF Entry, StringCacheAssumption
<1> QED
  BY <1>1, <1>2

\* While a name has no id, there is an id for it that no name has.
LEMMA FreshIdIsFree ==
  ASSUME StringCacheAssumption, EnoughIds, CacheTypeOK, Injective,
         NEW n \in Names, n \notin DOMAIN bound
  PROVE  FreshId = entries /\ FreshId \in NameIds
<1>1. /\ IsFiniteSet(DOMAIN bound)
      /\ Cardinality(DOMAIN bound) <= Cardinality(Names)
      /\ Cardinality(DOMAIN bound) = Cardinality(Names) => DOMAIN bound = Names
  BY FS_Subset DEF CacheTypeOK, EnoughIds
<1>2. Cardinality(DOMAIN bound) \in Nat /\ Cardinality(Names) \in Nat
  BY <1>1, FS_CardinalityType DEF EnoughIds
<1>3. Cardinality(DOMAIN bound) # Cardinality(Names)
  BY <1>1
<1>4. entries \in Nat /\ entries < IdSpace
  BY <1>1, <1>2, <1>3 DEF Injective, EnoughIds, StringCacheAssumption
<1> QED
  BY <1>4 DEF FreshId, NameIds, StringCacheAssumption

\* Binding a name keeps the server's table in order and every binding it had,
\* and the packet that goes out carries the id of its name.
LEMMA BindKeeps ==
  ASSUME StringCacheAssumption, EnoughIds, CacheTypeOK, Injective, NEW n \in Names, Bind(n)
  PROVE  /\ DOMAIN bound' \subseteq Names
         /\ bound' \in [DOMAIN bound' -> NameIds]
         /\ entries' \in Nat
         /\ Injective'
         /\ \A m \in DOMAIN bound : m \in DOMAIN bound' /\ bound'[m] = bound[m]
         /\ Interned(n) \in Packets
         /\ Interned(n).name \in DOMAIN bound'
         /\ bound'[Interned(n).name] = Interned(n).id
<1>1. CASE n \in DOMAIN bound
  BY <1>1 DEF Bind, Interned, Packets, CacheTypeOK, Injective
<1>2. CASE n \notin DOMAIN bound
  <2>1. FreshId = entries /\ FreshId \in NameIds
    BY <1>2, FreshIdIsFree
  <2>2. /\ bound' = [m \in DOMAIN bound \cup {n} |-> IF m = n THEN FreshId ELSE bound[m]]
        /\ entries' = entries + 1
    BY <1>2 DEF Bind
  <2>3. /\ DOMAIN bound' = DOMAIN bound \cup {n}
        /\ bound'[n] = entries
        /\ \A m \in DOMAIN bound : bound'[m] = bound[m]
    BY <1>2, <2>1, <2>2
  <2>4. entries' = Cardinality(DOMAIN bound')
    <3>1. IsFiniteSet(DOMAIN bound)
      BY FS_Subset DEF CacheTypeOK, EnoughIds
    <3>2. Cardinality(DOMAIN bound \cup {n}) = Cardinality(DOMAIN bound) + 1
      BY <1>2, <3>1, FS_AddElement
    <3> QED
      BY <2>2, <2>3, <3>2 DEF Injective
  <2>5. /\ DOMAIN bound' \subseteq Names
        /\ bound' \in [DOMAIN bound' -> NameIds]
        /\ entries' \in Nat
    BY <2>1, <2>2, <2>3 DEF CacheTypeOK
  <2>6. \A m \in DOMAIN bound' : bound'[m] < entries'
    BY <2>2, <2>3 DEF Injective, CacheTypeOK, NameIds
  <2>7. \A l, m \in DOMAIN bound' : bound'[l] = bound'[m] => l = m
    BY <2>3 DEF Injective, CacheTypeOK, NameIds
  <2>8. Interned(n) = [id |-> FreshId, name |-> n, inline |-> TRUE]
    BY <1>2 DEF Interned
  <2> QED
    BY <2>1, <2>3, <2>4, <2>5, <2>6, <2>7, <2>8 DEF Injective, Packets
<1> QED
  BY <1>1, <1>2

\* The client makes of a packet its name, nothing, or the name an earlier
\* connection left; and its table stays a table of this server's names.
LEMMA ResolveKeeps ==
  ASSUME StringCacheAssumption, CacheTypeOK, Injective, Known,
         NEW p \in Packets, p.name \in DOMAIN bound, bound[p.name] = p.id,
         Resolve(p), UNCHANGED <<serverVars, inherited>>
  PROVE  /\ by_id' \in Seq(Names)
         /\ shown' \in [id : NameIds, meant : Names, seen : Names]
         /\ Known'
         /\ NeverWrongName'
<1> p.id \in NameIds /\ p.name \in Names /\ p.inline \in BOOLEAN
  BY DEF Packets
<1> UNCHANGED <<bound, inherited>>
  BY DEF serverVars
<1>1. \A id \in NameIds : Lookup(id) \in Names
  BY EntryIsName DEF Lookup, CacheTypeOK
<1>2. shown' \in [id : NameIds, meant : Names, seen : Names]
  BY <1>1 DEF Resolve
<1>3. NeverWrongName'
  <2>1. CASE p.inline
    BY <2>1 DEF Resolve, NeverWrongName
  <2>2. CASE ~ p.inline
    <3>1. Lookup(p.id) \in {Empty, Entry(inherited, p.id), p.name}
      BY DEF Known, Injective
    <3>2. shown'.id = p.id /\ shown'.meant = p.name /\ shown'.seen = Lookup(p.id)
      BY <2>2 DEF Resolve
    <3>3. Entry(inherited, p.id)' = Entry(inherited, p.id)
      BY DEF Entry
    <3> QED
      BY <3>1, <3>2, <3>3 DEF NeverWrongName, Entry
  <2> QED
    BY <2>1, <2>2
<1>4. CASE by_id' = by_id
  BY <1>2, <1>3, <1>4 DEF Known, Lookup, Entry, CacheTypeOK
<1>5. CASE by_id' = EndingWith(p.id, p.name)
  <2>1. by_id' \in Seq(Names)
    <3>1. p.id + 1 \in Nat
      BY DEF NameIds, StringCacheAssumption
    <3>2. \A i \in 1 .. p.id + 1 : i # p.id + 1 => i - 1 \in NameIds
      BY DEF NameIds, StringCacheAssumption
    <3>3. by_id' \in [1 .. p.id + 1 -> Names]
      BY <1>1, <1>5, <3>2 DEF EndingWith
    <3> QED
      BY <3>1, <3>3
  <2>2. \A id \in NameIds : Lookup(id)' \in {Empty, Lookup(id)} \/ (id = p.id /\ Lookup(id)' = p.name)
    <3> TAKE id \in NameIds
    <3>1. DOMAIN by_id' = 1 .. p.id + 1
      BY <1>5 DEF EndingWith
    <3>2. CASE id + 1 \in DOMAIN by_id'
      <4>1. Lookup(id)' = by_id'[id + 1]
        BY <3>2 DEF Lookup, Entry
      <4>2. by_id'[id + 1] = IF id = p.id THEN p.name ELSE Lookup(id)
        BY <1>5, <3>1, <3>2 DEF EndingWith, NameIds
      <4> QED
        BY <4>1, <4>2
    <3>3. CASE id + 1 \notin DOMAIN by_id'
      BY <3>3 DEF Lookup, Entry
    <3> QED
      BY <3>2, <3>3
  <2>3. \A id \in NameIds : Entry(inherited, id)' = Entry(inherited, id)
    BY DEF Entry
  <2>4. Known'
    BY <2>2, <2>3 DEF Known
  <2> QED
    BY <1>2, <1>3, <2>1, <2>4
<1> QED
  BY <1>4, <1>5 DEF Resolve

\* Taking a packet off the wire leaves packets that were there.
LEMMA WithoutKeeps ==
  ASSUME CacheTypeOK, NEW i \in DOMAIN wire
  PROVE  /\ Without(i) \in Seq(Packets)
         /\ \A j \in DOMAIN Without(i) : \E k \in DOMAIN wire : Without(i)[j] = wire[k]
<1>1. /\ wire \in Seq(Packets)
      /\ DOMAIN wire = 1 .. Len(wire)
      /\ Len(wire) \in Nat
      /\ i \in 1 .. Len(wire)
  BY DEF CacheTypeOK
<1>2. DOMAIN Without(i) = 1 .. Len(wire) - 1
  BY DEF Without
<1>3. \A j \in 1 .. Len(wire) - 1 :
        Without(i)[j] = wire[IF j < i THEN j ELSE j + 1]
  BY DEF Without
<1>4. \A j \in 1 .. Len(wire) - 1 :
        (IF j < i THEN j ELSE j + 1) \in DOMAIN wire
  BY <1>1
<1>5. Without(i) \in [1 .. Len(wire) - 1 -> Packets]
  BY <1>1, <1>2, <1>3, <1>4 DEF Without
<1>6. Len(wire) - 1 \in Nat
  BY <1>1
<1> QED
  BY <1>2, <1>3, <1>4, <1>5, <1>6

-----------------------------------------------------------------------------
(* The steps. *)

LEMMA InitHolds ==
  ASSUME StringCacheAssumption
  PROVE  CacheInit => CacheInv
<1> SUFFICES ASSUME CacheInit PROVE CacheInv
  OBVIOUS
<1>1. DOMAIN bound = {} /\ entries = 0 /\ by_id = <<>> /\ wire = <<>>
  BY DEF CacheInit
<1>2. CacheTypeOK
  <2>1. bound \in [DOMAIN bound -> NameIds]
    BY DEF CacheInit
  <2>2. shown \in [id : NameIds, meant : Names, seen : Names]
    BY DEF CacheInit, NothingShown, NameIds, StringCacheAssumption
  <2>3. /\ by_id \in Seq(Names) /\ inherited \in Seq(Names)
        /\ wire \in Seq(Packets)
    BY DEF CacheInit
  <2>4. sent \in 0 .. MaxSent /\ session \in 1 .. MaxSessions /\ entries \in Nat
    BY DEF CacheInit, StringCacheAssumption
  <2>5. disturbed \in BOOLEAN
    BY DEF CacheInit
  <2> QED
    BY <1>1, <2>1, <2>2, <2>3, <2>4, <2>5 DEF CacheTypeOK
<1>3. Injective
  BY <1>1, FS_EmptySet DEF Injective
<1>4. BoundOnWire
  BY <1>1 DEF BoundOnWire
<1>5. Known
  BY <1>1 DEF Known, Lookup, Entry
<1>6. NeverWrongName
  BY DEF CacheInit, NothingShown, NeverWrongName
<1> QED
  BY <1>2, <1>3, <1>4, <1>5, <1>6 DEF CacheInv

LEMMA SendKeeps ==
  ASSUME StringCacheAssumption, EnoughIds, CacheInv, NEW n \in Names, Send(n)
  PROVE  CacheInv'
<1> USE DEF CacheInv
<1>1. Bind(n) /\ UNCHANGED <<by_id, inherited, shown, session>>
  BY DEF Send, clientVars
<1>2. /\ DOMAIN bound' \subseteq Names
      /\ bound' \in [DOMAIN bound' -> NameIds]
      /\ entries' \in Nat
      /\ Injective'
      /\ \A m \in DOMAIN bound : m \in DOMAIN bound' /\ bound'[m] = bound[m]
      /\ Interned(n) \in Packets
      /\ Interned(n).name \in DOMAIN bound'
      /\ bound'[Interned(n).name] = Interned(n).id
  BY <1>1, BindKeeps
<1>3. /\ wire' \in Seq(Packets)
      /\ \A i \in DOMAIN wire' : wire'[i] = Interned(n) \/ (i \in DOMAIN wire /\ wire'[i] = wire[i])
  <2>1. CASE wire' = wire
    BY <2>1 DEF CacheTypeOK
  <2>2. CASE wire' = Append(wire, Interned(n))
    <3> DEFINE p == Interned(n)
    <3> HIDE DEF p
    <3>1. wire \in Seq(Packets) /\ p \in Packets /\ wire' = Append(wire, p)
      BY <1>2, <2>2 DEF CacheTypeOK, p
    <3>2. /\ wire' \in Seq(Packets)
          /\ \A i \in DOMAIN wire' : wire'[i] = p \/ (i \in DOMAIN wire /\ wire'[i] = wire[i])
      BY <3>1
    <3> QED
      BY <3>2 DEF p
  <2> QED
    BY <2>1, <2>2 DEF Send
<1>4. CacheTypeOK'
  <2>1. sent' \in 0 .. MaxSent
    BY DEF CacheTypeOK, Send, StringCacheAssumption
  <2>2. disturbed' \in BOOLEAN
    BY ZenonT(30) DEF CacheTypeOK, Send
  <2> QED
    BY <1>1, <1>2, <1>3, <2>1, <2>2 DEF CacheTypeOK
<1>5. BoundOnWire'
  BY <1>2, <1>3 DEF BoundOnWire
<1>6. Known'
  BY <1>1, <1>2 DEF Known, Lookup, Entry
<1>7. NeverWrongName'
  BY <1>1 DEF NeverWrongName, Entry
<1> QED
  BY <1>2, <1>4, <1>5, <1>6, <1>7

LEMMA ReceiveKeeps ==
  ASSUME StringCacheAssumption, CacheInv, NEW i \in DOMAIN wire, Receive(i)
  PROVE  CacheInv'
<1> USE DEF CacheInv
<1>1. /\ UNCHANGED <<serverVars, inherited>>
      /\ UNCHANGED <<bound, entries, sent, session>>
  BY DEF Receive, serverVars
<1>2. /\ by_id' \in Seq(Names)
      /\ shown' \in [id : NameIds, meant : Names, seen : Names]
      /\ Known'
      /\ NeverWrongName'
  <2>1. wire[i] \in Packets /\ wire[i].name \in DOMAIN bound /\ bound[wire[i].name] = wire[i].id
    BY DEF CacheTypeOK, BoundOnWire
  <2> QED
    BY <1>1, <2>1, ResolveKeeps DEF Receive
<1>3. /\ wire' \in Seq(Packets)
      /\ \A j \in DOMAIN wire' : \E k \in DOMAIN wire : wire'[j] = wire[k]
  BY WithoutKeeps DEF Receive, CacheTypeOK
<1>4. CacheTypeOK'
  BY <1>1, <1>2, <1>3 DEF CacheTypeOK, Receive
<1>5. Injective' /\ BoundOnWire'
  BY <1>1, <1>3 DEF Injective, BoundOnWire
<1> QED
  BY <1>2, <1>4, <1>5

LEMMA LoseKeeps ==
  ASSUME CacheInv, NEW i \in DOMAIN wire, Lose(i)
  PROVE  CacheInv'
<1> USE DEF CacheInv
<1>1. /\ UNCHANGED <<bound, entries, sent, session, by_id, inherited, shown>>
      /\ wire' = Without(i)
      /\ disturbed' = TRUE
  BY DEF Lose, serverVars, clientVars
<1>2. /\ wire' \in Seq(Packets)
      /\ \A j \in DOMAIN wire' : \E k \in DOMAIN wire : wire'[j] = wire[k]
  BY <1>1, WithoutKeeps
<1>3. CacheTypeOK'
  BY <1>1, <1>2 DEF CacheTypeOK
<1>4. Injective' /\ BoundOnWire' /\ Known' /\ NeverWrongName'
  BY <1>1, <1>2 DEF Injective, BoundOnWire, Known, Lookup, Entry, NeverWrongName
<1> QED
  BY <1>3, <1>4

LEMMA ReconnectKeeps ==
  ASSUME StringCacheAssumption, CacheInv, Reconnect
  PROVE  CacheInv'
<1> USE DEF CacheInv
<1>1. /\ DOMAIN bound' = {} /\ entries' = 0 /\ wire' = <<>>
      /\ inherited' = by_id /\ by_id' = by_id
  BY DEF Reconnect
<1>2. CacheTypeOK'
  BY DEF CacheTypeOK, Reconnect, NothingShown, NameIds, StringCacheAssumption
<1>3. Injective'
  BY <1>1, FS_EmptySet DEF Injective
<1>4. BoundOnWire'
  BY <1>1 DEF BoundOnWire
<1>5. Known'
  BY <1>1 DEF Known, Lookup, Entry
<1>6. NeverWrongName'
  BY DEF Reconnect, NothingShown, NeverWrongName
<1> QED
  BY <1>2, <1>3, <1>4, <1>5, <1>6

LEMMA InvariantHolds ==
  ASSUME StringCacheAssumption, EnoughIds
  PROVE  CacheSpec => []CacheInv
<1>1. CacheInit => CacheInv
  BY InitHolds
<1>2. CacheInv /\ [CacheNext]_cacheVars => CacheInv'
  <2> SUFFICES ASSUME CacheInv, [CacheNext]_cacheVars PROVE CacheInv'
    OBVIOUS
  <2>1. ASSUME NEW n \in Names, Send(n) PROVE CacheInv'
    BY <2>1, SendKeeps
  <2>2. ASSUME NEW i \in DOMAIN wire, Receive(i) PROVE CacheInv'
    BY <2>2, ReceiveKeeps
  <2>3. ASSUME NEW i \in DOMAIN wire, Lose(i) PROVE CacheInv'
    BY <2>3, LoseKeeps
  <2>4. ASSUME Reconnect PROVE CacheInv'
    BY <2>4, ReconnectKeeps
  <2>5. ASSUME UNCHANGED cacheVars PROVE CacheInv'
    BY <2>5 DEF cacheVars, CacheInv, CacheTypeOK, Injective, BoundOnWire, Known, Lookup, Entry, NeverWrongName
  <2> QED
    BY <2>1, <2>2, <2>3, <2>4, <2>5 DEF CacheNext
<1> QED
  BY <1>1, <1>2, PTL DEF CacheSpec

-----------------------------------------------------------------------------
(* The theorems. *)

\* The variables keep their types: with an id for every name, ids stay within
\* the id space.
THEOREM CacheTypesHold ==
  ASSUME StringCacheAssumption, EnoughIds
  PROVE  CacheSpec => []CacheTypeOK
<1>1. CacheInv => CacheTypeOK
  BY DEF CacheInv
<1> QED
  BY <1>1, InvariantHolds, PTL

\* CachedString::resolve never shows one name of this connection in the place
\* of another, whatever is refused, lost, repeated or reordered.
THEOREM NamesAreNeverWrong ==
  ASSUME StringCacheAssumption, EnoughIds
  PROVE  CacheSpec => []NeverWrongName
<1>1. CacheInv => NeverWrongName
  BY DEF CacheInv
<1> QED
  BY <1>1, InvariantHolds, PTL

-----------------------------------------------------------------------------
(* The quiet network. *)

\* A packet that joins the others keeps them in order.
LEMMA SendQuiet ==
  ASSUME StringCacheAssumption, EnoughIds, CacheInv, Orderly,
         ~ disturbed, NEW n \in Names, Send(n), ~ disturbed'
  PROVE  Orderly'
<1> USE DEF CacheInv, Orderly
<1> DEFINE p == Interned(n)
<1>1. /\ Bind(n) /\ wire' = Append(wire, p)
      /\ UNCHANGED <<by_id, inherited, shown>>
  BY DEF Send, clientVars
<1>2. /\ p \in Packets /\ wire \in Seq(Packets) /\ p.name = n
  BY <1>1, BindKeeps DEF CacheTypeOK, Interned
<1>3. p.inline <=> n \notin DOMAIN bound
  BY DEF Interned
<1>4. CASE n \in DOMAIN bound
  <2>1. bound' = bound /\ ~ p.inline
    BY <1>1, <1>3, <1>4 DEF Bind
  <2> HIDE DEF p
  <2>2. /\ DOMAIN wire' = DOMAIN wire \cup {Len(wire) + 1} /\ wire'[Len(wire) + 1] = p
        /\ \A i \in DOMAIN wire : wire'[i] = wire[i] /\ i < Len(wire) + 1
    BY <1>1, <1>2
  <2>3. NameGoesFirst'
    BY <2>1, <2>2 DEF NameGoesFirst
  <2>4. HigherIdsComeLater'
    BY <2>1, <2>2 DEF HigherIdsComeLater
  <2>5. SettledOrComing'
    BY <1>1, <2>1, <2>2 DEF SettledOrComing, Settled, Lookup, Entry
  <2>6. NamesAreShown'
    BY <1>1 DEF NamesAreShown, Entry
  <2> QED BY <2>3, <2>4, <2>5, <2>6
<1>5. CASE n \notin DOMAIN bound
  <2>1. /\ FreshId = entries /\ p.id = entries /\ p.inline
        /\ DOMAIN bound' = DOMAIN bound \cup {n} /\ bound'[n] = entries
        /\ \A m \in DOMAIN bound : bound'[m] = bound[m] /\ bound[m] < entries
    BY <1>1, <1>5, FreshIdIsFree DEF Interned, Bind, Injective
  <2>2. \A i \in DOMAIN wire : wire[i].name # n
    BY <1>5 DEF BoundOnWire
  <2> HIDE DEF p
  <2>3. /\ DOMAIN wire' = DOMAIN wire \cup {Len(wire) + 1} /\ wire'[Len(wire) + 1] = p
        /\ \A i \in DOMAIN wire : wire'[i] = wire[i] /\ i < Len(wire) + 1
    BY <1>1, <1>2
  <2>4. NameGoesFirst'
    BY <1>2, <2>2, <2>3 DEF NameGoesFirst
  <2>5. HigherIdsComeLater'
    <3>1. entries \in Nat /\ \A m \in DOMAIN bound : bound[m] \in Nat
      BY DEF CacheTypeOK, NameIds, StringCacheAssumption
    <3> SUFFICES ASSUME NEW j \in DOMAIN wire', NEW m \in DOMAIN bound',
                        wire'[j].inline, bound'[m] > wire'[j].id
                 PROVE  \E k \in DOMAIN wire' : k > j /\ wire'[k].inline /\ wire'[k].name = m
      BY DEF HigherIdsComeLater
    <3>2. j # Len(wire) + 1
      BY <2>1, <2>3, <3>1
    <3>3. CASE m = n
      BY <1>2, <2>1, <2>3, <3>2, <3>3
    <3>4. CASE m # n
      BY <2>1, <2>3, <3>2, <3>4 DEF HigherIdsComeLater
    <3> QED BY <3>3, <3>4
  <2>6. SettledOrComing'
    <3> SUFFICES ASSUME NEW m \in DOMAIN bound'
                 PROVE  Settled(m)' \/ \E k \in DOMAIN wire' : wire'[k].inline /\ wire'[k].name = m
      BY DEF SettledOrComing
    <3>1. CASE m = n
      BY <1>2, <2>1, <2>3, <3>1
    <3>2. CASE m # n
      BY <1>1, <2>1, <2>3, <3>2 DEF SettledOrComing, Settled, Lookup, Entry
    <3> QED BY <3>1, <3>2
  <2>7. NamesAreShown'
    BY <1>1 DEF NamesAreShown, Entry
  <2> QED BY <2>4, <2>5, <2>6, <2>7
<1> QED BY <1>4, <1>5

\* What the client does with the first packet under way: the name is settled,
\* and no name with a smaller id is disturbed.
LEMMA FirstSettles ==
  ASSUME StringCacheAssumption, CacheInv, Orderly, 1 \in DOMAIN wire,
         NEW p, p = wire[1], Resolve(p), UNCHANGED <<serverVars, inherited>>
  PROVE  /\ Settled(p.name)'
         /\ \A n \in DOMAIN bound : bound[n] < p.id \/ ~ p.inline => (Settled(n) => Settled(n)')
         /\ NamesAreShown'
<1> USE DEF CacheInv, Orderly
<1>1. /\ p.id \in NameIds /\ p.inline \in BOOLEAN
      /\ p.name \in DOMAIN bound /\ bound[p.name] = p.id
  <2>1. p \in Packets
    BY DEF CacheTypeOK
  <2>2. p.id \in NameIds /\ p.inline \in BOOLEAN
    BY <2>1 DEF Packets
  <2> QED BY <2>2 DEF BoundOnWire
<1>2. bound' = bound /\ inherited' = inherited
  BY DEF serverVars
<1>3. \A n \in DOMAIN bound : bound[n] \in NameIds
  BY DEF CacheTypeOK
<1>4. \A id \in NameIds : Entry(inherited, id)' = Entry(inherited, id)
  BY <1>2 DEF Entry
<1>5. CASE ~ p.inline
  <2>1. Settled(p.name)
    <3>1. \A k \in DOMAIN wire : ~ (wire[k].inline /\ wire[k].name = p.name)
      BY <1>5 DEF NameGoesFirst, CacheTypeOK
    <3> QED BY <1>1, <3>1 DEF SettledOrComing
  <2>2. /\ by_id' = by_id
        /\ shown' = [id |-> p.id, meant |-> p.name, seen |-> Lookup(p.id)]
    BY <1>5 DEF Resolve
  <2>3. \A n \in DOMAIN bound : Settled(n)' = Settled(n)
    BY <1>2, <2>2 DEF Settled, Lookup, Entry
  <2>4. NamesAreShown'
    BY <1>1, <1>4, <2>1, <2>2 DEF NamesAreShown, Settled
  <2> QED BY <1>1, <2>1, <2>3, <2>4
<1>6. CASE p.inline
  <2>1. NamesAreShown'
    BY <1>6 DEF Resolve, NamesAreShown
  <2>2. CASE Lookup(p.id) # Empty
    <3>1. by_id' = by_id
      BY <1>6, <2>2 DEF Resolve
    <3>2. Settled(p.name)
      BY <1>1, <2>2 DEF Known, Injective, Settled
    <3>3. \A n \in DOMAIN bound : Settled(n)' = Settled(n)
      BY <1>2, <3>1 DEF Settled, Lookup, Entry
    <3> QED BY <1>1, <2>1, <3>2, <3>3
  <2>3. CASE Lookup(p.id) = Empty
    <3>1. by_id' = EndingWith(p.id, p.name)
      BY <1>6, <2>3 DEF Resolve
    <3>2. DOMAIN by_id' = 1 .. p.id + 1
      BY <3>1 DEF EndingWith
    <3>3. \A id \in NameIds : id <= p.id => Lookup(id)' = IF id = p.id THEN p.name ELSE Lookup(id)
      <4> TAKE id \in NameIds
      <4> SUFFICES ASSUME id <= p.id PROVE Lookup(id)' = IF id = p.id THEN p.name ELSE Lookup(id)
        OBVIOUS
      <4>1. id + 1 \in DOMAIN by_id'
        BY <1>1, <3>2 DEF NameIds, StringCacheAssumption
      <4>2. Lookup(id)' = by_id'[id + 1]
        BY <4>1 DEF Lookup, Entry
      <4>3. by_id'[id + 1] = IF id = p.id THEN p.name ELSE Lookup(id)
        BY <1>1, <3>1, <3>2, <4>1 DEF EndingWith, NameIds
      <4> QED BY <4>2, <4>3
    <3>4. Settled(p.name)'
      BY <1>1, <1>2, <3>3 DEF Settled, NameIds, StringCacheAssumption
    <3>5. \A n \in DOMAIN bound : bound[n] < p.id => (Settled(n) => Settled(n)')
      <4> TAKE n \in DOMAIN bound
      <4> SUFFICES ASSUME bound[n] < p.id, Settled(n) PROVE Settled(n)'
        OBVIOUS
      <4>1. Lookup(bound[n])' = Lookup(bound[n])
        BY <1>1, <1>2, <1>3, <3>3 DEF NameIds, StringCacheAssumption
      <4>2. Entry(inherited, bound[n])' = Entry(inherited, bound[n])
        BY <1>2 DEF Entry
      <4> QED BY <1>2, <4>1, <4>2 DEF Settled
    <3> QED BY <1>6, <2>1, <3>4, <3>5
  <2> QED BY <2>2, <2>3
<1> QED BY <1>1, <1>5, <1>6

LEMMA ReceiveQuiet ==
  ASSUME StringCacheAssumption, CacheInv, Orderly, NEW i \in DOMAIN wire, Receive(i), ~ disturbed'
  PROVE  Orderly'
<1> USE DEF CacheInv, Orderly
<1>1. i = 1 /\ wire' = Without(1) /\ Resolve(wire[1]) /\ UNCHANGED <<serverVars, inherited>>
  BY DEF Receive
<1>2. bound' = bound
  BY <1>1 DEF serverVars
<1>3. /\ DOMAIN wire = 1 .. Len(wire) /\ Len(wire) \in Nat
      /\ DOMAIN wire' = 1 .. Len(wire) - 1
      /\ \A j \in DOMAIN wire' : j + 1 \in DOMAIN wire /\ wire'[j] = wire[j + 1]
  <2>1. DOMAIN wire = 1 .. Len(wire) /\ Len(wire) \in Nat
    BY DEF CacheTypeOK
  <2>2. wire' = [j \in 1 .. Len(wire) - 1 |-> wire[j + 1]]
    <3>1. \A j \in 1 .. Len(wire) - 1 : ~ (j < 1)
      BY <2>1
    <3> QED BY <1>1, <3>1 DEF Without
  <2> QED BY <2>1, <2>2
<1>4. \A k \in DOMAIN wire : k # 1 => k - 1 \in DOMAIN wire' /\ wire'[k - 1] = wire[k]
  BY <1>3
<1>5. NameGoesFirst'
  <2> SUFFICES ASSUME NEW j \in DOMAIN wire', NEW k \in DOMAIN wire',
                      wire'[k].inline, wire'[j].name = wire'[k].name, j # k
               PROVE  k < j
    BY DEF NameGoesFirst
  <2>1. k + 1 < j + 1
    BY <1>3 DEF NameGoesFirst
  <2> QED BY <1>3, <2>1
<1>6. HigherIdsComeLater'
  <2> SUFFICES ASSUME NEW j \in DOMAIN wire', NEW n \in DOMAIN bound,
                      wire'[j].inline, bound[n] > wire'[j].id
               PROVE  \E k \in DOMAIN wire' : k > j /\ wire'[k].inline /\ wire'[k].name = n
    BY <1>2 DEF HigherIdsComeLater
  <2>1. PICK k \in DOMAIN wire : k > j + 1 /\ wire[k].inline /\ wire[k].name = n
    BY <1>3 DEF HigherIdsComeLater
  <2>2. k - 1 \in DOMAIN wire' /\ k - 1 > j /\ wire'[k - 1] = wire[k]
    BY <1>3, <1>4, <2>1
  <2> QED BY <2>1, <2>2
<1>7. PICK p : p = wire[1]
  OBVIOUS
<1>8. /\ Settled(p.name)'
      /\ \A n \in DOMAIN bound : bound[n] < p.id \/ ~ p.inline => (Settled(n) => Settled(n)')
      /\ NamesAreShown'
  BY <1>1, <1>7, FirstSettles
<1>9. p.name \in DOMAIN bound /\ bound[p.name] = p.id /\ p.id \in NameIds
  BY <1>1, <1>7 DEF BoundOnWire, CacheTypeOK
<1>10. SettledOrComing'
  <2> SUFFICES ASSUME NEW n \in DOMAIN bound, n # p.name,
                      ~ \E k \in DOMAIN wire' : wire'[k].inline /\ wire'[k].name = n
               PROVE  Settled(n)'
    BY <1>2, <1>8 DEF SettledOrComing
  <2>1. \A k \in DOMAIN wire : k # 1 => ~ (wire[k].inline /\ wire[k].name = n)
    BY <1>4
  <2>2. \A k \in DOMAIN wire : ~ (wire[k].inline /\ wire[k].name = n)
    BY <1>7, <2>1
  <2>3. Settled(n)
    BY <2>2 DEF SettledOrComing
  <2>4. bound[n] # p.id /\ bound[n] \in NameIds
    BY <1>9 DEF Injective, CacheTypeOK
  <2>5. bound[n] < p.id \/ ~ p.inline
    <3> SUFFICES ASSUME p.inline, bound[n] > p.id PROVE FALSE
      BY <1>9, <2>4 DEF NameIds, StringCacheAssumption
    <3> QED BY <1>1, <1>7, <2>2 DEF HigherIdsComeLater
  <2> QED BY <1>8, <2>3, <2>5
<1> QED BY <1>5, <1>6, <1>8, <1>10

LEMMA QuietHolds ==
  ASSUME StringCacheAssumption, EnoughIds
  PROVE  CacheSpec => []QuietInv
<1>1. CacheInit => QuietInv
  <2> SUFFICES ASSUME CacheInit PROVE QuietInv
    OBVIOUS
  <2>1. CacheInv
    BY InitHolds
  <2>2. Orderly
    BY DEF CacheInit, NothingShown, Orderly, NameGoesFirst, HigherIdsComeLater, SettledOrComing, NamesAreShown
  <2> QED BY <2>1, <2>2 DEF QuietInv
<1>2. CacheInv /\ CacheInv' /\ QuietInv /\ [CacheNext]_cacheVars => QuietInv'
  <2> SUFFICES ASSUME CacheInv, CacheInv', QuietInv, [CacheNext]_cacheVars, ~ disturbed' PROVE Orderly'
    BY DEF QuietInv
  <2>1. ~ disturbed
    BY DEF CacheNext, Send, Receive, Lose, Reconnect, cacheVars
  <2>2. Orderly
    BY <2>1 DEF QuietInv
  <2>3. ASSUME NEW n \in Names, Send(n) PROVE Orderly'
    BY <2>1, <2>2, <2>3, SendQuiet
  <2>4. ASSUME NEW i \in DOMAIN wire, Receive(i) PROVE Orderly'
    BY <2>2, <2>4, ReceiveQuiet
  <2>5. ASSUME NEW i \in DOMAIN wire, Lose(i) PROVE FALSE
    BY <2>5 DEF Lose
  <2>6. CASE Reconnect
    BY <2>6 DEF Reconnect, NothingShown, Orderly, NameGoesFirst, HigherIdsComeLater, SettledOrComing,
                NamesAreShown
  <2>7. CASE UNCHANGED cacheVars
    BY <2>2, <2>7 DEF cacheVars, Orderly, NameGoesFirst, HigherIdsComeLater, SettledOrComing, NamesAreShown,
                      Settled, Lookup, Entry
  <2> QED BY <2>3, <2>4, <2>5, <2>6, <2>7 DEF CacheNext
<1> QED BY <1>1, <1>2, InvariantHolds, PTL DEF CacheSpec

\* On a quiet network, where the server's sends are taken and arrive once each and
\* in order, the client shows every name the server means, unless an earlier
\* connection left another under its id (CachedString::intern and resolve).
THEOREM QuietNamesAreShown ==
  ASSUME StringCacheAssumption, EnoughIds
  PROVE  CacheSpec => []NamesAreShown
<1>1. QuietInv => NamesAreShown
  BY DEF QuietInv, Orderly, NamesAreShown
<1> QED BY <1>1, QuietHolds, PTL

-----------------------------------------------------------------------------
(* The cell view. *)

\* Only what is registered has a simulating player.
OwnedIsRegistered == \A x \in Ids : owner[x] # Nobody => cellOf[x] # None

\* A settled thing was announced, so it is registered and not a container.
SettledHasCell == \A t \in settled : HasCell(t)

ViewInv ==
  /\ TypeOK
  /\ OwnedIsRegistered
  /\ SettledHasCell
  /\ PlacedIsListed
  /\ ListedIsRegistered
  /\ SettledIsKnown
  /\ SelfIsKnown

USE DEF registry, clients, vars, Ids, Kinds, Registered, HasCell, Listed,
        InSomeCell, Owned

\* What a removal leaves of the registry, if those told of it are told of
\* nothing else and the removed thing is no longer settled.
LEMMA RemoveKeeps ==
  ASSUME CellViewAssumption, ViewInv, NEW x \in Ids, Remove(x), settled' = settled \ {x},
         UNCHANGED <<sessions, centre, context>>,
         known' \in [Players -> SUBSET Ids],
         \A p \in Players : known[p] \ {x} \subseteq known'[p]
  PROVE  ViewInv'
<1> USE DEF CellViewAssumption
<1>1. CASE cellOf[x] = None
  BY <1>1 DEF Remove, ViewInv, TypeOK, OwnedIsRegistered, SettledHasCell,
     PlacedIsListed, ListedIsRegistered, SettledIsKnown, SelfIsKnown
<1>2. CASE cellOf[x] # None
  <2>1. /\ cellOf' = [cellOf EXCEPT ![x] = None]
        /\ kind' = kind
        /\ deleted' = deleted \cup {x}
        /\ refs' = {r \in refs : r[2] # x}
        /\ owner' = [owner EXCEPT ![x] = Nobody]
    BY <1>2 DEF Remove
  <2>2. TypeOK'
    BY <2>1 DEF ViewInv, TypeOK
  <2>3. OwnedIsRegistered'
    BY <2>1 DEF ViewInv, TypeOK, OwnedIsRegistered
  <2>4. SettledHasCell' /\ SettledIsKnown' /\ SelfIsKnown'
    BY <2>1 DEF ViewInv, TypeOK, SettledHasCell, SettledIsKnown, SelfIsKnown
  <2>5. PlacedIsListed' /\ ListedIsRegistered'
    BY <2>1 DEF ViewInv, TypeOK, PlacedIsListed, ListedIsRegistered
  <2> QED BY <2>2, <2>3, <2>4, <2>5 DEF ViewInv
<1> QED BY <1>1, <1>2

LEMMA InitEstablishes ==
  ASSUME CellViewAssumption
  PROVE  Init => ViewInv
  BY DEF CellViewAssumption, Init, ViewInv, TypeOK, OwnedIsRegistered, SettledHasCell,
      PlacedIsListed, ListedIsRegistered, SettledIsKnown, SelfIsKnown

LEMMA JoinKeeps ==
  ASSUME CellViewAssumption, ViewInv, NEW p \in Players, NEW c \in Cells, Join(p, c)
  PROVE  ViewInv'
<1> USE DEF CellViewAssumption, ViewInv
<1>1. TypeOK'
  BY DEF Join, TypeOK
<1>2. OwnedIsRegistered' /\ SettledHasCell' /\ PlacedIsListed'
  BY DEF Join, TypeOK, OwnedIsRegistered, SettledHasCell, PlacedIsListed
<1>3. ListedIsRegistered' /\ SelfIsKnown'
  BY DEF Join, TypeOK, ListedIsRegistered, SelfIsKnown
<1>4. SettledIsKnown'
  BY DEF Join, TypeOK, SettledHasCell, PlacedIsListed, SettledIsKnown
<1> QED BY <1>1, <1>2, <1>3, <1>4

LEMMA DisconnectKeeps ==
  ASSUME CellViewAssumption, ViewInv, NEW p \in Players, Disconnect(p)
  PROVE  ViewInv'
<1> USE DEF CellViewAssumption, ViewInv
<1>1. TypeOK'
  BY DEF Disconnect, TypeOK
<1>2. OwnedIsRegistered' /\ SettledHasCell' /\ SelfIsKnown'
  BY DEF Disconnect, TypeOK, OwnedIsRegistered, SettledHasCell, SelfIsKnown
<1>3. PlacedIsListed' /\ ListedIsRegistered'
  BY DEF Disconnect, TypeOK, PlacedIsListed, ListedIsRegistered
<1>4. SettledIsKnown'
  BY DEF Disconnect, TypeOK, SettledIsKnown
<1> QED BY <1>1, <1>2, <1>3, <1>4

\* An id is put in a cell as an object or an actor, listed there, and
\* announced to everybody.
LEMMA PlacingKeeps ==
  ASSUME CellViewAssumption, ViewInv, NEW p \in sessions, NEW x \in Ids, NEW c \in Cells,
         NEW as \in {"object", "actor"}, x \notin deleted,
         Register(x, as, c),
         refs' = refs \cup {<<c, x>>},
         owner' \in [Ids -> Players \cup {Nobody}],
         \A u \in Ids \ {x} : owner'[u] = owner[u],
         Announce(x, p), settled' = settled \cup ({x} \cap Things),
         UNCHANGED <<deleted, sessions, centre, context>>
  PROVE  ViewInv'
<1> USE DEF CellViewAssumption, ViewInv, Register
<1>0. cellOf' \in [Ids -> Cells \cup {None}] /\ kind' \in [Ids -> Kinds]
  <2>1. as \in Kinds
    OBVIOUS
  <2> HIDE DEF Kinds
  <2> QED BY <2>1 DEF TypeOK
<1>1. TypeOK'
  <2> HIDE DEF Kinds, Register
  <2>1. cellOf'[x] = c /\ \A u \in Ids \ {x} : cellOf'[u] = cellOf[u]
    BY DEF Register, TypeOK
  <2> QED BY <1>0, <2>1 DEF Announce, TypeOK
<1>2. OwnedIsRegistered' /\ SettledHasCell' /\ SelfIsKnown'
  BY DEF Announce, TypeOK, OwnedIsRegistered, SettledHasCell, SelfIsKnown
<1>3. PlacedIsListed' /\ ListedIsRegistered'
  BY DEF TypeOK, PlacedIsListed, ListedIsRegistered
<1>4. SettledIsKnown'
  BY DEF Announce, TypeOK, SettledIsKnown
<1> QED BY <1>1, <1>2, <1>3, <1>4

LEMMA ContainerNewKeeps ==
  ASSUME CellViewAssumption, ViewInv, NEW p \in Players, NEW x \in Ids, ContainerNew(p, x)
  PROVE  ViewInv'
<1> USE DEF CellViewAssumption, ViewInv, Register
<1>1. TypeOK'
  BY DEF ContainerNew, Announce, TypeOK
<1>2. OwnedIsRegistered' /\ SettledHasCell' /\ SelfIsKnown'
  BY DEF ContainerNew, Announce, TypeOK, OwnedIsRegistered, SettledHasCell, SelfIsKnown
<1>3. PlacedIsListed' /\ ListedIsRegistered'
  BY DEF ContainerNew, TypeOK, PlacedIsListed, ListedIsRegistered
<1>4. SettledIsKnown'
  BY DEF ContainerNew, Announce, TypeOK, SettledIsKnown, SettledHasCell
<1> QED BY <1>1, <1>2, <1>3, <1>4

LEMMA ClaimKeeps ==
  ASSUME CellViewAssumption, ViewInv, NEW p \in Players, NEW x \in Ids, Claim(p, x)
  PROVE  ViewInv'
  BY DEF CellViewAssumption, Claim, ViewInv, TypeOK, OwnedIsRegistered, SettledHasCell,
      PlacedIsListed, ListedIsRegistered, SettledIsKnown, SelfIsKnown

\* What has an owner is registered, so an entry is made for a thing that is
\* there; only a player that was removed is listed without being there.
LEMMA UpdateCellKeeps ==
  ASSUME CellViewAssumption, ViewInv, NEW p \in Players, NEW x \in Ids, NEW c \in Cells, UpdateCell(p, x, c)
  PROVE  ViewInv'
<1> USE DEF CellViewAssumption, ViewInv
<1>1. x \in Things => cellOf[x] # None
  BY DEF UpdateCell, OwnedIsRegistered
<1>2. TypeOK'
  BY DEF UpdateCell, TypeOK
<1>3. OwnedIsRegistered' /\ SettledHasCell' /\ SelfIsKnown'
  BY DEF UpdateCell, TypeOK, OwnedIsRegistered, SettledHasCell, SelfIsKnown
<1>4. PlacedIsListed' /\ ListedIsRegistered'
  BY <1>1 DEF UpdateCell, TypeOK, PlacedIsListed, ListedIsRegistered
<1>5. SettledIsKnown'
  BY DEF UpdateCell, TypeOK, SettledIsKnown
<1> QED BY <1>2, <1>3, <1>4, <1>5

LEMMA UpdateContextKeeps ==
  ASSUME CellViewAssumption, ViewInv, NEW p \in Players, NEW c \in Cells, UpdateContext(p, c)
  PROVE  ViewInv'
<1> USE DEF CellViewAssumption, ViewInv
<1> DEFINE cells == Neighbours[c]
           enter == cells \ context[p]
           leave == context[p] \ cells
           stay(x) == HasCell(x) /\ cellOf'[x] \in cells
<1>1. /\ p \in sessions
      /\ cellOf' = PlayerCell(p, c)
      /\ centre' = [centre EXCEPT ![p] = c]
      /\ context' = [context EXCEPT ![p] = cells]
      /\ known' = [known EXCEPT ![p] =
                     (known[p] \cup ((InSomeCell(enter) \cap Registered) \ {p}))
                     \ {x \in InSomeCell(leave) : ~stay(x)}]
      /\ UNCHANGED <<kind, deleted, refs, owner, sessions, settled>>
  BY DEF UpdateContext
<1>2. /\ cellOf' \in [Ids -> Cells \cup {None}]
      /\ \A x \in Ids : cellOf'[x] = None <=> cellOf[x] = None
      /\ \A x \in Ids \ {p} : cellOf'[x] = cellOf[x]
      /\ cellOf[p] # None /\ kind[p] = "player" => cellOf'[p] = c
  BY <1>1 DEF PlayerCell, TypeOK
<1>3. TypeOK'
  BY <1>1, <1>2 DEF TypeOK
<1>4. OwnedIsRegistered' /\ SettledHasCell'
  BY <1>1, <1>2 DEF TypeOK, OwnedIsRegistered, SettledHasCell
<1>5. PlacedIsListed' /\ ListedIsRegistered'
  BY <1>1, <1>2 DEF TypeOK, PlacedIsListed, ListedIsRegistered
<1>6. \A q \in Players \ {p} : known'[q] = known[q] /\ context'[q] = context[q]
  BY <1>1 DEF TypeOK
<1>7. \A x \in Ids : stay(x) /\ (x \in known[p] \/ (x # p /\ x \in InSomeCell(enter) \cap Registered))
                       => x \in known'[p]
  BY <1>1 DEF TypeOK
<1>8. cellOf[p] # None /\ kind[p] = "player" => stay(p)
  BY <1>2
<1>9. SelfIsKnown'
  BY <1>1, <1>2, <1>6, <1>7, <1>8 DEF SelfIsKnown, TypeOK
<1>10. ASSUME NEW t \in settled, cellOf'[t] \in context'[p]
       PROVE  t \in known'[p]
  <2>1. t \in Things /\ t # p /\ cellOf'[t] = cellOf[t] /\ HasCell(t) /\ context'[p] = cells
    BY <1>1, <1>2 DEF TypeOK, SettledHasCell
  <2>2. stay(t) /\ Listed(cellOf[t], t) /\ t \in Registered
    BY <2>1, <1>10 DEF PlacedIsListed
  <2>3. CASE cellOf[t] \in context[p]
    BY <2>1, <2>2, <2>3, <1>7, <1>1 DEF SettledIsKnown
  <2>4. CASE cellOf[t] \notin context[p]
    BY <2>1, <2>2, <2>4, <1>7, <1>10 DEF TypeOK
  <2> QED BY <2>3, <2>4
<1>11. ASSUME NEW q \in sessions \ {p}, NEW t \in settled, cellOf'[t] \in context'[q]
       PROVE  t \in known'[q]
  <2>1. q \in Players \ {p} /\ cellOf'[t] = cellOf[t]
    BY <1>1, <1>2 DEF TypeOK
  <2> QED BY <1>6, <1>11, <2>1 DEF SettledIsKnown
<1>12. SettledIsKnown'
  <2> HIDE DEF ViewInv, cells
  <2>1. sessions' = sessions /\ settled' = settled
    BY <1>1
  <2> QED BY <2>1, <1>10, <1>11 DEF SettledIsKnown
<1> QED BY <1>3, <1>4, <1>5, <1>9, <1>12

LEMMA ScriptCreateKeeps ==
  ASSUME CellViewAssumption, ViewInv, NEW t \in Things, NEW as \in {"object", "actor"}, NEW c \in Cells,
         ScriptCreate(t, as, c)
  PROVE  ViewInv'
<1> USE DEF CellViewAssumption, ViewInv, Register
<1>1. TypeOK'
  <2>1. as \in Kinds
    OBVIOUS
  <2> HIDE DEF Kinds
  <2>2. cellOf' \in [Ids -> Cells \cup {None}] /\ kind' \in [Ids -> Kinds]
    BY <2>1 DEF ScriptCreate, TypeOK
  <2>3. cellOf'[t] = c /\ \A u \in Ids \ {t} : cellOf'[u] = cellOf[u]
    BY DEF ScriptCreate, TypeOK
  <2> HIDE DEF Register
  <2> QED BY <2>2, <2>3 DEF ScriptCreate, TypeOK
<1>2. OwnedIsRegistered' /\ SettledHasCell' /\ SelfIsKnown'
  BY DEF ScriptCreate, TypeOK, OwnedIsRegistered, SettledHasCell, SelfIsKnown
<1>3. PlacedIsListed' /\ ListedIsRegistered'
  BY DEF ScriptCreate, TypeOK, PlacedIsListed, ListedIsRegistered
<1>4. SettledIsKnown'
  BY DEF ScriptCreate, TypeOK, SettledIsKnown, SettledHasCell
<1> QED BY <1>1, <1>2, <1>3, <1>4

LEMMA StepKeeps ==
  ASSUME CellViewAssumption
  PROVE  ViewInv /\ [Next]_vars => ViewInv'
<1> SUFFICES ASSUME ViewInv, [Next]_vars PROVE ViewInv'
  OBVIOUS
<1> USE DEF Named
<1>1. CASE UNCHANGED vars
  BY <1>1 DEF ViewInv, TypeOK, OwnedIsRegistered, SettledHasCell,
     PlacedIsListed, ListedIsRegistered, SettledIsKnown, SelfIsKnown
<1>2. ASSUME NEW p \in Players, NEW x \in Ids, NEW c \in Cells, ObjectNew(p, x, c)
      PROVE  ViewInv'
  <2>1. p \in sessions /\ owner' \in [Ids -> Players \cup {Nobody}]
    BY <1>2 DEF ObjectNew, ViewInv, TypeOK
  <2> QED BY <1>2, <2>1, PlacingKeeps DEF ObjectNew
<1>3. ASSUME NEW p \in Players, NEW x \in Ids, ActorNew(p, x)
      PROVE  ViewInv'
  <2>1. /\ p \in sessions /\ centre[p] \in Cells
        /\ owner' \in [Ids -> Players \cup {Nobody}]
        /\ \A u \in Ids \ {x} : owner'[u] = owner[u]
    BY <1>3 DEF ActorNew, ViewInv, TypeOK
  <2> QED BY <1>3, <2>1, PlacingKeeps DEF ActorNew
<1>4. ASSUME NEW p \in Players, NEW x \in Ids, NEW silent \in BOOLEAN,
             ObjectRemove(p, x, silent)
      PROVE  ViewInv'
  <2>1. /\ known' \in [Players -> SUBSET Ids]
        /\ \A q \in Players : known[q] \ {x} \subseteq known'[q]
    BY <1>4 DEF ObjectRemove, Retract, ViewInv, TypeOK
  <2> QED BY <1>4, <2>1, RemoveKeeps DEF ObjectRemove
<1>5. ASSUME NEW x \in Ids, ScriptDestroy(x) PROVE ViewInv'
  <2>1. /\ known' \in [Players -> SUBSET Ids]
        /\ \A q \in Players : known[q] \ {x} \subseteq known'[q]
    BY <1>5 DEF ScriptDestroy, ViewInv, TypeOK
  <2> QED BY <1>5, <2>1, RemoveKeeps DEF ScriptDestroy
<1>6. ASSUME ScriptNext PROVE ViewInv'
  BY <1>5, <1>6, ScriptCreateKeeps DEF ScriptNext
<1> QED
  BY <1>1, <1>2, <1>3, <1>4, <1>6, JoinKeeps, DisconnectKeeps, ContainerNewKeeps,
     ClaimKeeps, UpdateCellKeeps, UpdateContextKeeps
  DEF Next, ClientNext

THEOREM ViewInvariance ==
  ASSUME CellViewAssumption
  PROVE  Spec => []ViewInv
  BY InitEstablishes, StepKeeps, PTL DEF Spec

\* Every variable of the cell view keeps to its values, and a removed id is
\* never registered again (handle_object_new and its kin, is_deleted).
THEOREM TypeCorrect ==
  ASSUME CellViewAssumption
  PROVE  Spec => []TypeOK
<1>1. ViewInv => TypeOK
  BY DEF ViewInv
<1> QED BY <1>1, ViewInvariance, PTL

\* The cell of a thing and the list of that cell agree (add_to_cell).
THEOREM PlacedThingsAreListed ==
  ASSUME CellViewAssumption
  PROVE  Spec => []PlacedIsListed
<1>1. ViewInv => PlacedIsListed
  BY DEF ViewInv
<1> QED BY <1>1, ViewInvariance, PTL

\* No list holds a thing that was removed (ObjectRegistry::remove).
THEOREM ListsHoldNoRemovedThing ==
  ASSUME CellViewAssumption
  PROVE  Spec => []ListedIsRegistered
<1>1. ViewInv => ListedIsRegistered
  BY DEF ViewInv
<1> QED BY <1>1, ViewInvariance, PTL

\* A thing that was announced and has not changed cell is known to every
\* client around it, however contexts overlap (handle_update_context).
THEOREM SettledThingsAreKnown ==
  ASSUME CellViewAssumption
  PROVE  Spec => []SettledIsKnown
<1>1. ViewInv => SettledIsKnown
  BY DEF ViewInv
<1> QED BY <1>1, ViewInvariance, PTL

\* A client whose player object is still its own is never told that it left
\* its sight (handle_update_context).  Any client may remove the object or
\* report something else under its id, and then nothing is promised.
THEOREM PlayersKnowThemselves ==
  ASSUME CellViewAssumption
  PROVE  Spec => []SelfIsKnown
<1>1. ViewInv => SelfIsKnown
  BY DEF ViewInv
<1> QED BY <1>1, ViewInvariance, PTL
=============================================================================
