----------------------------- MODULE GameProofs -----------------------------
(***************************************************************************)
(* Proofs about one actor of the game.                                     *)
(*                                                                         *)
(* Who simulates it: of the actor registry, then of the coop loop around   *)
(* it, for any number of addresses, players, NPCs and packets on their     *)
(* way.  The server's part of every step of the loop is a step of the      *)
(* registry, so what is proved there holds in the loop too.                *)
(*                                                                         *)
(* Of the bridge's commands to it: that every attribute the server speaks  *)
(* of reads what it said last, for any entities, points, scales and cells, *)
(* in each build, with the engine at work between any two accesses.        *)
(*                                                                         *)
(* Of the bridge's hooks: that no byte of the code is written twice, no    *)
(* instruction in part, and that the thunk leads back to the site that     *)
(* jumped to it, however often the plugin is loaded.  The leaves about     *)
(* addresses name the solver they are for: the other writes numbers in     *)
(* unary.                                                                  *)
(***************************************************************************)
EXTENDS CoopLoop, EngineAccess, HookInstall, FiniteSetTheorems, SequenceTheorems, TLAPS

(***************************************************************************)
(* The actor registry.                                                     *)
(***************************************************************************)

\* No client falls silent and none authenticates twice: sessions end in
\* Disconnect only.
SessionsEndInDisconnect == ~ CanCull /\ ~ CanReauth

-----------------------------------------------------------------------------
(* The inductive invariant. *)

\* Player ids that are not handed out yet are nobody's.
IdsAreFresh ==
  /\ \A a \in Connected : sessions[a] < next_id
  /\ \A p \in players : p < next_id

\* A removed actor is out of the registry.
DeletedIsAbsent == objects \cap deleted = {}

\* What only Disconnect keeps true.
Accounted == SessionsEndInDisconnect => OwnerIsInGame /\ PlayersHaveSessions

IInv == RegistryTypeOK /\ DistinctPlayers /\ IdsAreFresh /\ OwnedIsPresent /\ DeletedIsAbsent /\ Accounted

LEMMA InitIInv == RegistryInit => IInv
BY RegistryAssumption
   DEF RegistryInit, IInv, RegistryTypeOK, DistinctPlayers, IdsAreFresh, OwnedIsPresent, DeletedIsAbsent, Accounted,
       OwnerIsInGame, PlayersHaveSessions, Connected, InGame, RegistryAssumption, Pids

\* What a session change does to the players in the game.
LEMMA AuthInGame ==
  ASSUME IInv, NEW a \in Addrs, Auth(a)
  PROVE  /\ next_id \in Pids /\ next_id # Nobody
         /\ Connected' = Connected \cup {a}
         /\ \A b \in Connected' : sessions'[b] = IF b = a THEN next_id ELSE sessions[b]
         /\ a \notin Connected => InGame' = InGame \cup {next_id}
<1>1. /\ next_id \in Pids /\ next_id # Nobody
      /\ sessions' = [sessions EXCEPT ![a] = next_id]
  BY RegistryAssumption DEF Auth, RegistryAssumption
<1>2. \A b \in Addrs : sessions'[b] = IF b = a THEN next_id ELSE sessions[b]
  BY <1>1 DEF IInv, RegistryTypeOK
<1>3. Connected' = Connected \cup {a}
  BY <1>1, <1>2 DEF Connected
<1>4. \A b \in Connected' : sessions'[b] = IF b = a THEN next_id ELSE sessions[b]
  BY <1>2 DEF Connected
<1>5. a \notin Connected => InGame' = InGame \cup {next_id}
  BY <1>3, <1>4 DEF InGame
<1> QED BY <1>1, <1>3, <1>4, <1>5

\* Disconnect and Cull take one player out of the game and no other.
LEMMA LeaveInGame ==
  ASSUME IInv, NEW a \in Connected, sessions' = [sessions EXCEPT ![a] = Nobody]
  PROVE  /\ Connected' = Connected \ {a}
         /\ \A b \in Connected' : sessions'[b] = sessions[b]
         /\ InGame' = InGame \ {sessions[a]}
<1>1. \A b \in Addrs : sessions'[b] = IF b = a THEN Nobody ELSE sessions[b]
  BY DEF IInv, RegistryTypeOK
<1>2. Connected' = Connected \ {a}
  BY <1>1 DEF Connected
<1>3. \A b \in Connected' : sessions'[b] = sessions[b]
  BY <1>1, <1>2 DEF Connected
<1>4. InGame' = InGame \ {sessions[a]}
  BY <1>2, <1>3 DEF InGame, IInv, DistinctPlayers
<1> QED BY <1>2, <1>3, <1>4

-----------------------------------------------------------------------------
(* Every step keeps the invariant. *)

LEMMA AuthIInv ==
  ASSUME IInv, NEW a \in Addrs, Auth(a)
  PROVE  IInv'
<1>1. /\ next_id \in Pids /\ next_id' = next_id + 1
      /\ players' = players \cup {next_id}
      /\ sessions' = [sessions EXCEPT ![a] = next_id]
      /\ UNCHANGED <<objects, deleted, owners, ref_to_id, type_count>>
  BY DEF Auth, actorVars
<1>2. RegistryTypeOK'
  BY <1>1, RegistryAssumption DEF IInv, RegistryTypeOK, RegistryAssumption, Pids
<1>3. DistinctPlayers' /\ IdsAreFresh'
  BY <1>1, <1>2, AuthInGame, RegistryAssumption
  DEF IInv, DistinctPlayers, IdsAreFresh, RegistryTypeOK, RegistryAssumption, Pids, Connected
<1>4. OwnedIsPresent' /\ DeletedIsAbsent'
  BY <1>1 DEF IInv, OwnedIsPresent, DeletedIsAbsent
<1>5. Accounted'
  <2> SUFFICES ASSUME SessionsEndInDisconnect PROVE OwnerIsInGame' /\ PlayersHaveSessions'
    BY DEF Accounted, SessionsEndInDisconnect
  <2>1. InGame' = InGame \cup {next_id}
    BY AuthInGame DEF Auth, SessionsEndInDisconnect
  <2> QED BY <1>1, <2>1 DEF IInv, Accounted, OwnerIsInGame, PlayersHaveSessions
<1> QED BY <1>2, <1>3, <1>4, <1>5 DEF IInv

LEMMA DisconnectIInv ==
  ASSUME IInv, NEW a \in Addrs, Disconnect(a)
  PROVE  IInv'
<1>1. /\ a \in Connected
      /\ owners' = [n \in Npcs |-> IF n \in Released(sessions[a]) THEN Nobody ELSE owners[n]]
      /\ players' = players \ {sessions[a]}
      /\ sessions' = [sessions EXCEPT ![a] = Nobody]
      /\ UNCHANGED <<next_id, objects, deleted, ref_to_id, type_count>>
  BY DEF Disconnect
<1>2. RegistryTypeOK'
  BY <1>1 DEF IInv, RegistryTypeOK
<1>3. DistinctPlayers' /\ IdsAreFresh'
  <2>1. Connected' = Connected \ {a} /\ \A b \in Connected' : sessions'[b] = sessions[b]
    BY <1>1, LeaveInGame
  <2>2. next_id' = next_id /\ players' \subseteq players
    BY <1>1
  <2>3. DistinctPlayers'
    BY <2>1, <2>2 DEF IInv, DistinctPlayers
  <2>4. IdsAreFresh'
    BY <2>1, <2>2 DEF IInv, IdsAreFresh
  <2> QED BY <2>3, <2>4
<1>4. OwnedIsPresent' /\ DeletedIsAbsent'
  BY <1>1 DEF IInv, OwnedIsPresent, DeletedIsAbsent
<1>5. Accounted'
  <2>1. InGame' = InGame \ {sessions[a]}
    BY <1>1, LeaveInGame
  <2>2. ASSUME NEW n \in Npcs, OwnerIsInGame PROVE owners'[n] \in InGame' \cup {Nobody}
    BY <1>1, <2>1, <2>2 DEF OwnerIsInGame, Released
  <2> QED BY <1>1, <2>1, <2>2 DEF IInv, Accounted, OwnerIsInGame, PlayersHaveSessions, SessionsEndInDisconnect
<1> QED BY <1>2, <1>3, <1>4, <1>5 DEF IInv

LEMMA CullIInv ==
  ASSUME IInv, NEW a \in Addrs, Cull(a)
  PROVE  IInv'
<1>1. /\ CanCull /\ a \in Connected
      /\ sessions' = [sessions EXCEPT ![a] = Nobody]
      /\ UNCHANGED <<next_id, players, objects, deleted, owners, ref_to_id, type_count>>
  BY DEF Cull, actorVars
<1>2. RegistryTypeOK'
  BY <1>1 DEF IInv, RegistryTypeOK
<1>3. DistinctPlayers' /\ IdsAreFresh'
  <2>1. Connected' = Connected \ {a} /\ \A b \in Connected' : sessions'[b] = sessions[b]
    BY <1>1, LeaveInGame
  <2>2. next_id' = next_id /\ players' \subseteq players
    BY <1>1
  <2>3. DistinctPlayers'
    BY <2>1, <2>2 DEF IInv, DistinctPlayers
  <2>4. IdsAreFresh'
    BY <2>1, <2>2 DEF IInv, IdsAreFresh
  <2> QED BY <2>3, <2>4
<1>4. OwnedIsPresent' /\ DeletedIsAbsent'
  BY <1>1 DEF IInv, OwnedIsPresent, DeletedIsAbsent
<1>5. Accounted'
  BY <1>1 DEF Accounted, SessionsEndInDisconnect
<1> QED BY <1>2, <1>3, <1>4, <1>5 DEF IInv

\* The handlers of actor packets leave the sessions alone.
LEMMA SameSessions ==
  ASSUME UNCHANGED sessionVars
  PROVE  Connected' = Connected /\ InGame' = InGame
BY DEF sessionVars, Connected, InGame

LEMMA ActorNewIInv ==
  ASSUME IInv, NEW a \in Addrs, NEW r \in Refs, ActorNew(a, r)
  PROVE  IInv'
<1> DEFINE n == EntityId[r]
<1>1. n \in Npcs
  BY RegistryAssumption DEF RegistryAssumption
<1>2. /\ a \in Connected /\ n \notin deleted
      /\ owners' = [owners EXCEPT ![n] = sessions[a]]
      /\ ref_to_id' = [ref_to_id EXCEPT ![r] = n]
      /\ type_count < MaxReports /\ type_count' = type_count + 1
      /\ objects' = objects \cup {n}
      /\ UNCHANGED <<sessions, next_id, players, deleted>>
  BY DEF ActorNew, MayReport, Insert, sessionVars
<1>3. Connected' = Connected /\ InGame' = InGame
  BY SameSessions DEF ActorNew
<1>4. sessions[a] \in Pids /\ sessions[a] \in InGame
  BY <1>2 DEF IInv, RegistryTypeOK, Connected, InGame
<1> HIDE DEF n
<1>5. RegistryTypeOK'
  BY <1>1, <1>2, <1>4, RegistryAssumption DEF IInv, RegistryTypeOK, RegistryAssumption
<1>6. DistinctPlayers' /\ IdsAreFresh'
  BY <1>2, <1>3 DEF IInv, DistinctPlayers, IdsAreFresh
<1>7. OwnedIsPresent' /\ DeletedIsAbsent'
  BY <1>1, <1>2 DEF IInv, RegistryTypeOK, OwnedIsPresent, DeletedIsAbsent
<1>8. Accounted'
  BY <1>1, <1>2, <1>3, <1>4
  DEF IInv, RegistryTypeOK, Accounted, OwnerIsInGame, PlayersHaveSessions, SessionsEndInDisconnect
<1> QED BY <1>5, <1>6, <1>7, <1>8 DEF IInv

LEMMA OwnershipClaimIInv ==
  ASSUME IInv, NEW a \in Addrs, NEW n \in Npcs, OwnershipClaim(a, n)
  PROVE  IInv'
<1>1. /\ a \in Connected /\ n \in objects \ deleted
      /\ owners' = [owners EXCEPT ![n] = sessions[a]]
      /\ UNCHANGED <<sessions, next_id, players, objects, deleted, ref_to_id, type_count>>
  BY DEF OwnershipClaim, MayClaim, sessionVars
<1>2. Connected' = Connected /\ InGame' = InGame
  BY SameSessions DEF OwnershipClaim
<1>3. sessions[a] \in Pids /\ sessions[a] \in InGame
  BY <1>1 DEF IInv, RegistryTypeOK, Connected, InGame
<1>4. RegistryTypeOK'
  BY <1>1, <1>3 DEF IInv, RegistryTypeOK
<1>5. DistinctPlayers' /\ IdsAreFresh'
  BY <1>1, <1>2 DEF IInv, DistinctPlayers, IdsAreFresh
<1>6. OwnedIsPresent' /\ DeletedIsAbsent'
  BY <1>1 DEF IInv, RegistryTypeOK, OwnedIsPresent, DeletedIsAbsent
<1>7. Accounted'
  BY <1>1, <1>2, <1>3
  DEF IInv, RegistryTypeOK, Accounted, OwnerIsInGame, PlayersHaveSessions, SessionsEndInDisconnect
<1> QED BY <1>4, <1>5, <1>6, <1>7 DEF IInv

LEMMA ObjectRemoveIInv ==
  ASSUME IInv, NEW a \in Addrs, NEW n \in Npcs, ObjectRemove(a, n)
  PROVE  IInv'
<1>1. /\ n \in objects /\ objects' = objects \ {n}
      /\ type_count' = IF type_count > 0 THEN type_count - 1 ELSE 0
      /\ deleted' = deleted \cup {n}
      /\ owners' = [owners EXCEPT ![n] = Nobody]
      /\ UNCHANGED <<sessions, next_id, players, ref_to_id>>
  BY DEF ObjectRemove, sessionVars
<1>2. Connected' = Connected /\ InGame' = InGame
  BY SameSessions DEF ObjectRemove
<1>3. RegistryTypeOK'
  BY <1>1, RegistryAssumption DEF IInv, RegistryTypeOK, RegistryAssumption
<1>4. DistinctPlayers' /\ IdsAreFresh'
  BY <1>1, <1>2 DEF IInv, DistinctPlayers, IdsAreFresh
<1>5. OwnedIsPresent' /\ DeletedIsAbsent'
  BY <1>1 DEF IInv, RegistryTypeOK, OwnedIsPresent, DeletedIsAbsent
<1>6. Accounted'
  BY <1>1, <1>2
  DEF IInv, RegistryTypeOK, Accounted, OwnerIsInGame, PlayersHaveSessions, SessionsEndInDisconnect
<1> QED BY <1>3, <1>4, <1>5, <1>6 DEF IInv

LEMMA NextIInv == IInv /\ [RegistryNext]_registryVars => IInv'
<1> SUFFICES ASSUME IInv, [RegistryNext]_registryVars PROVE IInv'
  OBVIOUS
<1>1. CASE \E a \in Addrs : Auth(a) \/ Disconnect(a) \/ Cull(a)
  BY <1>1, AuthIInv, DisconnectIInv, CullIInv
<1>2. CASE \E a \in Addrs, r \in Refs : ActorNew(a, r)
  BY <1>2, ActorNewIInv
<1>3. CASE \E a \in Addrs, n \in Npcs : OwnershipClaim(a, n) \/ ObjectRemove(a, n)
  BY <1>3, OwnershipClaimIInv, ObjectRemoveIInv
<1>4. CASE UNCHANGED registryVars
  <2>1. Connected' = Connected /\ InGame' = InGame
    BY <1>4 DEF registryVars, Connected, InGame
  <2> QED
    BY <1>4, <2>1
    DEF registryVars, IInv, RegistryTypeOK, DistinctPlayers, IdsAreFresh, OwnedIsPresent, DeletedIsAbsent, Accounted,
        OwnerIsInGame, PlayersHaveSessions, SessionsEndInDisconnect
<1> QED BY <1>1, <1>2, <1>3, <1>4 DEF RegistryNext

LEMMA SpecIInv == RegistrySpec => []IInv
<1>1. RegistryInit => IInv
  BY InitIInv
<1>2. IInv /\ [RegistryNext]_registryVars => IInv'
  BY NextIInv
<1> QED BY <1>1, <1>2, PTL DEF RegistrySpec

-----------------------------------------------------------------------------
(* The theorems. *)

\* The variables keep their types.
THEOREM TypeCorrect == RegistrySpec => []RegistryTypeOK
<1>1. IInv => RegistryTypeOK
  BY DEF IInv
<1> QED BY <1>1, SpecIInv, PTL

\* No two addresses share a player (allocate_id hands out each id once), also
\* when sessions are culled or overwritten.
THEOREM PlayersAreDistinct == RegistrySpec => []DistinctPlayers
<1>1. IInv => DistinctPlayers
  BY DEF IInv
<1> QED BY <1>1, SpecIInv, PTL

\* The owners map never outlives the actor, in any history of sessions.
THEOREM OwnersOfPresentActors == RegistrySpec => []OwnedIsPresent
<1>1. IInv => OwnedIsPresent
  BY DEF IInv
<1> QED BY <1>1, SpecIInv, PTL

\* A tombstone is never lifted and a tombstoned actor never comes back.
THEOREM TombstonesAreFinal == RegistrySpec => DeadStayDead
<1>1. ASSUME IInv', [RegistryNext]_registryVars PROVE deleted \subseteq deleted' /\ objects' \cap deleted' = {}
  <2>1. deleted \subseteq deleted'
    BY <1>1
    DEF RegistryNext, registryVars, Auth, Disconnect, Cull, ActorNew, OwnershipClaim, ObjectRemove, Insert,
        sessionVars, actorVars
  <2> QED BY <1>1, <2>1 DEF IInv, DeletedIsAbsent
<1>2. IInv' /\ [RegistryNext]_registryVars => [deleted \subseteq deleted' /\ objects' \cap deleted' = {}]_registryVars
  BY <1>1
<1> QED BY <1>2, SpecIInv, PTL DEF RegistrySpec, DeadStayDead

\* As long as sessions end in Disconnect, every owner is in the game.
THEOREM NoOrphans ==
  ASSUME SessionsEndInDisconnect
  PROVE  RegistrySpec => []OwnerIsInGame
<1>1. IInv => OwnerIsInGame
  BY DEF IInv, Accounted
<1> QED BY <1>1, SpecIInv, PTL

\* A handler's step is a step of the promise or changes nothing it speaks of.
LEMMA StepKeepsPromise ==
  ASSUME SessionsEndInDisconnect, IInv, IInv', [RegistryNext]_registryVars
  PROVE  [Transfer!Next]_(Transfer!vars)
<1> USE DEF Transfer!vars
<1>1. ASSUME NEW a \in Addrs, Auth(a) PROVE Transfer!Next
  <2>1. /\ next_id \in Pids /\ InGame' = InGame \cup {next_id}
        /\ UNCHANGED <<owners, deleted>>
    BY <1>1, AuthInGame DEF Auth, SessionsEndInDisconnect, actorVars
  <2>2. next_id \notin InGame
    BY DEF IInv, IdsAreFresh, InGame, RegistryTypeOK, Pids
  <2> QED BY <2>1, <2>2 DEF Transfer!Next, Transfer!Join
<1>2. ASSUME NEW a \in Addrs, Disconnect(a) PROVE Transfer!Next
  <2>1. /\ a \in Connected /\ sessions[a] \in InGame /\ sessions[a] \in Pids
        /\ InGame' = InGame \ {sessions[a]} /\ UNCHANGED deleted
    BY <1>2, LeaveInGame DEF Disconnect, InGame, Connected, IInv, RegistryTypeOK
  <2>2. owners' = [n \in Npcs |-> IF owners[n] = sessions[a] THEN Nobody ELSE owners[n]]
    BY <1>2 DEF Disconnect, Released
  <2> QED BY <2>1, <2>2 DEF Transfer!Next, Transfer!Leave
<1>3. ASSUME NEW a \in Addrs, Cull(a) PROVE FALSE
  BY <1>3 DEF Cull, SessionsEndInDisconnect
<1>4. ASSUME NEW a \in Addrs, NEW n \in Npcs, a \in Connected, n \notin deleted, owners[n] = Nobody,
             owners' = [owners EXCEPT ![n] = sessions[a]], UNCHANGED <<sessionVars, deleted>>
      PROVE  Transfer!Next
  <2>1. sessions[a] \in InGame /\ sessions[a] \in Pids /\ InGame' = InGame
    BY <1>4, SameSessions DEF InGame, Connected, IInv, RegistryTypeOK
  <2> QED BY <1>4, <2>1 DEF Transfer!Next, Transfer!Grant
<1>5. ASSUME NEW a \in Addrs, NEW r \in Refs, ActorNew(a, r) PROVE Transfer!Next
  <2>1. EntityId[r] \in Npcs
    BY RegistryAssumption DEF RegistryAssumption
  <2> QED BY <1>4, <1>5, <2>1 DEF ActorNew, MayReport
<1>6. ASSUME NEW a \in Addrs, NEW n \in Npcs, OwnershipClaim(a, n) PROVE Transfer!Next
  BY <1>4, <1>6 DEF OwnershipClaim, MayClaim
<1>7. ASSUME NEW a \in Addrs, NEW n \in Npcs, ObjectRemove(a, n) PROVE Transfer!Next
  <2>1. InGame' = InGame
    BY <1>7, SameSessions DEF ObjectRemove
  <2>2. n \notin deleted
    BY <1>7 DEF ObjectRemove, IInv, DeletedIsAbsent
  <2> QED BY <1>7, <2>1, <2>2 DEF ObjectRemove, Transfer!Next, Transfer!Remove
<1>8. CASE UNCHANGED registryVars
  BY <1>8 DEF registryVars, InGame, Connected
<1> QED BY <1>1, <1>2, <1>3, <1>5, <1>6, <1>7, <1>8 DEF RegistryNext

\* As long as sessions end in Disconnect, the registry implements the promise
\* of ownership transfer: one owner at a time, in the game, released on leaving.
THEOREM RegistryKeepsPromise ==
  ASSUME SessionsEndInDisconnect
  PROVE  RegistrySpec => KeepsPromise
<1>1. RegistryInit => Transfer!Init
  BY DEF RegistryInit, Transfer!Init, InGame, Connected
<1>2. IInv /\ IInv' /\ [RegistryNext]_registryVars => [Transfer!Next]_(Transfer!vars)
  BY StepKeepsPromise
<1> QED BY <1>1, <1>2, SpecIInv, PTL DEF RegistrySpec, KeepsPromise, Transfer!Spec

(***************************************************************************)
(* The coop loop.                                                          *)
(***************************************************************************)

-----------------------------------------------------------------------------
(* Helpers: sequences, and the grants among the packets. *)

\* SetToSeq lists a finite set.
LEMMA SetToSeqIsSeq ==
  ASSUME NEW S, IsFiniteSet(S)
  PROVE  SetToSeq(S) \in Seq(S)
<1>1. Cardinality(S) \in Nat
  BY FS_CardinalityType
<1>2. \E f \in [1 .. Cardinality(S) -> S] : IsInjective(f)
  BY FS_CardinalityType DEF ExistsBijection, Bijection, Injection
<1>3. SetToSeq(S) \in [1 .. Cardinality(S) -> S]
  BY <1>2 DEF SetToSeq
<1> QED BY <1>1, <1>3

\* The packets made of events are packets for the server.
LEMMA EventsArePackets ==
  ASSUME NEW s \in Seq(Refs), NEW t \in Seq(Refs)
  PROVE  SpawnPackets(s) \o RemovePackets(t) \in Seq(UpPackets)
<1>1. SpawnPackets(s) \in Seq(UpPackets)
  <2>1. ASSUME NEW i \in 1 .. 2 * Len(s), i % 2 = 1
        PROVE  (i + 1) \div 2 \in 1 .. Len(s)
    BY <2>1
  <2>2. ASSUME NEW i \in 1 .. 2 * Len(s), i % 2 # 1
        PROVE  i \div 2 \in 1 .. Len(s)
    BY <2>2
  <2>3. \A i \in 1 .. 2 * Len(s) : SpawnPackets(s)[i] \in UpPackets
    BY <2>1, <2>2 DEF SpawnPackets, Pkt, UpPackets
  <2>4. DOMAIN SpawnPackets(s) = 1 .. 2 * Len(s) /\ 2 * Len(s) \in Nat
    BY DEF SpawnPackets
  <2> QED BY <2>3, <2>4 DEF SpawnPackets
<1>2. RemovePackets(t) \in Seq(UpPackets)
  <2>1. DOMAIN RemovePackets(t) = 1 .. Len(t)
    BY DEF RemovePackets
  <2>2. \A i \in 1 .. Len(t) : RemovePackets(t)[i] \in UpPackets
    BY DEF RemovePackets, Pkt, UpPackets
  <2> QED BY <2>1, <2>2 DEF RemovePackets
<1> QED BY <1>1, <1>2

\* So are the releases, for a client.
LEMMA ReleasesArePackets ==
  ASSUME NEW s \in Seq(Refs)
  PROVE  /\ ReleasePackets(s) \in Seq(DownPackets)
         /\ \A i \in DOMAIN ReleasePackets(s) : ReleasePackets(s)[i].type # "OwnershipGranted"
<1>1. DOMAIN ReleasePackets(s) = 1 .. Len(s) /\ Len(s) \in Nat
  BY DEF ReleasePackets
<1>2. \A i \in 1 .. Len(s) : /\ ReleasePackets(s)[i] \in DownPackets
                             /\ ReleasePackets(s)[i].type # "OwnershipGranted"
  BY DEF ReleasePackets, Pkt, DownPackets
<1> QED BY <1>1, <1>2 DEF ReleasePackets

\* The NPCs that packets on their way grant.
Grants(s) == {p.ref : p \in {q \in ToSet(s) : q.type = "OwnershipGranted"}}

LEMMA GrantsOfPackets ==
  ASSUME NEW s \in Seq(DownPackets)
  PROVE  Grants(s) \in SUBSET Refs
BY DEF Grants, ToSet, DownPackets

LEMMA GrantsAppend ==
  ASSUME NEW s \in Seq(DownPackets), NEW p \in DownPackets
  PROVE  Grants(Append(s, p)) = Grants(s) \cup (IF p.type = "OwnershipGranted" THEN {p.ref} ELSE {})
<1>1. ToSet(Append(s, p)) = ToSet(s) \cup {p}
  <2> DEFINE u == Append(s, p)
  <2>1. DOMAIN u = DOMAIN s \cup {Len(s) + 1} /\ u[Len(s) + 1] = p
    OBVIOUS
  <2>2. \A i \in DOMAIN s : u[i] = s[i]
    OBVIOUS
  <2> HIDE DEF u
  <2> QED BY <2>1, <2>2 DEF ToSet, u
<1> QED BY <1>1 DEF Grants

LEMMA GrantsConcat ==
  ASSUME NEW s \in Seq(DownPackets), NEW t \in Seq(DownPackets),
         \A i \in DOMAIN t : t[i].type # "OwnershipGranted"
  PROVE  Grants(s \o t) = Grants(s)
<1>1. ToSet(s \o t) = ToSet(s) \cup ToSet(t)
  <2> DEFINE u == s \o t
  <2>1. \A i \in DOMAIN s : i \in DOMAIN u /\ u[i] = s[i]
    OBVIOUS
  <2>2. \A i \in DOMAIN t : i + Len(s) \in DOMAIN u /\ u[i + Len(s)] = t[i]
    OBVIOUS
  <2>3. \A i \in DOMAIN u :
          \/ i \in DOMAIN s /\ u[i] = s[i]
          \/ i - Len(s) \in DOMAIN t /\ u[i] = t[i - Len(s)]
    OBVIOUS
  <2> HIDE DEF u
  <2>4. ToSet(s) \subseteq ToSet(u) /\ ToSet(t) \subseteq ToSet(u)
    BY <2>1, <2>2 DEF ToSet
  <2>5. ToSet(u) \subseteq ToSet(s) \cup ToSet(t)
    BY <2>3 DEF ToSet
  <2> QED BY <2>4, <2>5 DEF u
<1>2. \A q \in ToSet(t) : q.type # "OwnershipGranted"
  BY DEF ToSet
<1> QED BY <1>1, <1>2 DEF Grants

LEMMA GrantsTail ==
  ASSUME NEW s \in Seq(DownPackets), s # <<>>
  PROVE  /\ Head(s) \in DownPackets /\ Tail(s) \in Seq(DownPackets)
         /\ Grants(Tail(s)) \subseteq Grants(s)
         /\ Head(s).type = "OwnershipGranted" => Head(s).ref \in Grants(s)
<1>1. Head(s) \in DownPackets /\ Tail(s) \in Seq(DownPackets)
  OBVIOUS
<1>2. ToSet(Tail(s)) \subseteq ToSet(s)
  <2>1. \A i \in DOMAIN Tail(s) : i + 1 \in DOMAIN s /\ Tail(s)[i] = s[i + 1]
    OBVIOUS
  <2> QED BY <2>1 DEF ToSet
<1>3. Head(s) \in ToSet(s)
  BY DEF ToSet
<1> QED BY <1>1, <1>2, <1>3 DEF Grants

-----------------------------------------------------------------------------
(* The inductive invariant. *)

\* A client that has not connected has no session, simulates nothing, and nothing
\* is on its way to it.
NewcomersKnowNothing ==
  \A a \in Addrs : state[a] = "new" => a \notin Connected /\ owned[a] = {} /\ down[a] = <<>>

CoopIInv ==
  /\ IInv /\ CoopTypeOK /\ NewcomersKnowNothing
  /\ BeliefIsBacked /\ OneSimulator

LEMMA SimulatesIsGranted ==
  ASSUME NEW a
  PROVE  Simulates(a) = owned[a] \cup Grants(down[a])
BY DEF Simulates, Grants

LEMMA InitCoopIInv == CoopInit => CoopIInv
<1> SUFFICES ASSUME CoopInit PROVE CoopIInv
  OBVIOUS
<1>1. IInv
  BY InitIInv DEF CoopInit
<1>2. Connected = {}
  BY DEF CoopInit, RegistryInit, Connected
<1>3. CoopTypeOK
  BY DEF CoopInit, CoopTypeOK
<1> QED BY <1>1, <1>2, <1>3
        DEF CoopInit, CoopIInv, NewcomersKnowNothing, BeliefIsBacked, OneSimulator

-----------------------------------------------------------------------------
(* Types, and the registry's part of a step. *)

\* What a step of the loop does to the packets and to the registry.
LEMMA CoopTypes ==
  ASSUME IInv, CoopTypeOK, [CoopNext]_coopVars
  PROVE  CoopTypeOK' /\ [RegistryNext]_registryVars
<1> USE CoopAssumption, RegistryAssumption DEF CoopTypeOK
<1>1. ASSUME NEW a \in Addrs, Connect(a) PROVE CoopTypeOK' /\ RegistryNext
  <2>1. Pkt("PlayerNew", Nobody) \in DownPackets
    BY DEF Pkt, DownPackets
  <2>2. down' \in [Addrs -> Seq(DownPackets)]
    BY <1>1, <2>1 DEF Connect
  <2>3. state' \in [Addrs -> {"new", "authenticating", "playing", "ended"}]
    BY <1>1 DEF Connect
  <2>4. UNCHANGED <<seen, owned, up>>
    BY <1>1 DEF Connect
  <2>5. RegistryNext
    BY <1>1 DEF Connect, RegistryNext
  <2> QED BY <2>2, <2>3, <2>4, <2>5
<1>2. ASSUME NEW a \in Addrs, NEW observed \in SUBSET Refs, Observe(a, observed)
      PROVE  CoopTypeOK' /\ UNCHANGED registryVars
  <2> DEFINE added   == observed \ seen[a]
             removed == seen[a] \ observed
             batch   == SpawnPackets(SetToSeq(added)) \o RemovePackets(SetToSeq(removed))
  <2>1. added \in SUBSET Refs /\ removed \in SUBSET Refs
    BY DEF CoopTypeOK
  <2>2. IsFiniteSet(added) /\ IsFiniteSet(removed)
    BY <2>1, FS_Subset DEF CoopAssumption
  <2>3. SetToSeq(added) \in Seq(Refs) /\ SetToSeq(removed) \in Seq(Refs)
    BY <2>1, <2>2, SetToSeqIsSeq
  <2>4. batch \in Seq(UpPackets)
    BY <2>3, EventsArePackets
  <2>5. /\ seen' = [seen EXCEPT ![a] = observed]
        /\ up' = [up EXCEPT ![a] = @ \o batch] \/ UNCHANGED up
        /\ UNCHANGED <<registryVars, state, owned, down>>
    BY <1>2 DEF Observe
  <2> HIDE DEF batch
  <2>6. up[a] \o batch \in Seq(UpPackets)
    BY <2>4
  <2>7. up' \in [Addrs -> Seq(UpPackets)]
    BY <2>5, <2>6
  <2>8. seen' \in [Addrs -> SUBSET Refs]
    BY <2>5
  <2> QED BY <2>5, <2>7, <2>8
<1>3. ASSUME NEW a \in Addrs, ClientRecv(a) PROVE CoopTypeOK' /\ UNCHANGED registryVars
  <2>1. Head(down[a]) \in DownPackets /\ Tail(down[a]) \in Seq(DownPackets)
    BY <1>3, GrantsTail DEF ClientRecv
  <2>2. down' \in [Addrs -> Seq(DownPackets)]
    BY <1>3, <2>1 DEF ClientRecv
  <2>3. owned' \in [Addrs -> SUBSET Refs]
    <3> DEFINE p == Head(down[a])
    <3>1. p.type = "OwnershipGranted" => p.ref \in Refs
      BY <2>1 DEF DownPackets
    <3>2. \/ owned' = owned
          \/ owned' = [owned EXCEPT ![a] = @ \cup {p.ref}] /\ p.ref \in Refs
          \/ owned' = [owned EXCEPT ![a] = @ \ {p.ref}]
      BY <1>3, <3>1 DEF ClientRecv
    <3>3. \A S \in SUBSET Refs : [owned EXCEPT ![a] = S] \in [Addrs -> SUBSET Refs]
      OBVIOUS
    <3>4. owned[a] \in SUBSET Refs
      OBVIOUS
    <3> HIDE DEF p
    <3>5. p.ref \in Refs => owned[a] \cup {p.ref} \in SUBSET Refs
      BY <3>4
    <3>6. owned[a] \ {p.ref} \in SUBSET Refs
      BY <3>4
    <3> QED BY <3>2, <3>3, <3>5, <3>6
  <2>4. state' \in [Addrs -> {"new", "authenticating", "playing", "ended"}]
    <3>1. \/ state' = [state EXCEPT ![a] = "playing"]
          \/ state' = [state EXCEPT ![a] = "ended"]
          \/ state' = state
      BY <1>3 DEF ClientRecv
    <3> QED BY <3>1
  <2>5. UNCHANGED <<registryVars, seen, up>>
    BY <1>3 DEF ClientRecv
  <2> QED BY <2>2, <2>3, <2>4, <2>5
<1>4. ASSUME NEW a \in Addrs, ServerRecv(a) PROVE CoopTypeOK' /\ [RegistryNext]_registryVars
  <2> DEFINE p == Head(up[a])
  <2>0. up[a] \in Seq(UpPackets) /\ up[a] # <<>> /\ up' = [up EXCEPT ![a] = Tail(@)]
    BY <1>4 DEF ServerRecv
  <2>1. p \in UpPackets /\ Tail(up[a]) \in Seq(UpPackets)
    BY <2>0
  <2>2. up' \in [Addrs -> Seq(UpPackets)]
    BY <2>0, <2>1
  <2>3. p.ref \in Refs /\ EntityId[p.ref] \in Npcs
    BY <2>1 DEF UpPackets
  <2>4. Pkt("OwnershipGranted", p.ref) \in DownPackets
    BY <2>3 DEF Pkt, DownPackets
  <2>5. p.type = "ObjectRemove" => p \in DownPackets
    BY <2>1 DEF UpPackets, DownPackets
  <2>6. down' \in [Addrs -> Seq(DownPackets)]
    <3>1. \/ Granted(a, p.ref)
          \/ /\ p \in DownPackets
             /\ down' = [b \in Addrs |->
                           IF b \in Connected \ {a} THEN Append(down[b], p) ELSE down[b]]
          \/ down' = down
      BY <1>4, <2>5, <2>1 DEF ServerRecv, UpPackets, ObjectRemove
    <3> HIDE DEF p
    <3>2. CASE Granted(a, p.ref)
      BY <3>2, <2>4 DEF Granted
    <3>3. CASE /\ p \in DownPackets
               /\ down' = [b \in Addrs |->
                             IF b \in Connected \ {a} THEN Append(down[b], p) ELSE down[b]]
      BY <3>3
    <3> QED BY <3>1, <3>2, <3>3
  <2>7. [RegistryNext]_registryVars
    BY <1>4, <2>3 DEF ServerRecv, RegistryNext
  <2>8. UNCHANGED <<state, seen, owned>>
    BY <1>4 DEF ServerRecv
  <2> QED BY <2>2, <2>6, <2>7, <2>8
<1>5. ASSUME NEW a \in Addrs, Kick(a) PROVE CoopTypeOK' /\ RegistryNext
  <2> DEFINE released == {r \in Refs : EntityId[r] \in Released(sessions[a])}
             batch    == ReleasePackets(SetToSeq(released))
  <2>1. batch \in Seq(DownPackets)
    <3>1. released \in SUBSET Refs /\ IsFiniteSet(released)
      BY FS_Subset
    <3> HIDE DEF released
    <3>2. SetToSeq(released) \in Seq(Refs)
      BY <3>1, SetToSeqIsSeq
    <3> QED BY <3>2, ReleasesArePackets
  <2>2. Pkt("GameEnd", Nobody) \in DownPackets
    BY DEF Pkt, DownPackets
  <2>3. down' = [b \in Addrs |->
                   IF b = a THEN Append(down[b], Pkt("GameEnd", Nobody))
                   ELSE IF b \notin Connected THEN down[b] ELSE down[b] \o batch]
    BY <1>5 DEF Kick
  <2> HIDE DEF batch
  <2>4. down' \in [Addrs -> Seq(DownPackets)]
    BY <2>1, <2>2, <2>3
  <2> QED BY <1>5, <2>4 DEF Kick, RegistryNext
<1>6. CASE UNCHANGED coopVars
  BY <1>6 DEF coopVars
<1> QED BY <1>1, <1>2, <1>3, <1>4, <1>5, <1>6 DEF CoopNext

-----------------------------------------------------------------------------
(* The two ways a step touches what clients simulate. *)

LEMMA SimulatesRefs ==
  ASSUME CoopTypeOK, NEW a \in Addrs
  PROVE  Simulates(a) \in SUBSET Refs
BY SimulatesIsGranted, GrantsOfPackets DEF CoopTypeOK

\* Nobody learns of an NPC to simulate: the beliefs stay backed as long as an
\* actor changes hands only by removal or when its player leaves.
LEMMA ShrinkStep ==
  ASSUME CoopTypeOK, BeliefIsBacked, OneSimulator,
         \A b \in Connected' :
           \/ Simulates(b)' = {}
           \/ b \in Connected /\ sessions'[b] = sessions[b] /\ Simulates(b)' \subseteq Simulates(b),
         deleted \subseteq deleted',
         \A n \in Npcs :
           \/ owners'[n] = owners[n] \/ n \in deleted'
           \/ \A b \in Connected' : owners[n] # sessions[b]
  PROVE  BeliefIsBacked' /\ OneSimulator'
<1>1. BeliefIsBacked'
  <2> SUFFICES ASSUME NEW b \in Connected', NEW r \in Simulates(b)'
               PROVE  owners'[EntityId[r]] = sessions'[b] \/ EntityId[r] \in deleted'
    BY DEF BeliefIsBacked
  <2>1. b \in Connected /\ sessions'[b] = sessions[b] /\ r \in Simulates(b)
    OBVIOUS
  <2>2. owners[EntityId[r]] = sessions[b] \/ EntityId[r] \in deleted
    BY <2>1 DEF BeliefIsBacked
  <2>3. EntityId[r] \in Npcs
    BY <2>1, SimulatesRefs, RegistryAssumption DEF Connected, RegistryAssumption
  <2> QED BY <2>1, <2>2, <2>3
<1>2. OneSimulator'
  <2> SUFFICES ASSUME NEW b \in Connected', NEW c \in Connected', b # c
               PROVE  Simulates(b)' \cap Simulates(c)' = {}
    BY DEF OneSimulator
  <2> QED BY DEF OneSimulator
<1> QED BY <1>1, <1>2

\* The server gives an actor that nobody simulates to one player in the game.
LEMMA GrantStep ==
  ASSUME IInv, CoopTypeOK, BeliefIsBacked, OneSimulator, NEW a \in Connected, NEW r \in Refs,
         owners[EntityId[r]] = Nobody, EntityId[r] \notin deleted,
         owners' = [owners EXCEPT ![EntityId[r]] = sessions[a]],
         UNCHANGED <<sessions, deleted>>,
         Simulates(a)' = Simulates(a) \cup {r},
         \A b \in Connected \ {a} : Simulates(b)' = Simulates(b)
  PROVE  BeliefIsBacked' /\ OneSimulator'
<1>1. Connected' = Connected
  BY DEF Connected
<1>2. \A b \in Connected : r \notin Simulates(b)
  BY DEF BeliefIsBacked, Connected
<1>3. \A n \in Npcs : owners'[n] = IF n = EntityId[r] THEN sessions[a] ELSE owners[n]
  BY DEF IInv, RegistryTypeOK
<1>4. \A b \in Connected : \A q \in Simulates(b) :
        EntityId[q] \in Npcs /\ (EntityId[q] \in deleted \/ owners'[EntityId[q]] = sessions[b])
  <2> SUFFICES ASSUME NEW b \in Connected, NEW q \in Simulates(b)
               PROVE  EntityId[q] \in Npcs /\ (EntityId[q] \in deleted \/ owners'[EntityId[q]] = sessions[b])
    OBVIOUS
  <2>1. EntityId[q] \in Npcs
    BY SimulatesRefs, RegistryAssumption DEF Connected, RegistryAssumption
  <2>2. owners[EntityId[q]] = sessions[b] \/ EntityId[q] \in deleted
    BY DEF BeliefIsBacked
  <2>3. sessions[b] # Nobody
    BY DEF Connected
  <2> QED BY <1>3, <2>1, <2>2, <2>3
<1>5. owners'[EntityId[r]] = sessions[a]
  BY <1>3, RegistryAssumption DEF RegistryAssumption
<1>6. BeliefIsBacked'
  <2> SUFFICES ASSUME NEW b \in Connected, NEW q \in Simulates(b)'
               PROVE  owners'[EntityId[q]] = sessions'[b] \/ EntityId[q] \in deleted'
    BY <1>1 DEF BeliefIsBacked
  <2>1. CASE q \in Simulates(b)
    BY <2>1, <1>4
  <2>2. CASE b = a /\ q = r
    BY <2>2, <1>5
  <2> QED BY <2>1, <2>2
<1>7. OneSimulator'
  <2> SUFFICES ASSUME NEW b \in Connected, NEW c \in Connected, b # c
               PROVE  Simulates(b)' \cap Simulates(c)' = {}
    BY <1>1 DEF OneSimulator
  <2>1. Simulates(b) \cap Simulates(c) = {}
    BY DEF OneSimulator
  <2> QED BY <1>2, <2>1
<1> QED BY <1>6, <1>7

-----------------------------------------------------------------------------
(* Every step keeps the invariant. *)

Beliefs == NewcomersKnowNothing /\ BeliefIsBacked /\ OneSimulator

LEMMA ConnectBeliefs ==
  ASSUME CoopIInv, NEW a \in Addrs, Connect(a), CoopTypeOK'
  PROVE  Beliefs'
<1> USE DEF CoopIInv
<1>1. /\ state[a] = "new" /\ a \notin Connected /\ owned[a] = {} /\ down[a] = <<>>
      /\ Auth(a)
      /\ state' = [state EXCEPT ![a] = "authenticating"]
      /\ down' = [down EXCEPT ![a] = Append(@, Pkt("PlayerNew", Nobody))]
      /\ owned' = owned
  BY DEF Connect, NewcomersKnowNothing
<1>2. /\ Connected' = Connected \cup {a}
      /\ \A b \in Connected' : b # a => sessions'[b] = sessions[b]
  BY <1>1, AuthInGame
<1>3. \A b \in Addrs : b # a => down'[b] = down[b] /\ state'[b] = state[b]
  BY <1>1 DEF CoopTypeOK
<1>4. state'[a] = "authenticating" /\ down'[a] = Append(down[a], Pkt("PlayerNew", Nobody))
  BY <1>1 DEF CoopTypeOK
<1>5. Simulates(a)' = {}
  <2>1. Pkt("PlayerNew", Nobody) \in DownPackets /\ Pkt("PlayerNew", Nobody).type # "OwnershipGranted"
    BY DEF Pkt, DownPackets
  <2>2. Grants(down[a]) = {}
    BY <1>1 DEF Grants, ToSet
  <2>3. Grants(down'[a]) = {}
    BY <2>1, <2>2, <1>4, GrantsAppend DEF CoopTypeOK
  <2>4. Simulates(a)' = owned'[a] \cup Grants(down'[a])
    BY DEF Simulates, Grants
  <2> QED BY <2>3, <2>4, <1>1
<1>6. \A b \in Addrs : b # a => Simulates(b)' = Simulates(b)
  BY <1>1, <1>3 DEF Simulates
<1>7. BeliefIsBacked' /\ OneSimulator'
  <2>1. owners' = owners /\ deleted' = deleted
    BY <1>1 DEF Auth, actorVars
  <2>2. \A b \in Connected' :
          \/ Simulates(b)' = {}
          \/ b \in Connected /\ sessions'[b] = sessions[b] /\ Simulates(b)' \subseteq Simulates(b)
    BY <1>2, <1>5, <1>6 DEF Connected
  <2> QED BY <2>1, <2>2, ShrinkStep
<1>8. NewcomersKnowNothing'
  BY <1>1, <1>2, <1>3, <1>4 DEF NewcomersKnowNothing
<1> QED BY <1>7, <1>8 DEF Beliefs

LEMMA ClientRecvBeliefs ==
  ASSUME CoopIInv, NEW a \in Addrs, ClientRecv(a), CoopTypeOK'
  PROVE  Beliefs'
<1> USE DEF CoopIInv
<1> DEFINE p == Head(down[a])
<1>1. /\ down[a] \in Seq(DownPackets) /\ down[a] # <<>>
      /\ down' = [down EXCEPT ![a] = Tail(@)]
      /\ UNCHANGED registryVars
  BY DEF ClientRecv, CoopTypeOK
<1>2. \/ state' = [state EXCEPT ![a] = "playing"] /\ owned' = owned
      \/ state' = [state EXCEPT ![a] = "ended"] /\ owned' = owned
      \/ p.type = "OwnershipGranted" /\ owned' = [owned EXCEPT ![a] = @ \cup {p.ref}] /\ state' = state
      \/ owned' = [owned EXCEPT ![a] = @ \ {p.ref}] /\ state' = state
      \/ state' = state /\ owned' = owned
  BY DEF ClientRecv
<1>3. /\ Grants(Tail(down[a])) \subseteq Grants(down[a])
      /\ p.type = "OwnershipGranted" => p.ref \in Grants(down[a])
  BY <1>1, GrantsTail
<1> HIDE DEF p
<1>4. owned'[a] \subseteq owned[a] \cup Grants(down[a]) /\ \A b \in Addrs : b # a => owned'[b] = owned[b]
  BY <1>2, <1>3 DEF CoopTypeOK
<1>5. down'[a] = Tail(down[a]) /\ \A b \in Addrs : b # a => down'[b] = down[b]
  BY <1>1 DEF CoopTypeOK
<1>6. \A b \in Addrs : Simulates(b)' \subseteq Simulates(b)
  <2>1. \A b \in Addrs : Simulates(b)' = owned'[b] \cup Grants(down'[b])
    BY DEF Simulates, Grants
  <2>2. \A b \in Addrs : Simulates(b) = owned[b] \cup Grants(down[b])
    BY DEF Simulates, Grants
  <2> QED BY <2>1, <2>2, <1>3, <1>4, <1>5
<1>7. BeliefIsBacked' /\ OneSimulator'
  <2>1. Connected' = Connected /\ Connected \subseteq Addrs
    BY <1>1 DEF registryVars, Connected
  <2>2. UNCHANGED <<owners, deleted, sessions>>
    BY <1>1 DEF registryVars
  <2> QED BY <2>1, <2>2, <1>6, ShrinkStep
<1>8. NewcomersKnowNothing'
  <2>1. \A b \in Addrs : state'[b] = "new" => b # a /\ state[b] = "new"
    <3>1. state[a] # "new"
      BY <1>1 DEF NewcomersKnowNothing
    <3> QED BY <3>1, <1>2 DEF CoopTypeOK
  <2>2. Connected' = Connected
    BY <1>1 DEF registryVars, Connected
  <2> QED BY <2>1, <2>2, <1>4, <1>5 DEF NewcomersKnowNothing
<1> QED BY <1>7, <1>8 DEF Beliefs

\* A report or a claim the server accepts: the grant is on its way.
LEMMA GrantedBeliefs ==
  ASSUME CoopIInv, NEW a \in Connected, NEW r \in Refs, Granted(a, r),
         owners[EntityId[r]] = Nobody, EntityId[r] \notin deleted,
         owners' = [owners EXCEPT ![EntityId[r]] = sessions[a]],
         UNCHANGED <<sessions, deleted, state, owned>>
  PROVE  Beliefs'
<1> USE DEF CoopIInv
<1>1. /\ a \in Addrs
      /\ Pkt("OwnershipGranted", r) \in DownPackets
      /\ Pkt("OwnershipGranted", r).type = "OwnershipGranted"
      /\ Pkt("OwnershipGranted", r).ref = r
  BY DEF Connected, Pkt, DownPackets
<1>2. /\ down'[a] = Append(down[a], Pkt("OwnershipGranted", r))
      /\ \A b \in Addrs : b # a => down'[b] = down[b]
  BY <1>1 DEF Granted, CoopTypeOK
<1>3. Grants(down'[a]) = Grants(down[a]) \cup {r}
  BY <1>1, <1>2, GrantsAppend DEF CoopTypeOK
<1>4. /\ Simulates(a)' = Simulates(a) \cup {r}
      /\ \A b \in Connected \ {a} : Simulates(b)' = Simulates(b)
  <2>1. \A b \in Addrs : Simulates(b)' = owned[b] \cup Grants(down'[b])
    BY DEF Simulates, Grants
  <2>2. \A b \in Addrs : Simulates(b) = owned[b] \cup Grants(down[b])
    BY DEF Simulates, Grants
  <2>3. Connected \subseteq Addrs
    BY DEF Connected
  <2> QED BY <2>1, <2>2, <2>3, <1>1, <1>2, <1>3
<1>5. BeliefIsBacked' /\ OneSimulator'
  BY <1>4, GrantStep
<1>6. NewcomersKnowNothing'
  <2>1. Connected' = Connected
    BY DEF Connected
  <2> QED BY <2>1, <1>1, <1>2 DEF NewcomersKnowNothing
<1> QED BY <1>5, <1>6 DEF Beliefs

LEMMA ServerRecvBeliefs ==
  ASSUME CoopIInv, NEW a \in Addrs, ServerRecv(a), CoopTypeOK'
  PROVE  Beliefs'
<1> USE DEF CoopIInv
<1> DEFINE p == Head(up[a])
<1>1. p \in UpPackets /\ p.ref \in Refs
  <2>1. up[a] \in Seq(UpPackets) /\ up[a] # <<>>
    BY DEF ServerRecv, CoopTypeOK
  <2>2. p \in UpPackets
    BY <2>1
  <2> QED BY <2>2 DEF UpPackets
<1>2. UNCHANGED <<state, seen, owned>>
  BY DEF ServerRecv
<1>3. \/ ActorNew(a, p.ref) /\ Granted(a, p.ref)
      \/ OwnershipClaim(a, EntityId[p.ref]) /\ Granted(a, p.ref)
      \/ /\ p.type = "ObjectRemove"
         /\ ObjectRemove(a, EntityId[p.ref])
         /\ down' = [b \in Addrs |-> IF b \in Connected \ {a} THEN Append(down[b], p) ELSE down[b]]
      \/ UNCHANGED <<registryVars, down>>
  BY DEF ServerRecv
<1> HIDE DEF p
<1>4. CASE ActorNew(a, p.ref) /\ Granted(a, p.ref)
  <2>1. /\ a \in Connected /\ owners[EntityId[p.ref]] = Nobody /\ EntityId[p.ref] \notin deleted
        /\ owners' = [owners EXCEPT ![EntityId[p.ref]] = sessions[a]]
        /\ UNCHANGED <<sessions, deleted>>
    BY <1>4 DEF ActorNew, MayReport, sessionVars
  <2> QED BY <2>1, <1>1, <1>2, <1>4, GrantedBeliefs
<1>5. CASE OwnershipClaim(a, EntityId[p.ref]) /\ Granted(a, p.ref)
  <2>1. /\ a \in Connected /\ owners[EntityId[p.ref]] = Nobody /\ EntityId[p.ref] \notin deleted
        /\ owners' = [owners EXCEPT ![EntityId[p.ref]] = sessions[a]]
        /\ UNCHANGED <<sessions, deleted>>
    BY <1>5 DEF OwnershipClaim, MayClaim, sessionVars
  <2> QED BY <2>1, <1>1, <1>2, <1>5, GrantedBeliefs
<1>6. CASE /\ p.type = "ObjectRemove"
           /\ ObjectRemove(a, EntityId[p.ref])
           /\ down' = [b \in Addrs |-> IF b \in Connected \ {a} THEN Append(down[b], p) ELSE down[b]]
  <2>1. /\ deleted' = deleted \cup {EntityId[p.ref]}
        /\ owners' = [owners EXCEPT ![EntityId[p.ref]] = Nobody]
        /\ sessions' = sessions
    BY <1>6 DEF ObjectRemove, sessionVars
  <2>2. \A n \in Npcs : owners'[n] = owners[n] \/ n \in deleted'
    BY <2>1 DEF IInv, RegistryTypeOK
  <2>3. Connected' = Connected /\ Connected \subseteq Addrs
    BY <2>1 DEF Connected
  <2>4. \A b \in Addrs : Grants(down'[b]) = Grants(down[b])
    <3>1. p \in DownPackets /\ p.type # "OwnershipGranted"
      BY <1>6, <1>1 DEF UpPackets, DownPackets
    <3>2. \A b \in Addrs : down[b] \in Seq(DownPackets)
      BY DEF CoopTypeOK
    <3>3. \A b \in Addrs : down'[b] = down[b] \/ down'[b] = Append(down[b], p)
      BY <1>6
    <3> QED BY <3>1, <3>2, <3>3, GrantsAppend
  <2>5. \A b \in Addrs : Simulates(b)' = Simulates(b)
    <3>1. \A b \in Addrs : Simulates(b)' = owned[b] \cup Grants(down'[b])
      BY <1>2 DEF Simulates, Grants
    <3>2. \A b \in Addrs : Simulates(b) = owned[b] \cup Grants(down[b])
      BY DEF Simulates, Grants
    <3> QED BY <3>1, <3>2, <2>4
  <2>6. BeliefIsBacked' /\ OneSimulator'
    BY <2>1, <2>2, <2>3, <2>5, ShrinkStep
  <2>7. NewcomersKnowNothing'
    BY <1>2, <1>6, <2>3 DEF NewcomersKnowNothing
  <2> QED BY <2>6, <2>7 DEF Beliefs
<1>7. CASE UNCHANGED <<registryVars, down>>
  BY <1>2, <1>7 DEF registryVars, Beliefs, NewcomersKnowNothing, BeliefIsBacked, OneSimulator,
                    Connected, Simulates
<1> QED BY <1>3, <1>4, <1>5, <1>6, <1>7

LEMMA KickBeliefs ==
  ASSUME CoopIInv, NEW a \in Addrs, Kick(a), CoopTypeOK'
  PROVE  Beliefs'
<1> USE DEF CoopIInv
<1> DEFINE released == {r \in Refs : EntityId[r] \in Released(sessions[a])}
           batch    == ReleasePackets(SetToSeq(released))
<1>1. /\ a \in Connected
      /\ owners' = [n \in Npcs |-> IF n \in Released(sessions[a]) THEN Nobody ELSE owners[n]]
      /\ sessions' = [sessions EXCEPT ![a] = Nobody]
      /\ deleted' = deleted
      /\ UNCHANGED <<state, owned>>
  BY DEF Kick, Disconnect
<1>2. \A b \in Addrs :
        \/ down'[b] = down[b]
        \/ b = a
        \/ b \in Connected /\ down'[b] = down[b] \o batch
  BY DEF Kick
<1>3. batch \in Seq(DownPackets) /\ \A i \in DOMAIN batch : batch[i].type # "OwnershipGranted"
  <2>1. released \in SUBSET Refs /\ IsFiniteSet(released)
    BY FS_Subset, CoopAssumption DEF CoopAssumption
  <2> HIDE DEF released
  <2>2. SetToSeq(released) \in Seq(Refs)
    BY <2>1, SetToSeqIsSeq
  <2> QED BY <2>2, ReleasesArePackets
<1> HIDE DEF batch
<1>4. Connected' = Connected \ {a} /\ \A b \in Connected' : sessions'[b] = sessions[b]
  BY <1>1, LeaveInGame
<1>5. \A b \in Addrs \ {a} : Simulates(b)' = Simulates(b)
  <2>1. \A b \in Addrs : down[b] \in Seq(DownPackets)
    BY DEF CoopTypeOK
  <2>2. \A b \in Addrs \ {a} : Grants(down'[b]) = Grants(down[b])
    BY <1>2, <1>3, <2>1, GrantsConcat
  <2>3. \A b \in Addrs : Simulates(b)' = owned[b] \cup Grants(down'[b])
    BY <1>1 DEF Simulates, Grants
  <2>4. \A b \in Addrs : Simulates(b) = owned[b] \cup Grants(down[b])
    BY DEF Simulates, Grants
  <2> QED BY <2>2, <2>3, <2>4
<1>6. \A n \in Npcs : owners'[n] = owners[n] \/ \A b \in Connected' : owners[n] # sessions[b]
  <2>1. \A b \in Connected' : sessions[b] # sessions[a]
    BY <1>1, <1>4 DEF IInv, DistinctPlayers
  <2> QED BY <1>1, <2>1 DEF Released
<1>7. BeliefIsBacked' /\ OneSimulator'
  <2>1. Connected \subseteq Addrs
    BY DEF Connected
  <2> QED BY <2>1, <1>1, <1>4, <1>5, <1>6, ShrinkStep
<1>8. NewcomersKnowNothing'
  BY <1>1, <1>2, <1>4 DEF NewcomersKnowNothing
<1> QED BY <1>7, <1>8 DEF Beliefs

LEMMA NextCoopIInv == CoopIInv /\ [CoopNext]_coopVars => CoopIInv'
<1> SUFFICES ASSUME CoopIInv, [CoopNext]_coopVars PROVE CoopIInv'
  OBVIOUS
<1>1. CoopTypeOK' /\ IInv'
  BY CoopTypes, NextIInv DEF CoopIInv
<1>2. Beliefs'
  <2>1. ASSUME NEW a \in Addrs, NEW observed \in SUBSET Refs, Observe(a, observed) PROVE Beliefs'
    BY <2>1 DEF Observe, CoopIInv, registryVars, Beliefs, NewcomersKnowNothing, BeliefIsBacked,
                OneSimulator, Connected, Simulates
  <2>2. CASE UNCHANGED coopVars
    BY <2>2 DEF coopVars, CoopIInv, registryVars, Beliefs, NewcomersKnowNothing, BeliefIsBacked,
                OneSimulator, Connected, Simulates
  <2> QED BY <1>1, <2>1, <2>2, ConnectBeliefs, ClientRecvBeliefs, ServerRecvBeliefs, KickBeliefs
          DEF CoopNext
<1> QED BY <1>1, <1>2 DEF CoopIInv, Beliefs

LEMMA SpecCoopIInv == CoopSpec => []CoopIInv
<1>1. CoopInit => CoopIInv
  BY InitCoopIInv
<1>2. CoopIInv /\ [CoopNext]_coopVars => CoopIInv'
  BY NextCoopIInv
<1> QED BY <1>1, <1>2, PTL DEF CoopSpec

-----------------------------------------------------------------------------
(* Theorems. *)

\* The variables keep their types, however the packets of the clients and of
\* the server interleave (ownership.rs, object.rs, game.rs of the client).
THEOREM CoopTypesHold == CoopSpec => []CoopTypeOK
<1>1. CoopIInv => CoopTypeOK
  BY DEF CoopIInv
<1> QED BY <1>1, SpecCoopIInv, PTL

\* What a client in the game simulates, the server has granted it and given to
\* nobody else since (release_player_owned, handle_ownership_claim and
\* handle_actor_new at the server, owned_actors at the client).
THEOREM BeliefsAreBacked == CoopSpec => []BeliefIsBacked
<1>1. CoopIInv => BeliefIsBacked
  BY DEF CoopIInv
<1> QED BY <1>1, SpecCoopIInv, PTL

\* No NPC is simulated by two clients in the game, grants and releases on their
\* way included.
THEOREM AtMostOneSimulator == CoopSpec => []OneSimulator
<1>1. CoopIInv => OneSimulator
  BY DEF CoopIInv
<1> QED BY <1>1, SpecCoopIInv, PTL

\* What clients and bridges do with their packets is a way the open clients of
\* the registry may act: the loop implements the registry, and what is proved of
\* the registry holds in the loop.
THEOREM CoopImplementsRegistry == CoopSpec => RegistrySpec
<1>1. CoopInit => RegistryInit
  BY DEF CoopInit
<1>2. CoopIInv /\ [CoopNext]_coopVars => [RegistryNext]_registryVars
  BY CoopTypes DEF CoopIInv
<1> QED BY <1>1, <1>2, SpecCoopIInv, PTL DEF CoopSpec, RegistrySpec

\* In the loop an owned NPC is in the registry and not removed
\* (handle_object_remove and the release of its owner).
THEOREM CoopOwnedIsPresent == CoopSpec => []OwnedIsPresent
BY CoopImplementsRegistry, OwnersOfPresentActors, PTL

\* In the loop a removed NPC never comes back (handle_actor_new and its look at
\* the tombstones).
THEOREM CoopDeadStayDead == CoopSpec => DeadStayDead
BY CoopImplementsRegistry, TombstonesAreFinal, PTL

\* As long as sessions end in Disconnect, ownership in the loop moves as
\* OwnershipTransfer promises (release_player_owned on every disconnect).
THEOREM CoopKeepsPromise ==
  ASSUME SessionsEndInDisconnect
  PROVE  CoopSpec => KeepsPromise
<1>1. RegistrySpec => KeepsPromise
  BY RegistryKeepsPromise
<1> QED BY <1>1, CoopImplementsRegistry, PTL

(***************************************************************************)
(* The bridge's commands.                                                  *)
(***************************************************************************)

Orders == UNION {PacketOrders(r) \cup OtherOrders(r) : r \in Ids}

RoutineNames == {"Entries", "Kill", "ProcessDeath", "Fire", "PlaySound"}

\* One access to the object, or one call of the engine.
Accesses ==
  [do : {"write"}, at : Offsets, word : Nat] \cup [do : {"read"}, at : Offsets]
    \cup [do : {"mix"}, at : Offsets, bit : {1, 2}, on : BOOLEAN]
    \cup [do : {"call"}, routine : RoutineNames]

Among(s) == {s[i] : i \in DOMAIN s}

\* The words an attribute is kept in.
FieldOf(a) ==
  CASE a = "pos" -> {PosOffset(i) : i \in 1..3}
    [] a = "angle" -> {AngleOffset(i) : i \in 1..3}
    [] a = "scale" -> {ScaleOffset}     [] a = "lock" -> {LockOffset}
    [] a = "enabled" -> {EnabledOffset} [] a = "cell" -> {ParentCellOffset}
    [] OTHER -> {}

\* What a command is about, and what it says.
About(o) == {e[1] : e \in Effects(o)}
Value(o, a) == (CHOOSE e \in Effects(o) : e[1] = a)[2]

\* The words a command writes.
Writes(o) ==
  CASE o.op = "set_pos" -> {Write(PosOffset(i), o.arg[i]) : i \in 1..3}
    [] o.op = "set_angle" -> {Write(AngleOffset(i), o.arg[i]) : i \in 1..3}
    [] o.op = "set_scale" -> {Write(ScaleOffset, o.arg)}
    [] o.op = "set_cell" -> {Write(ParentCellOffset, o.arg)}
    [] o.op = "move_to" -> {Write(ParentCellOffset, o.arg[1])}
                             \cup {Write(PosOffset(i), o.arg[2][i]) : i \in 1..3}
    [] OTHER -> {}

Routines(o) ==
  CASE o.op = "kill" -> {Call("Kill"), Call("ProcessDeath")}
    [] o.op \in {"fire_weapon", "play_sound"} -> {Call("Fire"), Call("PlaySound")}
    [] o.op = "set_actor_value" -> {Call("Entries")}
    [] OTHER -> {}

EngineTypes ==
  /\ build \in Builds /\ loaded \subseteq Ids
  /\ commands \in Seq(Orders)
  /\ order \in Orders \cup {NoOrder}
  /\ steps \in Seq(Accesses)
  /\ held \in Nat
  /\ mem \in [Ids -> [Offsets -> Nat]]
  /\ dead \in [Ids -> BOOLEAN]
  /\ DOMAIN told = Ids
  /\ spoilt \in [Ids -> SUBSET Attributes]

\* The word of a flag is read, then written back with the flag as it should be.
Mixing(at, bit, on) ==
  steps \in {<<ReadWord(at), Mix(at, bit, on)>>, <<Mix(at, bit, on)>>, <<>>}

\* What is left to do is left of the command, on an object that is there.
StepsFit ==
  /\ order = NoOrder => steps = <<>>
  /\ steps # <<>> => order.ref \in loaded
  /\ order # NoOrder =>
       CASE order.op = "set_lock" -> Mixing(LockOffset, LockBit, order.arg)
         [] order.op = "set_enabled" -> Mixing(EnabledOffset, EnabledBit, ~ order.arg)
         [] OTHER -> Among(steps) \subseteq Writes(order) \cup Routines(order)

\* Attribute a reads what the command says, or will.
Underway(a) ==
  LET r == order.ref
      v == Value(order, a)
  IN  CASE a = "pos" -> \A i \in 1..3 : Write(PosOffset(i), v[i]) \in Among(steps)
                                          \/ mem[r][PosOffset(i)] = v[i]
        [] a = "angle" -> \A i \in 1..3 : Write(AngleOffset(i), v[i]) \in Among(steps)
                                            \/ mem[r][AngleOffset(i)] = v[i]
        [] a = "scale" -> Write(ScaleOffset, v) \in Among(steps) \/ mem[r][ScaleOffset] = v
        [] a = "cell" -> Write(ParentCellOffset, v) \in Among(steps)
                           \/ mem[r][ParentCellOffset] = v
        [] a = "dead" -> Call("Kill") \in Among(steps) \/ dead[r] = v
        [] OTHER -> steps = <<>> => Reading(r, a) = v

IsUnderway(r, a) == order # NoOrder /\ order.ref = r /\ a \in About(order)

Follows(r, a) ==
  told[r][a] # Nothing /\ a \notin spoilt[r] =>
    IF IsUnderway(r, a) THEN told[r][a] = <<Value(order, a)>> /\ Underway(a)
    ELSE told[r][a] = <<Reading(r, a)>>

AllFollow == \A r \in loaded, a \in Attributes \ NotKept : Follows(r, a)

\* What is said of an object that is not there is lost.
GoneIsSpoilt == \A r \in Ids \ loaded, a \in Attributes : told[r][a] = Nothing \/ a \in spoilt[r]

EngineInv == EngineTypes /\ StepsFit /\ AllFollow /\ GoneIsSpoilt

(***************************************************************************)
(* Commands and fields.                                                    *)
(***************************************************************************)

Ops == {"set_pos", "set_angle", "set_actor_value", "kill", "get_activate", "fire_weapon",
        "play_sound", "set_lock", "set_scale", "set_cell", "move_to", "set_enabled",
        "set_name", "stub"}

\* Every command the client sends has the parameters it needs.
LEMMA OrderShape ==
  ASSUME EngineAssumption, NEW o \in Orders
  PROVE  /\ o.op \in Ops /\ o.ref \in Ids /\ o.size >= Needs(o.op)
         /\ o.op \in {"set_pos", "set_angle"} => o.arg \in [1..3 -> Nat]
         /\ o.op \in {"set_scale", "set_cell"} => o.arg \in Nat
         /\ o.op = "move_to" => o.arg[1] \in Nat /\ o.arg[2] \in [1..3 -> Nat]
                                /\ o.arg = <<o.arg[1], o.arg[2]>>
         /\ o.op \in {"set_lock", "set_enabled"} => o.arg \in BOOLEAN
         /\ o.op = "kill" => o.arg = TRUE
<1>1. PICK r \in Ids : o \in PacketOrders(r) \cup OtherOrders(r)
  BY DEF Orders
<1>2. CASE o \in [op : {"set_pos"}, ref : {r}, arg : Points, size : {16}]
  BY <1>2 DEF Ops, Needs, EngineAssumption
<1>3. CASE o \in [op : {"set_angle"}, ref : {r}, arg : {[p EXCEPT ![2] = 0] : p \in Points},
                  size : {16}]
  <2>1. PICK p \in Points : o.arg = [p EXCEPT ![2] = 0]
    BY <1>3
  <2>2. o.arg \in [1..3 -> Nat]
    BY <2>1 DEF EngineAssumption
  <2> QED BY <1>3, <2>2 DEF Ops, Needs
<1>4. CASE o \in [op : {"set_actor_value"}, ref : {r}, arg : {TRUE}, size : {9}]
  <2>1. o.op = "set_actor_value" /\ o.ref = r /\ o.size = 9
    BY <1>4
  <2> QED BY <2>1 DEF Ops, Needs
<1>9. CASE o \in [op : {"kill"}, ref : {r}, arg : {TRUE}, size : {10}]
  <2>1. o.op = "kill" /\ o.ref = r /\ o.size = 10
    BY <1>9
  <2>2. o.arg = TRUE
    BY <1>9, Zenon
  <2> QED BY <2>1, <2>2 DEF Ops, Needs
<1>5. CASE o \in [op : {"fire_weapon", "play_sound"}, ref : {r}, arg : {TRUE}, size : {8}]
  <2>1. o.op \in {"fire_weapon", "play_sound"} /\ o.ref = r /\ o.size = 8
    BY <1>5
  <2> QED BY <2>1 DEF Ops, Needs
<1>10. CASE o \in [op : {"get_activate"}, ref : {r}, arg : {TRUE}, size : {4}]
  <2>1. o.op = "get_activate" /\ o.ref = r /\ o.size = 4
    BY <1>10
  <2> QED BY <2>1 DEF Ops, Needs
<1>12. CASE o \in [op : {"set_name"}, ref : {r}, arg : {TRUE}, size : {6}]
  <2>1. o.op = "set_name" /\ o.ref = r /\ o.size = 6
    BY <1>12 DEF RoutineNames
  <2> QED BY <2>1 DEF Ops, Needs
<1>11. CASE o \in StubOrders(r)
  <2>1. o.op = "stub" /\ o.ref = r /\ o.size = 13
    BY <1>11 DEF StubOrders
  <2> QED BY <2>1 DEF Ops, Needs
<1>6. CASE \/ o \in [op : {"set_lock"}, ref : {r}, arg : BOOLEAN, size : {8}]
           \/ o \in [op : {"set_enabled"}, ref : {r}, arg : BOOLEAN, size : {5}]
  BY <1>6 DEF Ops, Needs
<1>7. CASE \/ o \in [op : {"set_scale"}, ref : {r}, arg : Scales, size : {8}]
           \/ o \in [op : {"set_cell"}, ref : {r}, arg : Cells, size : {8}]
  BY <1>7 DEF Ops, Needs, EngineAssumption
<1>8. CASE o \in [op : {"move_to"}, ref : {r}, arg : Cells \X Points, size : {20}]
  BY <1>8 DEF Ops, Needs, EngineAssumption
<1> QED BY <1>1, <1>2, <1>3, <1>4, <1>5, <1>6, <1>7, <1>8, <1>9, <1>10, <1>11, <1>12
    DEF PacketOrders, OtherOrders

LEMMA NoOrderIsNone == ASSUME EngineAssumption PROVE NoOrder \notin Orders
<1> SUFFICES ASSUME NoOrder \in Orders PROVE FALSE
  OBVIOUS
<1>1. NoOrder.op \in Ops
  BY OrderShape
<1> QED BY <1>1 DEF NoOrder, Ops

\* What each command says of its attributes.
LEMMA WhatIsSaid ==
  ASSUME NEW o
  PROVE  /\ o.op \in {"set_pos", "set_angle", "kill", "set_lock", "set_scale", "set_cell",
                     "set_enabled"} =>
              \A a \in About(o) : Value(o, a) = IF o.op = "kill" THEN TRUE ELSE o.arg
         /\ o.op = "move_to" => Value(o, "cell") = o.arg[1] /\ Value(o, "pos") = o.arg[2]
         /\ About(o) = CASE o.op = "set_pos" -> {"pos"}
                         [] o.op = "set_angle" -> {"angle"}
                         [] o.op = "kill" -> {"dead"}
                         [] o.op = "set_lock" -> {"lock"}
                         [] o.op = "set_scale" -> {"scale"}
                         [] o.op = "set_cell" -> {"cell"}
                         [] o.op = "set_enabled" -> {"enabled"}
                         [] o.op = "move_to" -> {"cell", "pos"}
                         [] OTHER -> {}
<1>1. CASE o.op \in {"set_pos", "set_angle", "kill", "set_lock", "set_scale", "set_cell",
                     "set_enabled"}
  <2> DEFINE what == CASE o.op = "set_pos" -> "pos"
                       [] o.op = "set_angle" -> "angle"
                       [] o.op = "kill" -> "dead"
                       [] o.op = "set_lock" -> "lock"
                       [] o.op = "set_scale" -> "scale"
                       [] o.op = "set_cell" -> "cell"
                       [] o.op = "set_enabled" -> "enabled"
             said == IF o.op = "kill" THEN TRUE ELSE o.arg
  <2>1. Effects(o) = {<<what, said>>}
    BY <1>1, Zenon DEF Effects
  <2> HIDE DEF what, said
  <2>2. About(o) = {what}
    BY <2>1 DEF About
  <2>3. Value(o, what) = said
    <3>1. \A e \in Effects(o) : e = <<what, said>> /\ e[1] = what /\ e[2] = said
      BY <2>1
    <3>2. \E e \in Effects(o) : e[1] = what
      BY <2>1
    <3> QED BY <3>1, <3>2 DEF Value
  <2>4. \A a \in About(o) : Value(o, a) = said
    BY <2>2, <2>3
  <2> QED BY <1>1, <2>2, <2>4, Zenon DEF what, said
<1>2. CASE o.op = "move_to"
  <2>1. Effects(o) = {<<"cell", o.arg[1]>>, <<"pos", o.arg[2]>>}
    BY <1>2 DEF Effects
  <2>2. Value(o, "cell") = o.arg[1] /\ Value(o, "pos") = o.arg[2]
    <3>1. /\ \A e \in Effects(o) : e[1] = "cell" => e = <<"cell", o.arg[1]>>
          /\ \A e \in Effects(o) : e[1] = "pos" => e = <<"pos", o.arg[2]>>
          /\ \E e \in Effects(o) : e[1] = "cell"
          /\ \E e \in Effects(o) : e[1] = "pos"
      BY <2>1
    <3> QED BY <3>1 DEF Value
  <2>3. About(o) = {"cell", "pos"}
    BY <2>1 DEF About
  <2> QED BY <1>2, <2>2, <2>3
<1>3. CASE o.op \notin {"set_pos", "set_angle", "kill", "set_lock", "set_scale", "set_cell",
                        "set_enabled", "move_to"}
  BY <1>3 DEF About, Effects
<1> QED BY <1>1, <1>2, <1>3

\* No two attributes share a word.
LEMMA FieldsApart ==
  ASSUME NEW a \in Attributes, NEW b \in Attributes, a # b
  PROVE  FieldOf(a) \cap FieldOf(b) = {}
BY DEF FieldOf, Attributes, PosOffset, AngleOffset, ScaleOffset, LockOffset, EnabledOffset,
   ParentCellOffset

LEMMA FieldsInObject ==
  /\ \A i \in 1..3 : PosOffset(i) \in Offsets /\ AngleOffset(i) \in Offsets
  /\ ScaleOffset \in Offsets /\ LockOffset \in Offsets /\ EnabledOffset \in Offsets
  /\ ParentCellOffset \in Offsets
  /\ \A i, j \in 1..3 : (PosOffset(i) = PosOffset(j) \/ AngleOffset(i) = AngleOffset(j)) => i = j
BY DEF Offsets, PosOffset, AngleOffset, ScaleOffset, LockOffset, EnabledOffset,
   ParentCellOffset

LEMMA SetsStay ==
  /\ Orders' = Orders /\ NoOrder' = NoOrder
  /\ Accesses' = Accesses /\ Offsets' = Offsets /\ Attributes' = Attributes
BY DEF Orders, PacketOrders, OtherOrders, StubOrders, NoOrder, Accesses, RoutineNames, Offsets,
   Attributes

LEMMA LayoutStays ==
  ASSUME build' = build
  PROVE  /\ NotKept' = NotKept
         /\ ScaleOffset' = ScaleOffset /\ LockOffset' = LockOffset /\ LockBit' = LockBit
         /\ EnabledOffset' = EnabledOffset /\ EnabledBit' = EnabledBit
         /\ ParentCellOffset' = ParentCellOffset
         /\ \A i \in 1..3 : PosOffset(i)' = PosOffset(i) /\ AngleOffset(i)' = AngleOffset(i)
BY DEF NotKept, ScaleOffset, LockOffset, LockBit, EnabledOffset, EnabledBit,
   ParentCellOffset, PosOffset, AngleOffset

LEMMA MeaningStays ==
  ASSUME build' = build, NEW o, order' = o
  PROVE  /\ \A a : Value(order, a)' = Value(o, a)
         /\ About(order)' = About(o)
         /\ Writes(order)' = Writes(o)
         /\ Routines(order)' = Routines(o)
<1>1. Effects(order)' = Effects(o)
  BY DEF Effects
<1>2. Writes(order)' = Writes(o)
  BY LayoutStays DEF Writes, Write
<1> QED BY <1>1, <1>2 DEF About, Value, Routines, Call

LEMMA StepsStay ==
  ASSUME StepsFit, build' = build, order' = order, steps' = steps,
         steps # <<>> => order.ref \in loaded'
  PROVE  StepsFit'
BY SetsStay, LayoutStays, MeaningStays
   DEF StepsFit, Mixing, Among, ReadWord, Mix, Call

\* An attribute reads the same while its words do.
LEMMA ReadingStays ==
  ASSUME NEW r \in Ids, NEW a \in Attributes, build' = build, r \in loaded, r \in loaded',
         \A at \in FieldOf(a) : mem'[r][at] = mem[r][at],
         a = "dead" => dead'[r] = dead[r]
  PROVE  Reading(r, a)' = Reading(r, a)
<1>1. CASE a = "pos"
  BY LayoutStays, <1>1 DEF Reading, FieldOf, GetPos
<1>2. CASE a = "angle"
  BY LayoutStays, <1>2 DEF Reading, FieldOf, GetAngle
<1>3. CASE a = "scale" \/ a = "cell"
  BY LayoutStays, <1>3 DEF Reading, FieldOf, GetScale, GetParentCell
<1>4. CASE a = "lock"
  BY LayoutStays, <1>4 DEF Reading, FieldOf, GetLock
<1>5. CASE a = "enabled"
  BY LayoutStays, <1>5 DEF Reading, FieldOf, GetEnabled
<1>6. CASE a = "dead"
  BY <1>6 DEF Reading, IsDead
<1> QED BY <1>1, <1>2, <1>3, <1>4, <1>5, <1>6 DEF Attributes

LEMMA AmongParts ==
  ASSUME NEW S, NEW s \in Seq(S), s # <<>>
  PROVE  /\ Head(s) \in S /\ Tail(s) \in Seq(S)
         /\ Among(s) = {Head(s)} \cup Among(Tail(s))
<1>1. Len(s) \in Nat /\ Len(s) > 0 /\ DOMAIN s = 1..Len(s) /\ Head(s) = s[1]
  OBVIOUS
<1>2. /\ Tail(s) \in Seq(S) /\ DOMAIN Tail(s) = 1..Len(s) - 1
      /\ \A i \in 1..Len(s) - 1 : Tail(s)[i] = s[i + 1]
  OBVIOUS
<1>3. \A i \in 2..Len(s) : i - 1 \in DOMAIN Tail(s) /\ Tail(s)[i - 1] = s[i]
  BY <1>1, <1>2
<1>4. \A i \in DOMAIN Tail(s) : i + 1 \in DOMAIN s /\ Tail(s)[i] = s[i + 1]
  BY <1>1, <1>2
<1>5. Among(s) \subseteq {Head(s)} \cup Among(Tail(s))
  <2> SUFFICES ASSUME NEW i \in DOMAIN s PROVE s[i] \in {Head(s)} \cup Among(Tail(s))
    BY DEF Among
  <2>1. CASE i = 1
    BY <2>1, <1>1
  <2>2. CASE i # 1
    <3>1. i \in 2..Len(s)
      BY <2>2, <1>1
    <3> QED BY <3>1, <1>3 DEF Among
  <2> QED BY <2>1, <2>2
<1>6. {Head(s)} \cup Among(Tail(s)) \subseteq Among(s)
  BY <1>1, <1>4 DEF Among
<1> QED BY <1>1, <1>2, <1>5, <1>6

LEMMA AmongFew ==
  /\ Among(<<>>) = {}
  /\ \A x : Among(<<x>>) = {x}
  /\ \A x, y : Among(<<x, y>>) = {x, y}
BY DEF Among

LEMMA AmongConcat ==
  ASSUME NEW S, NEW s \in Seq(S), NEW t \in Seq(S)
  PROVE  s \o t \in Seq(S) /\ Among(s \o t) = Among(s) \cup Among(t)
<1> DEFINE q == s \o t
<1>1. /\ q \in Seq(S) /\ Len(q) = Len(s) + Len(t)
      /\ \A i \in 1..Len(s) + Len(t) : q[i] = IF i <= Len(s) THEN s[i] ELSE t[i - Len(s)]
  BY ConcatProperties, Zenon
<1> HIDE DEF q
<1>2. /\ Len(s) \in Nat /\ Len(t) \in Nat
      /\ DOMAIN q = 1..Len(s) + Len(t) /\ DOMAIN s = 1..Len(s) /\ DOMAIN t = 1..Len(t)
  BY <1>1
<1>3. \A i \in DOMAIN q : q[i] \in Among(s) \cup Among(t)
  <2> SUFFICES ASSUME NEW i \in DOMAIN q PROVE q[i] \in Among(s) \cup Among(t)
    OBVIOUS
  <2>1. CASE i <= Len(s)
    BY <2>1, <1>1, <1>2 DEF Among
  <2>2. CASE ~ i <= Len(s)
    <3>1. i - Len(s) \in DOMAIN t /\ q[i] = t[i - Len(s)]
      BY <2>2, <1>1, <1>2
    <3> QED BY <3>1 DEF Among
  <2> QED BY <2>1, <2>2
<1>4. \A i \in DOMAIN s : i \in DOMAIN q /\ q[i] = s[i]
  BY <1>1, <1>2
<1>5. \A i \in DOMAIN t : i + Len(s) \in DOMAIN q /\ q[i + Len(s)] = t[i]
  BY <1>1, <1>2
<1>6. Among(q) = Among(s) \cup Among(t)
  BY <1>3, <1>4, <1>5 DEF Among
<1> QED BY <1>1, <1>6 DEF q

\* What the bridge does for a command is what the command is to write, or to call.
LEMMA ProgramShape ==
  ASSUME EngineAssumption, build \in Builds, NEW o \in Orders
  PROVE  /\ Program(o) \in Seq(Accesses)
         /\ o.op = "set_lock" =>
              Program(o) = <<ReadWord(LockOffset), Mix(LockOffset, LockBit, o.arg)>>
         /\ o.op = "set_enabled" =>
              Program(o) = <<ReadWord(EnabledOffset), Mix(EnabledOffset, EnabledBit, ~ o.arg)>>
         /\ o.op \notin {"set_lock", "set_enabled"} =>
              /\ Among(Program(o)) \subseteq Writes(o) \cup Routines(o)
              /\ Writes(o) \subseteq Among(Program(o))
         /\ o.op = "kill" /\ build # "steam" => Call("Kill") \in Among(Program(o))
<1>a. /\ o.op \in Ops
      /\ o.op \in {"set_pos", "set_angle"} => o.arg \in [1..3 -> Nat]
      /\ o.op \in {"set_scale", "set_cell"} => o.arg \in Nat
      /\ o.op = "move_to" => o.arg[1] \in Nat /\ o.arg[2] \in [1..3 -> Nat]
      /\ o.op \in {"set_lock", "set_enabled"} => o.arg \in BOOLEAN
  BY OrderShape
<1>1. build \in {"gog", "steam"}
  BY DEF EngineAssumption
<1>2. ASSUME NEW p \in [1..3 -> Nat]
      PROVE  /\ SetPos(p) \in Seq(Accesses) /\ Len(SetPos(p)) = 3
             /\ SetAngle(p) \in Seq(Accesses)
             /\ Among(SetPos(p)) = {Write(PosOffset(i), p[i]) : i \in 1..3}
             /\ Among(SetAngle(p)) = {Write(AngleOffset(i), p[i]) : i \in 1..3}
  <2>1. \A i \in 1..3 : /\ Write(PosOffset(i), p[i]) \in Accesses
                        /\ Write(AngleOffset(i), p[i]) \in Accesses
    BY FieldsInObject DEF Write, Accesses
  <2> HIDE DEF Write
  <2> QED BY <2>1 DEF SetPos, SetAngle, Among
<1>3. ASSUME NEW at \in Offsets, NEW w \in Nat
      PROVE  /\ <<Write(at, w)>> \in Seq(Accesses)
             /\ Among(<<Write(at, w)>>) = {Write(at, w)}
  BY AmongFew DEF Write, Accesses
<1>4. CASE o.op = "set_pos"
  <2>1. Program(o) = SetPos(o.arg)
    BY <1>4, Zenon DEF Program
  <2>2. Writes(o) = {Write(PosOffset(i), o.arg[i]) : i \in 1..3}
    BY <1>4, Zenon DEF Writes
  <2> QED BY <1>a, <1>2, <1>4, <2>1, <2>2
<1>5. CASE o.op = "set_angle"
  <2>1. Program(o) = SetAngle(o.arg)
    BY <1>5, Zenon DEF Program
  <2>2. Writes(o) = {Write(AngleOffset(i), o.arg[i]) : i \in 1..3}
    BY <1>5, Zenon DEF Writes
  <2> QED BY <1>a, <1>2, <1>5, <2>1, <2>2
<1>6. CASE o.op = "set_scale"
  BY <1>a, <1>3, <1>6, FieldsInObject DEF Program, Writes, SetScale
<1>7. CASE o.op = "set_cell"
  BY <1>a, <1>3, <1>7, FieldsInObject DEF Program, Writes, SetParentCell
<1>8. CASE o.op = "move_to"
  <2> DEFINE c == SetParentCell(o.arg[1])
             p == SetPos(o.arg[2])
  <2>1. Program(o) = c \o p
    BY <1>8 DEF Program
  <2>2. /\ c \in Seq(Accesses) /\ Len(c) = 1 /\ p \in Seq(Accesses) /\ Len(p) = 3
    BY <1>a, <1>2, <1>3, <1>8, FieldsInObject DEF SetParentCell
  <2>5. /\ Among(c) = {Write(ParentCellOffset, o.arg[1])}
        /\ Among(p) = {Write(PosOffset(i), o.arg[2][i]) : i \in 1..3}
    BY <1>a, <1>2, <1>3, <1>8, FieldsInObject DEF SetParentCell
  <2> HIDE DEF c, p
  <2>3. c \o p \in Seq(Accesses) /\ Among(c \o p) = Among(c) \cup Among(p)
    BY <2>2, AmongConcat
  <2> QED BY <1>8, <2>1, <2>3, <2>5 DEF Writes
<1>9. CASE o.op = "set_lock"
  <2>1. Program(o) = <<ReadWord(LockOffset), Mix(LockOffset, LockBit, o.arg)>>
    BY <1>9, Zenon DEF Program, SetLock
  <2>2. /\ ReadWord(LockOffset) \in Accesses
        /\ Mix(LockOffset, LockBit, o.arg) \in Accesses
    BY <1>a, <1>9, FieldsInObject DEF Accesses, ReadWord, Mix, LockBit
  <2> QED BY <1>9, <2>1, <2>2
<1>10. CASE o.op = "set_enabled"
  <2>1. Program(o) = <<ReadWord(EnabledOffset), Mix(EnabledOffset, EnabledBit, ~ o.arg)>>
    BY <1>10, Zenon DEF Program, SetEnabled
  <2>2. /\ ReadWord(EnabledOffset) \in Accesses
        /\ Mix(EnabledOffset, EnabledBit, ~ o.arg) \in Accesses
    BY <1>a, <1>10, FieldsInObject DEF Accesses, ReadWord, Mix, EnabledBit
  <2> QED BY <1>10, <2>1, <2>2
<1>12. \A routine \in RoutineNames : Call(routine) \in Accesses
  BY DEF Call, Accesses
<1>11. CASE o.op = "set_actor_value"
  <2>1. Program(o) = <<Call("Entries")>> /\ Writes(o) = {} /\ Routines(o) = {Call("Entries")}
    BY <1>11, Zenon DEF Program, SetActorValue, Writes, Routines
  <2>2. Call("Entries") \in Accesses
    BY <1>12 DEF RoutineNames
  <2>3. Program(o) \in Seq(Accesses)
    BY <2>1, <2>2
  <2> QED BY <1>11, <2>1, <2>3, AmongFew
<1>13. CASE o.op = "kill"
  <2>1. Program(o) = KillActor /\ Writes(o) = {} /\ Routines(o) = {Call("Kill"), Call("ProcessDeath")}
    BY <1>13, Zenon DEF Program, Writes, Routines
  <2>2. \/ KillActor = <<Call("Kill"), Call("ProcessDeath")>>
        \/ build = "steam" /\ KillActor = <<>>
    BY <1>1 DEF KillActor
  <2>3. Call("Kill") \in Accesses /\ Call("ProcessDeath") \in Accesses
    BY <1>12 DEF RoutineNames
  <2>4. Program(o) \in Seq(Accesses)
    <3>1. \A x, y \in Accesses : <<x>> \in Seq(Accesses) /\ <<x, y>> \in Seq(Accesses)
      OBVIOUS
    <3>2. <<>> \in Seq(Accesses)
      OBVIOUS
    <3> QED BY <2>1, <2>2, <2>3, <3>1, <3>2, Zenon
  <2>5. /\ Among(Program(o)) \subseteq {Call("Kill"), Call("ProcessDeath")}
        /\ build # "steam" => Call("Kill") \in Among(Program(o))
    BY <2>1, <2>2, AmongFew
  <2> QED BY <1>13, <2>1, <2>4, <2>5
<1>14. CASE o.op \in {"fire_weapon", "play_sound"}
  <2>1. Program(o) \in {FireWeapon, PlaySound} /\ Writes(o) = {}
    BY <1>14 DEF Program, Writes
  <2>2. Routines(o) = {Call("Fire"), Call("PlaySound")}
    BY <1>14 DEF Routines
  <2>3. Program(o) \in {<<>>, <<Call("Fire")>>, <<Call("PlaySound")>>}
    BY <2>1 DEF FireWeapon, PlaySound
  <2>4. Call("Fire") \in Accesses /\ Call("PlaySound") \in Accesses
    BY <1>12 DEF RoutineNames
  <2>5. Program(o) \in Seq(Accesses)
    <3>1. \A x \in Accesses : <<x>> \in Seq(Accesses)
      OBVIOUS
    <3>2. <<>> \in Seq(Accesses)
      OBVIOUS
    <3> QED BY <2>3, <2>4, <3>1, <3>2, Zenon
  <2>6. Among(Program(o)) \subseteq {Call("Fire"), Call("PlaySound")}
    BY <2>3, AmongFew
  <2> QED BY <1>14, <2>1, <2>2, <2>5, <2>6
<1>15. CASE o.op \in {"get_activate", "stub", "set_name"}
  BY <1>15, AmongFew DEF Program, SetName, Writes
<1> QED BY <1>a, <1>4, <1>5, <1>6, <1>7, <1>8, <1>9, <1>10, <1>11, <1>13, <1>14, <1>15 DEF Ops

(***************************************************************************)
(* The steps of the commands.                                              *)
(***************************************************************************)

LEMMA EngineStarts == ASSUME EngineAssumption, EngineInit PROVE EngineInv
<1>1. Fresh \in [Offsets -> Nat]
  BY DEF Fresh
<1>2. EngineTypes
  BY <1>1 DEF EngineInit, EngineTypes, GameRefs, Attributes
<1>3. StepsFit
  BY NoOrderIsNone DEF EngineInit, StepsFit
<1>4. AllFollow /\ GoneIsSpoilt
  BY DEF EngineInit, AllFollow, Follows, GoneIsSpoilt, GameRefs
<1> QED BY <1>2, <1>3, <1>4 DEF EngineInv

\* A step that leaves the object, its command and what is said of it alone.
LEMMA FollowStays ==
  ASSUME EngineAssumption, EngineTypes, NEW r \in loaded, NEW a \in Attributes \ NotKept,
         Follows(r, a), build' = build, r \in loaded', order' = order,
         told'[r][a] = told[r][a], a \in spoilt[r] => a \in spoilt'[r],
         a \notin spoilt'[r] =>
           /\ ~ IsUnderway(r, a) => Reading(r, a)' = Reading(r, a)
           /\ IsUnderway(r, a) /\ Underway(a) => Underway(a)'
  PROVE  Follows(r, a)'
<1>1. IsUnderway(r, a)' <=> IsUnderway(r, a)
  BY SetsStay, MeaningStays DEF IsUnderway
<1> QED BY <1>1, MeaningStays DEF Follows, Nothing

LEMMA UnderwayStays ==
  ASSUME build' = build, order' = order, steps' = steps, NEW a \in Attributes, Underway(a),
         \A at \in FieldOf(a) : mem'[order.ref][at] = mem[order.ref][at],
         a = "dead" => dead'[order.ref] = dead[order.ref],
         Reading(order.ref, a)' = Reading(order.ref, a)
  PROVE  Underway(a)'
<1> USE LayoutStays, MeaningStays DEF Underway, FieldOf
<1>0. Among(steps)' = Among(steps)
  BY DEF Among
<1>1. CASE a = "pos"
  BY <1>0, <1>1 DEF Write
<1>2. CASE a = "angle"
  BY <1>0, <1>2 DEF Write
<1>3. CASE a = "scale" \/ a = "cell"
  BY <1>0, <1>3 DEF Write
<1>4. CASE a = "dead"
  BY <1>0, <1>4, Zenon DEF Call
<1>5. CASE a \notin {"pos", "angle", "scale", "cell", "dead"}
  BY <1>5
<1> QED BY <1>1, <1>2, <1>3, <1>4, <1>5

LEMMA FollowsUnchanged ==
  ASSUME EngineAssumption, EngineTypes, AllFollow,
         UNCHANGED <<build, loaded, mem, dead, order, steps, told, spoilt>>
  PROVE  AllFollow'
<1> SUFFICES ASSUME NEW r \in loaded, NEW a \in Attributes \ NotKept PROVE Follows(r, a)'
  BY SetsStay, LayoutStays DEF AllFollow
<1>1. Reading(r, a)' = Reading(r, a)
  BY ReadingStays DEF EngineTypes
<1>2. IsUnderway(r, a) /\ Underway(a) => Underway(a)'
  BY <1>1, UnderwayStays DEF IsUnderway
<1> QED BY <1>1, <1>2, FollowStays DEF AllFollow

LEMMA BusyIsLoaded ==
  ASSUME EngineInv
  PROVE  StepsFit /\ (steps # <<>> => order.ref \in loaded)
BY DEF EngineInv, StepsFit

LEMMA SendKeeps ==
  ASSUME EngineAssumption, EngineInv, NEW r \in Ids, Send(r)
  PROVE  EngineInv'
<1>1. PICK o \in PacketOrders(r) \cup OtherOrders(r) : commands' = Append(commands, o)
  BY DEF Send
<1>2. o \in Orders
  BY DEF Orders
<1>3. UNCHANGED <<build, loaded, mem, dead, order, steps, held, told, spoilt>>
  BY DEF Send
<1>4. commands' \in Seq(Orders)
  BY <1>1, <1>2 DEF EngineInv, EngineTypes
<1>5. EngineTypes'
  BY <1>3, <1>4, SetsStay DEF EngineInv, EngineTypes
<1>6. StepsFit'
  BY <1>3, BusyIsLoaded, StepsStay
<1>7. AllFollow'
  BY <1>3, FollowsUnchanged DEF EngineInv
<1>8. GoneIsSpoilt'
  BY <1>3, SetsStay DEF EngineInv, GoneIsSpoilt
<1> QED BY <1>5, <1>6, <1>7, <1>8 DEF EngineInv

\* A command with nothing left to do has done what it says.
LEMMA DoneIsRead ==
  ASSUME EngineAssumption, EngineTypes, order \in Orders, steps = <<>>, order.ref \in loaded,
         NEW a \in About(order), a \in Attributes \ NotKept, Underway(a)
  PROVE  Reading(order.ref, a) = Value(order, a)
<1> DEFINE r == order.ref
           v == Value(order, a)
<1>1. Among(steps) = {}
  BY AmongFew
<1>2. mem[r] \in [Offsets -> Nat] /\ dead[r] \in BOOLEAN
  BY OrderShape DEF EngineTypes
<1>3. a \in {"pos", "angle"} => v \in [1..3 -> Nat]
  BY OrderShape, WhatIsSaid, Zenon DEF Ops
<1>4. CASE a = "pos"
  <2>1. \A i \in 1..3 : mem[r][PosOffset(i)] = v[i]
    BY <1>1, <1>4 DEF Underway
  <2>2. [i \in 1..3 |-> mem[r][PosOffset(i)]] = v
    BY <1>3, <1>4, <2>1
  <2>3. Reading(r, a) = [i \in 1..3 |-> mem[r][PosOffset(i)]]
    BY <1>4 DEF Reading, GetPos
  <2> QED BY <2>2, <2>3
<1>5. CASE a = "angle"
  <2>1. \A i \in 1..3 : mem[r][AngleOffset(i)] = v[i]
    BY <1>1, <1>5 DEF Underway
  <2>2. [i \in 1..3 |-> mem[r][AngleOffset(i)]] = v
    BY <1>3, <1>5, <2>1
  <2>3. Reading(r, a) = [i \in 1..3 |-> mem[r][AngleOffset(i)]]
    BY <1>5 DEF Reading, GetAngle
  <2> QED BY <2>2, <2>3
<1>6. CASE a \in {"scale", "cell"}
  BY <1>1, <1>6 DEF Underway, Reading, GetScale, GetParentCell
<1>7. CASE a = "dead"
  BY <1>1, <1>7, Zenon DEF Underway, Reading, IsDead
<1>8. CASE a \notin {"pos", "angle", "scale", "cell", "dead"}
  BY <1>8 DEF Underway
<1> QED BY <1>4, <1>5, <1>6, <1>7, <1>8

LEMMA AnswerKeeps == ASSUME EngineAssumption, EngineInv, Answer PROVE EngineInv'
<1>1. /\ order # NoOrder /\ order' = NoOrder /\ steps = <<>>
      /\ UNCHANGED <<build, commands, loaded, mem, dead, steps, held, told, spoilt>>
  BY DEF Answer
<1>2. EngineTypes'
  BY <1>1, SetsStay DEF EngineInv, EngineTypes
<1>3. StepsFit'
  BY <1>1 DEF StepsFit
<1>4. GoneIsSpoilt'
  BY <1>1 DEF EngineInv, GoneIsSpoilt
<1>5. AllFollow'
  <2> SUFFICES ASSUME NEW r \in loaded, NEW a \in Attributes \ NotKept,
                      told[r][a] # Nothing, a \notin spoilt[r]
               PROVE  told[r][a] = <<Reading(r, a)>>
    <3>1. \A r \in loaded, a \in Attributes \ NotKept : Reading(r, a)' = Reading(r, a)
      BY <1>1, ReadingStays DEF EngineInv, EngineTypes
    <3>2. NotKept' = NotKept /\ Attributes' = Attributes
      BY <1>1, LayoutStays, SetsStay
    <3>3. NoOrder' = NoOrder /\ \A r, a : ~ IsUnderway(r, a)'
      BY <1>1, SetsStay DEF IsUnderway
    <3> QED BY <1>1, <3>1, <3>2, <3>3 DEF AllFollow, Follows, Nothing
  <2>1. Follows(r, a)
    BY DEF EngineInv, AllFollow
  <2>2. CASE IsUnderway(r, a)
    BY <1>1, <2>1, <2>2, DoneIsRead DEF Follows, IsUnderway, EngineInv, EngineTypes
  <2>3. CASE ~ IsUnderway(r, a)
    BY <2>1, <2>3 DEF Follows
  <2> QED BY <2>2, <2>3
<1> QED BY <1>2, <1>3, <1>4, <1>5 DEF EngineInv

\* A command that is begun has everything to do.
LEMMA ProgramBegins ==
  ASSUME EngineAssumption, build \in Builds, build' = build, NEW o \in Orders, order' = o,
         steps' = Program(o), NEW a \in About(o), a \in Attributes \ NotKept
  PROVE  Underway(a)'
<1>1. Among(steps)' = Among(Program(o)) /\ Value(order, a)' = Value(o, a)
  BY MeaningStays DEF Among
<1>2. CASE a = "pos"
  <2>2. o.op \in {"set_pos", "move_to"}
    <3>1. o.op \in Ops
      BY OrderShape
    <3>2. o.op \in Ops \ {"set_pos", "move_to"} => "pos" \notin About(o)
      <4> DEFINE A == About(o)
      <4>1. A = CASE o.op = "set_pos" -> {"pos"}
                  [] o.op = "set_angle" -> {"angle"}
                  [] o.op = "kill" -> {"dead"}
                  [] o.op = "set_lock" -> {"lock"}
                  [] o.op = "set_scale" -> {"scale"}
                  [] o.op = "set_cell" -> {"cell"}
                  [] o.op = "set_enabled" -> {"enabled"}
                  [] o.op = "move_to" -> {"cell", "pos"}
                  [] OTHER -> {}
        BY WhatIsSaid, Zenon
      <4> HIDE DEF A
      <4>2. o.op \in Ops \ {"set_pos", "move_to"} => "pos" \notin A
        BY <4>1 DEF Ops
      <4> QED BY <4>2 DEF A
    <3> QED BY <1>2, <3>1, <3>2
  <2>1. \A i \in 1..3 : Write(PosOffset(i), Value(o, a)[i]) \in Writes(o)
    <3>1. CASE o.op = "set_pos"
      <4>1. Value(o, a) = o.arg
        BY <3>1, WhatIsSaid
      <4> QED BY <3>1, <4>1 DEF Writes
    <3>2. CASE o.op = "move_to"
      <4>1. Value(o, a) = o.arg[2]
        BY <1>2, <3>2, WhatIsSaid
      <4> QED BY <3>2, <4>1 DEF Writes
    <3> QED BY <2>2, <3>1, <3>2
  <2> QED BY <1>1, <1>2, <2>1, <2>2, ProgramShape, LayoutStays DEF Underway, Write
<1>3. CASE a = "angle"
  BY <1>1, <1>3, WhatIsSaid, ProgramShape, LayoutStays DEF Underway, Writes, Write
<1>4. CASE a = "scale" \/ a = "cell"
  BY <1>1, <1>4, WhatIsSaid, ProgramShape, LayoutStays DEF Underway, Writes, Write
<1>5. CASE a = "dead"
  BY <1>1, <1>5, WhatIsSaid, ProgramShape, LayoutStays DEF Underway, NotKept, Call
<1>6. CASE a \notin {"pos", "angle", "scale", "cell", "dead"}
  <2>1. o.op \in {"set_lock", "set_enabled"}
    BY <1>6, WhatIsSaid DEF Attributes
  <2>2. Program(o) # <<>>
    BY <2>1, ProgramShape
  <2> QED BY <1>6, <2>2 DEF Underway
<1> QED BY <1>2, <1>3, <1>4, <1>5, <1>6

LEMMA BeginKeeps == ASSUME EngineAssumption, EngineInv, Begin PROVE EngineInv'
<1> DEFINE o == Head(commands)
           r == o.ref
<1>1. /\ order = NoOrder /\ commands # <<>> /\ commands' = Tail(commands) /\ held' = 0
      /\ UNCHANGED <<build, loaded, mem, dead>>
  BY DEF Begin
<1>2. o \in Orders /\ r \in Ids /\ o.size >= Needs(o.op) /\ Tail(commands) \in Seq(Orders)
  <2>1. o \in Orders /\ Tail(commands) \in Seq(Orders)
    BY <1>1 DEF EngineInv, EngineTypes
  <2> QED BY <2>1, OrderShape
<1>3. /\ order' = IF r \in loaded THEN o ELSE NoOrder
      /\ steps' = IF r \in loaded THEN Program(o) ELSE <<>>
      /\ Tell(o)
      /\ spoilt' = [spoilt EXCEPT ![r] = IF r \in loaded THEN @ \ About(o) ELSE @ \cup About(o)]
  BY <1>2 DEF Begin, About
<1> HIDE DEF o
<1>4. /\ DOMAIN told' = Ids
      /\ \A q \in Ids : q # r => told'[q] = told[q] /\ spoilt'[q] = spoilt[q]
      /\ \A a \in Attributes : a \notin About(o) => told'[r][a] = told[r][a]
      /\ \A a \in Attributes : a \in About(o) => told'[r][a] = <<Value(o, a)>>
  BY <1>2, <1>3 DEF Tell, EngineInv, EngineTypes, About, Value
<1>5. /\ spoilt' \in [Ids -> SUBSET Attributes]
      /\ spoilt'[r] = IF r \in loaded THEN spoilt[r] \ About(o) ELSE spoilt[r] \cup About(o)
  <2>1. About(o) \subseteq Attributes
    BY WhatIsSaid DEF Attributes
  <2> QED BY <1>2, <1>3, <2>1 DEF EngineInv, EngineTypes
<1>6. EngineTypes'
  <2>1. <<>> \in Seq(Accesses) /\ Program(o) \in Seq(Accesses)
    BY <1>2, ProgramShape DEF EngineInv, EngineTypes
  <2> QED BY <1>1, <1>2, <1>3, <1>4, <1>5, <2>1, SetsStay
  DEF EngineInv, EngineTypes
<1>7. StepsFit'
  <2>1. CASE r \in loaded
    <3>1. order' = o /\ steps' = Program(o) /\ order' # NoOrder /\ NoOrder' = NoOrder
      BY <1>2, <1>3, <2>1, NoOrderIsNone, SetsStay
    <3>2. loaded' = loaded /\ build \in Builds
      BY <1>1 DEF EngineInv, EngineTypes
    <3>3. CASE o.op \in {"set_lock", "set_enabled"}
      BY <1>1, <1>2, <2>1, <3>1, <3>2, <3>3, ProgramShape, LayoutStays
      DEF StepsFit, Mixing, ReadWord, Mix, Call
    <3>4. CASE o.op \notin {"set_lock", "set_enabled"}
      <4>1. Among(Program(o)) \subseteq Writes(o) \cup Routines(o)
        BY <1>2, <3>2, <3>4, ProgramShape
      <4>2. (Among(steps) \subseteq Writes(order) \cup Routines(order))'
        BY <1>1, <3>1, <4>1, MeaningStays DEF Among
      <4> QED BY <2>1, <3>1, <3>2, <3>4, <4>2 DEF StepsFit
    <3> QED BY <3>3, <3>4
  <2>2. CASE r \notin loaded
    BY <1>3, <2>2 DEF StepsFit
  <2> QED BY <2>1, <2>2
<1>8. GoneIsSpoilt'
  BY <1>1, <1>2, <1>4, <1>5 DEF EngineInv, EngineTypes, GoneIsSpoilt
<1>9. AllFollow'
  <2> SUFFICES ASSUME NEW q \in loaded, NEW a \in Attributes \ NotKept PROVE Follows(q, a)'
    BY <1>1 DEF AllFollow, NotKept
  <2>1. Follows(q, a) /\ ~ IsUnderway(q, a) /\ q \in Ids
    BY <1>1 DEF EngineInv, EngineTypes, AllFollow, IsUnderway
  <2>2. Reading(q, a)' = Reading(q, a)
    BY <1>1, <2>1, ReadingStays DEF EngineInv, EngineTypes
  <2>3. CASE q # r \/ a \notin About(o)
    BY <1>3, <1>4, <1>5, <2>1, <2>2, <2>3 DEF Follows, IsUnderway, EngineInv, EngineTypes, About,
       Effects
  <2>4. CASE q = r /\ a \in About(o)
    <3>1. order' = o /\ steps' = Program(o)
      BY <1>3, <2>4
    <3>2. told'[q][a] = <<Value(o, a)>>
      BY <1>4, <2>4
    <3>3. Underway(a)'
      <4>1. build \in Builds /\ build' = build
        BY <1>1 DEF EngineInv, EngineTypes
      <4> QED BY <1>2, <2>4, <3>1, <4>1, ProgramBegins
    <3>4. Value(order, a)' = Value(o, a) /\ a \in About(order)'
      BY <1>1, <2>4, <3>1, MeaningStays
    <3>5. IsUnderway(q, a)'
      BY <1>2, <2>4, <3>1, <3>4, NoOrderIsNone, SetsStay DEF IsUnderway
    <3>6. told'[q][a] = <<Value(order, a)>>'
      BY <3>2, <3>4
    <3> QED BY <3>3, <3>5, <3>6 DEF Follows
  <2> QED BY <2>3, <2>4
<1> QED BY <1>6, <1>7, <1>8, <1>9 DEF EngineInv

\* A write of a command is to an attribute it is about, and says the same of it.
LEMMA WriteSays ==
  ASSUME EngineAssumption, build \in Builds, NEW o \in Orders, NEW s \in Writes(o)
  PROVE  /\ s.do = "write" /\ s.at \in Offsets /\ s.word \in Nat /\ s = Write(s.at, s.word)
         /\ \E b \in About(o) : b \in Attributes /\ s.at \in FieldOf(b)
         /\ About(o) \subseteq {"pos", "angle", "scale", "cell"}
         /\ "pos" \in About(o) => \A i \in 1..3 : s.at = PosOffset(i) => s.word = Value(o, "pos")[i]
         /\ "angle" \in About(o) =>
              \A i \in 1..3 : s.at = AngleOffset(i) => s.word = Value(o, "angle")[i]
         /\ "scale" \in About(o) /\ s.at = ScaleOffset => s.word = Value(o, "scale")
         /\ "cell" \in About(o) /\ s.at = ParentCellOffset => s.word = Value(o, "cell")
<1>1. CASE o.op = "set_pos"
  <2>1. About(o) = {"pos"} /\ Value(o, "pos") = o.arg /\ o.arg \in [1..3 -> Nat]
    BY <1>1, WhatIsSaid, OrderShape
  <2>2. PICK i \in 1..3 : s = Write(PosOffset(i), o.arg[i])
    BY <1>1 DEF Writes
  <2>3. s.do = "write" /\ s.at = PosOffset(i) /\ s.word = o.arg[i] /\ s = Write(s.at, s.word)
    BY <2>2 DEF Write
  <2> QED BY <2>1, <2>3, FieldsInObject DEF FieldOf, Attributes
<1>2. CASE o.op = "set_angle"
  <2>1. About(o) = {"angle"} /\ Value(o, "angle") = o.arg /\ o.arg \in [1..3 -> Nat]
    BY <1>2, WhatIsSaid, OrderShape
  <2>2. PICK i \in 1..3 : s = Write(AngleOffset(i), o.arg[i])
    BY <1>2 DEF Writes
  <2>3. s.do = "write" /\ s.at = AngleOffset(i) /\ s.word = o.arg[i] /\ s = Write(s.at, s.word)
    BY <2>2 DEF Write
  <2> QED BY <2>1, <2>3, FieldsInObject DEF FieldOf, Attributes
<1>3. CASE o.op = "set_scale"
  <2>1. About(o) = {"scale"} /\ Value(o, "scale") = o.arg /\ o.arg \in Nat
    BY <1>3, WhatIsSaid, OrderShape
  <2>2. s.do = "write" /\ s.at = ScaleOffset /\ s.word = o.arg /\ s = Write(s.at, s.word)
    BY <1>3 DEF Writes, Write
  <2> QED BY <2>1, <2>2, FieldsInObject DEF FieldOf, Attributes
<1>4. CASE o.op = "set_cell"
  <2>1. About(o) = {"cell"} /\ Value(o, "cell") = o.arg /\ o.arg \in Nat
    BY <1>4, WhatIsSaid, OrderShape
  <2>2. s.do = "write" /\ s.at = ParentCellOffset /\ s.word = o.arg /\ s = Write(s.at, s.word)
    BY <1>4 DEF Writes, Write
  <2> QED BY <2>1, <2>2, FieldsInObject DEF FieldOf, Attributes
<1>5. CASE o.op = "move_to"
  <2>1. /\ About(o) = {"cell", "pos"}
        /\ Value(o, "cell") = o.arg[1] /\ Value(o, "pos") = o.arg[2]
        /\ o.arg[1] \in Nat /\ o.arg[2] \in [1..3 -> Nat]
    BY <1>5, WhatIsSaid, OrderShape
  <2>2. \A i \in 1..3 : PosOffset(i) # ParentCellOffset
    BY DEF PosOffset, ParentCellOffset
  <2>3. CASE s = Write(ParentCellOffset, o.arg[1])
    <3>1. s.do = "write" /\ s.at = ParentCellOffset /\ s.word = o.arg[1] /\ s = Write(s.at, s.word)
      BY <2>3 DEF Write
    <3> QED BY <2>1, <2>2, <3>1, FieldsInObject DEF FieldOf, Attributes
  <2>4. CASE s # Write(ParentCellOffset, o.arg[1])
    <3>1. PICK i \in 1..3 : s = Write(PosOffset(i), o.arg[2][i])
      BY <1>5, <2>4 DEF Writes
    <3>2. s.do = "write" /\ s.at = PosOffset(i) /\ s.word = o.arg[2][i] /\ s = Write(s.at, s.word)
      BY <3>1 DEF Write
    <3> QED BY <2>1, <2>2, <3>2, FieldsInObject DEF FieldOf, Attributes
  <2> QED BY <2>3, <2>4
<1>6. o.op \in {"set_pos", "set_angle", "set_scale", "set_cell", "move_to"}
  BY DEF Writes
<1> QED BY <1>1, <1>2, <1>3, <1>4, <1>5, <1>6

\* What one access leaves: the other objects, the attributes the command is
\* not about, and what it still has to say of the others; or an object that
\* nothing is said of.
StepKept ==
  /\ EngineTypes' /\ StepsFit'
  /\ \A q \in Ids \ {order.ref} :
       mem'[q] = mem[q] /\ dead'[q] = dead[q] /\ spoilt'[q] = spoilt[q]
  /\ \/ spoilt'[order.ref] = Attributes
     \/ /\ spoilt'[order.ref] = spoilt[order.ref]
        /\ \A a \in Attributes \ NotKept :
             IF a \in About(order) THEN Underway(a) => Underway(a)'
             ELSE /\ \A at \in FieldOf(a) : mem'[order.ref][at] = mem[order.ref][at]
                  /\ a = "dead" => dead'[order.ref] = dead[order.ref]

\* The situation in which the connection thread makes its next access.
Stepping ==
  /\ EngineTypes /\ StepsFit /\ steps # <<>> /\ Step
  /\ order \in Orders /\ order.ref \in loaded /\ order.ref \in Ids

LEMMA StepShape ==
  ASSUME EngineAssumption, Stepping
  PROVE  /\ UNCHANGED <<build, commands, loaded, order, told>>
         /\ Access(order.ref, Head(steps))
         /\ Head(steps) \in Accesses /\ steps' = Tail(steps) /\ steps' \in Seq(Accesses)
         /\ Among(steps) = {Head(steps)} \cup Among(steps')
         /\ order # NoOrder
BY AmongParts, NoOrderIsNone DEF Stepping, Step, EngineTypes

LEMMA WriteStep ==
  ASSUME EngineAssumption, Stepping, Head(steps) \in Writes(order)
  PROVE  StepKept
<1> DEFINE s == Head(steps)
           r == order.ref
<1>1. /\ s.do = "write" /\ s.at \in Offsets /\ s.word \in Nat /\ s = Write(s.at, s.word)
      /\ \E b \in About(order) : b \in Attributes /\ s.at \in FieldOf(b)
      /\ About(order) \subseteq {"pos", "angle", "scale", "cell"}
  BY WriteSays DEF Stepping, EngineTypes
<1>2. mem' = [mem EXCEPT ![r][s.at] = s.word] /\ UNCHANGED <<held, dead, spoilt>>
  BY <1>1, StepShape DEF Access
<1>3. /\ mem' \in [Ids -> [Offsets -> Nat]] /\ mem'[r][s.at] = s.word
      /\ \A q \in Ids \ {r} : mem'[q] = mem[q]
      /\ \A at \in Offsets \ {s.at} : mem'[r][at] = mem[r][at]
  BY <1>1, <1>2 DEF Stepping, EngineTypes
<1>4. EngineTypes'
  BY <1>2, <1>3, StepShape, SetsStay DEF Stepping, EngineTypes
<1>5. StepsFit'
  <2>1. order.op \notin {"set_lock", "set_enabled"}
    BY DEF Writes
  <2>2. Among(steps) \subseteq Writes(order) \cup Routines(order)
    BY <2>1, StepShape DEF Stepping, StepsFit
  <2>3. (Among(steps) \subseteq Writes(order) \cup Routines(order))'
    BY <2>2, StepShape, MeaningStays DEF Among
  <2> QED BY <2>1, <2>3, StepShape, SetsStay DEF Stepping, StepsFit
<1>6. ASSUME NEW a \in Attributes \ NotKept, a \notin About(order), NEW at \in FieldOf(a)
      PROVE  mem'[r][at] = mem[r][at]
  <2>1. at # s.at
    BY <1>1, <1>6, FieldsApart DEF Stepping, EngineTypes
  <2>2. at \in Offsets
    BY <1>6, FieldsInObject DEF FieldOf, Attributes
  <2> QED BY <1>3, <2>1, <2>2
<1>7. ASSUME NEW a \in About(order), Underway(a) PROVE Underway(a)'
  <2>1. /\ order' = order /\ build' = build
        /\ Among(steps') = Among(steps)' /\ Among(steps) = {s} \cup Among(steps)'
    BY StepShape DEF Among
  <2>2. Value(order, a)' = Value(order, a)
    BY <2>1, MeaningStays
  <2>3. CASE a = "pos"
    <3> SUFFICES ASSUME NEW i \in 1..3
                 PROVE  \/ Write(PosOffset(i), Value(order, a)[i]) \in Among(steps)'
                        \/ mem'[r][PosOffset(i)] = Value(order, a)[i]
      BY <2>1, <2>2, <2>3, LayoutStays DEF Underway, Write
    <3>1. s.at = PosOffset(i) => s.word = Value(order, a)[i]
      BY <1>7, <2>3, WriteSays DEF Stepping, EngineTypes
    <3>2. \/ Write(PosOffset(i), Value(order, a)[i]) \in {s} \cup Among(steps)'
          \/ mem[r][PosOffset(i)] = Value(order, a)[i]
      BY <1>7, <2>1, <2>3 DEF Underway
    <3>3. s = Write(PosOffset(i), Value(order, a)[i]) => s.at = PosOffset(i)
      BY DEF Write
    <3> QED BY <1>3, <3>1, <3>2, <3>3, FieldsInObject
  <2>4. CASE a = "angle"
    <3> SUFFICES ASSUME NEW i \in 1..3
                 PROVE  \/ Write(AngleOffset(i), Value(order, a)[i]) \in Among(steps)'
                        \/ mem'[r][AngleOffset(i)] = Value(order, a)[i]
      BY <2>1, <2>2, <2>4, LayoutStays DEF Underway, Write
    <3>1. s.at = AngleOffset(i) => s.word = Value(order, a)[i]
      BY <1>7, <2>4, WriteSays DEF Stepping, EngineTypes
    <3>2. \/ Write(AngleOffset(i), Value(order, a)[i]) \in {s} \cup Among(steps)'
          \/ mem[r][AngleOffset(i)] = Value(order, a)[i]
      BY <1>7, <2>1, <2>4 DEF Underway
    <3>3. s = Write(AngleOffset(i), Value(order, a)[i]) => s.at = AngleOffset(i)
      BY DEF Write
    <3> QED BY <1>3, <3>1, <3>2, <3>3, FieldsInObject
  <2>5. CASE a = "scale"
    <3>1. s.at = ScaleOffset => s.word = Value(order, a)
      BY <1>7, <2>5, WriteSays DEF Stepping, EngineTypes
    <3>2. \/ Write(ScaleOffset, Value(order, a)) \in {s} \cup Among(steps)'
          \/ mem[r][ScaleOffset] = Value(order, a)
      BY <1>7, <2>1, <2>5 DEF Underway
    <3>3. s = Write(ScaleOffset, Value(order, a)) => s.at = ScaleOffset
      BY DEF Write
    <3>4. \/ Write(ScaleOffset, Value(order, a)) \in Among(steps)'
          \/ mem'[r][ScaleOffset] = Value(order, a)
      BY <1>3, <3>1, <3>2, <3>3, FieldsInObject
    <3> QED BY <2>1, <2>2, <2>5, <3>4, LayoutStays DEF Underway, Write
  <2>6. CASE a = "cell"
    <3>1. s.at = ParentCellOffset => s.word = Value(order, a)
      BY <1>7, <2>6, WriteSays DEF Stepping, EngineTypes
    <3>2. \/ Write(ParentCellOffset, Value(order, a)) \in {s} \cup Among(steps)'
          \/ mem[r][ParentCellOffset] = Value(order, a)
      BY <1>7, <2>1, <2>6 DEF Underway
    <3>3. s = Write(ParentCellOffset, Value(order, a)) => s.at = ParentCellOffset
      BY DEF Write
    <3>4. \/ Write(ParentCellOffset, Value(order, a)) \in Among(steps)'
          \/ mem'[r][ParentCellOffset] = Value(order, a)
      BY <1>3, <3>1, <3>2, <3>3, FieldsInObject
    <3> QED BY <2>1, <2>2, <2>6, <3>4, LayoutStays DEF Underway, Write
  <2> QED BY <1>1, <1>7, <2>3, <2>4, <2>5, <2>6
<1> QED BY <1>2, <1>3, <1>4, <1>5, <1>6, <1>7 DEF StepKept

LEMMA RoutineStep ==
  ASSUME EngineAssumption, Stepping, Head(steps) \in Routines(order)
  PROVE  StepKept
<1> DEFINE s == Head(steps)
           r == order.ref
<1>1. order.op \in {"kill", "fire_weapon", "play_sound", "set_actor_value"}
  BY DEF Routines
<1>2. PICK name \in RoutineNames : s = Call(name)
  BY <1>1 DEF Routines, RoutineNames
<1>3. name = "Kill" => order.op = "kill"
  BY <1>1, <1>2 DEF Routines, Call
<1>4. /\ held' = held /\ Routine(r, name)
      /\ \/ Entries(r)
         \/ /\ UNCHANGED <<mem, spoilt>>
            /\ dead' = IF name = "Kill" THEN [dead EXCEPT ![r] = TRUE] ELSE dead
  <2>1. Routine(r, name) /\ held' = held
    BY <1>2, StepShape DEF Access, Call
  <2> QED BY <2>1 DEF Routine
<1>a. /\ mem' \in [Ids -> [Offsets -> Nat]] /\ dead' \in [Ids -> BOOLEAN]
      /\ spoilt' \in [Ids -> SUBSET Attributes]
      /\ \A q \in Ids \ {r} : mem'[q] = mem[q] /\ dead'[q] = dead[q] /\ spoilt'[q] = spoilt[q]
      /\ \/ spoilt'[r] = Attributes
         \/ UNCHANGED <<mem, spoilt>> /\ (name = "Kill" \/ dead' = dead)
  <2>0. r \in Ids
    BY DEF Stepping
  <2>1. CASE UNCHANGED <<mem, dead, spoilt>>
    BY <2>1 DEF Stepping, EngineTypes
  <2>2. ASSUME NEW word \in {0} \cup Scales, NEW died \in BOOLEAN,
               mem' = [mem EXCEPT ![r] = [at \in Offsets |-> word]],
               dead' = [dead EXCEPT ![r] = died], Spoil(r, Attributes)
        PROVE  /\ mem' \in [Ids -> [Offsets -> Nat]] /\ dead' \in [Ids -> BOOLEAN]
               /\ spoilt' \in [Ids -> SUBSET Attributes] /\ spoilt'[r] = Attributes
               /\ \A q \in Ids \ {r} :
                    mem'[q] = mem[q] /\ dead'[q] = dead[q] /\ spoilt'[q] = spoilt[q]
    <3>1. [at \in Offsets |-> word] \in [Offsets -> Nat]
      BY DEF EngineAssumption
    <3> QED BY <2>0, <2>2, <3>1 DEF Spoil, Stepping, EngineTypes
  <2>3. CASE Entries(r)
    BY <2>1, <2>2, <2>3 DEF Entries
  <2>4. CASE ~ Entries(r)
    BY <1>4, <2>0, <2>4 DEF Stepping, EngineTypes
  <2> QED BY <2>3, <2>4
<1>5. EngineTypes'
  BY <1>4, <1>a, StepShape, SetsStay DEF Stepping, EngineTypes
<1>6. StepsFit'
  <2>1. Among(steps) \subseteq Writes(order) \cup Routines(order)
    BY <1>1, StepShape DEF Stepping, StepsFit
  <2>2. (Among(steps) \subseteq Writes(order) \cup Routines(order))'
    BY <2>1, StepShape, MeaningStays DEF Among
  <2> QED BY <1>1, <2>2, StepShape, SetsStay DEF Stepping, StepsFit
<1>7. About(order) = IF order.op = "kill" THEN {"dead"} ELSE {}
  BY <1>1, WhatIsSaid
<1>8. ASSUME order.op = "kill", Underway("dead") PROVE Underway("dead")'
  <2>1. Value(order, "dead") = TRUE /\ Value(order, "dead")' = TRUE
    BY <1>7, <1>8, WhatIsSaid, MeaningStays, StepShape
  <2>a. name # "Entries"
    BY <1>2, <1>8 DEF Routines, Call
  <2>b. dead' = IF name = "Kill" THEN [dead EXCEPT ![r] = TRUE] ELSE dead
    BY <1>4, <2>a DEF Routine
  <2>2. CASE name = "Kill"
    <3>1. dead'[r] = TRUE
      BY <2>b, <2>2 DEF Stepping, EngineTypes
    <3> QED BY <2>1, <3>1, StepShape, Zenon DEF Underway
  <2>3. CASE name # "Kill"
    <3>1. Call("Kill") # s
      BY <1>2, <2>3 DEF Call
    <3>2. Call("Kill") \in Among(steps) \/ dead[r] = TRUE
      BY <1>8, <2>1, Zenon DEF Underway
    <3>3. Call("Kill") \in Among(steps)' \/ dead'[r] = TRUE
      BY <2>b, <2>3, <3>1, <3>2, StepShape DEF Among
    <3> QED BY <2>1, <3>3, StepShape, Zenon DEF Underway, Call
  <2> QED BY <2>2, <2>3
<1> HIDE DEF s, r
<1>9. CASE spoilt'[r] = Attributes
  BY <1>5, <1>6, <1>a, <1>9 DEF StepKept, r
<1>10. CASE UNCHANGED <<mem, spoilt>> /\ (name = "Kill" \/ dead' = dead)
  BY <1>3, <1>5, <1>6, <1>7, <1>8, <1>a, <1>10 DEF StepKept, r
<1> QED BY <1>a, <1>9, <1>10

LEMMA WithBitHas ==
  ASSUME NEW word \in Nat, NEW bit \in {1, 2}, NEW on \in BOOLEAN
  PROVE  WithBit(word, bit, on) \in Nat /\ HasBit(WithBit(word, bit, on), bit) = on
<1>1. (word \div 1) % 2 = 1 => word - 1 \in Nat /\ ((word - 1) \div 1) % 2 # 1
  OBVIOUS
<1>2. (word \div 1) % 2 # 1 => word + 1 \in Nat /\ ((word + 1) \div 1) % 2 = 1
  OBVIOUS
<1>3. (word \div 2) % 2 = 1 => word - 2 \in Nat /\ ((word - 2) \div 2) % 2 # 1
  OBVIOUS
<1>4. (word \div 2) % 2 # 1 => word + 2 \in Nat /\ ((word + 2) \div 2) % 2 = 1
  OBVIOUS
<1> QED BY <1>1, <1>2, <1>3, <1>4 DEF WithBit, HasBit

\* A flag of the engine and the flag of the bridge do not touch each other.
LEMMA OtherFlagApart ==
  ASSUME NEW word \in Nat, NEW on \in BOOLEAN
  PROVE  /\ WithBit(word, OtherFlag, on) \in Nat
         /\ HasBit(WithBit(word, OtherFlag, on), EnabledBit) = HasBit(word, EnabledBit)
<1>1. (word \div 4) % 2 = 1 => word - 4 \in Nat
  OBVIOUS
<1>2. ((word + 4) \div 2) % 2 = (word \div 2) % 2
  OBVIOUS
<1>3. word - 4 \in Nat => ((word - 4) \div 2) % 2 = (word \div 2) % 2
  OBVIOUS
<1> QED BY <1>1, <1>2, <1>3 DEF WithBit, HasBit, OtherFlag, EnabledBit

LEMMA MixStep ==
  ASSUME EngineAssumption, Stepping, NEW a \in {"lock", "enabled"},
         NEW at \in Offsets, NEW bit \in {1, 2}, NEW on \in BOOLEAN, Mixing(at, bit, on),
         a = "lock" => /\ order.op = "set_lock" /\ at = LockOffset /\ bit = LockBit
                       /\ on = order.arg,
         a = "enabled" => /\ order.op = "set_enabled" /\ at = EnabledOffset /\ bit = EnabledBit
                          /\ on = ~ order.arg
  PROVE  StepKept
<1> DEFINE r == order.ref
<1>1. About(order) = {a} /\ Value(order, a) = order.arg /\ order.arg \in BOOLEAN
  BY WhatIsSaid, OrderShape DEF Stepping
<1>2. Value(order, a)' = order.arg
  BY <1>1, MeaningStays, StepShape
<1>3. ASSUME Mixing(at, bit, on)' PROVE StepsFit'
  <2>1. a = "lock" => /\ at = LockOffset' /\ bit = LockBit' /\ on = order'.arg
    BY LayoutStays, StepShape
  <2>2. a = "enabled" => /\ at = EnabledOffset' /\ bit = EnabledBit' /\ on = ~ order'.arg
    BY LayoutStays, StepShape
  <2> QED BY <1>3, <2>1, <2>2, StepShape, SetsStay DEF Stepping, StepsFit
<1>4. CASE steps = <<ReadWord(at), Mix(at, bit, on)>>
  <2>1. Head(steps) = ReadWord(at) /\ steps' = <<Mix(at, bit, on)>>
    BY <1>4, StepShape
  <2>2. held' = mem[r][at] /\ UNCHANGED <<mem, dead, spoilt>>
    BY <2>1, StepShape DEF Access, ReadWord
  <2>3. EngineTypes'
    BY <2>2, StepShape, SetsStay DEF Stepping, EngineTypes
  <2>4. StepsFit'
    BY <1>3, <2>1, <2>2, StepShape DEF Mixing, Mix
  <2>5. Underway(a)'
    BY <2>1 DEF Underway
  <2> QED BY <1>1, <2>2, <2>3, <2>4, <2>5 DEF StepKept
<1>5. CASE steps = <<Mix(at, bit, on)>>
  <2>1. Head(steps) = Mix(at, bit, on) /\ steps' = <<>>
    BY <1>5, StepShape
  <2> DEFINE w == WithBit(held, bit, on)
  <2>2. mem' = [mem EXCEPT ![r][at] = w] /\ UNCHANGED <<held, dead, spoilt>>
    BY <2>1, StepShape DEF Access, Mix
  <2>3. held \in Nat
    BY DEF Stepping, EngineTypes
  <2>4. w \in Nat /\ HasBit(w, bit) = on
    BY <2>3, WithBitHas
  <2> HIDE DEF w
  <2>5. /\ mem' \in [Ids -> [Offsets -> Nat]] /\ mem'[r][at] = w
        /\ \A q \in Ids \ {r} : mem'[q] = mem[q]
        /\ \A x \in Offsets \ {at} : mem'[r][x] = mem[r][x]
    BY <2>2, <2>4 DEF Stepping, EngineTypes
  <2>6. EngineTypes'
    BY <2>2, <2>5, StepShape, SetsStay DEF Stepping, EngineTypes
  <2>7. StepsFit'
    BY <1>3, <2>1 DEF Mixing
  <2>8. Underway(a)'
    <3>1. CASE a = "lock"
      <4>1. Reading(r, a)' = HasBit(w, bit)
        BY <2>5, <3>1, LayoutStays, StepShape DEF Reading, GetLock
      <4> QED BY <1>2, <2>4, <3>1, <4>1, StepShape DEF Underway
    <3>2. CASE a = "enabled"
      <4>1. Reading(r, a)' = ~ HasBit(w, bit)
        BY <2>5, <3>2, LayoutStays, StepShape DEF Reading, GetEnabled
      <4> QED BY <1>1, <1>2, <2>4, <3>2, <4>1, StepShape DEF Underway
    <3> QED BY <3>1, <3>2
  <2>9. ASSUME NEW b \in Attributes \ NotKept, b # a, NEW x \in FieldOf(b)
        PROVE  mem'[r][x] = mem[r][x]
    <3>1. at \in FieldOf(a) /\ a \in Attributes
      BY DEF FieldOf, Attributes
    <3>2. x # at /\ x \in Offsets
      <4>2. FieldOf(b) \cap FieldOf(a) = {}
        BY <2>9, <3>1, FieldsApart
      <4>3. FieldOf(b) \subseteq Offsets
        BY FieldsInObject DEF FieldOf, Attributes
      <4> QED BY <2>9, <3>1, <4>2, <4>3
    <3> QED BY <2>5, <3>2
  <2> QED BY <1>1, <2>2, <2>5, <2>6, <2>7, <2>8, <2>9 DEF StepKept
<1> QED BY <1>4, <1>5 DEF Mixing, Stepping

LEMMA StepKeeps == ASSUME EngineAssumption, EngineInv, Step PROVE EngineInv'
<1>1. Stepping
  BY OrderShape DEF Stepping, Step, EngineInv, EngineTypes, StepsFit
<1>2. StepKept
  <2>1. CASE order.op = "set_lock"
    <3>1. Mixing(LockOffset, LockBit, order.arg) /\ order.arg \in BOOLEAN
      BY <1>1, <2>1, StepShape, OrderShape DEF Stepping, StepsFit
    <3>2. LockOffset \in Offsets /\ LockBit \in {1, 2}
      BY FieldsInObject DEF LockBit
    <3> QED BY <1>1, <2>1, <3>1, <3>2, MixStep
  <2>2. CASE order.op = "set_enabled"
    <3>1. Mixing(EnabledOffset, EnabledBit, ~ order.arg)
      BY <1>1, <2>2, StepShape DEF Stepping, StepsFit
    <3>2. EnabledOffset \in Offsets /\ EnabledBit \in {1, 2}
      BY FieldsInObject DEF EnabledBit
    <3>3. (~ order.arg) \in BOOLEAN
      OBVIOUS
    <3> QED BY <1>1, <2>2, <3>1, <3>2, <3>3, MixStep
  <2>4. CASE order.op \notin {"set_lock", "set_enabled"}
    BY <1>1, <2>4, StepShape, WriteStep, RoutineStep DEF Stepping, StepsFit
  <2> QED BY <2>1, <2>2, <2>4
<1>3. UNCHANGED <<build, commands, loaded, order, told>>
  BY <1>1, StepShape
<1>a. /\ order.ref \in Ids /\ order # NoOrder
      /\ \A r \in Ids : spoilt[r] \subseteq spoilt'[r] /\ spoilt'[r] \subseteq Attributes
  <2>1. order.ref \in Ids /\ order # NoOrder
    BY <1>1, StepShape DEF Stepping
  <2> QED BY <1>2, <2>1 DEF StepKept, EngineInv, EngineTypes, Attributes
<1>4. AllFollow'
  <2> SUFFICES ASSUME NEW r \in loaded, NEW a \in Attributes \ NotKept PROVE Follows(r, a)'
    BY <1>3, SetsStay, LayoutStays DEF AllFollow
  <2>1. r \in Ids /\ Follows(r, a)
    BY DEF EngineInv, EngineTypes, AllFollow
  <2>2. CASE a \in spoilt'[r]
    BY <2>2 DEF Follows
  <2>3. CASE a \notin spoilt'[r] /\ IsUnderway(r, a)
    <3>1. Underway(a) => Underway(a)'
      BY <1>2, <2>3 DEF StepKept, IsUnderway
    <3> QED BY <1>3, <1>a, <2>1, <2>3, <3>1, FollowStays DEF EngineInv
  <2>4. CASE a \notin spoilt'[r] /\ ~ IsUnderway(r, a)
    <3>2. Reading(r, a)' = Reading(r, a)
      <4>1. CASE r = order.ref
        <5>1. a \notin About(order)
          BY <1>a, <2>4, <4>1 DEF IsUnderway
        <5> QED BY <1>2, <1>3, <2>1, <2>4, <4>1, <5>1, ReadingStays DEF StepKept
      <4>2. CASE r # order.ref
        BY <1>2, <1>3, <2>1, <4>2, ReadingStays DEF StepKept
      <4> QED BY <4>1, <4>2
    <3> QED BY <1>3, <1>a, <2>1, <2>4, <3>2, FollowStays DEF EngineInv
  <2> QED BY <2>2, <2>3, <2>4
<1>5. GoneIsSpoilt'
  BY <1>3, <1>a, SetsStay DEF EngineInv, GoneIsSpoilt, Nothing
<1> QED BY <1>2, <1>4, <1>5 DEF EngineInv, StepKept

\* What the engine does to one attribute, which is spoilt by it or reads the same.
LEMMA EngineFollows ==
  ASSUME EngineAssumption, EngineInv,
         UNCHANGED <<build, loaded, order, steps, told>>,
         NEW r \in loaded, NEW a \in Attributes \ NotKept, a \in spoilt[r] => a \in spoilt'[r],
         \/ a \in spoilt'[r]
         \/ /\ \A at \in FieldOf(a) : mem'[r][at] = mem[r][at]
            /\ a = "dead" => dead'[r] = dead[r]
  PROVE  Follows(r, a)'
<1>1. Follows(r, a) /\ r \in Ids
  BY DEF EngineInv, EngineTypes, AllFollow
<1>2. CASE a \in spoilt'[r]
  BY <1>2 DEF Follows
<1>3. CASE a \notin spoilt'[r]
  <2>1. Reading(r, a)' = Reading(r, a)
    BY <1>1, <1>3, ReadingStays
  <2>2. IsUnderway(r, a) /\ Underway(a) => Underway(a)'
    BY <1>3, <2>1, UnderwayStays DEF IsUnderway
  <2> QED BY <1>1, <2>1, <2>2, FollowStays DEF EngineInv
<1> QED BY <1>2, <1>3

LEMMA EngineMovesKeeps ==
  ASSUME EngineAssumption, EngineInv, NEW r \in Ids, EngineMoves(r)
  PROVE  EngineInv'
<1>1. PICK i \in 1..3, p \in Points : mem' = [mem EXCEPT ![r][PosOffset(i)] = p[i]]
  BY DEF EngineMoves
<1>2. /\ UNCHANGED <<build, commands, loaded, dead, order, steps, held, told>>
      /\ spoilt' = [spoilt EXCEPT ![r] = @ \cup {"pos"}]
  BY DEF EngineMoves, Spoil
<1>3. p[i] \in Nat /\ PosOffset(i) \in Offsets
  BY FieldsInObject DEF EngineAssumption
<1>4. /\ mem' \in [Ids -> [Offsets -> Nat]] /\ \A q \in Ids \ {r} : mem'[q] = mem[q]
      /\ \A at \in Offsets \ {PosOffset(i)} : mem'[r][at] = mem[r][at]
  BY <1>1, <1>3 DEF EngineInv, EngineTypes
<1>5. /\ spoilt' \in [Ids -> SUBSET Attributes]
      /\ \A q \in Ids : spoilt[q] \subseteq spoilt'[q]
      /\ "pos" \in spoilt'[r]
  BY <1>2 DEF EngineInv, EngineTypes, Attributes
<1>6. EngineTypes'
  BY <1>2, <1>4, <1>5, SetsStay DEF EngineInv, EngineTypes
<1>7. StepsFit'
  BY <1>2, BusyIsLoaded, StepsStay
<1>8. AllFollow'
  <2> SUFFICES ASSUME NEW q \in loaded, NEW a \in Attributes \ NotKept PROVE Follows(q, a)'
    BY <1>2, SetsStay, LayoutStays DEF AllFollow
  <2>1. q \in Ids
    BY DEF EngineInv, EngineTypes
  <2>2. CASE q = r /\ a = "pos"
    BY <1>2, <1>5, <2>2, EngineFollows
  <2>3. CASE q # r
    BY <1>2, <1>4, <1>5, <2>1, <2>3, EngineFollows
  <2>4. CASE q = r /\ a # "pos"
    <3>1. PosOffset(i) \in FieldOf("pos") /\ "pos" \in Attributes
      BY DEF FieldOf, Attributes
    <3>2. \A at \in FieldOf(a) : at # PosOffset(i) /\ at \in Offsets
      <4>2. FieldOf(a) \cap FieldOf("pos") = {}
        BY <2>4, <3>1, FieldsApart
      <4>3. FieldOf(a) \subseteq Offsets
        BY FieldsInObject DEF FieldOf, Attributes
      <4> QED BY <3>1, <4>2, <4>3
    <3>3. \A at \in FieldOf(a) : mem'[q][at] = mem[q][at]
      BY <1>4, <2>4, <3>2
    <3> QED BY <1>2, <1>5, <2>1, <3>3, EngineFollows
  <2> QED BY <2>2, <2>3, <2>4
<1>9. GoneIsSpoilt'
  BY <1>2, <1>5, SetsStay DEF EngineInv, GoneIsSpoilt, Nothing
<1> QED BY <1>6, <1>7, <1>8, <1>9 DEF EngineInv

LEMMA EngineFlagsKeeps ==
  ASSUME EngineAssumption, EngineInv, NEW r \in Ids, EngineFlags(r)
  PROVE  EngineInv'
<1> DEFINE old == mem[r][EnabledOffset]
<1>0. PICK on \in BOOLEAN : mem' = [mem EXCEPT ![r][EnabledOffset] = WithBit(old, OtherFlag, on)]
  BY DEF EngineFlags
<1>1. UNCHANGED <<build, commands, loaded, dead, order, steps, held, told, spoilt>>
  BY DEF EngineFlags
<1>2. old \in Nat /\ EnabledOffset \in Offsets
  BY FieldsInObject DEF EngineInv, EngineTypes
<1> DEFINE new == WithBit(old, OtherFlag, on)
<1>3. new \in Nat /\ HasBit(new, EnabledBit) = HasBit(old, EnabledBit)
  BY <1>2, OtherFlagApart
<1> HIDE DEF new
<1>4. /\ mem' \in [Ids -> [Offsets -> Nat]] /\ \A q \in Ids \ {r} : mem'[q] = mem[q]
      /\ \A at \in Offsets \ {EnabledOffset} : mem'[r][at] = mem[r][at]
      /\ mem'[r][EnabledOffset] = new
  BY <1>0, <1>2, <1>3 DEF EngineInv, EngineTypes, new
<1>5. EngineTypes'
  BY <1>1, <1>4, SetsStay DEF EngineInv, EngineTypes
<1>6. StepsFit'
  BY <1>1, BusyIsLoaded, StepsStay
<1>7. AllFollow'
  <2> SUFFICES ASSUME NEW q \in loaded, NEW a \in Attributes \ NotKept PROVE Follows(q, a)'
    BY <1>1, SetsStay, LayoutStays DEF AllFollow
  <2>1. q \in Ids /\ Follows(q, a)
    BY DEF EngineInv, EngineTypes, AllFollow
  <2>2. CASE q # r
    BY <1>1, <1>4, <2>1, <2>2, EngineFollows
  <2>3. CASE q = r /\ a # "enabled"
    <3>1. EnabledOffset \in FieldOf("enabled") /\ "enabled" \in Attributes
      BY DEF FieldOf, Attributes
    <3>2. \A at \in FieldOf(a) : at # EnabledOffset /\ at \in Offsets
      <4>1. FieldOf(a) \cap FieldOf("enabled") = {}
        BY <2>3, <3>1, FieldsApart
      <4>2. FieldOf(a) \subseteq Offsets
        BY FieldsInObject DEF FieldOf, Attributes
      <4> QED BY <3>1, <4>1, <4>2
    <3> QED BY <1>1, <1>4, <2>1, <2>3, <3>2, EngineFollows
  <2>4. CASE q = r /\ a = "enabled"
    <3>1. Reading(q, a)' = Reading(q, a)
      BY <1>1, <1>3, <1>4, <2>4, LayoutStays DEF Reading, GetEnabled
    <3>2. IsUnderway(q, a) /\ Underway(a) => Underway(a)'
      BY <1>1, <2>4, <3>1, MeaningStays DEF IsUnderway, Underway
    <3> QED BY <1>1, <2>1, <3>1, <3>2, FollowStays DEF EngineInv
  <2> QED BY <2>2, <2>3, <2>4
<1>8. GoneIsSpoilt'
  BY <1>1, SetsStay DEF EngineInv, GoneIsSpoilt, Nothing
<1> QED BY <1>5, <1>6, <1>7, <1>8 DEF EngineInv

LEMMA LoadKeeps ==
  ASSUME EngineAssumption, EngineInv, NEW r \in Ids, Load(r)
  PROVE  EngineInv'
<1>1. /\ UNCHANGED <<build, commands, order, steps, held, told, spoilt>>
      /\ r \notin loaded /\ loaded' = loaded \cup {r}
      /\ mem' = [mem EXCEPT ![r] = Fresh]
      /\ dead' = [dead EXCEPT ![r] = FALSE]
  BY DEF Load
<1>2. Fresh \in [Offsets -> Nat]
  BY DEF Fresh
<1>3. \A q \in Ids \ {r} :
        mem'[q] = mem[q] /\ dead'[q] = dead[q]
  BY <1>1 DEF EngineInv, EngineTypes
<1>4. EngineTypes'
  BY <1>1, <1>2, SetsStay DEF EngineInv, EngineTypes
<1>5. StepsFit'
  <2>1. CASE steps = <<>>
    <3>1. Among(steps)' = {}
      BY <1>1, <2>1, AmongFew
    <3> QED BY <1>1, <2>1, <3>1, SetsStay DEF EngineInv, StepsFit, Mixing
  <2>2. CASE steps # <<>>
    <3>1. order.ref \in loaded /\ order.ref \in Ids \ {r}
      BY <1>1, <2>2 DEF EngineInv, EngineTypes, StepsFit
    <3>2. StepsFit
      BY DEF EngineInv
    <3> QED BY <1>1, <3>1, <3>2, StepsStay
  <2> QED BY <2>1, <2>2
<1>6. AllFollow'
  <2> SUFFICES ASSUME NEW q \in loaded', NEW a \in Attributes \ NotKept PROVE Follows(q, a)'
    BY <1>1, SetsStay, LayoutStays DEF AllFollow
  <2>1. CASE q = r
    BY <1>1, <2>1 DEF EngineInv, GoneIsSpoilt, Follows, Nothing
  <2>2. CASE q # r
    <3>1. q \in loaded /\ q \in Ids \ {r} /\ Follows(q, a)
      BY <1>1, <2>2 DEF EngineInv, EngineTypes, AllFollow
    <3>2. Reading(q, a)' = Reading(q, a)
      BY <1>1, <1>3, <3>1, ReadingStays
    <3>3. IsUnderway(q, a) /\ Underway(a) => Underway(a)'
      BY <1>1, <1>3, <3>1, <3>2, UnderwayStays DEF IsUnderway
    <3> QED BY <1>1, <3>1, <3>2, <3>3, FollowStays DEF EngineInv
  <2> QED BY <2>1, <2>2
<1>7. GoneIsSpoilt'
  BY <1>1, SetsStay DEF EngineInv, GoneIsSpoilt, Nothing
<1> QED BY <1>4, <1>5, <1>6, <1>7 DEF EngineInv

LEMMA UnloadKeeps ==
  ASSUME EngineAssumption, EngineInv, NEW r \in Ids, Unload(r)
  PROVE  EngineInv'
<1>1. /\ UNCHANGED <<build, commands, mem, dead, order, held, told>>
      /\ loaded' = loaded \ {r}
      /\ spoilt' = [spoilt EXCEPT ![r] = @ \cup Attributes]
      /\ steps' = IF order # NoOrder /\ order.ref = r THEN <<>> ELSE steps
  BY DEF Unload, Spoil
<1>2. /\ spoilt' \in [Ids -> SUBSET Attributes] /\ spoilt'[r] = Attributes
      /\ \A q \in Ids \ {r} : spoilt'[q] = spoilt[q]
  BY <1>1 DEF EngineInv, EngineTypes
<1>3. EngineTypes'
  <2>1. <<>> \in Seq(Accesses)
    OBVIOUS
  <2> QED BY <1>1, <1>2, <2>1, SetsStay DEF EngineInv, EngineTypes
<1>4. StepsFit'
  <2>1. CASE steps' = <<>>
    <3>1. Among(steps)' = {}
      BY <2>1, AmongFew DEF Among
    <3> QED BY <2>1, <3>1, SetsStay DEF StepsFit, Mixing
  <2>2. CASE steps' # <<>>
    <3>1. steps' = steps /\ order # NoOrder /\ order.ref # r
      BY <1>1, <2>2 DEF EngineInv, StepsFit
    <3>2. StepsFit /\ order.ref \in loaded'
      BY <1>1, <2>2, <3>1 DEF EngineInv, StepsFit
    <3> QED BY <1>1, <3>1, <3>2, StepsStay
  <2> QED BY <2>1, <2>2
<1>5. AllFollow'
  <2> SUFFICES ASSUME NEW q \in loaded', NEW a \in Attributes \ NotKept PROVE Follows(q, a)'
    BY <1>1, SetsStay, LayoutStays DEF AllFollow
  <2>1. q \in loaded /\ q # r /\ q \in Ids \ {r} /\ Follows(q, a)
    BY <1>1 DEF EngineInv, EngineTypes, AllFollow
  <2>2. Reading(q, a)' = Reading(q, a)
    BY <1>1, <2>1, ReadingStays
  <2>3. IsUnderway(q, a) /\ Underway(a) => Underway(a)'
    BY <1>1, <2>1, <2>2, UnderwayStays DEF IsUnderway
  <2> QED BY <1>1, <1>2, <2>1, <2>2, <2>3, FollowStays DEF EngineInv
<1>6. GoneIsSpoilt'
  <2> SUFFICES ASSUME NEW q \in Ids \ loaded', NEW a \in Attributes
               PROVE  told[q][a] = Nothing \/ a \in spoilt'[q]
    BY <1>1, SetsStay DEF GoneIsSpoilt, Nothing
  <2>1. CASE q = r
    BY <1>2, <2>1
  <2>2. CASE q # r
    BY <1>1, <1>2, <2>2 DEF EngineInv, GoneIsSpoilt
  <2> QED BY <2>1, <2>2
<1> QED BY <1>3, <1>4, <1>5, <1>6 DEF EngineInv

LEMMA StutterKeeps ==
  ASSUME EngineAssumption, EngineInv, UNCHANGED engineVars
  PROVE  EngineInv'
<1>1. UNCHANGED <<build, commands, loaded, mem, dead, order, steps, held, told, spoilt>>
  BY DEF engineVars
<1>2. EngineTypes'
  BY <1>1, SetsStay DEF EngineInv, EngineTypes
<1>3. StepsFit'
  BY <1>1, BusyIsLoaded, StepsStay
<1>4. AllFollow'
  BY <1>1, FollowsUnchanged DEF EngineInv
<1>5. GoneIsSpoilt'
  BY <1>1, SetsStay DEF EngineInv, GoneIsSpoilt, Nothing
<1> QED BY <1>2, <1>3, <1>4, <1>5 DEF EngineInv

LEMMA EngineInvariance == ASSUME EngineAssumption PROVE EngineSpec => []EngineInv
<1>1. EngineInit => EngineInv
  BY EngineStarts
<1>2. EngineInv /\ [EngineNext]_engineVars => EngineInv'
  <2> SUFFICES ASSUME EngineInv, [EngineNext]_engineVars PROVE EngineInv'
    OBVIOUS
  <2>1. ASSUME NEW r \in GameRefs, Send(r) PROVE EngineInv'
    BY <2>1, SendKeeps DEF GameRefs
  <2>2. CASE Begin
    BY <2>2, BeginKeeps
  <2>3. CASE Step
    BY <2>3, StepKeeps
  <2>4. CASE Answer
    BY <2>4, AnswerKeeps
  <2>5. ASSUME NEW r \in GameRefs, EngineMoves(r) \/ EngineFlags(r) \/ Load(r) \/ Unload(r)
        PROVE  EngineInv'
    BY <2>5, EngineMovesKeeps, EngineFlagsKeeps, LoadKeeps, UnloadKeeps DEF GameRefs
  <2>6. CASE UNCHANGED engineVars
    BY <2>6, StutterKeeps
  <2> QED BY <2>1, <2>2, <2>3, <2>4, <2>5, <2>6 DEF EngineNext
<1> QED BY <1>1, <1>2, PTL DEF EngineSpec

\* The engine's objects hold words, and the thread that serves the pipe is
\* between two accesses of one command or idle.
THEOREM EngineTypesHold == ASSUME EngineAssumption PROVE EngineSpec => []EngineTypeOK
<1>1. EngineInv => EngineTypeOK
  BY DEF EngineInv, EngineTypes, StepsFit, EngineTypeOK, GameRefs
<1> QED BY <1>1, EngineInvariance, PTL

\* Once the pipe is empty every attribute of an object reads what the last
\* command about it said, unless the engine changed it or a routine was run on
\* the object since: the setters and the getters agree, no two fields overlap,
\* and writing back a word for one flag sets that flag (hooks/vtable.rs).
THEOREM LastWordIsRead == ASSUME EngineAssumption PROVE EngineSpec => []FieldsFollow
<1>1. EngineInv => FieldsFollow
  <2> SUFFICES ASSUME EngineInv, order = NoOrder, NEW r \in loaded, NEW a \in Attributes \ NotKept,
                      told[r][a] # Nothing, a \notin spoilt[r]
               PROVE  told[r][a] = <<Reading(r, a)>>
    BY DEF FieldsFollow
  <2> QED BY DEF EngineInv, AllFollow, Follows, IsUnderway
<1> QED BY <1>1, EngineInvariance, PTL

-----------------------------------------------------------------------------
(* The hooks: what is written, and where. *)

\* The groups an install visits, and what each writes.
Groups == Among(Install)
PatchesOf(g) == Among(g.patches)
EveryPatch == UNION {PatchesOf(g) : g \in Groups}

\* Those that leave other bytes than the linker's.
Effective(g) == {p \in PatchesOf(g) : p.name \notin Rewrites}

\* One of two sites ends before the other begins.
Apart(p, q) == p.at + p.len <= q.at \/ q.at + q.len <= p.at

IsSite(p) == p.at \in Nat /\ p.len \in Nat \ {0}

\* The group a patch belongs to.
GroupOf(patch) ==
  CASE patch \in {"siteA", "siteB", "siteBTail", "siteB2"} -> "steam_respawn"
    [] patch = "steamFrameTail" -> "steamFrame"
    [] patch \in {"ai_fix2", "ai_fix3", "match_race", "ai_fix4", "fnvFrame", "fo3Frame",
                  "steamFrame"} -> patch
    [] OTHER -> "classic"

\* What the parts of a list hold, and the lists of a few.
LEMMA FourParts ==
  ASSUME NEW S, NEW a \in Seq(S), NEW b \in Seq(S), NEW c \in Seq(S), NEW d \in Seq(S)
  PROVE  /\ a \o b \o c \o d \in Seq(S)
         /\ Among(a \o b \o c \o d) = Among(a) \cup Among(b) \cup Among(c) \cup Among(d)
<1>1. a \o b \in Seq(S) /\ Among(a \o b) = Among(a) \cup Among(b)
  BY AmongConcat
<1>2. (a \o b) \o c \in Seq(S) /\ Among((a \o b) \o c) = Among(a \o b) \cup Among(c)
  <2> DEFINE e == a \o b
  <2> HIDE DEF e
  <2> SUFFICES e \o c \in Seq(S) /\ Among(e \o c) = Among(e) \cup Among(c)
    BY DEF e
  <2> e \in Seq(S)
    BY <1>1 DEF e
  <2> QED BY AmongConcat
<1>3. /\ ((a \o b) \o c) \o d \in Seq(S)
      /\ Among(((a \o b) \o c) \o d) = Among((a \o b) \o c) \cup Among(d)
  <2> DEFINE e == (a \o b) \o c
  <2> HIDE DEF e
  <2> SUFFICES e \o d \in Seq(S) /\ Among(e \o d) = Among(e) \cup Among(d)
    BY DEF e
  <2> e \in Seq(S)
    BY <1>2 DEF e
  <2> QED BY AmongConcat
<1> QED BY <1>1, <1>2, <1>3, Zenon

LEMMA FewAreSeq ==
  /\ \A x : <<x>> \in Seq({x})
  /\ \A x, y : <<x, y>> \in Seq({x, y})
  /\ \A x, y, z : <<x, y, z>> \in Seq({x, y, z}) /\ Among(<<x, y, z>>) = {x, y, z}
  /\ \A x, y, z, w : <<x, y, z, w>> \in Seq({x, y, z, w}) /\ Among(<<x, y, z, w>>) = {x, y, z, w}
BY DEF Among

\* No patch is there twice.
Distinct(s) == \A i, j \in DOMAIN s : i # j => s[i] # s[j]

LEMMA ConcatDistinct ==
  ASSUME NEW S, NEW s \in Seq(S), NEW t \in Seq(S), Distinct(s), Distinct(t),
         Among(s) \cap Among(t) = {}
  PROVE  Distinct(s \o t)
<1> DEFINE q == s \o t
<1>1. /\ q \in Seq(S) /\ Len(q) = Len(s) + Len(t)
      /\ \A i \in 1..Len(s) + Len(t) : q[i] = IF i <= Len(s) THEN s[i] ELSE t[i - Len(s)]
  BY ConcatProperties, Zenon
<1> HIDE DEF q
<1>2. /\ Len(s) \in Nat /\ Len(t) \in Nat
      /\ DOMAIN q = 1..Len(s) + Len(t) /\ DOMAIN s = 1..Len(s) /\ DOMAIN t = 1..Len(t)
  BY <1>1
<1> SUFFICES ASSUME NEW i \in DOMAIN q, NEW j \in DOMAIN q, i # j PROVE q[i] # q[j]
  BY DEF Distinct, q
<1>3. CASE i <= Len(s) /\ j <= Len(s)
  BY <1>1, <1>2, <1>3 DEF Distinct
<1>4. CASE i > Len(s) /\ j > Len(s)
  <2>1. i - Len(s) \in DOMAIN t /\ j - Len(s) \in DOMAIN t /\ i - Len(s) # j - Len(s)
    BY <1>2, <1>4
  <2>2. q[i] = t[i - Len(s)] /\ q[j] = t[j - Len(s)]
    BY <1>1, <1>2, <1>4
  <2> QED BY <2>1, <2>2 DEF Distinct
<1>5. CASE (i <= Len(s)) # (j <= Len(s))
  <2>1. \A k \in DOMAIN q : k <= Len(s) => q[k] \in Among(s)
    BY <1>1, <1>2 DEF Among
  <2>2. \A k \in DOMAIN q : ~ k <= Len(s) => q[k] \in Among(t)
    <3> SUFFICES ASSUME NEW k \in DOMAIN q, ~ k <= Len(s) PROVE q[k] \in Among(t)
      OBVIOUS
    <3>1. k - Len(s) \in DOMAIN t /\ q[k] = t[k - Len(s)]
      BY <1>1, <1>2
    <3> QED BY <3>1 DEF Among
  <2> QED BY <1>5, <2>1, <2>2
<1> QED BY <1>2, <1>3, <1>4, <1>5

\* Every group.
LEMMA GroupsListed ==
  /\ Groups = {Group("steam_respawn", SteamRespawnGuards, SteamRespawnPatches),
               Group("classic", ClassicGuards, ClassicRecipes), Group("discovery", {}, <<>>)}
                \cup Among(SteamVaultmp) \cup Among(FrameHooks)
  /\ Install \in Seq(Groups)
<1> DEFINE g1 == Group("steam_respawn", SteamRespawnGuards, SteamRespawnPatches)
           g2 == Group("classic", ClassicGuards, ClassicRecipes)
           g3 == Group("discovery", {}, <<>>)
           All == {g1, g2, g3} \cup Among(SteamVaultmp) \cup Among(FrameHooks)
<1>1. Install = <<g1, g2>> \o SteamVaultmp \o <<g3>> \o FrameHooks
  BY DEF Install
<1>2. SteamVaultmp \in Seq(Among(SteamVaultmp)) /\ FrameHooks \in Seq(Among(FrameHooks))
  BY FewAreSeq, SMT DEF SteamVaultmp, FrameHooks
<1> HIDE DEF g1, g2, g3
<1>3. /\ SteamVaultmp \in Seq(All) /\ FrameHooks \in Seq(All)
      /\ <<g1, g2>> \in Seq(All) /\ <<g3>> \in Seq(All)
  BY <1>2, SMT
<1> HIDE DEF All
<1> DEFINE a == <<g1, g2>>
           c == <<g3>>
<1> HIDE DEF a, c
<1>4. /\ Install \in Seq(All)
      /\ Among(Install) = Among(a) \cup Among(SteamVaultmp) \cup Among(c) \cup Among(FrameHooks)
  <2>1. a \in Seq(All) /\ c \in Seq(All)
    BY <1>3 DEF a, c
  <2>2. Install = a \o SteamVaultmp \o c \o FrameHooks
    BY <1>1 DEF a, c
  <2> QED BY <1>3, <2>1, <2>2, FourParts
<1>5. Among(Install) = All
  BY <1>4, AmongFew, SMT DEF All, a, c
<1> QED BY <1>4, <1>5, SMT DEF Groups, All, g1, g2, g3

\* The classic recipes are the two lists together.
LEMMA RecipesListed ==
  /\ ClassicRecipes \in Seq(Among(ClassicRecipes))
  /\ Among(ClassicRecipes) = Among(RespawnAndDelegatorRecipes) \cup Among(BehaviourRecipes)
<1> DEFINE S == Among(RespawnAndDelegatorRecipes) \cup Among(BehaviourRecipes)
<1>1. RespawnAndDelegatorRecipes \in Seq(Among(RespawnAndDelegatorRecipes))
  BY SMT DEF RespawnAndDelegatorRecipes, Among
<1>2. BehaviourRecipes \in Seq(Among(BehaviourRecipes))
  BY SMT DEF BehaviourRecipes, Among
<1>3. RespawnAndDelegatorRecipes \in Seq(S) /\ BehaviourRecipes \in Seq(S)
  BY <1>1, <1>2, SMT
<1> HIDE DEF S
<1>4. ClassicRecipes \in Seq(S) /\ Among(ClassicRecipes) = S
  <2>1. Among(ClassicRecipes) = S
    BY <1>3, AmongConcat, SMT DEF ClassicRecipes, S
  <2> QED BY <1>3, <2>1, AmongConcat, SMT DEF ClassicRecipes
<1> QED BY <1>4 DEF S

\* A patch is written in one group only.
LEMMA OneGroup ==
  ASSUME NEW g \in Groups, NEW p \in PatchesOf(g)
  PROVE  IsSite(p) /\ g.name = GroupOf(p.name)
<1>1. CASE g = Group("classic", ClassicGuards, ClassicRecipes)
  <2>1. p \in Among(RespawnAndDelegatorRecipes) \/ p \in Among(BehaviourRecipes)
    BY <1>1, RecipesListed, SMT DEF PatchesOf, Group
  <2>2. g.name = "classic"
    BY <1>1, SMT DEF Group
  <2>3. CASE p \in Among(RespawnAndDelegatorRecipes)
    BY <2>2, <2>3, SMT DEF Among, RespawnAndDelegatorRecipes, Site, RelLen, GroupOf, IsSite
  <2>4. CASE p \in Among(BehaviourRecipes)
    BY <2>2, <2>4, SMT DEF Among, BehaviourRecipes, Site, RelLen, GroupOf, IsSite
  <2> QED BY <2>1, <2>3, <2>4
<1>2. CASE g = Group("steam_respawn", SteamRespawnGuards, SteamRespawnPatches)
  BY <1>2, SMT DEF PatchesOf, Among, SteamRespawnPatches, Site, RelLen, GroupOf, IsSite, Group
<1>3. CASE g = Group("discovery", {}, <<>>)
  BY <1>3, SMT DEF PatchesOf, Among, Group
<1>4. CASE g \in Among(SteamVaultmp)
  BY <1>4, SMT DEF PatchesOf, Among, SteamVaultmp, Site, RelLen, GroupOf, IsSite, Group
<1>5. CASE g \in Among(FrameHooks)
  BY <1>5, SMT DEF PatchesOf, Among, FrameHooks, Site, RelLen, GroupOf, IsSite, Group
<1> QED BY <1>1, <1>2, <1>3, <1>4, <1>5, GroupsListed, Zenon

\* A group is known by its name.
LEMMA GroupNames ==
  ASSUME NEW g \in Groups, NEW h \in Groups, g.name = h.name
  PROVE  g = h
<1> DEFINE a == Group("steam_respawn", SteamRespawnGuards, SteamRespawnPatches)
           b == Group("classic", ClassicGuards, ClassicRecipes)
           c == Group("discovery", {}, <<>>)
<1>1. a.name = "steam_respawn" /\ b.name = "classic" /\ c.name = "discovery"
  BY SMT DEF Group
<1> HIDE DEF a, b, c
<1>2. \A f \in Among(SteamVaultmp) \cup Among(FrameHooks) : f.name \notin {"steam_respawn", "classic", "discovery"}
  BY SMT DEF Among, SteamVaultmp, FrameHooks, Group
<1>3. \A e, f \in Among(SteamVaultmp) \cup Among(FrameHooks) : e.name = f.name => e = f
  BY SMT DEF Among, SteamVaultmp, FrameHooks, Group
<1>4. Groups = {a, b, c} \cup Among(SteamVaultmp) \cup Among(FrameHooks)
  BY GroupsListed, Zenon DEF a, b, c
<1> QED BY <1>1, <1>2, <1>3, <1>4, SMT

\* Every patch that no classic recipe makes.
SteamAndFramePatches ==
  Among(SteamRespawnPatches)
    \cup UNION {PatchesOf(g) : g \in Among(SteamVaultmp) \cup Among(FrameHooks)}

\* Where a patch is to be found.
LEMMA PatchesListed ==
  ASSUME NEW p \in EveryPatch
  PROVE  \/ p \in Among(RespawnAndDelegatorRecipes)
         \/ p \in Among(BehaviourRecipes)
         \/ p \in SteamAndFramePatches
<1> PICK g \in Groups : p \in PatchesOf(g)
  BY DEF EveryPatch
<1>1. CASE g = Group("classic", ClassicGuards, ClassicRecipes)
  BY <1>1, RecipesListed, SMT DEF PatchesOf, Group
<1>2. CASE g = Group("steam_respawn", SteamRespawnGuards, SteamRespawnPatches)
  BY <1>2, SMT DEF PatchesOf, Group, SteamAndFramePatches
<1>3. CASE g = Group("discovery", {}, <<>>)
  BY <1>3, SMT DEF PatchesOf, Group, Among
<1>4. CASE g \in Among(SteamVaultmp) \cup Among(FrameHooks)
  BY <1>4, Zenon DEF SteamAndFramePatches
<1> QED BY <1>1, <1>2, <1>3, <1>4, GroupsListed, Zenon

\* The bytes of any two are apart, and apart from those of the predicate.
LEMMA PatchesApart ==
  /\ \A p, q \in EveryPatch : p # q => Apart(p, q)
  /\ \A p \in EveryPatch, i \in 1..2 : Apart(p, AiPredicateSites[i])
<1> DEFINE A == Among(RespawnAndDelegatorRecipes)
           B == Among(BehaviourRecipes)
           C == {Site("siteA", \h9C43A5, 2), Site("siteB", \h8C9CE0, RelLen),
                 Site("siteBTail", \h8C9CE5, 1), Site("siteB2", \h8C9D52, 4),
                 Site("ai_fix2", \h7D0AA6, 1), Site("ai_fix3", \h7D0AD5, 6),
                 Site("match_race", \h6F722C, 2), Site("ai_fix4", \h63FB36, 13),
                 Site("fnvFrame", \h86B386, RelLen), Site("fo3Frame", \h6EEB2F, RelLen),
                 Site("steamFrame", \h9B3D77, RelLen), Site("steamFrameTail", \h9B3D7C, 1)}
<1>1. SteamAndFramePatches \subseteq C
  BY SMT DEF SteamAndFramePatches, Among, PatchesOf, SteamRespawnPatches, SteamVaultmp, FrameHooks,
             Group, Site, RelLen
<1>2. \A p, q \in A : p # q => Apart(p, q)
  BY SMT DEF RespawnAndDelegatorRecipes, Among, Site, RelLen, Apart
<1>3. \A p, q \in B : p # q => Apart(p, q)
  BY SMT DEF BehaviourRecipes, Among, Site, RelLen, Apart
<1>4. \A p, q \in C : p # q => Apart(p, q)
  BY SMT DEF Site, RelLen, Apart
<1>5. \A p \in A, q \in B : Apart(p, q) /\ Apart(q, p)
  BY SMT DEF RespawnAndDelegatorRecipes, BehaviourRecipes, Among, Site, RelLen, Apart
<1>6. \A p \in A, q \in C : Apart(p, q) /\ Apart(q, p)
  BY SMT DEF RespawnAndDelegatorRecipes, Among, Site, RelLen, Apart
<1>7. \A p \in B, q \in C : Apart(p, q) /\ Apart(q, p)
  BY SMT DEF BehaviourRecipes, Among, Site, RelLen, Apart
<1>8. \A p \in A \cup B \cup C, i \in 1..2 : Apart(p, AiPredicateSites[i])
  <2>1. \A p \in A, i \in 1..2 : Apart(p, AiPredicateSites[i])
    BY SMT DEF RespawnAndDelegatorRecipes, AiPredicateSites, Among, Site, RelLen, Apart
  <2>2. \A p \in B, i \in 1..2 : Apart(p, AiPredicateSites[i])
    BY SMT DEF BehaviourRecipes, AiPredicateSites, Among, Site, RelLen, Apart
  <2>3. \A p \in C, i \in 1..2 : Apart(p, AiPredicateSites[i])
    BY SMT DEF AiPredicateSites, Site, RelLen, Apart
  <2> HIDE DEF A, B, C
  <2> QED BY <2>1, <2>2, <2>3, Zenon
<1>9. \A p \in EveryPatch : p \in A \/ p \in B \/ p \in C
  <2> HIDE DEF C
  <2> QED BY <1>1, PatchesListed, Zenon
<1> HIDE DEF A, B, C
<1> QED BY <1>2, <1>3, <1>4, <1>5, <1>6, <1>7, <1>8, <1>9, Zenon

\* Sites that are apart share no byte.
LEMMA ApartBytes ==
  ASSUME NEW p, NEW q, IsSite(p), IsSite(q), Apart(p, q)
  PROVE  Bytes(p) \cap Bytes(q) = {}
BY SMT DEF IsSite, Apart, Bytes

\* A group that writes anything changes a byte that one of its guards reads,
LEMMA GuardsOwnBytes ==
  ASSUME NEW g \in Groups, PatchesOf(g) # {}
  PROVE  \E p \in Effective(g), s \in g.guards : Bytes(p) \cap Bytes(s) # {}
<1>1. SUFFICES \E p \in Effective(g), s \in g.guards : s.at <= p.at /\ p.at < s.at + s.len
  <2> PICK p \in Effective(g), s \in g.guards : s.at <= p.at /\ p.at < s.at + s.len
    BY <1>1, Zenon
  <2>1. IsSite(p)
    BY OneGroup DEF Effective
  <2>2. p.at \in Bytes(p)
    BY <2>1, SMT DEF Bytes, IsSite
  <2>3. s.at \in Int /\ s.len \in Int
    <3>1. CASE g = Group("classic", ClassicGuards, ClassicRecipes)
      BY <3>1, SMT DEF Group, ClassicGuards, Site
    <3>2. CASE g = Group("steam_respawn", SteamRespawnGuards, SteamRespawnPatches)
      BY <3>2, SMT DEF Group, SteamRespawnGuards, Site
    <3>3. CASE g = Group("discovery", {}, <<>>)
      BY <3>3, SMT DEF Group
    <3>4. CASE g \in Among(SteamVaultmp) \cup Among(FrameHooks)
      BY <3>4, SMT DEF Group, Among, SteamVaultmp, FrameHooks, Site
    <3> QED BY <3>1, <3>2, <3>3, <3>4, GroupsListed, Zenon
  <2>4. p.at \in Bytes(s)
    BY <2>1, <2>3, SMT DEF Bytes, IsSite
  <2> QED BY <2>2, <2>4, Zenon
<1>2. CASE g = Group("classic", ClassicGuards, ClassicRecipes)
  <2>1. Site("lock_fix_nop", \h527F33, 2) \in Effective(g)
    <3>1. BehaviourRecipes[4] = Site("lock_fix_nop", \h527F33, 2) /\ 4 \in DOMAIN BehaviourRecipes
      BY SMT DEF BehaviourRecipes
    <3>2. Site("lock_fix_nop", \h527F33, 2) \in Among(BehaviourRecipes)
      BY <3>1, SMT DEF Among
    <3>3. g.patches = ClassicRecipes
      BY <1>2, SMT DEF Group
    <3> QED BY <3>2, <3>3, RecipesListed, SMT DEF Effective, PatchesOf, Rewrites, Site
  <2>2. Site("lock_fix", \h527F33, 4) \in g.guards
    BY <1>2, SMT DEF Group, ClassicGuards
  <2> QED BY <2>1, <2>2, SMT DEF Site
<1>3. CASE g = Group("steam_respawn", SteamRespawnGuards, SteamRespawnPatches)
  <2>1. Site("siteA", \h9C43A5, 2) \in Effective(g)
    <3>1. SteamRespawnPatches[1] = Site("siteA", \h9C43A5, 2) /\ 1 \in DOMAIN SteamRespawnPatches
      BY SMT DEF SteamRespawnPatches
    <3> QED BY <1>3, <3>1, SMT DEF Group, Effective, PatchesOf, Among, Rewrites, Site
  <2>2. Site("siteA", \h9C43A5, 2) \in g.guards
    BY <1>3, SMT DEF Group, SteamRespawnGuards
  <2> QED BY <2>1, <2>2, SMT DEF Site
<1>4. CASE g = Group("discovery", {}, <<>>)
  BY <1>4, SMT DEF Group, PatchesOf, Among
<1>5. CASE g \in Among(SteamVaultmp) \cup Among(FrameHooks)
  <2>1. g.patches[1] \in Effective(g)
    BY <1>5, SMT DEF Group, Among, SteamVaultmp, FrameHooks, Effective, PatchesOf, Rewrites, Site
  <2>2. \A s \in g.guards : s.at <= g.patches[1].at /\ g.patches[1].at < s.at + s.len
    BY <1>5, SMT DEF Group, Among, SteamVaultmp, FrameHooks, Site, RelLen
  <2>3. g.guards # {}
    BY <1>5, SMT DEF Group, Among, SteamVaultmp, FrameHooks
  <2> QED BY <2>1, <2>2, <2>3, SMT
<1> QED BY <1>2, <1>3, <1>4, <1>5, GroupsListed, Zenon

\* and an instruction lies within what the patches of one group change.
LEMMA InstructionIsOneGroups ==
  ASSUME NEW s \in GuardedInstructions
  PROVE  \E g \in Groups : \A a \in Bytes(s) : \E p \in Effective(g) : a \in Bytes(p)
<1>1. CASE s \in SteamRespawnGuards
  <2> DEFINE g == Group("steam_respawn", SteamRespawnGuards, SteamRespawnPatches)
  <2>1. g \in Groups
    BY GroupsListed, Zenon
  <2>2. \A i \in 1..4 : SteamRespawnPatches[i] \in Effective(g)
    BY SMT DEF SteamRespawnPatches, Effective, PatchesOf, Among, Group, Rewrites, Site
  <2>3. \A a \in Bytes(s) : \E i \in 1..4 : a \in Bytes(SteamRespawnPatches[i])
    BY <1>1, SMT DEF SteamRespawnGuards, SteamRespawnPatches, Site, RelLen, Bytes
  <2> QED BY <2>1, <2>2, <2>3, Zenon
<1>2. CASE s \in {Site("fnvFrame", \h86B386, 5), Site("fo3Frame", \h6EEB2F, 5),
                  Site("steamFrame", \h9B3D77, 6)}
  <2>1. PICK i \in 1..3 : \A a \in Bytes(s) : \E p \in Effective(FrameHooks[i]) : a \in Bytes(p)
    <3>1. CASE s = Site("fnvFrame", \h86B386, 5)
      <4>1. FrameHooks[1].patches[1] \in Effective(FrameHooks[1])
        BY SMT DEF FrameHooks, Effective, PatchesOf, Among, Group, Rewrites, Site
      <4>2. Bytes(s) \subseteq Bytes(FrameHooks[1].patches[1])
        BY <3>1, SMT DEF FrameHooks, Group, Site, RelLen, Bytes
      <4> QED BY <4>1, <4>2
    <3>2. CASE s = Site("fo3Frame", \h6EEB2F, 5)
      <4>1. FrameHooks[2].patches[1] \in Effective(FrameHooks[2])
        BY SMT DEF FrameHooks, Effective, PatchesOf, Among, Group, Rewrites, Site
      <4>2. Bytes(s) \subseteq Bytes(FrameHooks[2].patches[1])
        BY <3>2, SMT DEF FrameHooks, Group, Site, RelLen, Bytes
      <4> QED BY <4>1, <4>2
    <3>3. CASE s = Site("steamFrame", \h9B3D77, 6)
      <4>1. \A i \in 1..2 : FrameHooks[3].patches[i] \in Effective(FrameHooks[3])
        BY SMT DEF FrameHooks, Effective, PatchesOf, Among, Group, Rewrites, Site
      <4>2. \A a \in Bytes(s) : \E i \in 1..2 : a \in Bytes(FrameHooks[3].patches[i])
        BY <3>3, SMT DEF FrameHooks, Group, Site, RelLen, Bytes
      <4> QED BY <4>1, <4>2
    <3> QED BY <1>2, <3>1, <3>2, <3>3, SMT
  <2>2. FrameHooks[i] \in Groups
    <3>1. FrameHooks[i] \in Among(FrameHooks)
      BY SMT DEF FrameHooks, Among
    <3> QED BY <3>1, GroupsListed, Zenon
  <2> QED BY <2>1, <2>2, Zenon
<1> QED BY <1>1, <1>2, SMT DEF GuardedInstructions

\* A group's patches are some of all, each made once.
LEMMA GroupPatches ==
  ASSUME NEW g \in Groups
  PROVE  g.patches \in Seq(EveryPatch) /\ Distinct(g.patches)
<1>1. g.patches \in Seq(PatchesOf(g)) /\ Distinct(g.patches)
  <2>1. CASE g = Group("classic", ClassicGuards, ClassicRecipes)
    <3>1. g.patches = ClassicRecipes
      BY <2>1, SMT DEF Group
    <3>2. RespawnAndDelegatorRecipes \in Seq(Among(ClassicRecipes)) /\ Distinct(RespawnAndDelegatorRecipes)
      <4>1. RespawnAndDelegatorRecipes \in Seq(Among(RespawnAndDelegatorRecipes))
        BY SMT DEF RespawnAndDelegatorRecipes, Among
      <4>2. Distinct(RespawnAndDelegatorRecipes)
        BY SMT DEF Distinct, RespawnAndDelegatorRecipes, Site, RelLen
      <4> QED BY <4>1, <4>2, RecipesListed, SMT
    <3>3. BehaviourRecipes \in Seq(Among(ClassicRecipes)) /\ Distinct(BehaviourRecipes)
      <4>1. BehaviourRecipes \in Seq(Among(BehaviourRecipes))
        BY SMT DEF BehaviourRecipes, Among
      <4>2. Distinct(BehaviourRecipes)
        BY SMT DEF Distinct, BehaviourRecipes, Site, RelLen
      <4> QED BY <4>1, <4>2, RecipesListed, SMT
    <3>4. Among(RespawnAndDelegatorRecipes) \cap Among(BehaviourRecipes) = {}
      BY SMT DEF Among, RespawnAndDelegatorRecipes, BehaviourRecipes, Site, RelLen
    <3>5. Distinct(ClassicRecipes)
      BY <3>2, <3>3, <3>4, ConcatDistinct, SMT DEF ClassicRecipes
    <3> QED BY <3>1, <3>5, RecipesListed, SMT DEF PatchesOf
  <2>2. CASE g = Group("steam_respawn", SteamRespawnGuards, SteamRespawnPatches)
    <3>1. g.patches = SteamRespawnPatches
      BY <2>2, SMT DEF Group
    <3>2. SteamRespawnPatches \in Seq(Among(SteamRespawnPatches)) /\ Distinct(SteamRespawnPatches)
      BY SMT DEF SteamRespawnPatches, Among, Distinct, Site
    <3> QED BY <3>1, <3>2, SMT DEF PatchesOf
  <2>3. CASE g = Group("discovery", {}, <<>>)
    BY <2>3, SMT DEF Group, Distinct, PatchesOf, Among
  <2>4. CASE g \in Among(SteamVaultmp) \cup Among(FrameHooks)
    <3>1. Distinct(g.patches)
      BY <2>4, SMT DEF Among, SteamVaultmp, FrameHooks, Group, Distinct, Site
    <3>2. g.patches = <<g.patches[1]>> \/ g.patches = <<g.patches[1], g.patches[2]>>
      BY <2>4, SMT DEF Among, SteamVaultmp, FrameHooks, Group
    <3>3. g.patches \in Seq(Among(g.patches))
      <4> PICK x, y : g.patches = <<x>> \/ g.patches = <<x, y>>
        BY <3>2, Zenon
      <4>1. CASE g.patches = <<x>>
        BY <4>1, AmongFew, FewAreSeq
      <4>2. CASE g.patches = <<x, y>>
        BY <4>2, AmongFew, FewAreSeq
      <4> QED BY <4>1, <4>2
    <3> QED BY <3>1, <3>3 DEF PatchesOf
  <2> QED BY <2>1, <2>2, <2>3, <2>4, GroupsListed, Zenon
<1>2. PatchesOf(g) \subseteq EveryPatch
  BY DEF EveryPatch
<1> QED BY <1>1, <1>2, SMT

-----------------------------------------------------------------------------
(* The inductive invariant of the hooks. *)

\* The patches the running install has still to make.
Remaining == Among(patches)

HookTypes ==
  /\ image \in Images
  /\ initialized \in BOOLEAN /\ hooksInstalled \in BOOLEAN
  /\ running \in BOOLEAN /\ attached \in BOOLEAN
  /\ loads \in 0..MaxLoads /\ servers \in Nat
  /\ servers <= loads + IF attached THEN 1 ELSE 0
  /\ todo \in Seq(Groups) /\ patches \in Seq(EveryPatch)
  /\ changed \subseteq written
  /\ detour \subseteq Predicates /\ trampoline \in Predicates \cup {"none"}
  /\ events \subseteq Kinds /\ skipped \subseteq Detours

\* Of every group no byte was written, or each patch that matters was made or
\* is going to be made by this install: the guards of the next will see it.
WholeOrUntouched ==
  \A g \in Groups :
    \/ \A p \in PatchesOf(g) : p \notin Remaining /\ Bytes(p) \cap written = {}
    \/ \A p \in Effective(g) : p \in Remaining \/ Bytes(p) \subseteq changed

\* What is to be written was not, and is to be written once.
RemainingAreFree ==
  /\ \A p \in Remaining : Bytes(p) \cap written = {}
  /\ Distinct(patches)
  /\ rewritten = {}

\* Nothing is written at the predicate but the one detour.
OneDetour ==
  /\ detour = {} => \A i \in 1..2 : Bytes(AiPredicateSites[i]) \cap written = {}
  /\ detour \subseteq {trampoline}

HookInv == HookTypes /\ WholeOrUntouched /\ RemainingAreFree /\ OneDetour

-----------------------------------------------------------------------------
(* The steps of an install. *)

\* Nothing that is written, or is to be, changes.
LEMMA HookInvStays ==
  ASSUME HookInv, UNCHANGED installVars, image' = image,
         initialized' \in BOOLEAN, hooksInstalled' \in BOOLEAN, running' \in BOOLEAN,
         attached' = attached, loads' = loads, servers' = servers,
         events' \subseteq Kinds, skipped' \subseteq Detours
  PROVE  HookInv'
<1> USE DEF HookInv, installVars
<1>1. HookTypes'
  BY SMT DEF HookTypes
<1>2. WholeOrUntouched'
  <2>1. Remaining' = Remaining
    BY DEF Remaining
  <2> QED BY <2>1, Zenon DEF WholeOrUntouched
<1>3. RemainingAreFree'
  <2>1. Remaining' = Remaining
    BY DEF Remaining
  <2> QED BY <2>1, Zenon DEF RemainingAreFree
<1>4. OneDetour'
  BY Zenon DEF OneDetour
<1> QED BY <1>1, <1>2, <1>3, <1>4

LEMMA HookStarts == ASSUME HookAssumption, HookInit PROVE HookInv
<1> USE DEF HookInit
<1>1. HookTypes
  <2>1. servers <= loads + IF attached THEN 1 ELSE 0
    BY SMT
  <2>2. loads \in 0..MaxLoads /\ servers \in Nat
    BY SMT DEF HookAssumption
  <2>3. todo \in Seq(Groups) /\ patches \in Seq(EveryPatch)
    BY SMT
  <2>4. changed \subseteq written /\ detour \subseteq Predicates /\ events \subseteq Kinds /\ skipped \subseteq Detours
    BY SMT
  <2> QED BY <2>1, <2>2, <2>3, <2>4, Zenon DEF HookTypes
<1>2. Remaining = {} /\ Distinct(patches)
  BY AmongFew DEF Remaining, Distinct
<1>3. WholeOrUntouched
  BY <1>2, Zenon DEF WholeOrUntouched
<1>4. RemainingAreFree /\ OneDetour
  BY <1>2, SMT DEF RemainingAreFree, OneDetour
<1> QED BY <1>1, <1>3, <1>4 DEF HookInv

\* An install begins: by DllMain, or by the plugin loader.
LEMMA StartKeeps ==
  ASSUME HookAssumption, HookInv, Idle, StartInstall, image' = image,
         initialized' \in BOOLEAN, running' = running, attached' \in BOOLEAN,
         \/ loads' = loads /\ ~ attached /\ attached'
         \/ loads' = loads + 1 /\ loads < MaxLoads /\ attached' = attached,
         UNCHANGED gameVars
  PROVE  HookInv'
<1> USE DEF HookInv, StartInstall, gameVars
<1>1. HookTypes'
  BY GroupsListed, SMT DEF HookTypes, HookAssumption
<1>2. Remaining' = Remaining
  BY DEF Remaining
<1>3. WholeOrUntouched'
  BY <1>2, Zenon DEF WholeOrUntouched
<1>4. RemainingAreFree'
  BY <1>2, Zenon DEF RemainingAreFree
<1>5. OneDetour'
  BY Zenon DEF OneDetour
<1> QED BY <1>1, <1>3, <1>4, <1>5

\* A group's guards stand only while none of its bytes was written.
LEMMA VisitKeeps ==
  ASSUME HookAssumption, HookInv, VisitGroup
  PROVE  HookInv'
<1> DEFINE g == Head(todo)
<1> USE DEF HookInv
<1>1. /\ patches = <<>> /\ todo # <<>> /\ todo' = Tail(todo)
      /\ patches' = IF \A s \in g.guards : Holds(s) THEN g.patches ELSE <<>>
      /\ UNCHANGED <<image, flagVars, written, rewritten, changed, detour, trampoline, gameVars>>
  BY DEF VisitGroup
<1>2. g \in Groups /\ todo' \in Seq(Groups)
  BY <1>1, AmongParts DEF HookTypes
<1> HIDE DEF g
<1>3. Remaining = {}
  BY <1>1, AmongFew DEF Remaining
<1>4. HookTypes'
  BY <1>1, <1>2, GroupPatches, SMT DEF HookTypes, flagVars, gameVars
<1>5. OneDetour'
  BY <1>1, Zenon DEF OneDetour
<1>6. CASE patches' = <<>>
  <2>1. Remaining' = {} /\ Distinct(patches)'
    BY <1>6, AmongFew DEF Remaining, Distinct
  <2>2. WholeOrUntouched'
    BY <1>1, <1>3, <2>1, Zenon DEF WholeOrUntouched
  <2>3. RemainingAreFree'
    BY <1>1, <2>1, Zenon DEF RemainingAreFree
  <2> QED BY <1>4, <1>5, <2>2, <2>3
<1>7. CASE patches' = g.patches /\ \A s \in g.guards : Holds(s)
  <2>1. Remaining' = PatchesOf(g) /\ Distinct(patches)'
    <3>1. Remaining' = Among(g.patches)
      BY <1>7 DEF Remaining
    <3>2. Distinct(g.patches)
      BY <1>2, GroupPatches
    <3> QED BY <3>1, <3>2, <1>7 DEF PatchesOf, Distinct
  <2>2. \A p \in PatchesOf(g) : Bytes(p) \cap written = {}
    <3> SUFFICES ASSUME PatchesOf(g) # {},
                        \A p \in Effective(g) : p \in Remaining \/ Bytes(p) \subseteq changed
                 PROVE  FALSE
      BY <1>2, Zenon DEF WholeOrUntouched
    <3>1. PICK p \in Effective(g), s \in g.guards : Bytes(p) \cap Bytes(s) # {}
      BY <1>2, GuardsOwnBytes
    <3>2. Bytes(p) \subseteq changed
      BY <1>3
    <3>3. Bytes(s) \cap changed = {}
      BY <1>7 DEF Holds
    <3> QED BY <3>1, <3>2, <3>3
  <2>3. RemainingAreFree'
    BY <1>1, <2>1, <2>2, Zenon DEF RemainingAreFree
  <2>4. WholeOrUntouched'
    <3> SUFFICES ASSUME NEW h \in Groups
                 PROVE  \/ \A p \in PatchesOf(h) : p \notin Remaining' /\ Bytes(p) \cap written' = {}
                        \/ \A p \in Effective(h) : p \in Remaining' \/ Bytes(p) \subseteq changed'
      BY Zenon DEF WholeOrUntouched
    <3>1. CASE h = g
      BY <3>1, <2>1, Zenon DEF Effective
    <3>2. CASE h # g
      <4>1. PatchesOf(h) \cap PatchesOf(g) = {}
        <5> SUFFICES ASSUME NEW p \in PatchesOf(h), p \in PatchesOf(g) PROVE FALSE
          OBVIOUS
        <5>1. g.name = GroupOf(p.name) /\ h.name = GroupOf(p.name)
          BY <1>2, OneGroup
        <5> QED BY <5>1, <1>2, <3>2, GroupNames
      <4> QED BY <4>1, <2>1, <1>1, <1>3, Zenon DEF WholeOrUntouched
    <3> QED BY <3>1, <3>2
  <2> QED BY <1>4, <1>5, <2>3, <2>4
<1> QED BY <1>1, <1>6, <1>7

\* A patch is made; its bytes are nobody else's.
LEMMA WriteKeeps ==
  ASSUME HookInv, WritePatch
  PROVE  HookInv'
<1> DEFINE p == Head(patches)
<1> USE DEF HookInv
<1>1. /\ patches # <<>> /\ patches' = Tail(patches)
      /\ written' = written \cup Bytes(p)
      /\ rewritten' = rewritten \cup (written \cap Bytes(p))
      /\ changed' = IF p.name \in Rewrites THEN changed ELSE changed \cup Bytes(p)
      /\ UNCHANGED <<image, flagVars, todo, detour, trampoline, gameVars>>
  BY DEF WritePatch, Overwrite
<1>2. /\ p \in EveryPatch /\ patches' \in Seq(EveryPatch)
      /\ Remaining = {p} \cup Remaining'
  BY <1>1, AmongParts DEF HookTypes, Remaining
<1>3. p \notin Remaining' /\ Distinct(patches)'
  <2>1. /\ \A i \in DOMAIN patches' : i + 1 \in DOMAIN patches /\ patches'[i] = patches[i + 1]
        /\ 1 \in DOMAIN patches /\ p = patches[1]
        /\ \A i \in DOMAIN patches' : i \in Nat \ {0}
    BY <1>1 DEF HookTypes
  <2>2. p \notin Remaining'
    BY <2>1 DEF Remaining, Among, RemainingAreFree, Distinct
  <2>3. Distinct(patches)'
    BY <2>1 DEF RemainingAreFree, Distinct
  <2> QED BY <2>2, <2>3
<1> HIDE DEF p
<1>4. \A q \in EveryPatch : q # p => Bytes(q) \cap Bytes(p) = {}
  <2> SUFFICES ASSUME NEW q \in EveryPatch, q # p PROVE Bytes(q) \cap Bytes(p) = {}
    OBVIOUS
  <2>1. IsSite(p) /\ IsSite(q)
    BY <1>2, OneGroup, Zenon DEF EveryPatch
  <2> QED BY <1>2, <2>1, PatchesApart, ApartBytes
<1>5. HookTypes'
  BY <1>1, <1>2, SMT DEF HookTypes, flagVars, gameVars
<1>6. RemainingAreFree'
  <2>1. Remaining' \subseteq EveryPatch
    BY <1>2, SMT DEF Remaining, Among
  <2>2. \A q \in Remaining' : Bytes(q) \cap written' = {}
    BY <1>1, <1>2, <1>3, <1>4, <2>1, Zenon DEF RemainingAreFree
  <2>3. rewritten' = {}
    BY <1>1, <1>2, Zenon DEF RemainingAreFree
  <2> QED BY <1>3, <2>2, <2>3, Zenon DEF RemainingAreFree
<1>7. WholeOrUntouched'
  <2> SUFFICES ASSUME NEW g \in Groups
               PROVE  \/ \A q \in PatchesOf(g) : q \notin Remaining' /\ Bytes(q) \cap written' = {}
                      \/ \A q \in Effective(g) : q \in Remaining' \/ Bytes(q) \subseteq changed'
    BY Zenon DEF WholeOrUntouched
  <2>1. CASE \A q \in PatchesOf(g) : q \notin Remaining /\ Bytes(q) \cap written = {}
    <3>1. \A q \in PatchesOf(g) : q \in EveryPatch /\ q # p
      BY <1>2, <2>1, Zenon DEF EveryPatch
    <3> QED BY <1>1, <1>2, <1>4, <2>1, <3>1, Zenon
  <2>2. CASE \A q \in Effective(g) : q \in Remaining \/ Bytes(q) \subseteq changed
    <3>1. \A q \in Effective(g) : q = p => Bytes(q) \subseteq changed'
      BY <1>1, SMT DEF Effective
    <3>2. changed \subseteq changed'
      BY <1>1
    <3> QED BY <1>2, <2>2, <3>1, <3>2, Zenon
  <2> QED BY <2>1, <2>2, Zenon DEF WholeOrUntouched
<1>8. OneDetour'
  <2>1. \A i \in 1..2 : Bytes(AiPredicateSites[i]) \cap Bytes(p) = {}
    <3> SUFFICES ASSUME NEW i \in 1..2 PROVE Bytes(AiPredicateSites[i]) \cap Bytes(p) = {}
      OBVIOUS
    <3>1. IsSite(p)
      BY <1>2, OneGroup, Zenon DEF EveryPatch
    <3>2. IsSite(AiPredicateSites[i])
      BY SMT DEF AiPredicateSites, IsSite, Site, RelLen
    <3> QED BY <1>2, <3>1, <3>2, PatchesApart, ApartBytes
  <2> QED BY <1>1, <2>1, Zenon DEF OneDetour
<1> QED BY <1>5, <1>6, <1>7, <1>8

\* The site found is one of the two.
LEMMA PredicateIsOne ==
  PredicateSite \subseteq {AiPredicateSites[1], AiPredicateSites[2]}
<1> DEFINE found == { i \in 1..2 : Holds(Prologue(AiPredicateSites[i])) }
           first == CHOOSE i \in found : \A j \in found : i <= j
<1>1. ASSUME found # {} PROVE first \in found
  <2>1. \E i \in found : \A j \in found : i <= j
    <3>1. CASE 1 \in found
      BY <3>1
    <3>2. CASE 1 \notin found
      <4>1. found = {2}
        BY <1>1, <3>2
      <4> QED BY <4>1
    <3> QED BY <3>1, <3>2
  <2> HIDE DEF found
  <2> QED BY <2>1, Zenon
<1>2. PredicateSite = IF found = {} THEN {} ELSE {AiPredicateSites[first]}
  BY Zenon DEF PredicateSite
<1>3. found \subseteq {1, 2}
  OBVIOUS
<1> HIDE DEF found, first
<1> QED BY <1>1, <1>2, <1>3

\* The detour of the predicate is made once.
LEMMA DiscoverKeeps ==
  ASSUME HookInv, Discover
  PROVE  HookInv'
<1> USE DEF HookInv
<1>1. /\ patches = <<>> /\ todo # <<>> /\ todo' = Tail(todo)
      /\ UNCHANGED <<image, flagVars, patches, gameVars>>
  BY DEF Discover
<1>2. todo' \in Seq(Groups)
  BY <1>1, AmongParts DEF HookTypes
<1>3. Remaining' = Remaining /\ Distinct(patches)' = Distinct(patches)
  BY <1>1 DEF Remaining, Distinct
<1>4. CASE UNCHANGED <<written, rewritten, changed, detour, trampoline>>
  <2>1. HookTypes'
    BY <1>1, <1>2, <1>4, SMT DEF HookTypes, flagVars, gameVars
  <2>2. WholeOrUntouched' /\ RemainingAreFree'
    BY <1>3, <1>4, Zenon DEF WholeOrUntouched, RemainingAreFree
  <2>3. OneDetour'
    BY <1>4, Zenon DEF OneDetour
  <2> QED BY <2>1, <2>2, <2>3
<1>5. ASSUME ~ AlreadyHooked, NEW s \in PredicateSite,
             trampoline' = s.name, detour' = detour \cup {s.name},
             Overwrite(Bytes(s)), changed' = changed \cup Bytes(s)
      PROVE  HookInv'
  <2>1. PICK i \in 1..2 : s = AiPredicateSites[i]
    BY PredicateIsOne
  <2>2. IsSite(s) /\ s.name \in Predicates
    BY <2>1, SMT DEF AiPredicateSites, IsSite, Site, RelLen, Predicates
  <2>3. \A p \in EveryPatch : Bytes(p) \cap Bytes(s) = {}
    <3> SUFFICES ASSUME NEW p \in EveryPatch PROVE Bytes(p) \cap Bytes(s) = {}
      OBVIOUS
    <3>1. IsSite(p)
      BY OneGroup, Zenon DEF EveryPatch
    <3> QED BY <2>1, <2>2, <3>1, PatchesApart, ApartBytes
  <2>4. /\ written' = written \cup Bytes(s)
        /\ rewritten' = rewritten \cup (written \cap Bytes(s))
        /\ detour = {} /\ Bytes(s) \cap written = {}
    BY <1>5, <2>1, Zenon DEF Overwrite, AlreadyHooked, OneDetour
  <2>5. HookTypes'
    BY <1>1, <1>2, <1>5, <2>2, <2>4, SMT DEF HookTypes, flagVars, gameVars
  <2>6. OneDetour'
    BY <1>5, <2>4 DEF OneDetour
  <2>7. RemainingAreFree'
    <3>1. Remaining = {}
      BY <1>1, AmongFew DEF Remaining
    <3> QED BY <1>3, <2>4, <3>1 DEF RemainingAreFree
  <2>8. WholeOrUntouched'
    <3>1. \A g \in Groups : \A p \in PatchesOf(g) : p \in EveryPatch
      BY Zenon DEF EveryPatch
    <3> QED BY <1>3, <1>5, <2>3, <2>4, <3>1, Zenon DEF WholeOrUntouched
  <2> QED BY <2>5, <2>6, <2>7, <2>8
<1> QED BY <1>4, <1>5 DEF Discover

\* The invariant of the hooks holds.
LEMMA HookInvariance == ASSUME HookAssumption PROVE HookSpec => []HookInv
<1>1. HookInit => HookInv
  BY HookStarts
<1>2. HookInv /\ [HookNext]_hookVars => HookInv'
  <2> SUFFICES ASSUME HookInv, [HookNext]_hookVars PROVE HookInv'
    OBVIOUS
  <2>1. CASE UNCHANGED hookVars
    <3>1. /\ initialized' \in BOOLEAN /\ hooksInstalled' \in BOOLEAN /\ running' \in BOOLEAN
          /\ events' \subseteq Kinds /\ skipped' \subseteq Detours
      BY <2>1 DEF hookVars, flagVars, gameVars, HookInv, HookTypes
    <3> QED BY <2>1, <3>1, HookInvStays DEF hookVars, flagVars
  <2>2. CASE Attach
    <3>1. /\ Idle /\ ~ attached /\ attached' = TRUE /\ initialized' = TRUE
          /\ UNCHANGED <<image, running, loads, gameVars>>
          /\ StartInstall \/ UNCHANGED <<hooksInstalled, servers, installVars>>
      BY <2>2 DEF Attach
    <3>2. CASE StartInstall
      BY <3>1, <3>2, StartKeeps
    <3>3. CASE UNCHANGED <<hooksInstalled, servers, installVars>>
      <4>1. HookTypes'
        BY <3>1, <3>3, SMT DEF HookInv, HookTypes, installVars, gameVars
      <4>2. Remaining' = Remaining
        BY <3>3 DEF Remaining, installVars
      <4>3. WholeOrUntouched' /\ RemainingAreFree' /\ OneDetour'
        BY <3>3, <4>2, Zenon DEF HookInv, WholeOrUntouched, RemainingAreFree, OneDetour, installVars
      <4> QED BY <4>1, <4>3 DEF HookInv
    <3> QED BY <3>1, <3>2, <3>3
  <2>3. CASE PluginLoad
    <3>1. /\ Idle /\ loads < MaxLoads /\ loads' = loads + 1 /\ initialized' = TRUE /\ StartInstall
          /\ UNCHANGED <<image, running, attached, gameVars>>
      BY <2>3 DEF PluginLoad
    <3>2. attached \in BOOLEAN
      BY DEF HookInv, HookTypes
    <3> QED BY <3>1, <3>2, StartKeeps
  <2>4. CASE Detach
    <3>1. initialized' \in BOOLEAN /\ events' \subseteq Kinds /\ skipped' \subseteq Detours
      BY <2>4 DEF Detach, gameVars, HookInv, HookTypes
    <3> QED BY <2>4, <3>1, HookInvStays DEF Detach
  <2>5. ASSUME NEW name \in Detours \cup Calls, GameRuns(name) PROVE HookInv'
    <3>1. Collects(name) \subseteq Kinds
      BY DEF Collects, Kinds
    <3>2. /\ initialized' \in BOOLEAN /\ hooksInstalled' \in BOOLEAN /\ running' \in BOOLEAN
          /\ events' \subseteq Kinds /\ skipped' \subseteq Detours
      BY <2>5, <3>1 DEF GameRuns, flagVars, HookInv, HookTypes
    <3> QED BY <2>5, <3>2, HookInvStays DEF GameRuns, flagVars
  <2> QED BY <2>1, <2>2, <2>3, <2>4, <2>5, VisitKeeps, WriteKeeps, DiscoverKeeps DEF HookNext
<1> QED BY <1>1, <1>2, PTL DEF HookSpec

\* The variables of an install keep their types; at most one server thread is
\* started per load of the library (plugin_load, bridge_init).
THEOREM HookTypesHold == ASSUME HookAssumption PROVE HookSpec => []HookTypeOK
<1>1. HookInv => HookTypeOK
  <2> SUFFICES ASSUME HookInv PROVE HookTypeOK
    OBVIOUS
  <2>1. servers \in 0..MaxLoads + 1
    BY SMT DEF HookInv, HookTypes, HookAssumption
  <2> QED BY <2>1 DEF HookInv, HookTypes, RemainingAreFree, HookTypeOK
<1> QED BY <1>1, HookInvariance, PTL

\* However often the library is loaded (hooks::install and its guards), no byte
\* of the game's code is patched twice, none of GuardedInstructions in part, and
\* whoever jumps to the thunk comes back through its own trampoline.  It says
\* nothing of the instructions at the other sites: see GuardedAreWhole.
THEOREM DetoursStayWhole == ASSUME HookAssumption PROVE HookSpec => []DetoursAreWhole
<1>1. HookInv => DetoursAreWhole
  <2> SUFFICES ASSUME HookInv PROVE DetoursAreWhole
    OBVIOUS
  <2>1. WrittenOnce /\ TrampolineOfSite
    BY DEF HookInv, RemainingAreFree, OneDetour, WrittenOnce, TrampolineOfSite
  <2>2. GuardedAreWhole
    <3> SUFFICES ASSUME patches = <<>>, NEW s \in GuardedInstructions
                 PROVE  Bytes(s) \subseteq changed \/ Bytes(s) \cap changed = {}
      BY DEF GuardedAreWhole
    <3>1. Remaining = {} /\ changed \subseteq written
      BY AmongFew DEF Remaining, HookInv, HookTypes
    <3>2. PICK g \in Groups : \A a \in Bytes(s) : \E p \in Effective(g) : a \in Bytes(p)
      BY InstructionIsOneGroups, Zenon
    <3> QED BY <3>1, <3>2, Zenon DEF HookInv, WholeOrUntouched, Effective
  <2> QED BY <2>1, <2>2 DEF DetoursAreWhole
<1> QED BY <1>1, HookInvariance, PTL
=============================================================================
