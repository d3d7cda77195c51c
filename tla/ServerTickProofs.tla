-------------------------- MODULE ServerTickProofs --------------------------
(***************************************************************************)
(* Proofs about what the server's tick and the clocks drive: of the script *)
(* host, for any number of instances, timers and callbacks; of the         *)
(* sessions, for any addresses; and of the master server's list, for any   *)
(* servers and any clocks that satisfy the assumptions.                    *)
(***************************************************************************)
EXTENDS ScriptHost, Session, MasterList, FiniteSetTheorems, SequenceTheorems,
        WellFoundedInduction, TLAPS

(***************************************************************************)
(* The script host.                                                        *)
(***************************************************************************)
USE DEF Timer, TimerIds, Many

\* Only finitely many calls are due.
LEMMA DueCallsAreFinite ==
  ASSUME TypeOK
  PROVE  IsFiniteSet(DueCalls) /\ Cardinality(DueCalls) \in Nat
<1>1. nextId - 1 \in Int /\ nextId \in Nat
  BY ScriptHostAssumption DEF TypeOK
<1>2. IsFiniteSet(1..(nextId - 1)) /\ IsFiniteSet(1..Instances)
  BY <1>1, ScriptHostAssumption, FS_Interval
<1>3. IsFiniteSet((1..(nextId - 1)) \X (1..Instances))
  BY <1>2, FS_Product
<1>4. DueCalls \subseteq (1..(nextId - 1)) \X (1..Instances)
  BY DEF TypeOK, DueCalls, Due
<1> QED
  BY <1>3, <1>4, FS_Subset, FS_CardinalityType

\* The callbacks a tick collects belong to timers that are due.
LEMMA CollectedCalls ==
  ASSUME TypeOK, NEW s \in CallOrders
  PROVE  /\ s \in Seq(TimerIds \X (1..Instances))
         /\ \A i \in DOMAIN s : s[i] \in DueCalls
         /\ \A i, j \in DOMAIN s : i < j => s[i] # s[j]
<1> DEFINE n == Cardinality(DueCalls)
<1>1. n \in Nat
  BY DueCallsAreFinite
<1>2. s \in [1..n -> DueCalls] /\ \A i, j \in 1..n : i < j => s[i] # s[j]
  BY DEF CallOrders
<1>3. DueCalls \subseteq TimerIds \X (1..Instances)
  BY ScriptHostAssumption DEF TypeOK, DueCalls, Due
<1> HIDE DEF n
<1> QED
  BY <1>1, <1>2, <1>3

LEMMA TypeInit == Init => TypeOK
<1> SUFFICES ASSUME Init PROVE TypeOK
  OBVIOUS
<1>1. DOMAIN timers = {} /\ nextId \in 1..MaxTimers + 1
  BY ScriptHostAssumption DEF Init
<1>2. /\ queue \in Seq(Effect) /\ applying \in Seq(Effect) /\ log \in Seq(Effect)
      /\ firing \in Seq(TimerIds \X (1..Instances))
      /\ inbox \in [Players -> Seq(Effect \cup {End})]
  BY DEF Init
<1>3. /\ calls \in [TimerIds -> [1..Instances -> 0..Many]]
      /\ since \in [Players -> Int]
  BY DEF Init
<1> QED
  BY <1>1, <1>2, <1>3 DEF Init, TypeOK

\* Every action keeps every variable to its values.
LEMMA TypeStep ==
  ASSUME TypeOK, [Next]_vars
  PROVE  TypeOK'
<1> USE ScriptHostAssumption
<1>1. ASSUME NEW cb \in Callbacks, NEW interval \in Intervals,
             NEW repeating \in BOOLEAN, CreateTimer(cb, interval, repeating)
      PROVE  TypeOK'
  <2>1. \A id \in DOMAIN timers' : timers'[id] \in Timer
    BY <1>1 DEF CreateTimer, TypeOK
  <2>2. DOMAIN timers' \subseteq 1..nextId' - 1 /\ nextId' \in 1..MaxTimers + 1
    BY <1>1 DEF CreateTimer, TypeOK
  <2>3. killed' \subseteq 1..nextId' - 1 /\ steady' \subseteq 1..nextId' - 1
    BY <1>1 DEF CreateTimer, TypeOK
  <2>4. UNCHANGED <<queue, applying, present, inbox, phase, firing, running,
                    calls, log, since>>
    BY <1>1 DEF CreateTimer
  <2> QED
    BY <2>1, <2>2, <2>3, <2>4 DEF TypeOK
<1>2. ASSUME NEW id \in TimerIds, KillTimer(id)
      PROVE  TypeOK'
  BY <1>2 DEF KillTimer, TypeOK
<1>3. ASSUME NEW e \in Effect, Push(e)
      PROVE  TypeOK'
  <2>1. queue' \in Seq(Effect) /\ log' \in Seq(Effect)
    BY <1>3 DEF Push, TypeOK
  <2> QED
    BY <1>3, <2>1 DEF Push, TypeOK, timing
<1>4. CASE Return
  BY <1>4 DEF Return, TypeOK, timing
<1>5. CASE Notify
  BY <1>5 DEF Notify, TypeOK, timing
<1>6. ASSUME NEW p \in Players, NEW votes \in Votes, Join(p, votes)
      PROVE  TypeOK'
  <2>1. Applied \in Int
    BY DEF Applied, TypeOK
  <2> QED
    BY <1>6, <2>1 DEF Join, TypeOK, timing
<1>7. ASSUME NEW p \in Players, Leave(p)
      PROVE  TypeOK'
  BY <1>7 DEF Leave, TypeOK, timing
<1>8. CASE Elapse
  <2>1. DOMAIN timers' = DOMAIN timers
    BY <1>8 DEF Elapse
  <2>2. \A id \in DOMAIN timers' : timers'[id] \in Timer
    <3> TAKE id \in DOMAIN timers'
    <3>1. timers[id] \in Timer
      BY <2>1 DEF TypeOK
    <3>2. timers'[id] = [timers[id] EXCEPT !.left = IF timers[id].left > 0
                                                    THEN timers[id].left - 1
                                                    ELSE 0]
      BY <1>8, <2>1 DEF Elapse
    <3>3. timers[id].left \in Nat
      BY <3>1
    <3>4. (IF timers[id].left > 0 THEN timers[id].left - 1 ELSE 0) \in Nat
      BY <3>3
    <3> QED
      BY <3>1, <3>2, <3>4
  <2> QED
    BY <1>8, <2>1, <2>2 DEF Elapse, TypeOK
<1>9. CASE TickTimers
  <2>1. firing' \in Seq(TimerIds \X (1..Instances))
    BY <1>9, CollectedCalls DEF TickTimers
  <2>2. /\ DOMAIN timers' \subseteq 1..nextId - 1
        /\ \A id \in DOMAIN timers' : timers'[id] \in Timer
    BY <1>9 DEF TickTimers, TypeOK
  <2> QED
    BY <1>9, <2>1, <2>2 DEF TickTimers, TypeOK
<1>10. CASE Invoke
  <2>1. firing' \in Seq(TimerIds \X (1..Instances))
    BY <1>10 DEF Invoke, TypeOK
  <2>2. /\ Head(firing)[1] \in TimerIds /\ Head(firing)[2] \in 1..Instances
        /\ calls \in [TimerIds -> [1..Instances -> 0..Many]]
    BY <1>10 DEF Invoke, TypeOK
  <2>3. calls' \in [TimerIds -> [1..Instances -> 0..Many]]
    <3> DEFINE id == Head(firing)[1]
               k == Head(firing)[2]
               c == IF calls[id][k] < Many THEN calls[id][k] + 1 ELSE Many
    <3>0. id \in TimerIds /\ k \in 1..Instances
      BY <2>2
    <3>1. c \in 0..Many /\ calls[id] \in [1..Instances -> 0..Many]
      <4>1. calls[id] \in [1..Instances -> 0..Many]
        BY <2>2, <3>0
      <4>2. calls[id][k] \in 0..Many
        BY <4>1, <3>0
      <4> HIDE DEF id, k
      <4> QED
        BY <4>1, <4>2
    <3>2. calls' = [calls EXCEPT ![id] = [calls[id] EXCEPT ![k] = c]]
      BY <1>10, <2>2 DEF Invoke
    <3> HIDE DEF id, k, c
    <3> QED
      BY <2>2, <3>0, <3>1, <3>2
  <2> QED
    BY <1>10, <2>1, <2>3 DEF Invoke, TypeOK
<1>11. CASE DrainEffects
  BY <1>11 DEF DrainEffects, TypeOK, timing
<1>12. CASE ApplyEffect
  <2>1. Head(applying) \in Effect /\ applying' \in Seq(Effect)
    BY <1>12 DEF ApplyEffect, TypeOK
  <2>2. inbox' \in [Players -> Seq(Effect \cup {End})]
    BY <1>12, <2>1 DEF ApplyEffect, TypeOK
  <2> QED
    BY <1>12, <2>1, <2>2 DEF ApplyEffect, TypeOK, timing
<1>13. CASE EndTick
  BY <1>13 DEF EndTick, TypeOK, timing
<1>14. CASE UNCHANGED vars
  BY <1>14 DEF TypeOK, vars
<1> QED
  BY <1>1, <1>2, <1>3, <1>4, <1>5, <1>6, <1>7, <1>8, <1>9, <1>10, <1>11,
     <1>12, <1>13, <1>14 DEF Next

\* Whatever scripts create, kill and queue in the middle of a tick, timers,
\* effects and present keep to their values.
THEOREM ScriptTypesHold == Spec => []TypeOK
  BY TypeInit, TypeStep, PTL DEF Spec

-----------------------------------------------------------------------------
(* Timers. *)

\* A live timer repeats exactly if it was created to.  One that does not has
\* called nobody while it lives and is not collected; afterwards it calls
\* each instance it is still collected for once.
TimerInv ==
  /\ killed \cap DOMAIN timers = {}
  /\ \A id \in DOMAIN timers : timers[id].repeating <=> id \in steady
  /\ \A i \in DOMAIN firing : firing[i][1] \in 1..nextId - 1
  /\ \A id \in nextId..MaxTimers, k \in 1..Instances : calls[id][k] = 0
  /\ \A i \in DOMAIN firing :
       firing[i][1] \notin steady =>
         /\ firing[i][1] \notin DOMAIN timers
         /\ calls[firing[i][1]][firing[i][2]] = 0
         /\ \A j \in DOMAIN firing : i < j => firing[i] # firing[j]
  /\ \A id \in DOMAIN timers \ steady, k \in 1..Instances : calls[id][k] = 0
  /\ OneShotsFireOnce

LEMMA TimerInit == Init => TimerInv
<1> SUFFICES ASSUME Init PROVE TimerInv
  OBVIOUS
<1>1. DOMAIN timers = {} /\ DOMAIN firing = {} /\ killed = {}
  BY DEF Init
<1>2. \A id \in TimerIds, k \in 1..Instances : calls[id][k] = 0
  BY DEF Init
<1>3. nextId = 1
  BY DEF Init
<1> QED
  BY <1>1, <1>2, <1>3, ScriptHostAssumption DEF TimerInv, OneShotsFireOnce

\* Callbacks that create and kill timers in the middle of a tick leave the
\* calls already collected and the timers created before them in step.
LEMMA TimerStep ==
  ASSUME TypeOK, TimerInv, [Next]_vars
  PROVE  TimerInv'
<1> USE ScriptHostAssumption
<1>1. ASSUME NEW cb \in Callbacks, NEW interval \in Intervals,
             NEW repeating \in BOOLEAN, CreateTimer(cb, interval, repeating)
      PROVE  TimerInv'
  <2>1. /\ DOMAIN timers' = DOMAIN timers \cup {nextId}
        /\ nextId \notin DOMAIN timers /\ nextId \notin killed
        /\ nextId \notin steady /\ nextId \in TimerIds
        /\ \A id \in DOMAIN timers : timers'[id] = timers[id] /\ id # nextId
        /\ timers'[nextId].repeating = repeating
        /\ nextId' = nextId + 1
        /\ steady' = IF repeating THEN steady \cup {nextId} ELSE steady
        /\ UNCHANGED <<killed, calls, firing>>
    BY <1>1 DEF CreateTimer, TypeOK
  <2>2. /\ killed' \cap DOMAIN timers' = {}
        /\ \A id \in DOMAIN timers' : timers'[id].repeating <=> id \in steady'
    BY <2>1 DEF TimerInv
  <2>0. nextId \in Nat
    BY DEF TypeOK
  <2>4. \A i \in DOMAIN firing : firing[i][1] \in 1..nextId - 1 /\ firing[i][1] # nextId
    BY <2>0 DEF TimerInv
  <2>3. /\ \A i \in DOMAIN firing' : firing'[i][1] \in 1..nextId' - 1
        /\ \A id \in nextId'..MaxTimers, k \in 1..Instances : calls'[id][k] = 0
    <3>1. \A i \in DOMAIN firing' : firing'[i][1] \in 1..nextId' - 1
      BY <2>0, <2>1, <2>4
    <3>2. \A id \in nextId'..MaxTimers : id \in nextId..MaxTimers
      BY <2>0, <2>1
    <3> QED BY <2>1, <3>1, <3>2 DEF TimerInv
  <2>5. \A i \in DOMAIN firing' :
          firing'[i][1] \notin steady' =>
            /\ firing'[i][1] \notin DOMAIN timers'
            /\ calls'[firing'[i][1]][firing'[i][2]] = 0
            /\ \A j \in DOMAIN firing' : i < j => firing'[i] # firing'[j]
    BY <2>1, <2>4 DEF TimerInv
  <2>6. /\ \A id \in DOMAIN timers' \ steady', k \in 1..Instances :
             calls'[id][k] = 0
        /\ OneShotsFireOnce'
    <3>1. \A k \in 1..Instances : calls[nextId][k] = 0
      BY <2>1 DEF TimerInv, TypeOK
    <3>2. /\ \A id \in DOMAIN timers \ steady, k \in 1..Instances : calls[id][k] = 0
          /\ \A id \in 1..nextId - 1, k \in 1..Instances :
               id \notin steady => calls[id][k] <= 1
      BY DEF TimerInv, OneShotsFireOnce
    <3>3. \A id \in DOMAIN timers' \ steady', k \in 1..Instances :
            calls'[id][k] = 0
      BY <2>1, <3>1, <3>2
    <3>4. OneShotsFireOnce'
      <4> SUFFICES ASSUME NEW id \in 1..nextId' - 1, NEW k \in 1..Instances,
                          id \notin steady'
                   PROVE  calls'[id][k] <= 1
        BY DEF OneShotsFireOnce
      <4>1. id \in 1..nextId - 1 \/ id = nextId
        BY <2>1 DEF TypeOK
      <4> QED
        BY <2>1, <3>1, <3>2, <4>1
    <3> QED
      BY <3>3, <3>4
  <2> QED
    BY <2>2, <2>3, <2>5, <2>6 DEF TimerInv
<1>2. ASSUME NEW id \in TimerIds, KillTimer(id)
      PROVE  TimerInv'
  BY <1>2 DEF KillTimer, TimerInv, OneShotsFireOnce
<1>3. CASE UNCHANGED timing
  BY <1>3 DEF timing, TimerInv, OneShotsFireOnce
<1>4. CASE Elapse
  <2>1. /\ DOMAIN timers' = DOMAIN timers
        /\ \A id \in DOMAIN timers : timers'[id].repeating = timers[id].repeating
        /\ UNCHANGED <<nextId, firing, killed, steady, calls>>
    BY <1>4 DEF Elapse, TypeOK
  <2> QED
    BY <2>1 DEF TimerInv, OneShotsFireOnce
<1>5. CASE TickTimers
  <2>1. /\ \A i \in DOMAIN firing' : firing'[i] \in DueCalls
        /\ \A i, j \in DOMAIN firing' : i < j => firing'[i] # firing'[j]
    BY <1>5, CollectedCalls DEF TickTimers
  <2>2. /\ DOMAIN timers' = {id \in DOMAIN timers : id \in Due => timers[id].repeating}
        /\ \A id \in DOMAIN timers' : timers'[id].repeating = timers[id].repeating
        /\ UNCHANGED <<nextId, killed, steady, calls>>
    BY <1>5 DEF TickTimers, TypeOK
  <2>3. \A i \in DOMAIN firing' :
          /\ firing'[i][1] \in Due /\ firing'[i][1] \in DOMAIN timers
          /\ firing'[i][2] \in 1..Instances
    BY <2>1 DEF DueCalls, Due
  <2>4. /\ killed' \cap DOMAIN timers' = {}
        /\ \A id \in DOMAIN timers' : timers'[id].repeating <=> id \in steady'
        /\ \A i \in DOMAIN firing' : firing'[i][1] \in 1..nextId' - 1
    BY <2>2, <2>3 DEF TimerInv, TypeOK
  <2>5. \A i \in DOMAIN firing' :
          firing'[i][1] \notin steady' =>
            /\ firing'[i][1] \notin DOMAIN timers'
            /\ calls'[firing'[i][1]][firing'[i][2]] = 0
            /\ \A j \in DOMAIN firing' : i < j => firing'[i] # firing'[j]
    BY <2>1, <2>2, <2>3 DEF TimerInv
  <2> QED
    BY <2>2, <2>4, <2>5 DEF TimerInv, OneShotsFireOnce
<1>6. CASE Invoke
  <2> DEFINE x == Head(firing)[1]
             y == Head(firing)[2]
  <2>1. /\ firing # <<>> /\ firing \in Seq(TimerIds \X (1..Instances))
        /\ firing' = Tail(firing)
        /\ UNCHANGED <<timers, nextId, killed, steady>>
    BY <1>6 DEF Invoke, TypeOK
  <2>2. /\ x = firing[1][1] /\ y = firing[1][2] /\ 1 \in DOMAIN firing
        /\ x \in TimerIds /\ y \in 1..Instances
        /\ firing[1] = <<x, y>>
    BY <2>1
  <2>3. \A i \in DOMAIN firing' :
          /\ firing'[i] = firing[i + 1] /\ i + 1 \in DOMAIN firing
          /\ i \in Nat \ {0}
    <3>1. /\ Len(firing') = Len(firing) - 1 /\ Len(firing) \in Nat
          /\ DOMAIN firing' = 1 .. Len(firing) - 1 /\ DOMAIN firing = 1 .. Len(firing)
          /\ \A i \in 1 .. Len(firing) - 1 : firing'[i] = firing[i + 1]
      BY <2>1, HeadTailProperties, LenProperties
    <3> QED BY <3>1
  <2>4. \A id \in TimerIds, k \in 1..Instances :
          calls'[id][k] = IF id = x /\ k = y
                          THEN IF calls[x][y] < Many THEN calls[x][y] + 1 ELSE Many
                          ELSE calls[id][k]
    BY <1>6, <2>2 DEF Invoke, TypeOK
  <2>5. x \in 1..nextId - 1 /\ nextId \in Nat \ {0}
    BY <2>2 DEF TimerInv, TypeOK
  <2>6. x \notin steady => x \notin DOMAIN timers /\ calls[x][y] = 0
    BY <2>2 DEF TimerInv
  <2>7. DOMAIN timers \subseteq TimerIds
    BY DEF TypeOK
  <2> HIDE DEF x, y
  <2>8. \A id \in nextId'..MaxTimers, k \in 1..Instances : calls'[id][k] = 0
    <3> SUFFICES ASSUME NEW id \in nextId..MaxTimers, NEW k \in 1..Instances
                 PROVE  calls'[id][k] = 0
      BY <2>1
    <3>1. id \in TimerIds /\ id # x /\ calls[id][k] = 0
      BY <2>5 DEF TimerInv
    <3> QED
      BY <2>4, <3>1
  <2>9. \A id \in DOMAIN timers' \ steady', k \in 1..Instances : calls'[id][k] = 0
    <3> SUFFICES ASSUME NEW id \in DOMAIN timers \ steady, NEW k \in 1..Instances
                 PROVE  calls'[id][k] = 0
      BY <2>1
    <3>1. id \in TimerIds /\ id # x /\ calls[id][k] = 0
      BY <2>6, <2>7 DEF TimerInv
    <3> QED
      BY <2>4, <3>1
  <2>10. OneShotsFireOnce'
    <3> SUFFICES ASSUME NEW id \in 1..nextId - 1, NEW k \in 1..Instances,
                        id \notin steady
                 PROVE  calls'[id][k] <= 1
      BY <2>1 DEF OneShotsFireOnce
    <3>1. id \in TimerIds /\ calls[id][k] <= 1
      BY DEF TypeOK, TimerInv, OneShotsFireOnce
    <3> QED
      BY <2>4, <2>6, <3>1
  <2>11. \A i \in DOMAIN firing' :
          firing'[i][1] \notin steady' =>
            /\ firing'[i][1] \notin DOMAIN timers'
            /\ calls'[firing'[i][1]][firing'[i][2]] = 0
            /\ \A j \in DOMAIN firing' : i < j => firing'[i] # firing'[j]
    <3> SUFFICES ASSUME NEW i \in DOMAIN firing', firing'[i][1] \notin steady
                 PROVE  /\ firing'[i][1] \notin DOMAIN timers
                        /\ calls'[firing'[i][1]][firing'[i][2]] = 0
                        /\ \A j \in DOMAIN firing' :
                             i < j => firing'[i] # firing'[j]
      BY <2>1
    <3>1. /\ firing'[i][1] \notin DOMAIN timers
          /\ calls[firing'[i][1]][firing'[i][2]] = 0
          /\ \A j \in DOMAIN firing' : i < j => firing'[i] # firing'[j]
      BY <2>3 DEF TimerInv
    <3>2. firing'[i] # <<x, y>>
      <4>1. 1 < i + 1 /\ i + 1 \in DOMAIN firing /\ firing'[i] = firing[i + 1]
        BY <2>3
      <4>2. CASE x \in steady
        BY <4>2, <4>1
      <4>3. CASE x \notin steady
        <5>1. \A j \in DOMAIN firing : 1 < j => firing[1] # firing[j]
          BY <4>3, <2>2 DEF TimerInv
        <5> QED
          BY <5>1, <4>1, <2>2
      <4> QED
        BY <4>2, <4>3
    <3>3. /\ firing'[i][1] \in TimerIds /\ firing'[i][2] \in 1..Instances
          /\ firing'[i] = <<firing'[i][1], firing'[i][2]>>
      <4>1. firing[i + 1] \in TimerIds \X (1..Instances)
        BY <2>1, <2>3
      <4> QED
        BY <4>1, <2>3
    <3> QED
      BY <2>4, <3>1, <3>2, <3>3
  <2>12. \A i \in DOMAIN firing' : firing'[i][1] \in 1..nextId' - 1
    BY <2>1, <2>3 DEF TimerInv
  <2> QED
    BY <2>1, <2>8, <2>9, <2>10, <2>11, <2>12 DEF TimerInv
<1> QED
  BY <1>1, <1>2, <1>3, <1>4, <1>5, <1>6
  DEF Next, vars, timing, Push, Return, Notify, Join, Leave, DrainEffects,
      ApplyEffect, EndTick

\* KilledStaysDead: kill_timer inside a callback is final, though the tick
\* has already collected the timer and armed it again.
THEOREM KilledTimersStayDead == Spec => []KilledStaysDead
<1>1. TypeOK /\ TimerInv => KilledStaysDead
  BY DEF TimerInv, KilledStaysDead
<1> QED
  BY <1>1, TypeInit, TypeStep, TimerInit, TimerStep, PTL DEF Spec

\* OneShotsFireOnce: for any scripts, a timer that does not repeat calls each
\* instance at most once.
THEOREM OneShotTimersFireOnce == Spec => []OneShotsFireOnce
<1>1. TypeOK /\ TimerInv => OneShotsFireOnce
  BY DEF TimerInv
<1> QED
  BY <1>1, TypeInit, TypeStep, TimerInit, TimerStep, PTL DEF Spec

-----------------------------------------------------------------------------
(* Farewells. *)

LEMMA FarewellInit == Init => NothingAfterFarewell
  BY DEF Init, NothingAfterFarewell

\* Only an effect and a departure send anything, both to players in the game,
\* and the farewell goes with the session.
LEMMA FarewellStep ==
  ASSUME TypeOK, NothingAfterFarewell, [Next]_vars
  PROVE  NothingAfterFarewell'
<1>1. ASSUME NEW p \in Players, NEW votes \in Votes, Join(p, votes)
      PROVE  NothingAfterFarewell'
  BY <1>1 DEF Join, NothingAfterFarewell
<1>2. ASSUME NEW p \in Players, Leave(p)
      PROVE  NothingAfterFarewell'
  BY <1>2 DEF Leave, NothingAfterFarewell, TypeOK
<1>3. CASE ApplyEffect
  <2> DEFINE e == Head(applying)
  <2>1. e \in Effect /\ e # End
    BY <1>3 DEF ApplyEffect, TypeOK, Effect, End
  <2>2. \A p \in Players :
          \/ inbox'[p] = inbox[p] /\ (p \in present' => p \in present)
          \/ /\ inbox'[p] = Append(inbox[p], e)
             /\ p \in present
          \/ /\ inbox'[p] = Append(inbox[p], End)
             /\ p \in present /\ p \notin present'
    BY <1>3 DEF ApplyEffect, TypeOK, Addressed, Effect
  <2> HIDE DEF e
  <2>3. \A p \in Players : inbox[p] \in Seq(Effect \cup {End})
    BY DEF TypeOK
  <2> QED
    BY <2>1, <2>2, <2>3 DEF NothingAfterFarewell
<1>4. CASE UNCHANGED <<inbox, present>>
  BY <1>4 DEF NothingAfterFarewell
<1> QED
  BY <1>1, <1>2, <1>3, <1>4
  DEF Next, vars, timing, CreateTimer, KillTimer, Push, Return, Notify,
      Elapse, TickTimers, Invoke, DrainEffects, EndTick

\* NothingAfterFarewell: apply_effects sends to those in game, so a kick
\* makes the rest of the same list pass the player by.
THEOREM NobodyHearsAfterFarewell == Spec => []NothingAfterFarewell
  BY TypeInit, TypeStep, FarewellInit, FarewellStep, PTL DEF Spec

-----------------------------------------------------------------------------
(* Inboxes. *)

\* What is applied, what this tick has taken and what is queued are the log,
\* in that order; nothing is taken and left between two ticks.
LogInv ==
  /\ Applied \in Nat
  /\ phase # "effects" => applying = <<>>
  /\ \A i \in 1..Len(applying) : log[Applied + i] = applying[i]
  /\ \A i \in 1..Len(queue) : log[Applied + Len(applying) + i] = queue[i]
  /\ \A p \in Players : since[p] \in 0..Applied

LEMMA LogInit == Init => LogInv
  BY DEF Init, LogInv, Applied

\* Most steps leave the log, what is applied of it and the inboxes alone.
LEMMA LogStutter ==
  ASSUME LogInv, UNCHANGED <<queue, applying, log, since>>,
         phase' # "effects" => phase # "effects" \/ applying = <<>>
  PROVE  LogInv' /\ Applied' = Applied
BY DEF LogInv, Applied

LEMMA LogStep ==
  ASSUME TypeOK, LogInv, [Next]_vars
  PROVE  LogInv'
<1>1. ASSUME NEW e \in Effect, Push(e)
      PROVE  LogInv'
  <2>1. /\ Len(log') = Len(log) + 1 /\ Len(queue') = Len(queue) + 1
        /\ \A i \in 1..Len(log) : log'[i] = log[i]
        /\ \A i \in 1..Len(queue) : queue'[i] = queue[i]
        /\ log'[Len(log) + 1] = e /\ queue'[Len(queue) + 1] = e
        /\ Len(log) \in Nat /\ Len(queue) \in Nat /\ Len(applying) \in Nat
    BY <1>1 DEF Push, TypeOK
  <2>2. UNCHANGED <<applying, since, phase>>
    BY <1>1 DEF Push
  <2>3. Applied' = Applied
    BY <2>1, <2>2 DEF Applied
  <2>0. /\ Applied \in Nat
        /\ Applied + Len(applying) + Len(queue) = Len(log)
    BY <2>1 DEF LogInv, Applied
  <2>4. \A i \in 1..Len(applying) : log'[Applied + i] = applying[i]
    <3>1. \A i \in 1..Len(applying) : Applied + i \in 1..Len(log)
      BY <2>1, <2>0
    <3> QED
      BY <2>1, <3>1 DEF LogInv
  <2>5. \A i \in 1..Len(queue') : log'[Applied + Len(applying) + i] = queue'[i]
    <3> TAKE i \in 1..Len(queue')
    <3>1. CASE i = Len(queue) + 1
      BY <2>1, <2>0, <3>1
    <3>2. CASE i \in 1..Len(queue)
      <4>1. Applied + Len(applying) + i \in 1..Len(log)
        BY <2>1, <2>0, <3>2
      <4> QED
        BY <2>1, <3>2, <4>1 DEF LogInv
    <3> QED
      BY <2>1, <3>1, <3>2
  <2> QED
    BY <2>2, <2>3, <2>4, <2>5 DEF LogInv
<1>2. ASSUME NEW p \in Players, NEW votes \in Votes, Join(p, votes)
      PROVE  LogInv'
  BY <1>2 DEF Join, LogInv, Applied, TypeOK
<1>3. CASE DrainEffects
  BY <1>3 DEF DrainEffects, LogInv, Applied, TypeOK
<1>4. CASE ApplyEffect
  <2>1. /\ Len(applying') = Len(applying) - 1
        /\ \A i \in 1..Len(applying') : applying'[i] = applying[i + 1]
        /\ Len(log) \in Nat /\ Len(queue) \in Nat /\ Len(applying) \in Nat
    BY <1>4 DEF ApplyEffect, TypeOK
  <2>2. UNCHANGED <<queue, log, since, phase>> /\ phase = "effects"
    BY <1>4 DEF ApplyEffect
  <2>3. Applied' = Applied + 1
    BY <2>1, <2>2 DEF Applied
  <2> QED
    BY <2>1, <2>2, <2>3 DEF LogInv, TypeOK
<1>5. CASE UNCHANGED <<queue, applying, log, since>>
           /\ (phase' # "effects" => phase # "effects" \/ applying = <<>>)
  BY <1>5, LogStutter
<1> QED
  BY <1>1, <1>2, <1>3, <1>4, <1>5
  DEF Next, vars, timing, CreateTimer, KillTimer, Return, Notify, Leave,
      Idle, Elapse, TickTimers, Invoke, EndTick

\* A player that is sent nothing new, and to whom nothing new is due, has
\* heard what it should.
LEMMA HeardKeeps ==
  ASSUME InboxIsExact, present' \subseteq present,
         \A p \in present' : inbox'[p] = inbox[p] /\ DueTo(p)' = DueTo(p),
         \A p \in present' : \A n \in DueTo(p) : log'[n] = log[n]
  PROVE  InboxIsExact'
<1> SUFFICES ASSUME NEW p \in present'
             PROVE  \E place \in [1..Len(inbox[p]) -> DueTo(p)] :
                      /\ \A i, j \in 1..Len(inbox[p]) :
                           i < j => place[i] < place[j]
                      /\ \A n \in DueTo(p) :
                           \E i \in 1..Len(inbox[p]) : place[i] = n
                      /\ \A i \in 1..Len(inbox[p]) :
                           inbox[p][i] = log'[place[i]]
  BY DEF InboxIsExact
<1>1. PICK place \in [1..Len(inbox[p]) -> DueTo(p)] :
        /\ \A i, j \in 1..Len(inbox[p]) : i < j => place[i] < place[j]
        /\ \A n \in DueTo(p) : \E i \in 1..Len(inbox[p]) : place[i] = n
        /\ \A i \in 1..Len(inbox[p]) : inbox[p][i] = log[place[i]]
  BY DEF InboxIsExact
<1>2. \A i \in 1..Len(inbox[p]) : inbox[p][i] = log'[place[i]]
  BY <1>1
<1> QED
  BY <1>1, <1>2

\* The effect that is applied is the next of the log; it is sent to whom it
\* is addressed to, and a player it takes out of the game is no longer asked
\* about.
LEMMA HeardApply ==
  ASSUME TypeOK, LogInv, InboxIsExact, ApplyEffect
  PROVE  InboxIsExact'
<1> DEFINE e == Head(applying)
           at == Applied + 1
<1>1. e \in Effect /\ log[at] = e
  <2>1. /\ applying \in Seq(Effect) /\ applying # <<>>
        /\ \A i \in 1..Len(applying) : log[Applied + i] = applying[i]
    BY DEF ApplyEffect, TypeOK, LogInv
  <2>2. 1 \in 1..Len(applying) /\ e = applying[1] /\ e \in Effect
    BY <2>1
  <2> QED
    BY <2>1, <2>2
<1>2. /\ UNCHANGED <<queue, log, since>> /\ Applied' = at /\ Applied \in Nat
      /\ present' \subseteq present /\ present \subseteq Players
  BY DEF ApplyEffect, TypeOK, LogInv, Applied
<1>3. ASSUME NEW p \in present'
      PROVE  inbox'[p] = IF Addressed(e, p) THEN Append(inbox[p], e)
                         ELSE inbox[p]
  BY <1>1, <1>2 DEF ApplyEffect, Addressed, Effect, TypeOK
<1> HIDE DEF e
<1>4. ASSUME NEW p \in present'
      PROVE  \E place \in [1..Len(inbox'[p]) -> DueTo(p)'] :
               /\ \A i, j \in 1..Len(inbox'[p]) : i < j => place[i] < place[j]
               /\ \A n \in DueTo(p)' : \E i \in 1..Len(inbox'[p]) : place[i] = n
               /\ \A i \in 1..Len(inbox'[p]) : inbox'[p][i] = log'[place[i]]
  <2> DEFINE m == Len(inbox[p])
  <2>1. PICK place \in [1..m -> DueTo(p)] :
          /\ \A i, j \in 1..m : i < j => place[i] < place[j]
          /\ \A n \in DueTo(p) : \E i \in 1..m : place[i] = n
          /\ \A i \in 1..m : inbox[p][i] = log[place[i]]
    BY <1>2 DEF InboxIsExact
  <2>2. inbox[p] \in Seq(Effect \cup {End}) /\ m \in Nat
    BY <1>2 DEF TypeOK
  <2>3. since[p] \in 0..Applied
    BY <1>2 DEF LogInv
  <2>4. DueTo(p)' = IF Addressed(e, p) THEN DueTo(p) \cup {at} ELSE DueTo(p)
    BY <1>1, <1>2, <2>3 DEF DueTo
  <2>5. \A n \in DueTo(p) : n \in Int /\ n < at
    BY <1>2, <2>3 DEF DueTo
  <2>6. CASE Addressed(e, p)
    <3> DEFINE next == [i \in 1..m + 1 |-> IF i = m + 1 THEN at ELSE place[i]]
    <3>1. /\ Len(inbox'[p]) = m + 1
          /\ inbox'[p][m + 1] = e
          /\ \A i \in 1..m : inbox'[p][i] = inbox[p][i]
      <4>1. inbox'[p] = Append(inbox[p], e) /\ e \in Effect \cup {End}
        BY <1>1, <1>3, <2>6
      <4> QED
        BY <2>2, <4>1
    <3>2. next \in [1..m + 1 -> DueTo(p)']
      BY <2>1, <2>2, <2>4, <2>6
    <3>3. \A i, j \in 1..m + 1 : i < j => next[i] < next[j]
      BY <2>1, <2>2, <2>5
    <3>4. \A n \in DueTo(p)' : \E i \in 1..m + 1 : next[i] = n
      <4> TAKE n \in DueTo(p)'
      <4>1. CASE n = at
        <5>1. next[m + 1] = n
          BY <2>2, <4>1
        <5> QED
          BY <5>1, <2>2
      <4>2. CASE n \in DueTo(p)
        <5>1. PICK i \in 1..m : place[i] = n
          BY <2>1, <4>2
        <5>2. next[i] = n /\ i \in 1..m + 1
          BY <2>2, <5>1
        <5> QED
          BY <5>2
      <4> QED
        BY <2>4, <2>6, <4>1, <4>2
    <3>5. \A i \in 1..m + 1 : inbox'[p][i] = log'[next[i]]
      <4> TAKE i \in 1..m + 1
      <4>1. CASE i = m + 1
        BY <1>1, <1>2, <2>2, <3>1, <4>1
      <4>2. CASE i \in 1..m
        BY <1>2, <2>1, <2>2, <3>1, <4>2
      <4> QED
        BY <2>2, <4>1, <4>2
    <3> HIDE DEF next, m, at
    <3> QED
      BY <3>1, <3>2, <3>3, <3>4, <3>5
  <2>7. CASE ~Addressed(e, p)
    <3>1. inbox'[p] = inbox[p] /\ DueTo(p)' = DueTo(p) /\ log' = log
      BY <1>2, <1>3, <2>4, <2>7
    <3> QED
      BY <2>1, <3>1
  <2> QED
    BY <2>6, <2>7
<1> QED
  BY <1>4 DEF InboxIsExact

LEMMA HeardStep ==
  ASSUME TypeOK, LogInv, InboxIsExact, [Next]_vars
  PROVE  InboxIsExact'
<1>1. \A p \in present : since[p] \in 0..Applied /\ Applied \in Nat
  BY DEF LogInv, TypeOK
<1>2. ASSUME NEW e \in Effect, Push(e)
      PROVE  InboxIsExact'
  <2>1. /\ Applied' = Applied /\ UNCHANGED <<inbox, present, since>>
        /\ Applied <= Len(log)
        /\ \A n \in 1..Len(log) : log'[n] = log[n]
    BY <1>2 DEF Push, TypeOK, Applied
  <2>2. \A p \in present : \A n \in since[p] + 1 .. Applied : log'[n] = log[n]
    <3>1. Len(log) \in Nat
      BY DEF TypeOK
    <3> QED
      BY <1>1, <2>1, <3>1
  <2>3. \A p \in present : DueTo(p)' = DueTo(p)
    BY <2>1, <2>2 DEF DueTo
  <2>4. \A p \in present : \A n \in DueTo(p) : log'[n] = log[n]
    BY <2>2 DEF DueTo
  <2> QED
    BY <2>1, <2>3, <2>4, HeardKeeps
<1>3. ASSUME NEW p \in Players, NEW votes \in Votes, Join(p, votes)
      PROVE  InboxIsExact'
  <2>1. /\ UNCHANGED <<inbox, log>> /\ Applied' = Applied
        /\ present' = present \cup {p} /\ inbox[p] = <<>>
        /\ since'[p] = Applied
        /\ \A q \in present : since'[q] = since[q]
    BY <1>3 DEF Join, Applied, TypeOK
  <2>2. \A q \in present : DueTo(q)' = DueTo(q)
    BY <2>1 DEF DueTo
  <2>3. DueTo(p)' = {} /\ Len(inbox'[p]) = 0 /\ 1..0 = {}
    BY <2>1 DEF DueTo, LogInv
  <2>4. ASSUME NEW q \in present
        PROVE  \E place \in [1..Len(inbox'[q]) -> DueTo(q)'] :
                 /\ \A i, j \in 1..Len(inbox'[q]) : i < j => place[i] < place[j]
                 /\ \A n \in DueTo(q)' :
                      \E i \in 1..Len(inbox'[q]) : place[i] = n
                 /\ \A i \in 1..Len(inbox'[q]) : inbox'[q][i] = log'[place[i]]
    BY <2>1, <2>2 DEF InboxIsExact
  <2>5. \E place \in [1..Len(inbox'[p]) -> DueTo(p)'] :
          /\ \A i, j \in 1..Len(inbox'[p]) : i < j => place[i] < place[j]
          /\ \A n \in DueTo(p)' : \E i \in 1..Len(inbox'[p]) : place[i] = n
          /\ \A i \in 1..Len(inbox'[p]) : inbox'[p][i] = log'[place[i]]
    <3>1. [i \in {} |-> 0] \in [{} -> {}]
      OBVIOUS
    <3> QED
      BY <2>3, <3>1
  <2> SUFFICES ASSUME NEW q \in present'
               PROVE  \E place \in [1..Len(inbox'[q]) -> DueTo(q)'] :
                 /\ \A i, j \in 1..Len(inbox'[q]) : i < j => place[i] < place[j]
                 /\ \A n \in DueTo(q)' :
                      \E i \in 1..Len(inbox'[q]) : place[i] = n
                 /\ \A i \in 1..Len(inbox'[q]) : inbox'[q][i] = log'[place[i]]
    BY DEF InboxIsExact
  <2>6. CASE q = p
    BY <2>5, <2>6
  <2>7. CASE q \in present
    BY <2>4, <2>7
  <2> QED
    BY <2>1, <2>6, <2>7
<1>4. ASSUME NEW p \in Players, Leave(p)
      PROVE  InboxIsExact'
  <2>1. /\ UNCHANGED <<log, since>> /\ Applied' = Applied
        /\ present' \subseteq present
        /\ \A q \in present' : inbox'[q] = inbox[q]
    BY <1>4 DEF Leave, Applied, TypeOK
  <2>2. \A q \in present' : DueTo(q)' = DueTo(q)
    BY <2>1 DEF DueTo
  <2> QED
    BY <2>1, <2>2, HeardKeeps
<1>5. CASE ApplyEffect
  BY <1>5, HeardApply
<1>6. CASE Applied' = Applied /\ UNCHANGED <<log, since, inbox, present>>
  <2>1. \A q \in present' : DueTo(q)' = DueTo(q)
    BY <1>6 DEF DueTo
  <2> QED
    BY <1>6, <2>1, HeardKeeps
<1>7. DrainEffects => Applied' = Applied
  BY DEF DrainEffects, LogInv, Applied, TypeOK
<1>8. UNCHANGED <<queue, applying, log>> => Applied' = Applied
  BY DEF Applied
<1> QED
  BY <1>2, <1>3, <1>4, <1>5, <1>6, <1>7, <1>8
  DEF Next, vars, timing, CreateTimer, KillTimer, Return, Notify,
      Elapse, TickTimers, Invoke, DrainEffects, EndTick

\* InboxIsExact: apply_effects walks the list it took from the scripts to its
\* end, and what callbacks queue meanwhile waits for the next tick; so each
\* player hears what was asked for it, in order, nothing lost and nothing twice.
THEOREM PlayersHearWhatWasAsked == Spec => []InboxIsExact
<1>1. Init => InboxIsExact
  BY DEF Init, InboxIsExact
<1> QED
  BY <1>1, TypeInit, TypeStep, LogInit, LogStep, HeardStep, PTL DEF Spec

(***************************************************************************)
(* Sessions.                                                               *)
(***************************************************************************)
-----------------------------------------------------------------------------
(* The inductive invariant. *)

\* Player ids that are not handed out yet are nobody's.
IdsAreFresh == \A p \in players : p < next_id

\* A session whose channel is past the second frame handled a mod list, and a
\* right one.
ListedBeforePlay ==
  \A a \in Live : channels[a].take > 1 => sessions[a].checked /\ a \notin WrongMods

SessionInv == SessionTypeOK /\ IdsAreFresh /\ SessionsAreWhole /\ ListedBeforePlay /\ PlayIsChecked

-----------------------------------------------------------------------------
(* The least number of a set. *)

LessThan == {p \in Nat \X Nat : p[1] < p[2]}

LEMMA LessThanIsWellFounded == IsWellFoundedOn(LessThan, Nat)
BY NatLessThanWellFounded DEF OpToRel, LessThan

\* Min of FiniteSetsExt finds the least element of a set that is not empty.
LEMMA MinIsLeast ==
  ASSUME NEW S \in SUBSET Nat, S # {}
  PROVE  Min(S) \in S /\ \A m \in S : Min(S) <= m
<1>1. PICK n \in S : \A m \in S : <<m, n>> \notin LessThan
  BY LessThanIsWellFounded, WFMin
<1>2. ASSUME NEW m \in S PROVE n <= m
  <2>1. <<m, n>> \in Nat \X Nat
    OBVIOUS
  <2> QED BY <1>1, <2>1 DEF LessThan
<1> QED BY <1>2 DEF Min

-----------------------------------------------------------------------------
(* The channel. *)

InWindow(c) == c.held \subseteq Frames \cap c.next + 1 .. c.next + RecvWindow - 1

\* ReliableChannel::recv keeps what it holds within the window, and takes nothing
\* out of the ready queue.
LEMMA RecvKeepsChannel ==
  ASSUME NEW c \in Channel, InWindow(c), NEW n \in Frames
  PROVE  Recv(c, n) \in Channel /\ InWindow(Recv(c, n)) /\ Recv(c, n).take = c.take
<1> USE SessionAssumption DEF Channel, InWindow, Frames
<1>1. CASE n = c.next
  <2> DEFINE Ends == {m \in n + 1 .. MaxFrames : m \notin c.held}
             end  == Min(Ends)
             held == {m \in c.held : m > end}
  <2>1. MaxFrames \in Ends /\ Ends \in SUBSET Nat
    OBVIOUS
  <2>2. end \in Nat /\ end > n
    BY <2>1, MinIsLeast
  <2>3. Recv(c, n) = [c EXCEPT !.next = end, !.held = held]
    BY <1>1 DEF Recv
  <2> HIDE DEF Ends, end
  <2>4. held \subseteq Frames \cap end + 1 .. end + RecvWindow - 1
    BY <1>1, <2>2
  <2> QED BY <2>2, <2>3, <2>4
<1>2. CASE n # c.next
  <2> DEFINE held == IF n \in c.next + 1 .. c.next + RecvWindow - 1 THEN c.held \cup {n} ELSE c.held
  <2>1. Recv(c, n) = [c EXCEPT !.held = held]
    BY <1>2 DEF Recv
  <2>2. held \subseteq Frames \cap c.next + 1 .. c.next + RecvWindow - 1
    OBVIOUS
  <2> QED BY <2>1, <2>2
<1> QED BY <1>1, <1>2

\* The same for the channel of an address, which may be a fresh one.
LEMMA ChannelOfIsChannel ==
  ASSUME SessionTypeOK, NEW a \in Addrs
  PROVE  ChannelOf(a) \in Channel /\ InWindow(ChannelOf(a))
BY DEF SessionTypeOK, ChannelOf, Fresh, Channel, InWindow

\* What a frame makes of the channel of its address.
LEMMA FrameKeepsChannel ==
  ASSUME SessionTypeOK, NEW a \in Addrs, NEW n \in 0 .. sent[a] - 1
  PROVE  /\ Recv(ChannelOf(a), n) \in Channel
         /\ InWindow(Recv(ChannelOf(a), n))
         /\ Recv(ChannelOf(a), n).take = ChannelOf(a).take
<1>1. n \in Frames
  BY SessionAssumption DEF SessionTypeOK, Frames
<1> QED BY <1>1, ChannelOfIsChannel, RecvKeepsChannel

-----------------------------------------------------------------------------
(* Every step keeps the invariant. *)

LEMMA InitSessionInv == SessionInit => SessionInv
<1> SUFFICES ASSUME SessionInit PROVE SessionInv
  OBVIOUS
<1>1. Live = {}
  BY DEF SessionInit, Live
<1>2. SessionTypeOK
  BY <1>1, SessionAssumption DEF SessionInit, SessionTypeOK
<1> QED BY <1>1, <1>2
        DEF SessionInit, SessionInv, IdsAreFresh, SessionsAreWhole, ListedBeforePlay,
            PlayIsChecked

\* A channel in the place of the one an address had, not less far.
LEMMA ChannelStep ==
  ASSUME SessionInv, NEW a \in Addrs, NEW c \in Channel, InWindow(c),
         channels' = [channels EXCEPT ![a] = c],
         UNCHANGED <<sent, gone, sessions, players, next_id>>, arrivals' \in 0 .. MaxArrivals,
         a \in Live => c.take = channels[a].take
  PROVE  SessionInv'
<1> USE SessionAssumption
<1>1. Live' = Live
  BY DEF Live
<1>2. \A b \in Addrs : channels'[b] = IF b = a THEN c ELSE channels[b]
  BY DEF SessionInv, SessionTypeOK
<1>3. SessionTypeOK'
  BY <1>1, <1>2 DEF SessionInv, SessionTypeOK, InWindow
<1>4. \A b \in Live : channels'[b] # None /\ channels'[b].take = channels[b].take
  BY <1>2 DEF SessionInv, SessionsAreWhole, Live
<1> QED BY <1>1, <1>3, <1>4
        DEF SessionInv, IdsAreFresh, SessionsAreWhole, ListedBeforePlay, PlayIsChecked

\* A step that changes clocks and flags of the sessions, and lets a channel go on.
LEMMA HoldSessionInv ==
  ASSUME SessionInv, NEW a \in Addrs, NEW n \in 0 .. sent[a] - 1, Arrive, Hold(a, n)
  PROVE  SessionInv'
<1> DEFINE c == Recv(ChannelOf(a), n)
<1>1. c \in Channel /\ InWindow(c) /\ c.take = ChannelOf(a).take
  BY FrameKeepsChannel DEF SessionInv
<1>2. /\ channels' = [channels EXCEPT ![a] = c]
      /\ UNCHANGED <<sent, gone, sessions, players, next_id>>
  BY DEF Hold, Arrive
<1>3. arrivals' \in 0 .. MaxArrivals
  BY SessionAssumption DEF SessionInv, SessionTypeOK, Arrive
<1>4. a \in Live => c.take = channels[a].take
  BY <1>1 DEF SessionInv, SessionsAreWhole, ChannelOf
<1> HIDE DEF c
<1> QED BY <1>1, <1>2, <1>3, <1>4, ChannelStep

\* The session and the channel of an address that is in the game go on: a packet
\* was handled in it, or a position.
LEMMA SessionStep ==
  ASSUME SessionInv, NEW a \in Live, NEW c \in Channel, InWindow(c), NEW s \in Record,
         channels' = [channels EXCEPT ![a] = c], sessions' = [sessions EXCEPT ![a] = s],
         UNCHANGED <<sent, gone, players, next_id>>, arrivals' \in 0 .. MaxArrivals,
         s.player = sessions[a].player, c.take > 0,
         c.take > 1 \/ s.played => s.checked /\ a \notin WrongMods
  PROVE  SessionInv'
<1> USE SessionAssumption
<1>0. a \in Addrs
  BY DEF Live
<1>1. /\ \A b \in Addrs : channels'[b] = IF b = a THEN c ELSE channels[b]
      /\ \A b \in Addrs : sessions'[b] = IF b = a THEN s ELSE sessions[b]
  BY DEF SessionInv, SessionTypeOK
<1>2. Live' = Live
  BY <1>0, <1>1 DEF Live
<1>3. SessionTypeOK'
  BY <1>0, <1>1 DEF SessionInv, SessionTypeOK, InWindow
<1>4. \A b \in Live : sessions'[b].player = sessions[b].player
  BY <1>1 DEF Live
<1>5. SessionsAreWhole'
  BY <1>1, <1>2, <1>4 DEF SessionInv, SessionsAreWhole, Live
<1>6. ListedBeforePlay' /\ PlayIsChecked'
  BY <1>1, <1>2 DEF SessionInv, ListedBeforePlay, PlayIsChecked, Live
<1> QED BY <1>3, <1>5, <1>6 DEF SessionInv, IdsAreFresh

\* handle_auth admits a client: its player is nobody else's.
LEMMA AdmitStep ==
  ASSUME SessionInv, NEW a \in Addrs \ Live, NEW c \in Channel, InWindow(c), c.take = 1,
         channels' = [channels EXCEPT ![a] = c],
         sessions' = [sessions EXCEPT ![a] =
                        [player |-> next_id, quiet |-> 0, checked |-> FALSE, played |-> FALSE]],
         players' = players \cup {next_id}, next_id' = next_id + 1,
         UNCHANGED <<sent, gone>>, arrivals' \in 0 .. MaxArrivals
  PROVE  SessionInv'
<1> USE SessionAssumption
<1> DEFINE s == [player |-> next_id, quiet |-> 0, checked |-> FALSE, played |-> FALSE]
<1>0. s \in Record /\ s.player = next_id /\ ~ s.played
  BY DEF SessionInv, SessionTypeOK, Record
<1>1. /\ \A b \in Addrs : channels'[b] = IF b = a THEN c ELSE channels[b]
      /\ \A b \in Addrs : sessions'[b] = IF b = a THEN s ELSE sessions[b]
  BY DEF SessionInv, SessionTypeOK
<1> HIDE DEF s
<1>2. Live' = Live \cup {a}
  BY <1>0, <1>1 DEF Live
<1>3. SessionTypeOK'
  <2>1. /\ sent' \in [Addrs -> 0 .. MaxFrames] /\ gone' \subseteq Addrs
        /\ players' \subseteq Nat /\ next_id' \in Nat
    BY DEF SessionInv, SessionTypeOK
  <2>2. sessions' \in [Addrs -> Record \cup {None}]
    BY <1>0 DEF SessionInv, SessionTypeOK, s
  <2>3. channels' \in [Addrs -> Channel \cup {None}]
    BY DEF SessionInv, SessionTypeOK
  <2>4. \A b \in Addrs : channels'[b] # None => InWindow(channels'[b])
    BY <1>1 DEF SessionInv, SessionTypeOK, InWindow
  <2> QED BY <2>1, <2>2, <2>3, <2>4 DEF SessionTypeOK, InWindow
<1>4. IdsAreFresh'
  <2>1. /\ next_id \in Nat /\ players \subseteq Nat
        /\ \A p \in players : p < next_id
    BY DEF SessionInv, IdsAreFresh, SessionTypeOK
  <2>2. \A p \in players \cup {next_id} : p < next_id + 1
    BY <2>1
  <2> QED BY <2>2 DEF IdsAreFresh
<1>5. SessionsAreWhole'
  <2>1. \A b \in Live : sessions'[b].player \in players
    BY <1>1 DEF SessionInv, SessionsAreWhole, Live
  <2>2. next_id \notin players
    BY DEF SessionInv, IdsAreFresh, SessionTypeOK
  <2>3. sessions'[a].player = next_id /\ channels'[a] = c /\ c # None
    BY <1>0, <1>1
  <2>4. \A b \in Live' : channels'[b] # None /\ channels'[b].take > 0
    BY <1>1, <1>2, <2>3 DEF SessionInv, SessionsAreWhole, Live
  <2>5. \A b \in Live' : sessions'[b].player \in players'
    BY <1>2, <2>1, <2>3
  <2>6. \A b, d \in Live' : sessions'[b].player = sessions'[d].player => b = d
    BY <1>1, <1>2, <2>1, <2>2, <2>3 DEF SessionInv, SessionsAreWhole, Live
  <2> QED BY <2>4, <2>5, <2>6 DEF SessionsAreWhole
<1>6. ListedBeforePlay' /\ PlayIsChecked'
  BY <1>0, <1>1, <1>2 DEF SessionInv, ListedBeforePlay, PlayIsChecked, Live
<1> QED BY <1>3, <1>4, <1>5, <1>6 DEF SessionInv

\* disconnect and the cull: what stays of the map is as it was but for the clocks.
LEMMA EndedStep ==
  ASSUME SessionInv, NEW map, NEW left \in SUBSET Live, NEW culled \in SUBSET Addrs,
         Ended(map, left, culled),
         \A a \in Addrs \ Live : map[a] = None,
         \A a \in Live : /\ map[a] \in Record
                         /\ map[a].player = sessions[a].player
                         /\ map[a].checked = sessions[a].checked
                         /\ map[a].played = sessions[a].played,
         UNCHANGED <<sent, gone, next_id>>, arrivals' \in 0 .. MaxArrivals
  PROVE  SessionInv'
<1> USE SessionAssumption
<1>1. /\ \A b \in Addrs : channels'[b] = IF b \in left \cup culled THEN None ELSE channels[b]
      /\ \A b \in Addrs : sessions'[b] = IF b \in left \cup culled THEN None ELSE map[b]
      /\ players' = players \ {sessions[b].player : b \in left}
  BY DEF Ended
<1>2. Live' = Live \ (left \cup culled)
  BY <1>1 DEF Live
<1>3. SessionTypeOK'
  BY <1>1 DEF SessionInv, SessionTypeOK, Ended
<1>4. IdsAreFresh'
  BY <1>1 DEF SessionInv, IdsAreFresh
<1>5. \A b \in Live' : /\ b \in Live /\ b \notin left
                       /\ channels'[b] = channels[b] /\ sessions'[b] = map[b]
  BY <1>1, <1>2 DEF Live
<1>6. SessionsAreWhole'
  <2>1. \A b \in Live' : sessions'[b].player \in players'
    BY <1>1, <1>5 DEF SessionInv, SessionsAreWhole
  <2> QED BY <1>5, <2>1 DEF SessionInv, SessionsAreWhole
<1>7. ListedBeforePlay' /\ PlayIsChecked'
  BY <1>5 DEF SessionInv, ListedBeforePlay, PlayIsChecked
<1> QED BY <1>3, <1>4, <1>6, <1>7 DEF SessionInv

LEMMA HandleSessionInv ==
  ASSUME SessionInv, NEW a \in Addrs, NEW n \in 0 .. sent[a] - 1, Arrive, Handle(a, n)
  PROVE  SessionInv'
<1> DEFINE c == Recv(ChannelOf(a), n)
           d == [c EXCEPT !.take = c.take + 1]
           kept == channels' = [channels EXCEPT ![a] = d]
<1>1. c \in Channel /\ InWindow(c) /\ c.take = ChannelOf(a).take
  BY FrameKeepsChannel DEF SessionInv
<1>2. d \in Channel /\ InWindow(d) /\ d.take = c.take + 1 /\ c.take \in Nat
  BY <1>1 DEF Channel, InWindow
<1>3. UNCHANGED <<sent, gone>> /\ arrivals' \in 0 .. MaxArrivals
  BY SessionAssumption DEF SessionInv, SessionTypeOK, Arrive
<1>4. a \in Live => c.take = channels[a].take /\ c.take > 0
  BY <1>1 DEF SessionInv, SessionsAreWhole, ChannelOf
<1>5. \/ c.take = 0 /\ kept /\ HandleAuth(a)
      \/ c.take = 1 /\ a \in Live /\ Ended(sessions, {a}, {}) /\ UNCHANGED next_id
      \/ c.take > 0 /\ (c.take = 1 => a \notin WrongMods) /\ kept /\ Dispatch(a, c.take)
      \/ a \notin Live /\ kept /\ UNCHANGED <<sessions, players, next_id>>
  BY DEF Handle
<1> HIDE DEF c, d
<1>6. CASE c.take = 0 /\ kept /\ HandleAuth(a)
  <2>1. a \notin Live
    BY <1>4, <1>6
  <2>2. CASE UNCHANGED <<sessions, players, next_id>>
    BY <1>2, <1>3, <1>6, <2>1, <2>2, ChannelStep
  <2>3. CASE /\ sessions' = [sessions EXCEPT ![a] =
                 [player |-> next_id, quiet |-> 0, checked |-> FALSE, played |-> FALSE]]
             /\ players' = players \cup {next_id}
             /\ next_id' = next_id + 1
    <3>1. a \in Addrs \ Live /\ d.take = 1
      BY <1>2, <1>6, <2>1
    <3> QED BY <1>2, <1>3, <1>6, <2>3, <3>1, AdmitStep
  <2> QED BY <1>6, <2>2, <2>3 DEF HandleAuth
<1>7. CASE c.take = 1 /\ a \in Live /\ Ended(sessions, {a}, {}) /\ UNCHANGED next_id
  <2>1. /\ \A b \in Addrs \ Live : sessions[b] = None
        /\ \A b \in Live : sessions[b] \in Record
    BY DEF Live, SessionInv, SessionTypeOK
  <2> QED BY <1>3, <1>7, <2>1, EndedStep
<1>8. CASE c.take > 0 /\ (c.take = 1 => a \notin WrongMods) /\ kept /\ Dispatch(a, c.take)
  <2> DEFINE s == [sessions[a] EXCEPT !.quiet = 0, !.checked = @ \/ c.take = 1,
                                      !.played = @ \/ c.take > 1]
  <2>1. a \in Live /\ sessions[a] \in Record
    BY <1>8 DEF Dispatch, Live, SessionInv, SessionTypeOK
  <2>2. /\ sessions' = [sessions EXCEPT ![a] = s]
        /\ UNCHANGED <<players, next_id>>
    BY <1>8, <2>1 DEF Dispatch, SessionInv, SessionTypeOK, Record
  <2>3. /\ s \in Record /\ s.player = sessions[a].player
        /\ s.checked = (sessions[a].checked \/ c.take = 1)
        /\ s.played = (sessions[a].played \/ c.take > 1)
    BY <2>1 DEF Record
  <2> HIDE DEF s
  <2>4. c.take = 1 \/ c.take > 1
    BY <1>2, <1>8
  <2>5. s.checked /\ a \notin WrongMods
    BY <1>4, <1>8, <2>1, <2>3, <2>4 DEF SessionInv, ListedBeforePlay
  <2>6. d.take > 0
    BY <1>2
  <2> QED BY <1>2, <1>3, <1>8, <2>1, <2>2, <2>3, <2>5, <2>6, SessionStep
<1>9. CASE a \notin Live /\ kept /\ UNCHANGED <<sessions, players, next_id>>
  BY <1>2, <1>3, <1>9, ChannelStep
<1> QED BY <1>5, <1>6, <1>7, <1>8, <1>9

LEMMA PositionSessionInv ==
  ASSUME SessionInv, NEW a \in Addrs, PositionArrives(a)
  PROVE  SessionInv'
<1> DEFINE s == [sessions[a] EXCEPT !.quiet = 0]
<1>1. /\ a \in Live /\ channels[a] \in Channel /\ sessions[a] \in Record
      /\ InWindow(channels[a]) /\ channels[a].take > 0
  BY DEF PositionArrives, Live, SessionInv, SessionTypeOK, SessionsAreWhole, InWindow
<1>2. /\ s \in Record /\ s.player = sessions[a].player
      /\ s.checked = sessions[a].checked /\ s.played = sessions[a].played
  BY <1>1 DEF Record
<1>3. sessions' = [sessions EXCEPT ![a] = s]
  BY DEF PositionArrives
<1>4. channels' = [channels EXCEPT ![a] = channels[a]]
  BY DEF PositionArrives, SessionInv, SessionTypeOK
<1>5. UNCHANGED <<sent, gone, players, next_id>> /\ arrivals' \in 0 .. MaxArrivals
  BY SessionAssumption DEF PositionArrives, Arrive, SessionInv, SessionTypeOK
<1>6. channels[a].take > 1 \/ s.played => s.checked /\ a \notin WrongMods
  BY <1>1, <1>2 DEF SessionInv, ListedBeforePlay, PlayIsChecked
<1> HIDE DEF s
<1> QED BY <1>1, <1>2, <1>3, <1>4, <1>5, <1>6, SessionStep

LEMMA TickSessionInv ==
  ASSUME SessionInv, NEW kicked \in SUBSET Live, Tick(kicked)
  PROVE  SessionInv'
<1> DEFINE aged  == [a \in Addrs |-> IF a \in Live THEN Aged(sessions[a]) ELSE None]
           stale == {a \in Live \ kicked : aged[a].quiet > Patience}
<1>1. Ended(aged, kicked, stale) /\ UNCHANGED <<sent, gone, arrivals, next_id>>
  BY DEF Tick
<1>2. \A a \in Live : /\ aged[a] \in Record
                      /\ aged[a].player = sessions[a].player
                      /\ aged[a].checked = sessions[a].checked
                      /\ aged[a].played = sessions[a].played
  BY DEF Live, Aged, Record, SessionInv, SessionTypeOK
<1>3. \A a \in Addrs \ Live : aged[a] = None
  OBVIOUS
<1>4. stale \in SUBSET Addrs /\ arrivals' \in 0 .. MaxArrivals
  BY <1>1 DEF Live, SessionInv, SessionTypeOK
<1> HIDE DEF aged, stale
<1> QED BY <1>1, <1>2, <1>3, <1>4, EndedStep

LEMMA NextSessionInv == SessionInv /\ [SessionNext]_sessionVars => SessionInv'
<1> SUFFICES ASSUME SessionInv, [SessionNext]_sessionVars PROVE SessionInv'
  OBVIOUS
<1>1. ASSUME NEW a \in Addrs, ClientSend(a) \/ ClientQuit(a) PROVE SessionInv'
  <2>1. UNCHANGED <<arrivals, channels, sessions, players, next_id>>
    BY <1>1 DEF ClientSend, ClientQuit
  <2>2. sent' \in [Addrs -> 0 .. MaxFrames] /\ gone' \subseteq Addrs
    BY <1>1, SessionAssumption DEF ClientSend, ClientQuit, SessionInv, SessionTypeOK
  <2>3. Live' = Live
    BY <2>1 DEF Live
  <2> QED BY <2>1, <2>2, <2>3 DEF SessionInv, SessionTypeOK, IdsAreFresh, SessionsAreWhole,
                                  ListedBeforePlay, PlayIsChecked
<1>2. ASSUME NEW a \in Addrs, FrameArrives(a) PROVE SessionInv'
  BY <1>2, HoldSessionInv, HandleSessionInv DEF FrameArrives
<1>3. ASSUME NEW a \in Addrs, PositionArrives(a) PROVE SessionInv'
  BY <1>3, PositionSessionInv
<1>4. ASSUME NEW kicked \in SUBSET Live, Tick(kicked) PROVE SessionInv'
  BY <1>4, TickSessionInv
<1>5. CASE UNCHANGED sessionVars
  BY <1>5 DEF sessionVars, SessionInv, SessionTypeOK, IdsAreFresh, SessionsAreWhole,
              ListedBeforePlay, PlayIsChecked, Live
<1> QED BY <1>1, <1>2, <1>3, <1>4, <1>5 DEF SessionNext

LEMMA SpecSessionInv == SessionSpec => []SessionInv
BY InitSessionInv, NextSessionInv, PTL DEF SessionSpec

-----------------------------------------------------------------------------
(* The theorems. *)

\* The variables keep their types, and no channel ever holds a frame outside its
\* window.
THEOREM SessionTypesHold == SessionSpec => []SessionTypeOK
<1>1. SessionInv => SessionTypeOK
  BY DEF SessionInv
<1> QED BY <1>1, SpecSessionInv, PTL

\* Every session has a channel past its GameAuth and a registered player of its
\* own, whatever frames arrive after a kick or a cull.
THEOREM SessionsStayWhole == SessionSpec => []SessionsAreWhole
<1>1. SessionInv => SessionsAreWhole
  BY DEF SessionInv
<1> QED BY <1>1, SpecSessionInv, PTL

\* No numbered play packet is handled in a session before its mod list was.
THEOREM PlayFollowsModList == SessionSpec => []PlayIsChecked
<1>1. SessionInv => PlayIsChecked
  BY DEF SessionInv
<1> QED BY <1>1, SpecSessionInv, PTL

\* handle_auth never meets a session at its address, so it never replaces one.
THEOREM SessionsAreNotReplaced == SessionSpec => NeverReplaced
<1> DEFINE Same == \A a \in Live : sessions'[a] # None => sessions'[a].player = sessions[a].player
<1>1. SessionInv /\ [SessionNext]_sessionVars => [Same]_sessionVars
  <2> SUFFICES ASSUME SessionInv, SessionNext PROVE Same
    BY DEF Same
  <2>1. ASSUME NEW a \in Addrs, ClientSend(a) \/ ClientQuit(a) PROVE Same
    BY <2>1 DEF ClientSend, ClientQuit
  <2>2. ASSUME NEW a \in Addrs, NEW n \in 0 .. sent[a] - 1, Hold(a, n) PROVE Same
    BY <2>2 DEF Hold
  <2>3. ASSUME NEW a \in Addrs, NEW n \in 0 .. sent[a] - 1, Handle(a, n) PROVE Same
    <3> DEFINE c == Recv(ChannelOf(a), n)
    <3>1. c.take = ChannelOf(a).take
      BY FrameKeepsChannel DEF SessionInv
    <3>2. a \in Live => c.take > 0
      BY <3>1 DEF SessionInv, SessionsAreWhole, ChannelOf
    <3>3. \/ c.take = 0 /\ HandleAuth(a)
          \/ Ended(sessions, {a}, {})
          \/ Dispatch(a, c.take)
          \/ UNCHANGED sessions
      BY <2>3 DEF Handle
    <3> HIDE DEF c
    <3>4. CASE c.take = 0 /\ HandleAuth(a)
      BY <3>2, <3>4 DEF HandleAuth, Live, SessionInv, SessionTypeOK
    <3>5. CASE Ended(sessions, {a}, {})
      BY <3>5 DEF Ended, Live
    <3>6. CASE Dispatch(a, c.take)
      BY <3>6 DEF Dispatch, Live, SessionInv, SessionTypeOK, Record
    <3>7. CASE UNCHANGED sessions
      BY <3>7
    <3> QED BY <3>3, <3>4, <3>5, <3>6, <3>7
  <2>4. ASSUME NEW a \in Addrs, PositionArrives(a) PROVE Same
    BY <2>4 DEF PositionArrives, Live, SessionInv, SessionTypeOK, Record
  <2>5. ASSUME NEW kicked \in SUBSET Live, Tick(kicked) PROVE Same
    BY <2>5 DEF Tick, Ended, Aged, Live, SessionInv, SessionTypeOK, Record
  <2> QED BY <2>1, <2>2, <2>3, <2>4, <2>5 DEF SessionNext, FrameArrives
<1> QED BY <1>1, SpecSessionInv, PTL DEF SessionSpec, NeverReplaced

(***************************************************************************)
(* The master server's list.                                               *)
(***************************************************************************)
-----------------------------------------------------------------------------
(* The inductive invariant. *)

\* An announcement under way left when the clock of its server was last set
\* back, or before the server was started again;
FlightIsOlder == \A s \in up : flight[s] # NoEntry => flight[s] >= sinceAnnounce[s]

\* the entry of a server that is heard is no older than its last announcement, or
\* by a heartbeat while the next is under way;
HeardIsFresh ==
  \A s \in faithful :
    /\ list[s] # NoEntry
    /\ flight[s] = NoEntry => list[s] <= sinceAnnounce[s]
    /\ flight[s] # NoEntry => list[s] <= Heartbeat + flight[s]

\* and an entry outlives the limit by less than the time since the last cull.
StaleIsRecent == \A s \in Listed : list[s] < Stale + sinceCull

\* The master's answers on their way are of entries it had.
AnswersAreRecent == asked # NoEntry => \A s \in DOMAIN asked : asked[s] < Stale + CullEvery

ListingInv ==
  /\ ListingTypeOK
  /\ FlightIsOlder /\ HeardIsFresh /\ StaleIsRecent /\ AnswersAreRecent
  /\ ListIsCurrent

-----------------------------------------------------------------------------
(* Every step keeps the invariant. *)

LEMMA InitListingInv == ListingInit => ListingInv
BY MasterListAssumption
   DEF ListingInit, ListingInv, ListingTypeOK, FlightIsOlder, HeardIsFresh, StaleIsRecent,
       AnswersAreRecent,
       ListIsCurrent, Listed, MasterListAssumption

\* What keeps a row of the browser and an entry of the master below the limits
\* is enough for the properties.
LEMMA EntriesKeep ==
  ASSUME ListingInv, UNCHANGED <<list, sinceCull, asked, rows>>
  PROVE  StaleIsRecent' /\ AnswersAreRecent' /\ (\A row \in rows' : row.age < Stale + CullEvery)
BY DEF ListingInv, StaleIsRecent, AnswersAreRecent, ListIsCurrent, Listed

LEMMA StartListingInv ==
  ASSUME ListingInv, NEW s \in Servers, Start(s)
  PROVE  ListingInv'
<1> USE MasterListAssumption DEF MasterListAssumption
<1>1. /\ s \notin up /\ s \notin faithful /\ up' = up \cup {s}
      /\ sinceAnnounce' = [sinceAnnounce EXCEPT ![s] = 0]
      /\ UNCHANGED <<flight, list, sinceCull, asked, rows, faithful>>
  BY DEF Start, ListingInv, ListingTypeOK
<1>2. ListingTypeOK'
  BY <1>1 DEF ListingInv, ListingTypeOK
<1>3. FlightIsOlder'
  BY <1>1 DEF ListingInv, ListingTypeOK, FlightIsOlder
<1>4. HeardIsFresh'
  BY <1>1 DEF ListingInv, ListingTypeOK, HeardIsFresh
<1>5. ListIsCurrent'
  BY <1>1 DEF ListingInv, ListIsCurrent, Listed
<1> QED BY <1>1, <1>2, <1>3, <1>4, <1>5, EntriesKeep DEF ListingInv

LEMMA StopListingInv ==
  ASSUME ListingInv, NEW s \in Servers, Stop(s)
  PROVE  ListingInv'
<1>1. /\ up' = up \ {s} /\ faithful' = faithful \ {s}
      /\ UNCHANGED <<sinceAnnounce, flight, list, sinceCull, asked, rows>>
  BY DEF Stop
<1>2. ListingTypeOK' /\ FlightIsOlder' /\ HeardIsFresh' /\ ListIsCurrent'
  BY <1>1 DEF ListingInv, ListingTypeOK, FlightIsOlder, HeardIsFresh, ListIsCurrent, Listed
<1> QED BY <1>1, <1>2, EntriesKeep DEF ListingInv

\* An announcement goes out when the one before has arrived: it was due a heartbeat
\* ago, longer than anything is under way.
LEMMA AnnounceListingInv ==
  ASSUME ListingInv, NEW s \in Servers, Announce(s)
  PROVE  ListingInv'
<1> USE MasterListAssumption DEF MasterListAssumption
<1>1. /\ s \in up /\ sinceAnnounce[s] = Heartbeat
      /\ sinceAnnounce' = [sinceAnnounce EXCEPT ![s] = 0]
      /\ flight' = [flight EXCEPT ![s] = 0]
      /\ UNCHANGED <<up, list, sinceCull, asked, rows, faithful>>
  BY DEF Announce
<1>2. flight[s] = NoEntry
  BY <1>1 DEF ListingInv, ListingTypeOK, FlightIsOlder
<1>3. ListingTypeOK'
  BY <1>1 DEF ListingInv, ListingTypeOK
<1>4. FlightIsOlder'
  BY <1>1 DEF ListingInv, ListingTypeOK, FlightIsOlder
<1>5. HeardIsFresh'
  BY <1>1, <1>2 DEF ListingInv, ListingTypeOK, HeardIsFresh
<1>6. ListIsCurrent'
  BY <1>1 DEF ListingInv, ListIsCurrent, Listed
<1> QED BY <1>1, <1>3, <1>4, <1>5, <1>6, EntriesKeep DEF ListingInv

LEMMA LoseListingInv ==
  ASSUME ListingInv, NEW s \in Servers, Lose(s)
  PROVE  ListingInv'
<1>1. /\ flight' = [flight EXCEPT ![s] = NoEntry]
      /\ faithful' = faithful \ {s}
      /\ UNCHANGED <<up, sinceAnnounce, list, sinceCull, asked, rows>>
  BY DEF Lose
<1>2. ListingTypeOK' /\ FlightIsOlder' /\ HeardIsFresh' /\ ListIsCurrent'
  BY <1>1 DEF ListingInv, ListingTypeOK, FlightIsOlder, HeardIsFresh, ListIsCurrent, Listed
<1> QED BY <1>1, <1>2, EntriesKeep DEF ListingInv

LEMMA UpsertListingInv ==
  ASSUME ListingInv, NEW s \in Servers, Upsert(s)
  PROVE  ListingInv'
<1> USE MasterListAssumption DEF MasterListAssumption
<1>1. /\ flight' = [flight EXCEPT ![s] = NoEntry]
      /\ list' = [list EXCEPT ![s] = 0]
      /\ faithful' = faithful \cup ({s} \cap up)
      /\ UNCHANGED <<up, sinceAnnounce, sinceCull, asked, rows>>
  BY DEF Upsert
<1>2. ListingTypeOK'
  BY <1>1 DEF ListingInv, ListingTypeOK
<1>3. FlightIsOlder'
  BY <1>1 DEF ListingInv, ListingTypeOK, FlightIsOlder
<1>4. HeardIsFresh'
  BY <1>1 DEF ListingInv, ListingTypeOK, HeardIsFresh
<1>5. StaleIsRecent'
  BY <1>1 DEF ListingInv, ListingTypeOK, StaleIsRecent, Listed
<1>6. AnswersAreRecent' /\ ListIsCurrent'
  BY <1>1 DEF ListingInv, ListingTypeOK, AnswersAreRecent, ListIsCurrent, Listed
<1> QED BY <1>2, <1>3, <1>4, <1>5, <1>6 DEF ListingInv

\* The cull leaves a server that is heard: its entry is not stale.
LEMMA CullStaleListingInv ==
  ASSUME ListingInv, CullStale
  PROVE  ListingInv'
<1> USE MasterListAssumption DEF MasterListAssumption
<1>1. /\ sinceCull' = 0
      /\ list' = [s \in Servers |-> IF IsFresh(s) THEN list[s] ELSE NoEntry]
      /\ UNCHANGED <<up, sinceAnnounce, flight, asked, rows, faithful>>
  BY DEF CullStale
<1>2. ListingTypeOK'
  BY <1>1 DEF ListingInv, ListingTypeOK
<1>3. \A s \in faithful : s \in Servers /\ IsFresh(s)
  <2> SUFFICES ASSUME NEW s \in faithful PROVE s \in Servers /\ IsFresh(s)
    OBVIOUS
  <2>1. /\ s \in Servers /\ list[s] \in Nat /\ sinceAnnounce[s] \in 0 .. Heartbeat
        /\ flight[s] \in 0 .. Delay \cup {NoEntry}
    BY DEF ListingInv, ListingTypeOK, HeardIsFresh
  <2>2. list[s] <= Heartbeat + Delay
    BY <2>1 DEF ListingInv, HeardIsFresh
  <2> QED BY <2>1, <2>2 DEF IsFresh
<1>4. HeardIsFresh'
  BY <1>1, <1>3 DEF ListingInv, HeardIsFresh, IsFresh
<1>5. StaleIsRecent'
  BY <1>1 DEF ListingInv, ListingTypeOK, StaleIsRecent, Listed, IsFresh
<1>6. FlightIsOlder' /\ AnswersAreRecent'
  BY <1>1 DEF ListingInv, FlightIsOlder, AnswersAreRecent
<1>7. ListIsCurrent'
  BY <1>1, <1>3 DEF ListingInv, ListIsCurrent, Listed, IsFresh
<1> QED BY <1>2, <1>4, <1>5, <1>6, <1>7 DEF ListingInv

LEMMA RefreshListingInv ==
  ASSUME ListingInv, Refresh
  PROVE  ListingInv'
<1> USE MasterListAssumption DEF MasterListAssumption
<1>1. /\ asked' = [s \in Listed |-> list[s]] /\ list' = list
      /\ UNCHANGED <<up, sinceAnnounce, flight, sinceCull, rows, faithful>>
  BY DEF Refresh, Answer
<1>2. \A s \in Listed : s \in Servers /\ list[s] \in Nat /\ list[s] < Stale + CullEvery
  BY DEF ListingInv, ListingTypeOK, StaleIsRecent, Listed
<1>3. ListingTypeOK'
  <2>1. asked' \in [Listed -> Nat] /\ Listed \in SUBSET Servers
    BY <1>1, <1>2
  <2> QED BY <1>1, <2>1 DEF ListingInv, ListingTypeOK
<1>4. AnswersAreRecent'
  BY <1>1, <1>2 DEF AnswersAreRecent
<1> QED BY <1>1, <1>3, <1>4 DEF ListingInv, FlightIsOlder, HeardIsFresh, StaleIsRecent,
           ListIsCurrent, Listed

LEMMA ShowListListingInv ==
  ASSUME ListingInv, ShowList
  PROVE  ListingInv'
<1>1. /\ asked # NoEntry /\ asked' = NoEntry
      /\ UNCHANGED <<up, sinceAnnounce, flight, list, sinceCull, faithful>>
  BY DEF ShowList
<1>2. PICK S \in SUBSET Servers : asked \in [S -> Nat]
  BY <1>1 DEF ListingInv, ListingTypeOK
<1>3. rows' = {} \/ \E s \in S : rows' = {[name |-> s, addr |-> Master, age |-> asked[s]]}
  BY <1>2 DEF ShowList
<1>4. /\ rows' \subseteq [name : Servers, addr : {Master}, age : Nat]
      /\ \A row \in rows' : row.age < Stale + CullEvery
  BY <1>1, <1>2, <1>3 DEF ListingInv, AnswersAreRecent
<1>5. ListingTypeOK'
  BY <1>1, <1>4 DEF ListingInv, ListingTypeOK
<1>6. ListIsCurrent'
  BY <1>1, <1>4 DEF ListingInv, ListIsCurrent, Listed
<1> QED BY <1>1, <1>5, <1>6 DEF ListingInv, FlightIsOlder, HeardIsFresh, StaleIsRecent,
           AnswersAreRecent, Listed

LEMMA TimePassesListingInv ==
  ASSUME ListingInv, TimePasses
  PROVE  ListingInv'
<1> USE MasterListAssumption DEF MasterListAssumption
<1>1. /\ \A s \in up : sinceAnnounce[s] < Heartbeat
      /\ \A s \in Servers : flight[s] # NoEntry => flight[s] < Delay
      /\ sinceCull < CullEvery /\ sinceCull' = sinceCull + 1
      /\ UNCHANGED <<up, asked, rows, faithful>>
  BY DEF TimePasses
<1>2. \A s \in Servers : /\ sinceAnnounce'[s] = IF s \in up THEN sinceAnnounce[s] + 1 ELSE sinceAnnounce[s]
                         /\ flight'[s] = IF flight[s] = NoEntry THEN NoEntry ELSE flight[s] + 1
                         /\ list'[s] = IF list[s] = NoEntry THEN NoEntry ELSE list[s] + 1
  BY DEF TimePasses, Later
<1>3. ListingTypeOK'
  <2>1. sinceAnnounce' \in [Servers -> 0 .. Heartbeat]
    <3>1. \A s \in Servers : sinceAnnounce'[s] \in 0 .. Heartbeat
      BY <1>1, <1>2 DEF ListingInv, ListingTypeOK
    <3> QED BY <3>1 DEF TimePasses
  <2>2. flight' \in [Servers -> 0 .. Delay \cup {NoEntry}]
    <3>1. \A s \in Servers : flight'[s] \in 0 .. Delay \cup {NoEntry}
      BY <1>1, <1>2 DEF ListingInv, ListingTypeOK
    <3> QED BY <3>1 DEF TimePasses
  <2>3. list' \in [Servers -> Nat \cup {NoEntry}]
    <3>1. \A s \in Servers : list'[s] \in Nat \cup {NoEntry}
      BY <1>2 DEF ListingInv, ListingTypeOK
    <3> QED BY <3>1 DEF TimePasses
  <2> QED BY <1>1, <2>1, <2>2, <2>3 DEF ListingInv, ListingTypeOK
<1>4. FlightIsOlder'
  BY <1>1, <1>2 DEF ListingInv, ListingTypeOK, FlightIsOlder
<1>5. HeardIsFresh'
  <2> SUFFICES ASSUME NEW s \in faithful
               PROVE  /\ list'[s] # NoEntry
                      /\ flight'[s] = NoEntry => list'[s] <= sinceAnnounce'[s]
                      /\ flight'[s] # NoEntry => list'[s] <= Heartbeat + flight'[s]
    BY <1>1 DEF HeardIsFresh
  <2>1. /\ s \in Servers /\ s \in up /\ list[s] \in Nat /\ sinceAnnounce[s] \in Nat
        /\ flight[s] \in Nat \cup {NoEntry}
    BY DEF ListingInv, ListingTypeOK, HeardIsFresh
  <2> QED BY <1>2, <2>1 DEF ListingInv, HeardIsFresh
<1>6. StaleIsRecent'
  BY <1>1, <1>2 DEF ListingInv, ListingTypeOK, StaleIsRecent, Listed
<1>7. AnswersAreRecent'
  BY <1>1 DEF ListingInv, AnswersAreRecent
<1>8. ListIsCurrent'
  <2>1. faithful \subseteq Servers
    BY DEF ListingInv, ListingTypeOK
  <2> QED BY <1>1, <1>5, <2>1 DEF ListingInv, ListIsCurrent, HeardIsFresh, Listed
<1> QED BY <1>3, <1>4, <1>5, <1>6, <1>7, <1>8 DEF ListingInv

LEMMA SpecListingInv == ListingSpec => []ListingInv
<1>1. ListingInit => ListingInv
  BY InitListingInv
<1>2. ListingInv /\ [ListingNext]_listingVars => ListingInv'
  <2> SUFFICES ASSUME ListingInv, [ListingNext]_listingVars PROVE ListingInv'
    OBVIOUS
  <2>1. CASE UNCHANGED listingVars
    BY <2>1 DEF listingVars, ListingInv, ListingTypeOK, FlightIsOlder, HeardIsFresh,
       StaleIsRecent,
                AnswersAreRecent, ListIsCurrent, Listed
  <2> QED BY <2>1, StartListingInv, StopListingInv, AnnounceListingInv, LoseListingInv,
             UpsertListingInv, CullStaleListingInv, RefreshListingInv,
             ShowListListingInv, TimePassesListingInv
          DEF ListingNext, ServerNext
<1> QED BY <1>1, <1>2, PTL DEF ListingSpec

-----------------------------------------------------------------------------
(* Theorems. *)

\* The variables keep their types.
THEOREM ListingTypesHold == ListingSpec => []ListingTypeOK
<1>1. ListingInv => ListingTypeOK
  BY DEF ListingInv
<1> QED BY <1>1, SpecListingInv, PTL

\* A server that is heard stays in the master's list through every cull_stale, and
\* the browser never shows an announcement older than the limit and one interval
\* of the cull.
THEOREM HeardServersStayListed == ListingSpec => []ListIsCurrent
<1>1. ListingInv => ListIsCurrent
  BY DEF ListingInv
<1> QED BY <1>1, SpecListingInv, PTL
=============================================================================
