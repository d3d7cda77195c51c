----------------------------- MODULE ScriptHost -----------------------------
(***************************************************************************)
(* The scripts of the server: their timers, the effects they ask for, and  *)
(* the players the effects reach.  A tick collects the timers that are     *)
(* due, calls back every instance that exports the name of each, takes     *)
(* what the scripts have queued and applies it effect by effect; between   *)
(* ticks, packets, joins and departures call the scripts too.  Everything  *)
(* runs on one thread, but a callback may create and kill timers and queue *)
(* effects while the tick is halfway through its own list of either.       *)
(***************************************************************************)
EXTENDS Integers, Sequences, FiniteSets

CONSTANTS
  Instances,   \* how many modules are loaded
  Callbacks,   \* names a timer may be created with
  Exports,     \* the names each instance exports
  Players

CONSTANTS
  Intervals,   \* of a timer, in steps of time
  MaxTimers, MaxEffects,   \* bounds on what scripts create, on what they
  MaxAsked                 \* queue, and on both together

ASSUME ScriptHostAssumption ==
  /\ Instances \in Nat
  /\ Exports \in [1..Instances -> SUBSET Callbacks]
  /\ Intervals \subseteq Nat \ {0}
  /\ MaxTimers \in Nat /\ MaxEffects \in Nat /\ MaxAsked \in Nat

VARIABLES
  \* TimerManager
  timers,     \* the live timers, by id
  nextId,
  \* ScriptEffects and its receivers
  queue,      \* effects queued and not taken
  applying,   \* effects taken by this tick and not yet applied
  present,   \* players in game
  inbox,      \* what each player was sent because of an effect
  \* the server's thread
  phase,      \* of the tick, "loop" between two ticks
  firing,     \* callbacks of timers this tick has still to make
  running,    \* a callback has been entered and has not returned
  \* history
  killed, steady, calls, log, since

timing == <<timers, nextId, firing, killed, steady, calls>>
vars == <<timers, nextId, queue, applying, present, inbox,
          phase, firing, running, killed, steady, calls, log, since>>

Timer == [callback : Callbacks, interval : Intervals, left : Nat,
          repeating : BOOLEAN]
Effect == [kind : {"private", "kick"}, to : Players]
            \cup [kind : {"broadcast"}]

TimerIds == 1..MaxTimers
End == [kind |-> "end"]

\* Calls of one instance for one timer are counted up to here.
Many == 2

TypeOK ==
  /\ nextId \in 1..MaxTimers + 1
  /\ DOMAIN timers \subseteq 1..nextId - 1
  /\ \A id \in DOMAIN timers : timers[id] \in Timer
  /\ queue \in Seq(Effect) /\ applying \in Seq(Effect) /\ log \in Seq(Effect)
  /\ present \subseteq Players
  /\ inbox \in [Players -> Seq(Effect \cup {End})]
  /\ phase \in {"loop", "timers", "effects"}
  /\ firing \in Seq(TimerIds \X (1..Instances))
  /\ running \in BOOLEAN
  /\ killed \subseteq 1..nextId - 1 /\ steady \subseteq 1..nextId - 1
  /\ calls \in [TimerIds -> [1..Instances -> 0..Many]]
  /\ since \in [Players -> Int]

Init ==
  /\ timers = <<>>
  /\ nextId = 1
  /\ queue = <<>>
  /\ applying = <<>>
  /\ present = {}
  /\ inbox = [p \in Players |-> <<>>]
  /\ phase = "loop"
  /\ firing = <<>>
  /\ running = FALSE
  /\ killed = {}
  /\ steady = {}
  /\ calls = [id \in TimerIds |-> [k \in 1..Instances |-> 0]]
  /\ log = <<>>
  /\ since = [p \in Players |-> 0]

Idle == phase = "loop" /\ ~running
Applied == Len(log) - Len(queue) - Len(applying)

-----------------------------------------------------------------------------
(* What a script may do while it runs. *)

\* A new timer is not due before its interval is over, so one made during a
\* tick waits for a later one.
CreateTimer(cb, interval, repeating) ==
  /\ running
  /\ nextId <= MaxTimers /\ nextId + Len(log) <= MaxAsked
  /\ timers' = [id \in DOMAIN timers \cup {nextId} |->
                  IF id = nextId
                  THEN [callback |-> cb, interval |-> interval,
                        left |-> interval, repeating |-> repeating]
                  ELSE timers[id]]
  /\ nextId' = nextId + 1
  /\ steady' = IF repeating THEN steady \cup {nextId} ELSE steady
  /\ UNCHANGED <<queue, applying, present, inbox, phase, firing, running,
                 killed, calls, log, since>>

\* Any script may kill any timer; a callback already collected still runs.
KillTimer(id) ==
  /\ running
  /\ id \in DOMAIN timers
  /\ timers' = [x \in DOMAIN timers \ {id} |-> timers[x]]
  /\ killed' = killed \cup {id}
  /\ UNCHANGED <<nextId, queue, applying, present, inbox, phase, firing,
                 running, steady, calls, log, since>>

\* chat_message, ui_message, kick, and the window functions.
Push(e) ==
  /\ running
  /\ Len(log) < MaxEffects /\ nextId + Len(log) <= MaxAsked
  /\ queue' = Append(queue, e)
  /\ log' = Append(log, e)
  /\ UNCHANGED <<timing, applying, present, inbox, phase, running, since>>

Return ==
  /\ running
  /\ running' = FALSE
  /\ UNCHANGED <<timing, queue, applying, present, inbox, phase, log, since>>

-----------------------------------------------------------------------------
(* Between ticks. *)

\* A packet, a quest stage or the clock calls the scripts.
Notify ==
  /\ Idle
  /\ running' = TRUE
  /\ UNCHANGED <<timing, queue, applying, present, inbox, phase, log, since>>

\* What the instances answer to a connection: "none" is no export, a trap or
\* a module without memory, and counts as consent.
Votes == [1..Instances -> {"allow", "deny", "none"}]
Admits(votes) == \A k \in 1..Instances : votes[k] # "deny"

\* The callbacks of a join have run by the time the player is in the game.
Join(p, votes) ==
  /\ Idle
  /\ p \notin present /\ inbox[p] = <<>>
  /\ Admits(votes)
  /\ present' = present \cup {p}
  /\ since' = [since EXCEPT ![p] = Applied]
  /\ running' = TRUE
  /\ UNCHANGED <<timing, queue, applying, inbox, phase, log>>

\* The farewell of a player is answered, its session removed, and the
\* scripts are told.
Leave(p) ==
  /\ Idle
  /\ p \in present
  /\ present' = present \ {p}
  /\ inbox' = [inbox EXCEPT ![p] = Append(@, End)]
  /\ running' = TRUE
  /\ UNCHANGED <<timing, queue, applying, phase, log, since>>

Elapse ==
  /\ Idle
  /\ \E id \in DOMAIN timers : timers[id].left > 0
  /\ timers' = [id \in DOMAIN timers |->
                  [timers[id] EXCEPT !.left = IF @ > 0 THEN @ - 1 ELSE 0]]
  /\ UNCHANGED <<nextId, queue, applying, present, inbox, phase, firing,
                 running, killed, steady, calls, log, since>>

-----------------------------------------------------------------------------
(* The tick. *)

\* Mutant of Due: a timer nobody exports is left alone.
DueExported ==
  {id \in DOMAIN timers :
     timers[id].left = 0 /\ \E k \in 1..Instances : timers[id].callback \in Exports[k]}

Due == {id \in DOMAIN timers : timers[id].left = 0}
DueCalls ==
  {call \in Due \X (1..Instances) :
     timers[call[1]].callback \in Exports[call[2]]}

\* The timers in the order of a hash map, the instances of each in theirs.
CallOrders ==
  {s \in [1..Cardinality(DueCalls) -> DueCalls] :
     \A i, j \in 1..Cardinality(DueCalls) : i < j =>
       /\ s[i] # s[j]
       /\ s[i][1] = s[j][1] => /\ s[i][2] < s[j][2]
                              /\ \A m \in i..j : s[m][1] = s[i][1]}

\* The timers that are due are collected, the repeating ones armed again and
\* the others taken out, before any callback runs.
TickTimers ==
  /\ Idle
  /\ firing' \in CallOrders
  /\ timers' = [id \in {x \in DOMAIN timers : x \in Due => timers[x].repeating}
                 |-> IF id \in Due
                     THEN [timers[id] EXCEPT !.left = timers[id].interval]
                     ELSE timers[id]]
  /\ phase' = "timers"
  /\ UNCHANGED <<nextId, queue, applying, present, inbox, running, killed,
                 steady, calls, log, since>>

\* Mutant of Invoke: the callback arms its timer, dead or alive.
InvokeRearms ==
  /\ phase = "timers" /\ ~running
  /\ firing # <<>>
  /\ firing' = Tail(firing)
  /\ running' = TRUE
  /\ calls' = [calls EXCEPT ![Head(firing)[1]][Head(firing)[2]] = IF @ < Many THEN @ + 1 ELSE Many]
  /\ timers' = [id \in DOMAIN timers \cup {Head(firing)[1]} |->
                  IF id \in DOMAIN timers THEN timers[id]
                  ELSE [callback |-> CHOOSE cb \in Callbacks : TRUE,
                        interval |-> 1, left |-> 1, repeating |-> TRUE]]
  /\ UNCHANGED <<nextId, queue, applying, present, inbox, phase, killed,
                 steady, log, since>>

Invoke ==
  /\ phase = "timers" /\ ~running
  /\ firing # <<>>
  /\ firing' = Tail(firing)
  /\ running' = TRUE
  /\ calls' = [calls EXCEPT ![Head(firing)[1]][Head(firing)[2]] = IF @ < Many THEN @ + 1 ELSE Many]
  /\ UNCHANGED <<timers, nextId, queue, applying, present, inbox, phase,
                 killed, steady, log, since>>

\* What callbacks queue from here on waits for the next tick.
DrainEffects ==
  /\ phase = "timers" /\ ~running
  /\ firing = <<>>
  /\ applying' = queue
  /\ queue' = <<>>
  /\ phase' = "effects"
  /\ UNCHANGED <<timing, present, inbox, running, log, since>>

Addressed(e, p) == e.kind = "broadcast" \/ e.to = p

\* Mutant of ApplyEffect: a kicked player keeps its session.
ApplyEffectKeepsSession ==
  /\ phase = "effects" /\ ~running
  /\ applying # <<>>
  /\ applying' = Tail(applying)
  /\ LET e == Head(applying)
     IN /\ inbox' = [p \in Players |->
                       IF p \notin present \/ ~Addressed(e, p) THEN inbox[p]
                       ELSE Append(inbox[p],
                                   IF e.kind = "kick" THEN End ELSE e)]
        /\ present' = present
        /\ running' = (e.kind = "kick" /\ e.to \in present)
  /\ UNCHANGED <<timing, queue, phase, log, since>>

\* Mutant of ApplyEffect: a kick ends the list.
ApplyEffectStops ==
  /\ phase = "effects" /\ ~running
  /\ applying # <<>>
  /\ applying' = IF Head(applying).kind = "kick" THEN <<>> ELSE Tail(applying)
  /\ LET e == Head(applying)
     IN /\ inbox' = [p \in Players |->
                       IF p \notin present \/ ~Addressed(e, p) THEN inbox[p]
                       ELSE Append(inbox[p],
                                   IF e.kind = "kick" THEN End ELSE e)]
        /\ present' = IF e.kind = "kick" THEN present \ {e.to} ELSE present
        /\ running' = (e.kind = "kick" /\ e.to \in present)
  /\ UNCHANGED <<timing, queue, phase, log, since>>

\* A kick sends the farewell, removes the session and tells the scripts,
\* who may queue more: it is no longer part of this list.
ApplyEffect ==
  /\ phase = "effects" /\ ~running
  /\ applying # <<>>
  /\ applying' = Tail(applying)
  /\ LET e == Head(applying)
     IN /\ inbox' = [p \in Players |->
                       IF p \notin present \/ ~Addressed(e, p) THEN inbox[p]
                       ELSE Append(inbox[p],
                                   IF e.kind = "kick" THEN End ELSE e)]
        /\ present' = IF e.kind = "kick" THEN present \ {e.to} ELSE present
        /\ running' = (e.kind = "kick" /\ e.to \in present)
  /\ UNCHANGED <<timing, queue, phase, log, since>>

EndTick ==
  /\ phase = "effects" /\ ~running
  /\ applying = <<>>
  /\ phase' = "loop"
  /\ UNCHANGED <<timing, queue, applying, present, inbox, running, log, since>>

Next ==
  \/ \E cb \in Callbacks, interval \in Intervals, repeating \in BOOLEAN :
       CreateTimer(cb, interval, repeating)
  \/ \E id \in TimerIds : KillTimer(id)
  \/ \E e \in Effect : Push(e)
  \/ Return
  \/ Notify
  \/ \E p \in Players : Leave(p) \/ \E votes \in Votes : Join(p, votes)
  \/ Elapse
  \/ TickTimers \/ Invoke \/ DrainEffects \/ ApplyEffect \/ EndTick

Spec == Init /\ [][Next]_vars

\* The loop takes a ready branch at random, so packets do not hold its
\* interval up for ever; time passes between its turns; and callbacks
\* return: the engine gives them no limit, so that is the scripts' part.
Fairness ==
  /\ SF_vars(TickTimers) /\ WF_vars(Invoke) /\ WF_vars(DrainEffects)
  /\ WF_vars(ApplyEffect) /\ WF_vars(EndTick)
  /\ WF_vars(Return) /\ SF_vars(Elapse)

FairSpec == Spec /\ Fairness

-----------------------------------------------------------------------------
(* Properties. *)

\* A killed timer is never live again, even when it is killed by a callback
\* of the tick that has just collected it.
KilledStaysDead == killed \cap DOMAIN timers = {}

\* A timer that does not repeat calls an instance at most once, although
\* its callbacks start after it was taken out and may create new timers.
OneShotsFireOnce ==
  \A id \in 1..nextId - 1, k \in 1..Instances :
    id \notin steady => calls[id][k] <= 1

\* Nothing is sent to a player after its farewell.
NothingAfterFarewell ==
  \A p \in Players : \A i \in DOMAIN inbox[p] :
    inbox[p][i] = End => i = Len(inbox[p]) /\ p \notin present

\* The places in the log of the effects applied for a player since it joined.
DueTo(p) == {n \in since[p] + 1 .. Applied : Addressed(log[n], p)}

\* A player in the game was sent exactly the effects addressed to it since
\* it joined, in the order the scripts asked for them: what it was sent
\* matches, one to one and in order, the places of those effects in the log.
InboxIsExact ==
  \A p \in present :
    \E place \in [1..Len(inbox[p]) -> DueTo(p)] :
      /\ \A i, j \in 1..Len(inbox[p]) : i < j => place[i] < place[j]
      /\ \A n \in DueTo(p) : \E i \in 1..Len(inbox[p]) : place[i] = n
      /\ \A i \in 1..Len(inbox[p]) : inbox[p][i] = log[place[i]]

\* Every timer that lives on comes due again and again, and is served each
\* time, whether or not anything exports its callback.
TimersFire ==
  \A id \in TimerIds :
    /\ []<>(id \in DOMAIN timers => timers[id].left = 0)
    /\ []<>(id \in DOMAIN timers => timers[id].left > 0)

\* Every effect a script asks for is applied.  (Both sides stay true, so this is
\* Len(log) >= n ~> Applied >= n.)
EffectsAreApplied ==
  \A n \in 1..MaxEffects : []<>(Len(log) >= n => Applied >= n)
=============================================================================
