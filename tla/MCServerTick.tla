---------------------------- MODULE MCServerTick ----------------------------
(***************************************************************************)
(* What the server's tick and the clocks drive, for TLC.  A behaviour is   *)
(* one of these, chosen at the start (part); the others stay as they were. *)
(*                                                                         *)
(*   "scripts"  two instances that export one callback name, and a second  *)
(*              name that a timer may be given although nothing exports it *)
(*   "session"  two clients coming and going, one with the wrong mods, and *)
(*              late copies of what they sent                              *)
(*   "master"   a server that comes and goes, the master's list and a      *)
(*              browser; entries never touch one another                   *)
(***************************************************************************)
EXTENDS ScriptHost, Session, MasterList

CONSTANTS both, nobody

MCExports == [k \in 1..Instances |-> {both}]

VARIABLE part

allVars == <<vars, sessionVars, listingVars, part>>

MCInit ==
  /\ part \in {"scripts", "session", "master"}
  /\ Init /\ SessionInit /\ ListingInit

InScripts(A) == A /\ UNCHANGED <<sessionVars, listingVars, part>>
InSession(A)   == A /\ UNCHANGED <<vars, listingVars, part>>
InListing(A) == A /\ UNCHANGED <<vars, sessionVars, part>>

MCNext ==
  \/ part = "scripts" /\ InScripts(Next)
  \/ part = "session" /\ InSession(SessionNext)
  \/ part = "master" /\ InListing(ListingNext)

\* The fairness of the components: see Fairness of ScriptHost, and FairSpec of
\* Session and of MasterList.
MCSpec ==
  /\ MCInit /\ [][MCNext]_allVars
  /\ SF_allVars(part = "scripts" /\ InScripts(TickTimers))
  /\ SF_allVars(part = "scripts" /\ InScripts(Elapse))
  /\ WF_allVars(part = "scripts" /\ InScripts(Invoke))
  /\ WF_allVars(part = "scripts" /\ InScripts(DrainEffects))
  /\ WF_allVars(part = "scripts" /\ InScripts(ApplyEffect))
  /\ WF_allVars(part = "scripts" /\ InScripts(EndTick))
  /\ WF_allVars(part = "scripts" /\ InScripts(Return))
  /\ WF_allVars(part = "session" /\ InSession(Tick({})))
  /\ WF_allVars(part = "master" /\ InListing(Progress))

-----------------------------------------------------------------------------
(* The properties of the components, each of the behaviours it is about.   *)

\* Every timer that lives on is served again and again, and every effect that
\* a script asks for is applied.
TicksServe == TimersFire /\ EffectsAreApplied

\* Nothing is remembered for ever of who is gone: the sessions of clients that are
\* gone end, also one a late copy made, and a server that ended leaves the list.
\* (SilentAreCulled of Session and DeadIsDropped of MasterList as one formula.)
GoneIsForgotten ==
  []<>(/\ part = "session" => gone \cap Live = {}
       /\ part = "master" => Listed \subseteq up)
=============================================================================
