----------------------------- MODULE MCStreams -----------------------------
(***************************************************************************)
(* What is sent to keep two sides equal, for TLC: the server's state to    *)
(* the clients, and the game's events to the client.  A behaviour is one   *)
(* of these, chosen at the start (part); the other stays as it was.        *)
(*                                                                         *)
(*   "sync"    two clients, scripts and ticks around one value             *)
(*   "bridge"  the bridge's threads, one pipe after another, and a client  *)
(*             that is killed and started again                            *)
(***************************************************************************)
EXTENDS WorldSync, BridgePipe

VARIABLE part

allVars == <<vars, pipeVars, part>>

MCInit ==
  /\ part \in {"sync", "bridge"}
  /\ Init /\ PipeInit
  /\ part # "sync" => topic = "global"

OnBridge(A) == part = "bridge" /\ A /\ UNCHANGED <<vars, part>>
OnSync(A)   == part = "sync" /\ A /\ UNCHANGED <<pipeVars, part>>

MCNext ==
  \/ OnSync(Next)
  \/ OnBridge(PipeNext)

\* The fairness of the components: see Fairness of WorldSync and PipeFairSpec of
\* BridgePipe.
MCSpec ==
  /\ MCInit /\ [][MCNext]_allVars
  /\ WF_allVars(OnSync(TickSync))
  /\ \A c \in Clients : WF_allVars(OnSync(HandleChange(c))) /\ WF_allVars(OnSync(ClientHears(c)))
  /\ WF_allVars(OnBridge(Accept)) /\ WF_allVars(OnBridge(Serve))
  /\ WF_allVars(OnBridge(Write)) /\ WF_allVars(OnBridge(Eof))
  /\ WF_allVars(OnBridge(PollBridge)) /\ WF_allVars(OnBridge(Await))
  /\ WF_allVars(OnBridge(TakeReturn)) /\ WF_allVars(OnBridge(Disconnected))

-----------------------------------------------------------------------------
(* The properties of BridgePipe, two and two.                              *)

\* No event is lost, doubled or overtaken while a connection lasts, on its way
\* to the client and through it into packets; commands, the other way, are run
\* in order and once each, and an answer is that of its command.
FramesConserved == EventsConserved /\ HandedInOrder /\ CommandsRunOnce

\* A client that waits for an answer gets it or an error, and a connected client
\* that hears from the server again and again comes to have every event,
\* unless its connection ends.
PipeMoves == ExecuteReturns /\ EventsArrive
=============================================================================
