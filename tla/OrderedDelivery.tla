--------------------------- MODULE OrderedDelivery ---------------------------
(***************************************************************************)
(* What one direction of a connection promises (network.rs, "3 ordered     *)
(* reliable channels"): the packets one side hands to the transport reach  *)
(* the other side's handlers once each and in the order they were sent.    *)
(* A packet is named by its position in the sender's stream.               *)
(***************************************************************************)
EXTENDS Integers, Sequences

VARIABLES
  sent,        \* how many packets the sender has handed over
  dispatched   \* the packets the receiver's handlers have seen, oldest first

vars == <<sent, dispatched>>

Init ==
  /\ sent = 0
  /\ dispatched = <<>>

Send ==
  /\ sent' = sent + 1
  /\ UNCHANGED dispatched

Dispatch ==
  /\ Len(dispatched) < sent
  /\ dispatched' = Append(dispatched, Len(dispatched))
  /\ UNCHANGED sent

Next == Send \/ Dispatch

Spec == Init /\ [][Next]_vars
=============================================================================
