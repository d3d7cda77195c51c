---------------------------- MODULE MCWorldRelay ----------------------------
(* Two players, an NPC and an item; every sequence of four updates. *)
EXTENDS WorldRelay

\* A step the check lets pass, and a stride of a tenth of a second.
MCPlaces == {4, 300}
\* Beyond the range of a weapon.
MCDoors == {7000}
MCSamples == {50}
MCCounts == {2, 65536}
MCHits == {[base |-> 30, limb |-> 0, critical |-> FALSE],
           [base |-> 30, limb |-> 1, critical |-> TRUE]}
=============================================================================
