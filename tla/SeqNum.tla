------------------------------- MODULE SeqNum -------------------------------
(***************************************************************************)
(* The u16 sequence numbers of the reliable transport and the wrapping     *)
(* arithmetic both ends do on them.  SeqSpace is 2^16 in the code; the     *)
(* runs use a small space so that a connection goes around it.             *)
(***************************************************************************)
EXTENDS Integers

CONSTANT SeqSpace   \* how many sequence numbers there are: 2^16 for a u16

ASSUME SeqSpaceAssumption == SeqSpace \in Nat \ {0}

Seqs == 0 .. SeqSpace - 1

\* The n-th number handed out by a counter that starts at 0 and is advanced
\* with wrapping_add(1).
SeqNo(n) == n % SeqSpace

\* Mutant of WrapAdd: plain addition.
WrapAddWide(a, b) == a + b

\* u16::wrapping_add and u16::wrapping_sub.
WrapAdd(a, b) == (a + b) % SeqSpace
WrapSub(a, b) == (a - b) % SeqSpace
=============================================================================
