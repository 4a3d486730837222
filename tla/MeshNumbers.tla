---------------------------- MODULE MeshNumbers ----------------------------
(***************************************************************************)
(* What the two ends of a message have in common: the IV index and the     *)
(* sequence number under which it is encrypted.  SeqIv hands them out,     *)
(* Replay judges them.                                                     *)
(***************************************************************************)
EXTENDS Integers

CONSTANTS
  None,     \* no message, no destination
  MaxIv,    \* bound: the network's IV index
  MaxSeq    \* bound: sequence numbers taken under one IV index
=============================================================================
