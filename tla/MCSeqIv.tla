------------------------------ MODULE MCSeqIv ------------------------------
(* Small instances of SeqIv: one destination of segmented messages, numbers  *)
(* reserved three at a time, five epochs of the network.                     *)
EXTENDS SeqIv

CONSTANT d1

OneDst == {d1}
Orderly == {}
Stale == {"stale"}
Recovery == {"recovery"}
=============================================================================
