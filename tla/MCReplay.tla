------------------------------ MODULE MCReplay ------------------------------
(* Small instances of Replay: one or two remote nodes.                       *)
EXTENDS Replay

CONSTANTS s1, s2

OneSrc == {s1}
TwoSrc == {s1, s2}
=============================================================================
