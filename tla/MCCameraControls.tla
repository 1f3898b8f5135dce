-------------------------- MODULE MCCameraControls --------------------------
(* TLC instance of CameraControls: two controls, so that a batch can be      *)
(* seen half applied, two requests, so that one can be behind the other, and *)
(* a sequence number that wraps after SeqMod callbacks.                      *)
EXTENDS CameraControls

CONSTANTS c1, c2, v1, v2

TwoControls == {c1, c2}
TwoValues == {v1, v2}

(* Lists that set both controls alike, or none.                              *)
UniformBatches == {[c \in TwoControls |-> v] : v \in TwoValues \cup {Unset}}
=============================================================================
