----------------------------- MODULE MCHandshake ----------------------------
(* TLC instance of Handshake.                                                *)
EXTENDS Handshake

(* The joints as model/spike/ros_control.xacro declares them.                *)
LeftReversed == [w \in Wheels |-> w = "left"]
=============================================================================
