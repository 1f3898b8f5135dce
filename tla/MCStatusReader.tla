--------------------------- MODULE MCStatusReader ---------------------------
(* TLC instance of StatusReader: a buffer that holds two lines and a part of *)
(* a third, so that full and short chunks cut the lines at every cell, and   *)
(* enough lines for calls of two chunks.                                     *)
EXTENDS StatusReader

(* The joints as model/spike/ros_control.xacro declares them.                *)
LeftReversed == [w \in Wheels |-> w = "left"]
=============================================================================
