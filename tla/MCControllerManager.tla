------------------------ MODULE MCControllerManager -------------------------
(* TLC instance of ControllerManager.                                        *)
EXTENDS ControllerManager

(* The joints as model/spike/ros_control.xacro declares them.                *)
LeftReversed == [w \in Wheels |-> w = "left"]
=============================================================================
