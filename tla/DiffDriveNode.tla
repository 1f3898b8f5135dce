---------------------------- MODULE DiffDriveNode ---------------------------
(* The node that drives the base from cmd_vel: class DiffDriveNode and       *)
(* main() (tuw_spike_control/src/diffdrive_node.cpp).  It owns a             *)
(* TuwSpikeSystemInterface and calls its handlers itself: on_init,           *)
(* on_configure and on_activate from the constructor, write from on_cmd_vel, *)
(* and the interface's destructor when the node is destroyed.  The process   *)
(* may be started again after it has ended.                                  *)
EXTENDS SpikeInterface

CONSTANT NoTwist  \* no cmd_vel yet

VARIABLES
    process,         \* "down", "up", or "aborting" after std::terminate
    hardware_ready_, \* DiffDriveNode::hardware_ready_
    twist            \* ghost: the last cmd_vel written by this process, or NoTwist

nodeVars == <<process, hardware_ready_, twist>>

(* Body velocities whose wheel speeds stay in range; wheel_separation_ / 2   *)
(* and wheel_radius_ are one.                                                *)
Twists == {t \in [v : Speeds, w : Speeds] :
               t.v - t.w \in Speeds /\ t.v + t.w \in Speeds}

ASSUME NoTwistAssumption == NoTwist \notin Twists

(* Slip: the left side is not mirrored.                                      *)
WheelSpeeds_NotMirrored(t) ==
    [w \in Wheels |-> IF w = "left" THEN t.v - t.w ELSE t.v + t.w]

(* Inverse kinematics.  The left motor is mounted the other way round and    *)
(* this node gives its joints no "reverse" parameter, so it negates the left *)
(* speed itself.                                                             *)
WheelSpeeds(t) ==
    [w \in Wheels |-> IF w = "left" THEN -(t.v - t.w) ELSE t.v + t.w]

NodeInit ==
    /\ process = "down"
    /\ hardware_ready_ = FALSE
    /\ twist = NoTwist

NodeTypeOK ==
    /\ process \in {"down", "up", "aborting"}
    /\ hardware_ready_ \in BOOLEAN
    /\ twist \in Twists \cup {NoTwist}

-----------------------------------------------------------------------------
(* main() constructs the node: init_hardware_interface() fails if on_init()  *)
(* or on_configure() does, and the node runs all the same; nobody catches an *)
(* exception of on_configure().                                              *)
Construct ==
    /\ process = "down"
    /\ \/ OnInit /\ result' = "ERROR"
       \/ OnConfigure
    /\ hardware_ready_' = (result' = "SUCCESS")
    /\ process' = IF result' = "throw" THEN "aborting" ELSE "up"
    /\ command' = AtRest
    /\ UNCHANGED <<link, twist>>

(* on_cmd_vel().  Without hardware it returns early and changes nothing; the *)
(* exception of write() leaves the callback, spin() and main().              *)
CmdVel(t) ==
    /\ process = "up"
    /\ hardware_ready_
    /\ command' = WheelSpeeds(t)
    /\ Write(command')
    /\ process' = IF result' = "throw" THEN "aborting" ELSE "up"
    /\ twist' = IF result' = "throw" THEN twist ELSE t
    /\ UNCHANGED <<link, hardware_ready_>>

(* spin() returns after Ctrl-C: the node and its interface are destroyed.    *)
(* An exception that leaves the interface's destructor ends the process.     *)
Destroy ==
    /\ process = "up"
    /\ OnDeactivate
    /\ process' = IF result' = "throw" THEN "aborting" ELSE "down"
    /\ twist' = NoTwist
    /\ UNCHANGED <<link, command, hardware_ready_>>

(* The process dies, of std::terminate or of a signal it cannot catch.       *)
NodeDies ==
    /\ process # "down"
    /\ ProcessDies
    /\ process' = "down"
    /\ twist' = NoTwist
    /\ UNCHANGED <<link, command, result, hardware_ready_>>
=============================================================================
