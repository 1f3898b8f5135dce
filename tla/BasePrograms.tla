---------------------------- MODULE BasePrograms ----------------------------
(* The two programs that drive the base themselves, DiffDriveNode and Demo,  *)
(* started one after the other on the same robot, any number of times.  A    *)
(* program that dies takes its state with it and leaves the robot's behind:  *)
(* the motors turn on as the HAT was last told.                              *)
EXTENDS DiffDriveNode, Demo

VARIABLE orphaned  \* ghost: a program has died, and no message of a later one
                   \* has reached the motors yet

vars == <<spikeVars, nodeVars, demoVars, orphaned>>

Init ==
    /\ SpikeInit
    /\ NodeInit
    /\ DemoInit
    /\ orphaned = FALSE

-----------------------------------------------------------------------------
(* A program is started when none is running.                                *)
StartNode ==
    /\ ~DemoRuns
    /\ Construct
    /\ pc' = "off"
    /\ UNCHANGED <<i, exit_code, orphaned>>

StartDemo ==
    /\ process = "down"
    /\ Launch
    /\ UNCHANGED <<nodeVars, orphaned>>

(* A message to the motors, or an exception.                                 *)
Commands == orphaned' = (orphaned /\ result' = "throw")

NodeCommands ==
    /\ (\E t \in Twists : CmdVel(t)) \/ Destroy
    /\ Commands
    /\ UNCHANGED demoVars

DemoCommands ==
    /\ Drive \/ Stop \/ Return
    /\ Commands
    /\ UNCHANGED nodeVars

DemoPrepares ==
    /\ Initialise \/ Configure \/ Activate
    /\ UNCHANGED <<nodeVars, orphaned>>

Dies ==
    /\ \/ NodeDies /\ UNCHANGED demoVars
       \/ DemoDies /\ UNCHANGED nodeVars
    /\ orphaned' = TRUE

Fault == DeviceFault /\ UNCHANGED <<nodeVars, demoVars, orphaned>>

Next ==
    \/ StartNode \/ NodeCommands
    \/ StartDemo \/ DemoPrepares \/ DemoCommands
    \/ Dies
    \/ Fault

Spec == Init /\ [][Next]_vars

-----------------------------------------------------------------------------
(* Every variable has its type.                                              *)
TypeOK ==
    /\ SpikeTypeOK
    /\ NodeTypeOK
    /\ DemoTypeOK
    /\ orphaned \in BOOLEAN

Ending == process = "aborting" \/ pc = "aborting"

(* The motors turn only under a program that has been told to turn them: a   *)
(* node with hardware and a cmd_vel, or a demo in or after its loop.  What a *)
(* program that died has left turning is taken over by the first message of  *)
(* a later one that arrives; each other way of ending, restarting or failing *)
(* to configure leaves the motors at rest, and the port is never left open.  *)
MotionHasOwner ==
    /\ motor # AtRest =>
           \/ orphaned
           \/ Ending
           \/ process = "up" /\ twist # NoTwist /\ hardware_ready_ /\ port = "open"
           \/ pc \in {"drive", "return"} /\ port = "open"
    /\ process = "down" /\ ~DemoRuns => port = "closed"

(* The base does what the last cmd_vel says: seen from the robot, with the   *)
(* left motor mirrored, the two motors add up to the body's forward velocity *)
(* and differ by its yaw rate, whatever program ran before and however often *)
(* the device went away.                                                     *)
BodyFollowsTwist ==
    twist # NoTwist /\ hat = "firmware" =>
        /\ motor["right"] - motor["left"] = 2 * twist.v
        /\ motor["right"] + motor["left"] = 2 * twist.w

(* The exit code tells the truth: a demo that ends normally leaves the       *)
(* motors at rest and the port closed, by whichever return statement and     *)
(* after whichever exception, and zero means that the whole drive was sent.  *)
ReturnedStopped ==
    pc = "returned" =>
        /\ motor = AtRest /\ port = "closed"
        /\ exit_code = 0 => i = DriveWrites

(* ~DiffDriveNode (diffdrive_node.cpp:37): the interface's destructor "stops *)
(* both motors and closes the serial port", for a node without hardware too: *)
(* it does not end in an abort because the port is closed already.           *)
DegradedNodeExits == process = "aborting" /\ port = "closed" => hardware_ready_
=============================================================================
