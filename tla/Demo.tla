-------------------------------- MODULE Demo --------------------------------
(* The demo program (tuw_spike_control/src/demo.cpp): main() configures and  *)
(* activates a TuwSpikeSystemInterface, turns both wheels for DriveWrites    *)
(* writes, stops them and returns; every return destroys the interface.      *)
EXTENDS SpikeInterface

CONSTANTS DriveWrites,  \* passes of the driving loop (150 in the program)
          TargetSpeed   \* target_velocity

ASSUME DriveWritesAssumption == DriveWrites \in Nat
ASSUME TargetSpeedAssumption == TargetSpeed \in Speeds

VARIABLES
    pc,        \* where main() is; "off", or "returned" or "aborting" at the end
    i,         \* the loop counter
    exit_code

demoVars == <<pc, i, exit_code>>

DemoInit ==
    /\ pc = "off"
    /\ i = 0
    /\ exit_code = 0

DemoTypeOK ==
    /\ pc \in {"off", "init", "configure", "activate", "drive", "return",
               "returned", "aborting"}
    /\ i \in 0 .. DriveWrites
    /\ exit_code \in {0, 1}

DemoRuns == pc \notin {"off", "returned"}

-----------------------------------------------------------------------------
(* The program is started.                                                   *)
Launch ==
    /\ ~DemoRuns
    /\ pc' = "init"
    /\ i' = 0
    /\ exit_code' = 0
    /\ command' = AtRest
    /\ UNCHANGED <<link, port, hat, motor, result>>

(* on_init() may fail: main() returns 1.                                     *)
Initialise ==
    /\ pc = "init"
    /\ OnInit
    /\ pc' = IF result' = "SUCCESS" THEN "configure" ELSE "return"
    /\ exit_code' = IF result' = "SUCCESS" THEN 0 ELSE 1
    /\ UNCHANGED <<link, command, i>>

Configure ==
    /\ pc = "configure"
    /\ OnConfigure
    /\ pc' = CASE result' = "SUCCESS" -> "activate"
               [] result' = "ERROR" -> "return"
               [] result' = "throw" -> "aborting"
    /\ exit_code' = IF result' = "SUCCESS" THEN 0 ELSE 1
    /\ UNCHANGED <<link, command, i>>

Activate ==
    /\ pc = "activate"
    /\ OnActivate
    /\ pc' = "drive"
    /\ UNCHANGED <<link, command, i, exit_code>>

(* The driving loop, and the stop after it, in one try block.                *)
WriteCommand(speed) ==
    /\ command' = [w \in Wheels |-> speed]
    /\ Write(command')
    /\ exit_code' = IF result' = "throw" THEN 1 ELSE 0
    /\ UNCHANGED link

(* Slip: the exception ends the loop and is forgotten.                       *)
Drive_ErrorForgotten ==
    /\ pc = "drive"
    /\ i < DriveWrites
    /\ command' = [w \in Wheels |-> TargetSpeed]
    /\ Write(command')
    /\ i' = i + 1
    /\ pc' = IF result' = "throw" THEN "return" ELSE "drive"
    /\ UNCHANGED <<link, exit_code>>

Drive ==
    /\ pc = "drive"
    /\ i < DriveWrites
    /\ WriteCommand(TargetSpeed)
    /\ i' = i + 1
    /\ pc' = IF result' = "throw" THEN "return" ELSE "drive"

Stop ==
    /\ pc = "drive"
    /\ i = DriveWrites
    /\ WriteCommand(0)
    /\ pc' = "return"
    /\ UNCHANGED i

(* Each return statement runs the destructor of interface.                   *)
Return ==
    /\ pc = "return"
    /\ OnDeactivate
    /\ pc' = IF result' = "throw" THEN "aborting" ELSE "returned"
    /\ UNCHANGED <<link, command, i, exit_code>>

(* The process dies, of std::terminate or of a signal it cannot catch.       *)
DemoDies ==
    /\ DemoRuns
    /\ ProcessDies
    /\ pc' = "off"
    /\ UNCHANGED <<link, command, result, i, exit_code>>
=============================================================================
