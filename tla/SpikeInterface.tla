--------------------------- MODULE SpikeInterface ---------------------------
(* The hardware interface of the robot base: class TuwSpikeSystemInterface   *)
(* (tuw_spike_control/src/tuw_spike_control_interface.cpp), its serial port  *)
(* and the Build HAT behind it that drives the two motors.                   *)
(*                                                                           *)
(* Each handler is an action over the port, the HAT and the result of the    *)
(* handler; "throw" is an exception that leaves it (boost throws when it     *)
(* writes to a port that is closed or whose device is gone).  The handlers   *)
(* run one at a time.  Their clients, DiffDriveNode, Demo and                *)
(* ControllerManager, extend this module and decide which handler runs when. *)
EXTENDS Integers

CONSTANTS
    MaxSpeed,    \* wheel speeds are -MaxSpeed .. MaxSpeed, without a unit
    Reverse,     \* the joints' "reverse" parameter
    Faults       \* may the device go away and come back, and the HAT restart?

Wheels == {"left", "right"}
Speeds == -MaxSpeed .. MaxSpeed
AtRest == [w \in Wheels |-> 0]

ASSUME MaxSpeedAssumption == MaxSpeed \in Nat
ASSUME ReverseAssumption == Reverse \in [Wheels -> BOOLEAN]
ASSUME FaultsAssumption == Faults \in BOOLEAN

VARIABLES
    link,     \* is the device /dev/ttyAMA0 there and working?
    port,     \* the global serial_port: "closed" or "open"
    hat,      \* what the Build HAT runs: "bootloader" or "firmware"
    motor,    \* the set-points the HAT regulates the motors to
    command,  \* command_motor_velocity
    result    \* how the last handler ended

spikeVars == <<link, port, hat, motor, command, result>>

SpikeInit ==
    /\ link \in BOOLEAN
    /\ port = "closed"
    /\ hat \in {"bootloader", "firmware"}
    /\ motor = AtRest
    /\ command = AtRest
    /\ result = "none"

SpikeTypeOK ==
    /\ link \in BOOLEAN
    /\ port \in {"closed", "open"}
    /\ hat \in {"bootloader", "firmware"}
    /\ motor \in [Wheels -> Speeds]
    /\ command \in [Wheels -> Speeds]
    /\ result \in {"none", "SUCCESS", "ERROR", "throw"}

-----------------------------------------------------------------------------
Writable == port = "open" /\ link

(* A "set" command as the HAT takes it: the bootloader knows no motors.      *)
SetMotors(speeds) == motor' = IF hat = "firmware" THEN speeds ELSE motor

(* Slip: the rotation speed is not converted to the motor's unit.            *)
MotorSpeed_Unscaled(velocity) == [w \in Wheels |-> 2 * velocity[w]]

(* reverse[] turns a joint velocity into a motor velocity.                   *)
MotorSpeed(velocity) ==
    [w \in Wheels |-> IF Reverse[w] THEN -velocity[w] ELSE velocity[w]]

(* The device is unplugged or plugged in again.                              *)
LinkChanges ==
    /\ Faults
    /\ link' = ~link
    /\ UNCHANGED <<port, hat, motor, command, result>>

(* Its power fails for a moment: the HAT starts again in its bootloader.     *)
HatRestarts ==
    /\ Faults
    /\ hat' = "bootloader"
    /\ motor' = AtRest
    /\ UNCHANGED <<link, port, command, result>>

DeviceFault == LinkChanges \/ HatRestarts

-----------------------------------------------------------------------------
(* on_init() refuses other than two joints, or parameters it cannot read.    *)
OnInit == result' \in {"SUCCESS", "ERROR"} /\ UNCHANGED <<port, hat, motor>>

(* on_configure(): serial.open() throws if the port is open already or the   *)
(* device is not there; the exception is caught.                             *)
OpenFails ==
    /\ port = "open" \/ ~link
    /\ result' = "ERROR"
    /\ UNCHANGED <<port, hat, motor>>

(* It has opened the port; the device may have gone again before it ends.    *)
Opened == port = "closed" /\ (link \/ Faults) /\ port' = "open"

(* The HAT reports its firmware version: it is armed.                        *)
ConfigureFirmware ==
    /\ Opened
    /\ hat = "firmware"
    /\ result' = "SUCCESS"
    /\ UNCHANGED <<hat, motor>>

(* The bootloader answers: the firmware is loaded, the HAT reboots.          *)
ConfigureBootloader ==
    /\ Opened
    /\ hat = "bootloader"
    /\ hat' = "firmware"
    /\ motor' = AtRest
    /\ result' = "SUCCESS"

(* The HAT is armed although its firmware does not run: after the fourth     *)
(* empty line, an outdated answer, or an image that it refuses.              *)
ConfigureUnanswered ==
    /\ Opened
    /\ result' = "SUCCESS"
    /\ UNCHANGED <<hat, motor>>

(* Six unknown lines, or an exception from a later read or write, before or  *)
(* after the firmware was loaded: the port stays open.  The handler catches  *)
(* only std::runtime_error: that of a package that is not installed, and the *)
(* std::out_of_range of a number that is no int, leave it.                   *)
ConfigureError ==
    /\ Opened
    /\ hat' \in {hat, "firmware"}
    /\ motor' = IF hat' = hat THEN motor ELSE AtRest
    /\ result' \in {"ERROR", "throw"}

OnConfigure ==
    \/ OpenFails
    \/ ConfigureFirmware
    \/ ConfigureBootloader
    \/ ConfigureUnanswered
    \/ ConfigureError

(* on_activate() does nothing.                                               *)
OnActivate == result' = "SUCCESS" /\ UNCHANGED <<port, hat, motor>>

(* Slip: the port is closed without the stop message.                        *)
OnCleanup_CloseOnly ==
    /\ port' = "closed"
    /\ result' = "SUCCESS"
    /\ UNCHANGED <<hat, motor>>

(* on_cleanup() writes the stop message, then closes the port; the exception *)
(* of the write is not caught, and then the port is not closed.              *)
OnCleanup ==
    /\ port' = IF Writable THEN "closed" ELSE port
    /\ IF Writable THEN SetMotors(AtRest) ELSE UNCHANGED motor
    /\ result' = IF Writable THEN "SUCCESS" ELSE "throw"
    /\ UNCHANGED hat

(* Slip: a handler left empty, as on_activate() is.                          *)
OnDeactivate_Empty == OnActivate
OnError_Empty == OnActivate

(* These call on_cleanup(), and the destructor calls on_deactivate().        *)
OnDeactivate == OnCleanup
OnShutdown == OnCleanup
OnError == OnCleanup

(* read() tells nothing to the HAT.  Errors of the port are logged, but a    *)
(* number that is no int throws (StatusReader).                              *)
ReadThrows ==
    /\ port = "open"
    /\ result' = "throw"
    /\ UNCHANGED <<port, hat, motor>>

(* write() sends both commands in one message.                               *)
Write(velocity) ==
    /\ IF Writable THEN SetMotors(MotorSpeed(velocity)) ELSE UNCHANGED motor
    /\ result' = IF Writable THEN "SUCCESS" ELSE "throw"
    /\ UNCHANGED <<port, hat>>

(* A process that dies gives its port back to the system; nobody tells the   *)
(* HAT, which goes on regulating the motors.                                 *)
ProcessDies == port' = "closed" /\ UNCHANGED <<hat, motor>>
=============================================================================
