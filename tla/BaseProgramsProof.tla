-------------------------- MODULE BaseProgramsProof -------------------------
(* Proofs about BasePrograms, for every speed range, every length of the     *)
(* demo's drive and every behaviour of the device.                           *)
EXTENDS BasePrograms, TLAPS

(* A HAT in its bootloader turns no motor; a node that does not run has      *)
(* written no cmd_vel; one program runs at a time.                           *)
Idle ==
    /\ hat = "bootloader" => motor = AtRest
    /\ process = "down" => twist = NoTwist
    /\ DemoRuns => process = "down"
    /\ process # "down" => pc = "off"

(* What ReturnedStopped rests on: the exit code is zero on the way to the    *)
(* return statement only if the whole drive and the stop have been sent.     *)
ReturnInv ==
    /\ ReturnedStopped
    /\ pc = "return" /\ exit_code = 0 => i = DriveWrites

-----------------------------------------------------------------------------
(* Types of the conversions between body, joint and motor velocities.        *)
LEMMA SpeedTypes ==
    /\ AtRest \in [Wheels -> Speeds]
    /\ \A s \in Speeds : [w \in Wheels |-> s] \in [Wheels -> Speeds]
    /\ \A velocity \in [Wheels -> Speeds] :
          MotorSpeed(velocity) \in [Wheels -> Speeds]
    /\ \A t \in Twists : WheelSpeeds(t) \in [Wheels -> Speeds]
<1> USE MaxSpeedAssumption
<1>1. AtRest \in [Wheels -> Speeds]
  BY DEF AtRest, Speeds
<1>2. \A s \in Speeds : -s \in Speeds
  BY DEF Speeds
<1>3. ASSUME NEW velocity \in [Wheels -> Speeds]
      PROVE  MotorSpeed(velocity) \in [Wheels -> Speeds]
  BY <1>2 DEF MotorSpeed
<1>4. ASSUME NEW t \in Twists PROVE WheelSpeeds(t) \in [Wheels -> Speeds]
  BY <1>2 DEF WheelSpeeds, Twists
<1>5. \A s \in Speeds : [w \in Wheels |-> s] \in [Wheels -> Speeds]
  OBVIOUS
<1>6. QED
  BY <1>1, <1>3, <1>4, <1>5

(* The variables keep their types.                                           *)
THEOREM TypeCorrect == Spec => []TypeOK
<1> USE SpeedTypes, DriveWritesAssumption, TargetSpeedAssumption
    DEF TypeOK, SpikeTypeOK, NodeTypeOK, DemoTypeOK
<1> Speeds \subseteq Int /\ 0 \in Speeds
  BY MaxSpeedAssumption DEF Speeds
<1>1. Init => TypeOK
  <2> SUFFICES ASSUME Init PROVE TypeOK
    OBVIOUS
  <2>1. SpikeTypeOK
    BY DEF Init, SpikeInit
  <2>2. NodeTypeOK
    BY DEF Init, NodeInit
  <2>3. DemoTypeOK
    BY DEF Init, DemoInit
  <2>4. QED
    BY <2>1, <2>2, <2>3 DEF Init
<1>2. TypeOK /\ [Next]_vars => TypeOK'
  <2> SUFFICES ASSUME TypeOK, [Next]_vars PROVE TypeOK'
    OBVIOUS
  <2> USE DEF nodeVars, demoVars
  <2>1. CASE StartNode
    BY <2>1 DEF StartNode, Construct, OnInit, OnConfigure, OpenFails, Opened, ConfigureFirmware,
       ConfigureBootloader, ConfigureUnanswered, ConfigureError
  <2>2. ASSUME NEW t \in Twists, CmdVel(t), Commands, UNCHANGED demoVars
       PROVE  TypeOK'
    BY <2>2 DEF CmdVel, Commands, Write, SetMotors, Writable
  <2>3. CASE Destroy /\ Commands /\ UNCHANGED demoVars
    BY <2>3 DEF Destroy, Commands, OnDeactivate, OnCleanup, SetMotors, Writable
  <2>4. CASE StartDemo
    BY <2>4 DEF StartDemo, Launch
  <2>5. CASE Initialise /\ UNCHANGED <<nodeVars, orphaned>>
    BY <2>5 DEF Initialise, OnInit
  <2>6. CASE Configure /\ UNCHANGED <<nodeVars, orphaned>>
    BY <2>6 DEF Configure, OnConfigure, OpenFails, Opened, ConfigureFirmware,
       ConfigureBootloader, ConfigureUnanswered, ConfigureError
  <2>7. CASE Activate /\ UNCHANGED <<nodeVars, orphaned>>
    BY <2>7 DEF Activate, OnActivate
  <2>8. CASE Drive /\ Commands /\ UNCHANGED nodeVars
    BY <2>8 DEF Drive, Commands, WriteCommand, Write, SetMotors, Writable
  <2>9. CASE Stop /\ Commands /\ UNCHANGED nodeVars
    BY <2>9 DEF Stop, Commands, WriteCommand, Write, SetMotors, Writable
  <2>10. CASE Return /\ Commands /\ UNCHANGED nodeVars
    BY <2>10 DEF Return, Commands, OnDeactivate, OnCleanup, SetMotors, Writable
  <2>11. CASE NodeDies /\ UNCHANGED demoVars /\ orphaned' = TRUE
    BY <2>11 DEF NodeDies, ProcessDies
  <2>12. CASE DemoDies /\ UNCHANGED nodeVars /\ orphaned' = TRUE
    BY <2>12 DEF DemoDies, ProcessDies
  <2>13. CASE LinkChanges /\ UNCHANGED <<nodeVars, demoVars, orphaned>>
    BY <2>13 DEF LinkChanges
  <2>14. CASE HatRestarts /\ UNCHANGED <<nodeVars, demoVars, orphaned>>
    BY <2>14 DEF HatRestarts
  <2>15. CASE UNCHANGED vars
    BY <2>15 DEF vars, spikeVars
  <2>16. QED
    BY <2>1, <2>2, <2>3, <2>4, <2>5, <2>6, <2>7, <2>8, <2>9, <2>10, <2>11, <2>12, <2>13, <2>14, <2>15
    DEF Next, NodeCommands, DemoCommands, DemoPrepares, Dies, Fault, DeviceFault
<1>3. QED
  BY <1>1, <1>2, PTL DEF Spec

LEMMA IdleInvariant == Spec => []Idle
<1>1. Init => Idle
  BY DEF Init, SpikeInit, NodeInit, DemoInit, Idle, DemoRuns
<1>2. Idle /\ [Next]_vars => Idle'
  <2> SUFFICES ASSUME Idle, [Next]_vars PROVE Idle'
    OBVIOUS
  <2> USE NoTwistAssumption DEF Idle, DemoRuns, nodeVars, demoVars
  <2>1. CASE StartNode
    BY <2>1 DEF StartNode, Construct, OnInit, OnConfigure, OpenFails, Opened, ConfigureFirmware,
       ConfigureBootloader, ConfigureUnanswered, ConfigureError
  <2>2. ASSUME NEW t \in Twists, CmdVel(t), Commands, UNCHANGED demoVars
       PROVE  Idle'
    BY <2>2 DEF CmdVel, Commands, Write, SetMotors, Writable
  <2>3. CASE Destroy /\ Commands /\ UNCHANGED demoVars
    BY <2>3 DEF Destroy, Commands, OnDeactivate, OnCleanup, SetMotors, Writable
  <2>4. CASE StartDemo
    BY <2>4 DEF StartDemo, Launch
  <2>5. CASE Initialise /\ UNCHANGED <<nodeVars, orphaned>>
    BY <2>5 DEF Initialise, OnInit
  <2>6. CASE Configure /\ UNCHANGED <<nodeVars, orphaned>>
    BY <2>6 DEF Configure, OnConfigure, OpenFails, Opened, ConfigureFirmware,
       ConfigureBootloader, ConfigureUnanswered, ConfigureError
  <2>7. CASE Activate /\ UNCHANGED <<nodeVars, orphaned>>
    BY <2>7 DEF Activate, OnActivate
  <2>8. CASE Drive /\ Commands /\ UNCHANGED nodeVars
    BY <2>8 DEF Drive, Commands, WriteCommand, Write, SetMotors, Writable
  <2>9. CASE Stop /\ Commands /\ UNCHANGED nodeVars
    BY <2>9 DEF Stop, Commands, WriteCommand, Write, SetMotors, Writable
  <2>10. CASE Return /\ Commands /\ UNCHANGED nodeVars
    BY <2>10 DEF Return, Commands, OnDeactivate, OnCleanup, SetMotors, Writable
  <2>11. CASE NodeDies /\ UNCHANGED demoVars /\ orphaned' = TRUE
    BY <2>11 DEF NodeDies, ProcessDies
  <2>12. CASE DemoDies /\ UNCHANGED nodeVars /\ orphaned' = TRUE
    BY <2>12 DEF DemoDies, ProcessDies
  <2>13. CASE LinkChanges /\ UNCHANGED <<nodeVars, demoVars, orphaned>>
    BY <2>13 DEF LinkChanges
  <2>14. CASE HatRestarts /\ UNCHANGED <<nodeVars, demoVars, orphaned>>
    BY <2>14 DEF HatRestarts
  <2>15. CASE UNCHANGED vars
    BY <2>15 DEF vars, spikeVars
  <2>16. QED
    BY <2>1, <2>2, <2>3, <2>4, <2>5, <2>6, <2>7, <2>8, <2>9, <2>10, <2>11, <2>12, <2>13, <2>14, <2>15
    DEF Next, NodeCommands, DemoCommands, DemoPrepares, Dies, Fault, DeviceFault
<1>3. QED
  BY <1>1, <1>2, PTL DEF Spec

-----------------------------------------------------------------------------
(* Motors turn only under a program that was told to turn them, or after one *)
(* that died; a program that has ended has given the port back.              *)
THEOREM MotionOwned == Spec => []MotionHasOwner
<1>1. Init => MotionHasOwner
  BY DEF Init, SpikeInit, MotionHasOwner
<1>2. TypeOK /\ Idle /\ MotionHasOwner /\ [Next]_vars => MotionHasOwner'
  <2> SUFFICES ASSUME TypeOK, Idle, MotionHasOwner, [Next]_vars PROVE MotionHasOwner'
    OBVIOUS
  <2> USE NoTwistAssumption DEF TypeOK, SpikeTypeOK, NodeTypeOK, DemoTypeOK, Idle,
         MotionHasOwner, Ending, DemoRuns, nodeVars, demoVars
  <2>1. CASE StartNode
    BY <2>1 DEF StartNode, Construct, OnInit, OnConfigure, OpenFails, Opened, ConfigureFirmware,
       ConfigureBootloader, ConfigureUnanswered, ConfigureError
  <2>2. ASSUME NEW t \in Twists, CmdVel(t), Commands, UNCHANGED demoVars
       PROVE  MotionHasOwner'
    BY <2>2 DEF CmdVel, Commands, Write, SetMotors, Writable
  <2>3. CASE Destroy /\ Commands /\ UNCHANGED demoVars
    BY <2>3 DEF Destroy, Commands, OnDeactivate, OnCleanup, SetMotors, Writable
  <2>4. CASE StartDemo
    BY <2>4 DEF StartDemo, Launch
  <2>5. CASE Initialise /\ UNCHANGED <<nodeVars, orphaned>>
    BY <2>5 DEF Initialise, OnInit
  <2>6. CASE Configure /\ UNCHANGED <<nodeVars, orphaned>>
    BY <2>6 DEF Configure, OnConfigure, OpenFails, Opened, ConfigureFirmware,
       ConfigureBootloader, ConfigureUnanswered, ConfigureError
  <2>7. CASE Activate /\ UNCHANGED <<nodeVars, orphaned>>
    BY <2>7 DEF Activate, OnActivate
  <2>8. CASE Drive /\ Commands /\ UNCHANGED nodeVars
    BY <2>8 DEF Drive, Commands, WriteCommand, Write, SetMotors, Writable
  <2>9. CASE Stop /\ Commands /\ UNCHANGED nodeVars
    BY <2>9 DEF Stop, Commands, WriteCommand, Write, SetMotors, Writable
  <2>10. CASE Return /\ Commands /\ UNCHANGED nodeVars
    BY <2>10 DEF Return, Commands, OnDeactivate, OnCleanup, SetMotors, Writable
  <2>11. CASE NodeDies /\ UNCHANGED demoVars /\ orphaned' = TRUE
    BY <2>11 DEF NodeDies, ProcessDies
  <2>12. CASE DemoDies /\ UNCHANGED nodeVars /\ orphaned' = TRUE
    BY <2>12 DEF DemoDies, ProcessDies
  <2>13. CASE LinkChanges /\ UNCHANGED <<nodeVars, demoVars, orphaned>>
    BY <2>13 DEF LinkChanges
  <2>14. CASE HatRestarts /\ UNCHANGED <<nodeVars, demoVars, orphaned>>
    BY <2>14 DEF HatRestarts
  <2>15. CASE UNCHANGED vars
    BY <2>15 DEF vars, spikeVars
  <2>16. QED
    BY <2>1, <2>2, <2>3, <2>4, <2>5, <2>6, <2>7, <2>8, <2>9, <2>10, <2>11, <2>12, <2>13, <2>14, <2>15
    DEF Next, NodeCommands, DemoCommands, DemoPrepares, Dies, Fault, DeviceFault
<1>3. QED
  BY <1>1, <1>2, TypeCorrect, IdleInvariant, PTL DEF Spec

(* The base follows cmd_vel: negating the left joint and adding no "reverse" *)
(* give the motors the mirrored speeds the body needs.                       *)
THEOREM TwistFollowed ==
  ASSUME Reverse = [w \in Wheels |-> FALSE]
  PROVE  Spec => []BodyFollowsTwist
<1>1. Init => BodyFollowsTwist
  BY DEF Init, NodeInit, BodyFollowsTwist
<1>2. Idle /\ BodyFollowsTwist /\ [Next]_vars => BodyFollowsTwist'
  <2> SUFFICES ASSUME Idle, BodyFollowsTwist, [Next]_vars PROVE BodyFollowsTwist'
    OBVIOUS
  <2> USE DEF Idle, BodyFollowsTwist, DemoRuns, nodeVars, demoVars
  <2>1. CASE StartNode
    BY <2>1 DEF StartNode, Construct, OnInit, OnConfigure, OpenFails, Opened, ConfigureFirmware,
       ConfigureBootloader, ConfigureUnanswered, ConfigureError
  <2>2. ASSUME NEW t \in Twists, CmdVel(t), Commands, UNCHANGED demoVars
       PROVE  BodyFollowsTwist'
    <3>1. MotorSpeed(WheelSpeeds(t)) = WheelSpeeds(t)
      BY DEF MotorSpeed, WheelSpeeds, Wheels
    <3>2. /\ WheelSpeeds(t)["left"] = -(t.v - t.w)
          /\ WheelSpeeds(t)["right"] = t.v + t.w
      BY DEF WheelSpeeds, Wheels
    <3>3. t.v \in Int /\ t.w \in Int
      BY MaxSpeedAssumption DEF Twists, Speeds
    <3>4. CASE Writable
      BY <2>2, <3>1, <3>2, <3>3, <3>4 DEF CmdVel, Write, SetMotors
    <3>5. CASE ~Writable
      BY <2>2, <3>5 DEF CmdVel, Write
    <3>6. QED
      BY <3>4, <3>5
  <2>3. CASE Destroy /\ Commands /\ UNCHANGED demoVars
    BY <2>3 DEF Destroy, Commands, OnDeactivate, OnCleanup, SetMotors, Writable
  <2>4. CASE StartDemo
    BY <2>4 DEF StartDemo, Launch
  <2>5. CASE Initialise /\ UNCHANGED <<nodeVars, orphaned>>
    BY <2>5 DEF Initialise, OnInit
  <2>6. CASE Configure /\ UNCHANGED <<nodeVars, orphaned>>
    BY <2>6 DEF Configure, OnConfigure, OpenFails, Opened, ConfigureFirmware,
       ConfigureBootloader, ConfigureUnanswered, ConfigureError
  <2>7. CASE Activate /\ UNCHANGED <<nodeVars, orphaned>>
    BY <2>7 DEF Activate, OnActivate
  <2>8. CASE Drive /\ Commands /\ UNCHANGED nodeVars
    BY <2>8 DEF Drive, Commands, WriteCommand, Write, SetMotors, Writable
  <2>9. CASE Stop /\ Commands /\ UNCHANGED nodeVars
    BY <2>9 DEF Stop, Commands, WriteCommand, Write, SetMotors, Writable
  <2>10. CASE Return /\ Commands /\ UNCHANGED nodeVars
    BY <2>10 DEF Return, Commands, OnDeactivate, OnCleanup, SetMotors, Writable
  <2>11. CASE NodeDies /\ UNCHANGED demoVars /\ orphaned' = TRUE
    BY <2>11 DEF NodeDies, ProcessDies
  <2>12. CASE DemoDies /\ UNCHANGED nodeVars /\ orphaned' = TRUE
    BY <2>12 DEF DemoDies, ProcessDies
  <2>13. CASE LinkChanges /\ UNCHANGED <<nodeVars, demoVars, orphaned>>
    BY <2>13 DEF LinkChanges
  <2>14. CASE HatRestarts /\ UNCHANGED <<nodeVars, demoVars, orphaned>>
    BY <2>14 DEF HatRestarts
  <2>15. CASE UNCHANGED vars
    BY <2>15 DEF vars, spikeVars
  <2>16. QED
    BY <2>1, <2>2, <2>3, <2>4, <2>5, <2>6, <2>7, <2>8, <2>9, <2>10, <2>11, <2>12, <2>13, <2>14, <2>15
    DEF Next, NodeCommands, DemoCommands, DemoPrepares, Dies, Fault, DeviceFault
<1>3. QED
  BY <1>1, <1>2, IdleInvariant, PTL DEF Spec

-----------------------------------------------------------------------------
(* The demo's exit code and what it leaves behind.                           *)
THEOREM DemoReturnsStopped == Spec => []ReturnedStopped
<1>1. Init => ReturnInv
  BY DEF Init, DemoInit, ReturnInv, ReturnedStopped
<1>2. TypeOK /\ Idle /\ ReturnInv /\ [Next]_vars => ReturnInv'
  <2> SUFFICES ASSUME TypeOK, Idle, ReturnInv, [Next]_vars PROVE ReturnInv'
    OBVIOUS
  <2> USE DEF TypeOK, SpikeTypeOK, Idle, ReturnInv, ReturnedStopped, DemoRuns,
         nodeVars, demoVars
  <2>1. CASE StartNode
    BY <2>1 DEF StartNode, Construct, OnInit, OnConfigure, OpenFails, Opened, ConfigureFirmware,
       ConfigureBootloader, ConfigureUnanswered, ConfigureError
  <2>2. ASSUME NEW t \in Twists, CmdVel(t), Commands, UNCHANGED demoVars
       PROVE  ReturnInv'
    BY <2>2 DEF CmdVel, Commands, Write, SetMotors, Writable
  <2>3. CASE Destroy /\ Commands /\ UNCHANGED demoVars
    BY <2>3 DEF Destroy, Commands, OnDeactivate, OnCleanup, SetMotors, Writable
  <2>4. CASE StartDemo
    BY <2>4 DEF StartDemo, Launch
  <2>5. CASE Initialise /\ UNCHANGED <<nodeVars, orphaned>>
    BY <2>5 DEF Initialise, OnInit
  <2>6. CASE Configure /\ UNCHANGED <<nodeVars, orphaned>>
    BY <2>6 DEF Configure, OnConfigure, OpenFails, Opened, ConfigureFirmware,
       ConfigureBootloader, ConfigureUnanswered, ConfigureError
  <2>7. CASE Activate /\ UNCHANGED <<nodeVars, orphaned>>
    BY <2>7 DEF Activate, OnActivate
  <2>8. CASE Drive /\ Commands /\ UNCHANGED nodeVars
    BY <2>8 DEF Drive, Commands, WriteCommand, Write, SetMotors, Writable
  <2>9. CASE Stop /\ Commands /\ UNCHANGED nodeVars
    BY <2>9 DEF Stop, Commands, WriteCommand, Write, SetMotors, Writable
  <2>10. CASE Return /\ Commands /\ UNCHANGED nodeVars
    BY <2>10 DEF Return, Commands, OnDeactivate, OnCleanup, SetMotors, Writable
  <2>11. CASE NodeDies /\ UNCHANGED demoVars /\ orphaned' = TRUE
    BY <2>11 DEF NodeDies, ProcessDies
  <2>12. CASE DemoDies /\ UNCHANGED nodeVars /\ orphaned' = TRUE
    BY <2>12 DEF DemoDies, ProcessDies
  <2>13. CASE LinkChanges /\ UNCHANGED <<nodeVars, demoVars, orphaned>>
    BY <2>13 DEF LinkChanges
  <2>14. CASE HatRestarts /\ UNCHANGED <<nodeVars, demoVars, orphaned>>
    BY <2>14 DEF HatRestarts
  <2>15. CASE UNCHANGED vars
    BY <2>15 DEF vars, spikeVars
  <2>16. QED
    BY <2>1, <2>2, <2>3, <2>4, <2>5, <2>6, <2>7, <2>8, <2>9, <2>10, <2>11, <2>12, <2>13, <2>14, <2>15
    DEF Next, NodeCommands, DemoCommands, DemoPrepares, Dies, Fault, DeviceFault
<1>3. ReturnInv => ReturnedStopped
  BY DEF ReturnInv
<1>4. QED
  BY <1>1, <1>2, <1>3, TypeCorrect, IdleInvariant, PTL DEF Spec
=============================================================================
