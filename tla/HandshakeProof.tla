--------------------------- MODULE HandshakeProof ---------------------------
(* Proofs about Handshake and, through it, about the life of the component   *)
(* under the controller manager: for any limits of the loops, any speeds,    *)
(* and whatever the HAT says.                                                *)
EXTENDS Handshake, TLAPS

(* The types of what the manager does not see, with what makes them hold:    *)
(* the limits of the loops, which counter may have moved at which place of   *)
(* on_configure(), and what is left of a conversation between two calls.     *)
Counters ==
    /\ pc \in {"idle", "ask", "line", "command", "prompt", "reboot", "arm",
               "offsets"}
    /\ prompts \in 0 .. 3
    /\ emptydata \in 0 .. MaxEmpty + 1
    /\ incdata \in 0 .. MaxInc
    /\ pc \in {"idle", "ask", "line"} => prompts = 0 /\ emptydata <= MaxEmpty
    /\ pc \in {"command", "prompt"} => prompts <= 2
    /\ pc = "idle" => emptydata = 0 /\ incdata = 0

Flags ==
    /\ loaded \in BOOLEAN
    /\ excused \in BOOLEAN
    /\ loaded => pc \in {"arm", "offsets"}

LineTypes ==
    /\ buf \in Seq(Lines)
    /\ input \in Seq(Lines)
    /\ due \in Seq({"version", "prompt"})
    /\ old \in 0 .. Len(buf)
    /\ pc = "idle" => input = <<>> /\ due = <<>> /\ old = 0

TypeInv == TypeOK /\ Counters /\ Flags /\ LineTypes

-----------------------------------------------------------------------------
LEMMA SpeedTypes ==
    /\ AtRest \in [Wheels -> Speeds]
    /\ \A velocity \in [Wheels -> Speeds] : MotorSpeed(velocity) \in [Wheels -> Speeds]
BY MaxSpeedAssumption, ReverseAssumption DEF AtRest, MotorSpeed, Speeds

LEMMA TypeInit == HandshakeInit => TypeInv
<1> SUFFICES ASSUME HandshakeInit PROVE TypeInv
  OBVIOUS
<1> USE DEF HandshakeInit
<1>1. TypeOK
  BY SpeedTypes DEF Init, SpikeInit, TypeOK, SpikeTypeOK
<1>2. Counters
  BY MaxEmptyAssumption, MaxIncAssumption DEF Counters
<1>3. Flags
  BY DEF Flags
<1>4. LineTypes
  BY DEF LineTypes
<1> QED BY <1>1, <1>2, <1>3, <1>4 DEF TypeInv

(* The calls of the manager keep the types of what it and the interface see. *)
LEMMA ManagerTypes ==
    ASSUME TypeOK,
           \/ ErrorProcessing \/ Activate \/ Deactivate
           \/ Cleanup \/ Shutdown \/ Exit \/ Ended \/ CycleFails
           \/ \E velocity \in [Wheels -> Speeds] : Cycle(velocity)
    PROVE  TypeOK'
<1> USE SpeedTypes DEF TypeOK, SpikeTypeOK, SetMotors, Writable
<1>1. CASE ErrorProcessing
  BY <1>1 DEF ErrorProcessing, OnError, OnCleanup
<1>2. CASE Activate
  BY <1>2 DEF Activate, OnActivate, Transition
<1>3. CASE Deactivate
  BY <1>3 DEF Deactivate, OnDeactivate, OnCleanup, Transition
<1>4. CASE Cleanup
  BY <1>4 DEF Cleanup, OnCleanup, Transition
<1>5. CASE Shutdown
  BY <1>5 DEF Shutdown, OnShutdown, OnCleanup, Transition
<1>6. CASE Exit
  BY <1>6 DEF Exit, OnDeactivate, OnCleanup
<1>7. CASE Ended
  BY <1>7 DEF Ended, vars, spikeVars
<1>8. ASSUME NEW velocity \in [Wheels -> Speeds], Cycle(velocity) PROVE TypeOK'
  BY <1>8 DEF Cycle, Write
<1>9. CASE CycleFails
  BY <1>9 DEF CycleFails, ReadThrows
<1> QED BY <1>1, <1>2, <1>3, <1>4, <1>5, <1>6, <1>7, <1>8, <1>9

(* on_configure() and its faults do so too.                                  *)
LEMMA CallManagerTypes ==
    ASSUME TypeOK,
           \/ ConfigureFails \/ Open \/ OnConfigureSteps \/ HatAnswers \/ Fault
           \/ \E line \in Noise : HatSays(line)
    PROVE  TypeOK'
<1> USE SpeedTypes DEF TypeOK, SpikeTypeOK
<1>1. CASE ConfigureFails \/ Open
  BY <1>1 DEF ConfigureFails, OpenFails, Open
<1>2. CASE Ask \/ Command \/ Arm \/ ReadUntil
  BY <1>2 DEF Ask, Command, Arm, ReadUntil, managerVars, spikeVars
<1>3. CASE ReadFails \/ WriteFails \/ ImageMissing \/ ReadOffsets \/ TooManyUnknown
  BY <1>3 DEF ReadFails, WriteFails, ImageMissing, ReadOffsets, TooManyUnknown, Returns,
     Configured
<1>4. CASE EmptyLine \/ FirmwareLine \/ BootloaderLine \/ UnknownLine \/ PromptLine
  BY <1>4 DEF EmptyLine, FirmwareLine, BootloaderLine, UnknownLine, PromptLine,
     managerVars, spikeVars
<1>5. CASE Reboot
  BY <1>5 DEF Reboot
<1>6. CASE HatAnswers \/ \E line \in Noise : HatSays(line)
  BY <1>6 DEF HatAnswers, HatSays, managerVars, spikeVars
<1>7. CASE Fault
  BY <1>7, ZenonT(40) DEF Fault, LinkChanges, HatRestarts
<1> QED BY <1>1, <1>2, <1>3, <1>4, <1>5, <1>6, <1>7 DEF OnConfigureSteps

(* What a line taken out of buf leaves there.                                *)
LEMMA TakenLine ==
    ASSUME LineTypes, buf # <<>>
    PROVE  /\ Head(buf) \in Lines
           /\ Tail(buf) \in Seq(Lines)
           /\ TakeLine => old' \in 0 .. Len(buf')
BY DEF LineTypes, TakeLine

LEMMA CounterStep ==
    ASSUME Counters, [HandshakeNext]_handshakeVars
    PROVE  Counters'
<1> USE MaxEmptyAssumption, MaxIncAssumption DEF Counters
<1>1. CASE pc = "idle" /\ (ConfigureFails \/ Open)
  BY <1>1 DEF ConfigureFails, Open, callVars
<1>2. CASE Ask \/ Command \/ Arm
  BY <1>2 DEF Ask, Command, Arm
<1>3. CASE ReadUntil
  BY <1>3 DEF ReadUntil, callVars
<1>4. CASE ReadFails \/ WriteFails \/ ImageMissing \/ ReadOffsets \/ TooManyUnknown
  BY <1>4 DEF ReadFails, WriteFails, ImageMissing, ReadOffsets, TooManyUnknown, Returns
<1>5. CASE EmptyLine
  BY <1>5 DEF EmptyLine
<1>6. CASE FirmwareLine
  BY <1>6 DEF FirmwareLine
<1>7. CASE BootloaderLine
  BY <1>7 DEF BootloaderLine
<1>8. CASE UnknownLine
  BY <1>8 DEF UnknownLine
<1>9. CASE PromptLine
  BY <1>9 DEF PromptLine
<1>10. CASE Reboot
  BY <1>10 DEF Reboot
<1>11. CASE HatAnswers \/ \E line \in Noise : HatSays(line)
  BY <1>11 DEF HatAnswers, HatSays, callVars
<1>12. CASE Fault
  BY <1>12 DEF Fault
<1>13. CASE ManagerSteps \/ UNCHANGED handshakeVars
  BY <1>13 DEF ManagerSteps, handshakeVars, callVars
<1> QED BY <1>1, <1>2, <1>3, <1>4, <1>5, <1>6, <1>7, <1>8, <1>9, <1>10, <1>11,
           <1>12, <1>13 DEF HandshakeNext, OnConfigureSteps

LEMMA FlagStep ==
    ASSUME Flags, [HandshakeNext]_handshakeVars
    PROVE  Flags'
<1> USE DEF Flags
<1>1. CASE pc = "idle" /\ (ConfigureFails \/ Open)
  <2>1. CASE ConfigureFails
    BY <2>1 DEF ConfigureFails, callVars
  <2>2. CASE pc = "idle" /\ Open
    BY <2>2 DEF Open
  <2> QED BY <1>1, <2>1, <2>2
<1>2. CASE Ask \/ Command \/ Arm
  BY <1>2 DEF Ask, Command, Arm
<1>3. CASE ReadUntil
  BY <1>3 DEF ReadUntil, callVars
<1>4. CASE ReadFails \/ WriteFails \/ ImageMissing \/ ReadOffsets \/ TooManyUnknown
  BY <1>4 DEF ReadFails, WriteFails, ImageMissing, ReadOffsets, TooManyUnknown, Returns
<1>5. CASE EmptyLine
  BY <1>5 DEF EmptyLine
<1>6. CASE FirmwareLine
  BY <1>6 DEF FirmwareLine, NoteAge
<1>7. CASE BootloaderLine
  BY <1>7 DEF BootloaderLine, NoteAge
<1>8. CASE UnknownLine
  BY <1>8 DEF UnknownLine
<1>9. CASE PromptLine
  BY <1>9 DEF PromptLine
<1>10. CASE Reboot
  BY <1>10 DEF Reboot
<1>11. CASE HatAnswers \/ \E line \in Noise : HatSays(line)
  BY <1>11 DEF HatAnswers, HatSays, callVars
<1>12. CASE Fault
  BY <1>12 DEF Fault
<1>13. CASE ManagerSteps \/ UNCHANGED handshakeVars
  BY <1>13 DEF ManagerSteps, handshakeVars, callVars
<1> QED BY <1>1, <1>2, <1>3, <1>4, <1>5, <1>6, <1>7, <1>8, <1>9, <1>10, <1>11,
           <1>12, <1>13 DEF HandshakeNext, OnConfigureSteps

LEMMA LineTypeStep ==
    ASSUME TypeOK, LineTypes, [HandshakeNext]_handshakeVars
    PROVE  LineTypes'
<1> USE DEF LineTypes
<1>1. CASE pc = "idle" /\ ConfigureFails
  BY <1>1 DEF ConfigureFails, callVars, lineVars
<1>2. CASE pc = "idle" /\ Open
  BY <1>2 DEF Open, lineVars
<1>3. CASE Ask
  BY <1>3 DEF Ask
<1>4. CASE Command
  BY <1>4 DEF Command
<1>5. CASE Arm
  BY <1>5 DEF Arm, lineVars
<1>6. CASE ReadUntil
  BY <1>6 DEF ReadUntil, callVars
<1>7. CASE ReadFails \/ WriteFails \/ ImageMissing \/ ReadOffsets
  <2>1. /\ buf' = buf /\ old' = 0
        /\ input' = <<>> /\ due' = <<>>
    BY <1>7 DEF ReadFails, WriteFails, ImageMissing, ReadOffsets, Returns
  <2> QED BY <2>1
<1>8. CASE TooManyUnknown
  BY <1>8, TakenLine DEF TooManyUnknown, Returns
<1>9. CASE EmptyLine \/ FirmwareLine \/ BootloaderLine \/ UnknownLine \/ PromptLine
  <2>1. /\ TakeLine /\ pc # "idle" /\ pc' # "idle"
        /\ UNCHANGED <<input, due>>
    BY <1>9 DEF EmptyLine, FirmwareLine, BootloaderLine, UnknownLine, PromptLine
  <2> QED BY <2>1, TakenLine DEF TakeLine
<1>10. CASE Reboot
  BY <1>10 DEF Reboot
<1>11. CASE HatAnswers
  <2>1. hat \in Lines
    BY DEF TypeOK, SpikeTypeOK, Lines
  <2>2. due' \in Seq({"version", "prompt"})
    BY <1>11 DEF HatAnswers
  <2>3. input' \in Seq(Lines)
    BY <1>11, <2>1 DEF HatAnswers, Lines, Noise
  <2>4. pc # "idle"
    BY <1>11 DEF HatAnswers
  <2> QED BY <1>11, <2>2, <2>3, <2>4 DEF HatAnswers, callVars
<1>12. CASE \E line \in Noise : HatSays(line)
  <2>1. PICK line \in Noise : HatSays(line)
    BY <1>12
  <2> QED BY <2>1 DEF HatSays, callVars, Lines
<1>13. CASE Fault
  <2>1. UNCHANGED <<pc, buf, input, old>>
    BY <1>13 DEF Fault
  <2>2. CASE due' = due
    BY <2>1, <2>2
  <2>3. CASE due' = <<>>
    BY <2>1, <2>3
  <2> QED BY <1>13, <2>2, <2>3 DEF Fault
<1>14. CASE ManagerSteps \/ UNCHANGED handshakeVars
  BY <1>14 DEF ManagerSteps, handshakeVars, callVars, lineVars
<1> HIDE DEF LineTypes
<1>15. CASE OnConfigureSteps
  BY <1>15, <1>3, <1>4, <1>5, <1>6, <1>7, <1>8, <1>9, <1>10 DEF OnConfigureSteps
<1> QED BY <1>1, <1>2, <1>11, <1>12, <1>13, <1>14, <1>15 DEF HandshakeNext

LEMMA TypeStep == TypeInv /\ [HandshakeNext]_handshakeVars => TypeInv'
<1> SUFFICES ASSUME TypeInv, [HandshakeNext]_handshakeVars PROVE TypeInv'
  OBVIOUS
<1> USE DEF TypeInv
<1>1. CASE UNCHANGED handshakeVars
  <2>1. TypeOK'
    BY <1>1 DEF handshakeVars, managerVars, spikeVars, TypeOK, SpikeTypeOK
  <2> QED BY <2>1, CounterStep, FlagStep, LineTypeStep
<1>2. CASE ManagerSteps
  BY <1>2, ManagerTypes, CounterStep, FlagStep, LineTypeStep DEF ManagerSteps
<1>3. CASE HandshakeNext /\ ~ManagerSteps
  BY <1>3, CallManagerTypes, CounterStep, FlagStep, LineTypeStep DEF HandshakeNext
<1> QED BY <1>1, <1>2, <1>3

LEMMA TypeInvariant == HandshakeSpec => []TypeInv
<1> QED BY TypeInit, TypeStep, PTL DEF HandshakeSpec

(* Every variable has its type, and every loop of on_configure() its limit.  *)
THEOREM TypeCorrect == HandshakeSpec => []HandshakeTypeOK
<1>1. TypeInv => HandshakeTypeOK
  BY DEF TypeInv, HandshakeTypeOK, Counters, Flags, LineTypes
<1> QED BY <1>1, TypeInvariant, PTL

-----------------------------------------------------------------------------
(* Why the port is released and the motors stand still.  A HAT in its        *)
(* bootloader regulates nothing.  During on_configure() the port is open, the*)
(* component unconfigured, and nothing moves.  And the command that an       *)
(* inactive component would write through an open port is zero, as is the one*)
(* that a component to be configured has kept.                               *)
AtRestUnlessArmed == hat = "bootloader" => motor = AtRest

CallsUnconfigured ==
    pc # "idle" => state = "unconfigured" /\ process = "up" /\ port = "open"

CommandAtRest ==
    /\ state = "inactive" /\ port = "open" => command = AtRest
    /\ state = "unconfigured" => command = AtRest
    /\ state = "error" /\ handler = "on_configure" => command = AtRest

ErrorOfThree == state = "error" => handler \in {"on_configure", "read", "write"}

MotionInv ==
    /\ AtRestUnlessArmed
    /\ CallsUnconfigured
    /\ CommandAtRest
    /\ ErrorOfThree
    /\ PortReleased
    /\ MotionMeansActive

LEMMA RestIsRest == MotorSpeed(AtRest) = AtRest
<1>1. \A w \in Wheels : (IF Reverse[w] THEN -AtRest[w] ELSE AtRest[w]) = 0
  <2>1. \A w \in Wheels : AtRest[w] = 0 /\ AtRest[w] \in Int
    BY DEF AtRest
  <2>2. (\A n \in Int : -n = 0 - n) /\ 0 - 0 = 0
    OBVIOUS
  <2> QED BY <2>1, <2>2, Zenon
<1> QED BY <1>1 DEF MotorSpeed, AtRest

LEMMA MotionInit == HandshakeInit => MotionInv
BY DEF HandshakeInit, Init, SpikeInit, MotionInv, AtRestUnlessArmed,
   CallsUnconfigured, CommandAtRest, ErrorOfThree, PortReleased, ClosedMeansStopped,
   UnconfiguredMeansClosed, MotionMeansActive

(* The calls of the manager, one after the other.                            *)
LEMMA ManagerMotion ==
    ASSUME TypeOK, MotionInv, ManagerSteps
    PROVE  MotionInv'
<1> USE DEF TypeOK, SpikeTypeOK, MotionInv, AtRestUnlessArmed, CallsUnconfigured,
        CommandAtRest, ErrorOfThree, PortReleased, ClosedMeansStopped,
        UnconfiguredMeansClosed, MotionMeansActive, InCycle, SetMotors, Writable
<1>1. pc = "idle" /\ pc' = "idle"
  BY DEF ManagerSteps, callVars
<1>2. CASE ErrorProcessing
  BY <1>1, <1>2 DEF ErrorProcessing, OnError, OnCleanup
<1>3. CASE Activate
  BY <1>1, <1>3 DEF Activate, OnActivate, Transition
<1>4. CASE Deactivate
  BY <1>1, <1>4 DEF Deactivate, OnDeactivate, OnCleanup, Transition
<1>5. CASE Cleanup
  BY <1>1, <1>5 DEF Cleanup, OnCleanup, Transition
<1>6. CASE Shutdown
  BY <1>1, <1>6 DEF Shutdown, OnShutdown, OnCleanup, Transition
<1>7. CASE Exit
  BY <1>1, <1>7 DEF Exit, OnDeactivate, OnCleanup
<1>8. CASE Ended
  BY <1>1, <1>8 DEF Ended, vars, spikeVars
<1>9. ASSUME NEW velocity \in [Wheels -> Speeds], Cycle(velocity) PROVE MotionInv'
  BY <1>1, <1>9, RestIsRest DEF Cycle, Write
<1>10. CASE CycleFails
  BY <1>1, <1>10 DEF CycleFails, ReadThrows
<1> QED BY <1>2, <1>3, <1>4, <1>5, <1>6, <1>7, <1>8, <1>9, <1>10 DEF ManagerSteps

(* on_configure(), the HAT and the faults do not move anything.              *)
LEMMA CallMotion ==
    ASSUME TypeOK, MotionInv,
           \/ pc = "idle" /\ (ConfigureFails \/ Open)
           \/ OnConfigureSteps \/ HatAnswers \/ Fault
           \/ \E line \in Noise : HatSays(line)
    PROVE  MotionInv'
<1> USE DEF TypeOK, SpikeTypeOK, MotionInv, AtRestUnlessArmed, CallsUnconfigured,
        CommandAtRest, ErrorOfThree, PortReleased, ClosedMeansStopped,
        UnconfiguredMeansClosed, MotionMeansActive, InCycle
<1>1. CASE pc = "idle" /\ (ConfigureFails \/ Open)
  <2>1. CASE ConfigureFails
    BY <1>1, <2>1 DEF ConfigureFails, OpenFails, callVars
  <2>2. CASE Open
    BY <2>2 DEF Open
  <2> QED BY <1>1, <2>1, <2>2
<1>2. CASE Ask \/ Command \/ Arm \/ ReadUntil
  BY <1>2 DEF Ask, Command, Arm, ReadUntil, managerVars, spikeVars, callVars
<1>3. CASE ReadFails \/ WriteFails \/ ImageMissing \/ ReadOffsets \/ TooManyUnknown
  <2>1. /\ pc # "idle" /\ pc' = "idle"
        /\ handler' = "on_configure"
        /\ \/ state' \in {"inactive", "error"}
           \/ state' = "unconfigured" /\ result' = "throw"
        /\ UNCHANGED <<port, hat, motor, command, process>>
    BY <1>3 DEF ReadFails, WriteFails, ImageMissing, ReadOffsets, TooManyUnknown, Returns,
       Configured
  <2> QED BY <2>1
<1>4. CASE EmptyLine \/ FirmwareLine \/ BootloaderLine \/ UnknownLine \/ PromptLine
  <2>1. pc # "idle" /\ pc' # "idle" /\ UNCHANGED managerVars
    BY <1>4 DEF EmptyLine, FirmwareLine, BootloaderLine, UnknownLine, PromptLine
  <2> QED BY <2>1 DEF managerVars, spikeVars
<1>5. CASE Reboot
  BY <1>5 DEF Reboot
<1>6. CASE HatAnswers \/ \E line \in Noise : HatSays(line)
  BY <1>6 DEF HatAnswers, HatSays, managerVars, spikeVars, callVars
<1>7. CASE Fault
  BY <1>7 DEF Fault, LinkChanges, HatRestarts
<1> QED BY <1>1, <1>2, <1>3, <1>4, <1>5, <1>6, <1>7 DEF OnConfigureSteps

LEMMA MotionStep == TypeInv /\ MotionInv /\ [HandshakeNext]_handshakeVars => MotionInv'
<1> SUFFICES ASSUME TypeInv, MotionInv, [HandshakeNext]_handshakeVars
             PROVE  MotionInv'
  OBVIOUS
<1>1. TypeOK
  BY DEF TypeInv
<1>2. CASE UNCHANGED handshakeVars
  BY <1>2 DEF handshakeVars, managerVars, spikeVars, callVars, MotionInv,
     AtRestUnlessArmed, CallsUnconfigured, CommandAtRest, ErrorOfThree, PortReleased,
     ClosedMeansStopped, UnconfiguredMeansClosed, MotionMeansActive, InCycle
<1>3. CASE HandshakeNext
  BY <1>1, <1>3, ManagerMotion, CallMotion DEF HandshakeNext
<1> QED BY <1>2, <1>3

LEMMA MotionInvariant == HandshakeSpec => [](TypeInv /\ MotionInv)
<1>1. HandshakeInit => TypeInv /\ MotionInv
  BY TypeInit, MotionInit
<1>2. TypeInv /\ MotionInv /\ [HandshakeNext]_handshakeVars => (TypeInv /\ MotionInv)'
  BY TypeStep, MotionStep
<1> QED BY <1>1, <1>2, PTL DEF HandshakeSpec

(* The port is closed only behind motors that stand still, and a component   *)
(* that is not configured has given it up or has failed loudly: at whichever *)
(* line, exception or limit on_configure() ends.                             *)
THEOREM PortIsReleased == HandshakeSpec => []PortReleased
<1>1. MotionInv => PortReleased
  BY DEF MotionInv
<1> QED BY <1>1, MotionInvariant, PTL

(* The motors turn only in an active component, until on_error() has dealt   *)
(* with a failed read() or write(), or when the process aborts.              *)
THEOREM NoStrayMotion == HandshakeSpec => []MotionMeansActive
<1>1. MotionInv => MotionMeansActive
  BY DEF MotionInv
<1> QED BY <1>1, MotionInvariant, PTL

-----------------------------------------------------------------------------
(* Why a SUCCESS means the firmware.  As long as nothing has excused the     *)
(* call, what it still has to read can say "firmware" only if the HAT runs   *)
(* it; older lines in buf may say anything, and so taking one excuses the    *)
(* call.  The loop is left for the motors only with the firmware running.    *)
AnswersTrue ==
    pc # "idle" /\ ~excused /\ hat # "firmware" =>
        /\ \A i \in 1 .. Len(input) : input[i] # "firmware"
        /\ \A i \in old + 1 .. Len(buf) : buf[i] # "firmware"

ArmsFirmware == pc \in {"arm", "offsets"} /\ ~excused => hat = "firmware"

CallEnded ==
    handler = "on_configure" => state \in {"inactive", "error"} \/ result = "throw"

FirmwareInv ==
    /\ AnswersTrue
    /\ ArmsFirmware
    /\ CallEnded
    /\ ArmedMeansFirmware

(* The lines that are younger than the call stay so as buf moves up.         *)
LEMMA YoungLines ==
    ASSUME LineTypes, TakeLine
    PROVE  \A i \in old' + 1 .. Len(buf') :
               i + 1 \in old + 1 .. Len(buf) /\ buf'[i] = buf[i + 1]
BY DEF LineTypes, TakeLine

LEMMA ManagerFirmware ==
    ASSUME ManagerSteps, FirmwareInv
    PROVE  FirmwareInv'
<1>1. pc = "idle" /\ pc' = "idle"
  BY DEF ManagerSteps, callVars
<1>2. \/ handler' # "on_configure"
      \/ UNCHANGED <<handler, state, result, hat>>
  <2>1. ASSUME NEW velocity \in [Wheels -> Speeds], Cycle(velocity)
        PROVE  handler' = "write"
    BY <2>1 DEF Cycle
  <2> QED BY <2>1 DEF ManagerSteps, CycleFails, ErrorProcessing, Activate, Deactivate, Cleanup,
     Shutdown, Exit, Ended, Transition, vars, spikeVars
<1>3. UNCHANGED excused
  BY DEF ManagerSteps, callVars
<1> QED BY <1>1, <1>2, <1>3 DEF FirmwareInv, AnswersTrue, ArmsFirmware, CallEnded,
           ArmedMeansFirmware

LEMMA CallFirmware ==
    ASSUME TypeInv, CallsUnconfigured, FirmwareInv,
           \/ pc = "idle" /\ (ConfigureFails \/ Open)
           \/ OnConfigureSteps \/ HatAnswers \/ Fault
           \/ \E line \in Noise : HatSays(line)
    PROVE  FirmwareInv'
<1> USE DEF FirmwareInv, AnswersTrue, ArmsFirmware, CallEnded, ArmedMeansFirmware
<1>1. CASE pc = "idle" /\ ConfigureFails
  BY <1>1 DEF ConfigureFails, OpenFails, callVars, lineVars
<1>2. CASE pc = "idle" /\ Open
  BY <1>2 DEF Open, lineVars, TypeInv, LineTypes
<1>3. CASE Ask \/ Command
  BY <1>3 DEF Ask, Command, managerVars, spikeVars
<1>4. CASE Arm
  BY <1>4 DEF Arm, managerVars, spikeVars, lineVars
<1>5. CASE ReadUntil
  BY <1>5 DEF ReadUntil, managerVars, spikeVars, callVars, TypeInv, LineTypes
<1>6. CASE ReadFails \/ WriteFails \/ ImageMissing \/ TooManyUnknown
  <2>1. /\ pc' = "idle"
        /\ (result' = "ERROR" /\ state' = "error") \/ result' = "throw"
    BY <1>6 DEF ReadFails, WriteFails, ImageMissing, TooManyUnknown, Returns, Configured
  <2> QED BY <2>1
<1>7. CASE ReadOffsets
  BY <1>7 DEF ReadOffsets, Returns, Configured
<1>8. CASE EmptyLine \/ BootloaderLine \/ UnknownLine \/ PromptLine
  <2>1. /\ TakeLine /\ UNCHANGED <<hat, handler, state, result, input>>
        /\ pc # "idle" /\ pc' # "idle" /\ pc' # "offsets"
        /\ pc' = "arm" => excused'
    BY <1>8 DEF EmptyLine, BootloaderLine, UnknownLine, PromptLine, managerVars,
       spikeVars
  <2>2. excused => excused'
    BY <1>8, Zenon DEF EmptyLine, BootloaderLine, UnknownLine, PromptLine, NoteAge
  <2> QED BY <2>1, <2>2, YoungLines DEF TypeInv
<1>9. CASE FirmwareLine
  <2>1. /\ TakeLine /\ UNCHANGED <<hat, handler, state, result, input>>
        /\ pc = "line" /\ pc' = "arm" /\ buf[1] = "firmware"
    BY <1>9 DEF FirmwareLine, managerVars, spikeVars, TakeLine, TypeInv, LineTypes
  <2>2. old = 0 => 1 \in old + 1 .. Len(buf)
    BY <2>1 DEF TypeInv, LineTypes, TakeLine
  <2>3. (excused => excused') /\ (old > 0 => excused')
    BY <1>9, Zenon DEF FirmwareLine, NoteAge
  <2>4. ~excused' => hat = "firmware"
    BY <2>1, <2>2, <2>3 DEF TypeInv, LineTypes
  <2> QED BY <2>1, <2>4
<1>10. CASE Reboot
  BY <1>10 DEF Reboot, CallsUnconfigured
<1>11. CASE HatAnswers
  BY <1>11 DEF HatAnswers, managerVars, spikeVars, callVars, TypeInv, LineTypes
<1>12. CASE \E line \in Noise : HatSays(line)
  BY <1>12 DEF HatSays, Noise, managerVars, spikeVars, callVars, TypeInv, LineTypes
<1>13. CASE Fault
  BY <1>13 DEF Fault, LinkChanges, HatRestarts
<1> HIDE DEF FirmwareInv
<1>14. CASE OnConfigureSteps
  BY <1>3, <1>4, <1>5, <1>6, <1>7, <1>8, <1>9, <1>10, <1>14 DEF OnConfigureSteps
<1> QED BY <1>1, <1>2, <1>11, <1>12, <1>13, <1>14

LEMMA FirmwareInvariant == HandshakeSpec => []FirmwareInv
<1>1. HandshakeInit => FirmwareInv
  BY DEF HandshakeInit, Init, FirmwareInv, AnswersTrue, ArmsFirmware, CallEnded,
     ArmedMeansFirmware
<1>2. TypeInv /\ MotionInv /\ FirmwareInv /\ [HandshakeNext]_handshakeVars
          => FirmwareInv'
  <2> SUFFICES ASSUME TypeInv, MotionInv, FirmwareInv, [HandshakeNext]_handshakeVars
               PROVE  FirmwareInv'
    OBVIOUS
  <2>1. CASE UNCHANGED handshakeVars
    BY <2>1 DEF handshakeVars, managerVars, spikeVars, callVars, lineVars, FirmwareInv,
       AnswersTrue, ArmsFirmware, CallEnded, ArmedMeansFirmware
  <2>2. CASE HandshakeNext
    BY <2>2, ManagerFirmware, CallFirmware DEF HandshakeNext, MotionInv
  <2> QED BY <2>1, <2>2
<1> QED BY <1>1, <1>2, MotionInvariant, PTL DEF HandshakeSpec

(* A SUCCESS of on_configure() means that the HAT runs the firmware, unless  *)
(* the call has accepted one of the exceptions it does not look at.          *)
THEOREM SuccessMeansFirmware == HandshakeSpec => []ArmedMeansFirmware
<1>1. FirmwareInv => ArmedMeansFirmware
  BY DEF FirmwareInv
<1> QED BY <1>1, FirmwareInvariant, PTL

-----------------------------------------------------------------------------
(* To the manager the conversation is one step.  Until it ends, the port     *)
(* counts as closed, and so every step of it is a stutter but two: the       *)
(* return, which is the manager's Configure with one of its outcomes, and a  *)
(* reboot of a HAT that ran the firmware already (the answer was an old one),*)
(* which the manager sees as a restart.  That is why a device that never     *)
(* fails is left out: to its manager that reboot has no explanation.         *)
Seen == <<IF pc = "idle" THEN port ELSE "closed",
          IF pc # "idle" /\ loaded THEN "bootloader" ELSE hat,
          link, motor, command, result, state, handler, process>>

LEMMA SeenIsVars == UNCHANGED Seen => UNCHANGED Manager!vars
BY DEF Seen, Manager!vars, Manager!spikeVars

(* The steps of on_configure() before its return, and what the HAT says.     *)
LEMMA TalkStutters ==
    ASSUME CallsUnconfigured, Flags,
           \/ pc = "idle" /\ Open
           \/ Ask \/ ReadUntil \/ EmptyLine \/ FirmwareLine \/ BootloaderLine
           \/ UnknownLine \/ Command \/ PromptLine \/ Arm \/ HatAnswers
           \/ \E line \in Noise : HatSays(line)
    PROVE  UNCHANGED Manager!vars
<1>1. CASE pc = "idle" /\ Open
  BY <1>1, SeenIsVars DEF Open, Seen, Flags
<1>2. CASE /\ pc # "idle" /\ pc' # "idle"
           /\ UNCHANGED <<managerVars, loaded>>
  BY <1>2, SeenIsVars DEF Seen, managerVars, spikeVars
<1>3. CASE HatAnswers \/ \E line \in Noise : HatSays(line)
  BY <1>3, SeenIsVars DEF HatAnswers, HatSays, Seen, managerVars, spikeVars, callVars
<1>4. CASE Ask \/ ReadUntil \/ Command \/ Arm
  BY <1>2, <1>4 DEF Ask, ReadUntil, Command, Arm, callVars
<1>5. CASE EmptyLine \/ FirmwareLine \/ BootloaderLine \/ UnknownLine \/ PromptLine
  BY <1>2, <1>5 DEF EmptyLine, FirmwareLine, BootloaderLine, UnknownLine, PromptLine
<1> QED BY <1>1, <1>3, <1>4, <1>5

(* Its return.                                                               *)
LEMMA ReturnConfigures ==
    ASSUME Faults, TypeOK, MotionInv,
           \/ pc = "idle" /\ ConfigureFails
           \/ ReadFails \/ WriteFails \/ ImageMissing \/ ReadOffsets \/ TooManyUnknown
    PROVE  Manager!Configure
<1>1. CASE pc = "idle" /\ ConfigureFails
  BY <1>1 DEF ConfigureFails, OpenFails, callVars, Manager!Configure,
     Manager!OnConfigure, Manager!OpenFails, Manager!Configured
<1>2. CASE \/ ReadFails \/ WriteFails \/ ImageMissing \/ ReadOffsets
           \/ TooManyUnknown
  <2>1. /\ pc # "idle" /\ pc' = "idle" /\ handler' = "on_configure"
        /\ result' \in {"SUCCESS", "ERROR", "throw"}
        /\ state' = Manager!Configured(result')
        /\ UNCHANGED <<link, port, hat, motor, command, process>>
    BY <1>2 DEF ReadFails, WriteFails, ImageMissing, ReadOffsets, TooManyUnknown,
       Returns, Configured, Manager!Configured
  <2>2. state = "unconfigured" /\ process = "up" /\ port = "open" /\ motor = AtRest
    BY <2>1 DEF MotionInv, CallsUnconfigured, MotionMeansActive
  <2>3. hat \in {"bootloader", "firmware"}
    BY DEF TypeOK, SpikeTypeOK
  <2>4. Manager!Opened
    BY <2>1, <2>2 DEF Manager!Opened
  <2>5. Manager!OnConfigure
    BY <2>1, <2>2, <2>3, <2>4 DEF Manager!OnConfigure, Manager!ConfigureError,
       Manager!ConfigureUnanswered, Manager!ConfigureBootloader, Manager!AtRest,
       Manager!Wheels, AtRest, Wheels
  <2> QED BY <2>1, <2>2, <2>5 DEF Manager!Configure
<1> QED BY <1>1, <1>2

(* The reboot at the end of loadFirmware(), and the faults.                  *)
LEMMA FaultsAreFaults ==
    ASSUME Faults, TypeInv, MotionInv, Reboot \/ Fault
    PROVE  [Manager!Next]_Manager!vars
<1>1. CASE Reboot
  <2>1. /\ pc = "reboot" /\ pc' = "arm" /\ motor' = AtRest
        /\ UNCHANGED <<link, port, command, result, state, handler, process>>
    BY <1>1 DEF Reboot
  <2>2. hat' = "bootloader" \/ loaded'
    BY <1>1 DEF Reboot
  <2>3. ~loaded /\ process = "up" /\ motor = AtRest
    BY <2>1 DEF TypeInv, Flags, MotionInv, CallsUnconfigured, MotionMeansActive
  <2>4. CASE hat = "bootloader"
    BY <2>1, <2>2, <2>3, <2>4, SeenIsVars DEF Seen
  <2>5. CASE hat # "bootloader"
    BY <2>1, <2>2, <2>3 DEF Manager!Next, Manager!DeviceFault, Manager!HatRestarts,
       Manager!AtRest, Manager!Wheels, AtRest, Wheels
  <2> QED BY <2>4, <2>5
<1>2. CASE Fault
  <2>1. process = "up" /\ UNCHANGED <<state, handler, process, pc, loaded>>
    BY <1>2 DEF Fault
  <2>2. CASE LinkChanges
    BY <2>1, <2>2 DEF LinkChanges, Manager!Next, Manager!DeviceFault,
       Manager!LinkChanges
  <2>3. CASE HatRestarts
    BY <2>1, <2>3 DEF HatRestarts, Manager!Next, Manager!DeviceFault,
       Manager!HatRestarts, Manager!AtRest, Manager!Wheels, AtRest, Wheels
  <2> QED BY <1>2, <2>2, <2>3 DEF Fault
<1> QED BY <1>1, <1>2

(* Between two calls the manager sees the component as it is.                *)
LEMMA ManagerStepsSeen ==
    ASSUME ManagerSteps
    PROVE  Manager!Next
<1>1. pc = "idle" /\ pc' = "idle"
  BY DEF ManagerSteps, callVars
<1> DEFINE p == IF pc = "idle" THEN port ELSE "closed"
           h == IF pc # "idle" /\ loaded THEN "bootloader" ELSE hat
<1>2. p = port /\ p' = port' /\ h = hat /\ h' = hat'
  BY <1>1
<1> USE DEF Manager!Next, Manager!Transition, Manager!OnCleanup, Manager!SetMotors,
        Manager!Writable, Manager!AtRest, Manager!Wheels, Manager!Speeds,
        Transition, OnCleanup, SetMotors, Writable, AtRest, Wheels, Speeds
<1>3. CASE ErrorProcessing
  BY <1>2, <1>3 DEF ErrorProcessing, OnError, InCycle, Manager!ErrorProcessing,
     Manager!OnError, Manager!InCycle
<1>4. CASE Activate
  BY <1>2, <1>4 DEF Activate, OnActivate, Manager!Activate, Manager!OnActivate
<1>5. CASE Deactivate
  BY <1>2, <1>5 DEF Deactivate, OnDeactivate, Manager!Deactivate, Manager!OnDeactivate
<1>6. CASE Cleanup
  BY <1>2, <1>6 DEF Cleanup, Manager!Cleanup
<1>7. CASE Shutdown
  BY <1>2, <1>7 DEF Shutdown, OnShutdown, Manager!Shutdown, Manager!OnShutdown
<1>8. CASE Exit
  BY <1>2, <1>8 DEF Exit, OnDeactivate, Manager!Exit, Manager!OnDeactivate
<1>9. CASE Ended
  BY <1>2, <1>9 DEF Ended, vars, spikeVars, Manager!Ended, Manager!vars,
     Manager!spikeVars
<1>10. ASSUME NEW velocity \in [Wheels -> Speeds], Cycle(velocity)
       PROVE  Manager!Cycle(velocity)
  BY <1>2, <1>10 DEF Cycle, Write, MotorSpeed, Manager!Cycle, Manager!Write,
     Manager!MotorSpeed
<1>11. CASE CycleFails
  BY <1>2, <1>11 DEF CycleFails, ReadThrows, Manager!CycleFails, Manager!ReadThrows
<1> QED BY <1>3, <1>4, <1>5, <1>6, <1>7, <1>8, <1>9, <1>10, <1>11 DEF ManagerSteps

(* The conversation implements the one step of the manager's on_configure(). *)
(* A HAT that ran the firmware before the call, but was taken for one in its *)
(* bootloader for a stale line, may reboot on the way: a restart to the      *)
(* manager, which is one of the faults.                                      *)
THEOREM ConversationIsOneCall ==
    ASSUME Faults
    PROVE  HandshakeSpec => ImplementsManager
<1>1. HandshakeInit => Manager!Init
  BY DEF HandshakeInit, Init, SpikeInit, Manager!Init, Manager!SpikeInit,
     Manager!AtRest, Manager!Wheels, AtRest, Wheels
<1>2. TypeInv /\ MotionInv /\ [HandshakeNext]_handshakeVars
          => [Manager!Next]_Manager!vars
  <2> SUFFICES ASSUME TypeInv, MotionInv, [HandshakeNext]_handshakeVars
               PROVE  [Manager!Next]_Manager!vars
    OBVIOUS
  <2>1. TypeOK /\ Flags /\ CallsUnconfigured
    BY DEF TypeInv, MotionInv
  <2>2. CASE UNCHANGED handshakeVars
    BY <2>2, SeenIsVars DEF handshakeVars, managerVars, spikeVars, callVars, Seen
  <2>3. CASE HandshakeNext
    BY <2>1, <2>3, TalkStutters, ReturnConfigures, FaultsAreFaults, ManagerStepsSeen
       DEF HandshakeNext, OnConfigureSteps, Manager!Next
  <2> QED BY <2>2, <2>3
<1> QED BY <1>1, <1>2, MotionInvariant, PTL DEF HandshakeSpec, ImplementsManager,
           Manager!Spec
=============================================================================
