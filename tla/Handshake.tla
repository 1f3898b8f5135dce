------------------------------ MODULE Handshake -----------------------------
(* TuwSpikeSystemInterface::on_configure() line by line, with serialReadLine,*)
(* getPrompt and loadFirmware                                                *)
(* (tuw_spike_control/src/tuw_spike_control_interface.cpp), inside of the    *)
(* life of the component as ControllerManager describes it: the one step of  *)
(* its on_configure() is a conversation with the Build HAT here.             *)
(*                                                                           *)
(* A line is known by what on_configure() looks for in it.  The HAT answers  *)
(* commands in their order and may say other things at any time.  What the   *)
(* serial driver holds when on_configure() returns is taken by read(), or    *)
(* dropped with the port; lines in the global buf stay for the next call.    *)
EXTENDS ControllerManager, Sequences

CONSTANTS
    MaxEmpty,  \* empty lines that are skipped (3 in the program)
    MaxInc,    \* unknown lines that are answered by asking again (5)
    MaxLines   \* bound: the HAT says nothing unasked while so many are unread

ASSUME MaxEmptyAssumption == MaxEmpty \in Nat
ASSUME MaxIncAssumption == MaxInc \in Nat
ASSUME MaxLinesAssumption == MaxLines \in Nat

Noise == {"empty", "other", "prompt"}
Lines == Noise \cup {"firmware", "bootloader"}

VARIABLES
    pc,        \* "idle", or where on_configure() is
    prompts,   \* prompts that loadFirmware() has seen
    emptydata,
    incdata,
    buf,       \* lines in the global streambuf
    input,     \* lines that the serial driver holds
    due,       \* commands that the HAT has not answered: "version", "prompt"
    loaded,    \* ghost: this call has loaded the firmware
    old,       \* ghost: lines at the head of buf that are older than this call
    excused    \* ghost: one of the exceptions of ArmedMeansFirmware has occurred

callVars == <<pc, prompts, emptydata, incdata, loaded, old, excused>>
lineVars == <<buf, input, due>>
managerVars == <<spikeVars, state, handler, process>>
handshakeVars == <<managerVars, callVars, lineVars>>

HandshakeInit ==
    /\ Init
    /\ pc = "idle"
    /\ prompts = 0
    /\ emptydata = 0
    /\ incdata = 0
    /\ buf = <<>>
    /\ input = <<>>
    /\ due = <<>>
    /\ loaded = FALSE
    /\ old = 0
    /\ excused = FALSE

-----------------------------------------------------------------------------
(* on_configure() returns r to the manager, or "throw" leaves it; its locals *)
(* are gone.                                                                 *)
Returns(r) ==
    /\ pc' = "idle"
    /\ prompts' = 0 /\ emptydata' = 0 /\ incdata' = 0
    /\ loaded' = FALSE /\ old' = 0
    /\ result' = r
    /\ handler' = "on_configure"
    /\ state' = Configured(r)
    /\ input' = <<>>
    /\ due' = <<>>

(* The manager calls on_configure(), and serial.open() throws ...            *)
ConfigureFails ==
    /\ process = "up" /\ state = "unconfigured"
    /\ OpenFails
    /\ handler' = "on_configure"
    /\ state' = "error"
    /\ UNCHANGED <<link, command, process, callVars, lineVars>>

(* ... or opens the port.                                                    *)
Open ==
    /\ process = "up" /\ state = "unconfigured"
    /\ port = "closed" /\ link
    /\ port' = "open"
    /\ pc' = "ask"
    /\ old' = Len(buf)
    /\ excused' = FALSE
    /\ UNCHANGED <<link, hat, motor, command, result, state, handler, process,
                   prompts, emptydata, incdata, loaded, lineVars>>

(* A write of on_configure(): it throws if the device is gone; the exception *)
(* is caught at the end and the port stays open.                             *)
WriteFails ==
    /\ pc \in {"ask", "command", "reboot", "arm"}
    /\ ~Writable
    /\ Returns("ERROR")
    /\ UNCHANGED <<link, port, hat, motor, command, process, buf, excused>>

(* "version", at first and again after an unknown line.                      *)
Ask ==
    /\ pc = "ask"
    /\ Writable
    /\ due' = Append(due, "version")
    /\ pc' = "line"
    /\ UNCHANGED <<managerVars, buf, input, prompts, emptydata, incdata,
                   loaded, old, excused>>

(* read_until() takes what the driver holds, at least a line, into buf, if   *)
(* there is none; it throws if the device is gone.                           *)
ReadUntil ==
    /\ pc \in {"line", "prompt"}
    /\ buf = <<>>
    /\ \E n \in 1 .. Len(input) :
           /\ buf' = SubSeq(input, 1, n)
           /\ input' = SubSeq(input, n + 1, Len(input))
    /\ UNCHANGED <<managerVars, callVars, due>>

ReadFails ==
    /\ pc \in {"line", "prompt"}
    /\ buf = <<>> /\ ~link
    /\ Returns("ERROR")
    /\ UNCHANGED <<link, port, hat, motor, command, process, buf, excused>>

-----------------------------------------------------------------------------
(* Slip: a streambuf of the call's own loses what was read ahead.            *)
TakeLine_LocalBuf == buf # <<>> /\ buf' = <<>> /\ old' = 0

(* getline() takes one line out of buf.                                      *)
TakeLine ==
    /\ buf # <<>>
    /\ buf' = Tail(buf)
    /\ old' = IF old > 0 THEN old - 1 ELSE 0

(* An answer that was in buf before the call began.                          *)
NoteAge == excused' = (excused \/ old > 0)

(* Slip: empty lines are skipped without a limit.                            *)
EmptyLine_NoLimit ==
    /\ pc = "line"
    /\ TakeLine /\ Head(buf) = "empty"
    /\ emptydata' = emptydata + 1
    /\ UNCHANGED <<managerVars, pc, prompts, incdata, loaded, excused, input, due>>

(* The loop that waits for the answer to "version": an empty line ...        *)
EmptyLine ==
    /\ pc = "line"
    /\ TakeLine /\ Head(buf) = "empty"
    /\ emptydata' = emptydata + 1
    /\ pc' = IF emptydata' > MaxEmpty THEN "arm" ELSE "line"
    /\ excused' = (excused \/ emptydata' > MaxEmpty)
    /\ UNCHANGED <<managerVars, prompts, incdata, loaded, input, due>>

(* ... the firmware's ...                                                    *)
FirmwareLine ==
    /\ pc = "line"
    /\ TakeLine /\ Head(buf) = "firmware"
    /\ pc' = "arm"
    /\ NoteAge
    /\ UNCHANGED <<managerVars, prompts, emptydata, incdata, loaded, input, due>>

(* Slip: the bootloader's answer is enough.                                  *)
BootloaderLine_NoLoad ==
    /\ pc = "line"
    /\ TakeLine /\ Head(buf) = "bootloader"
    /\ pc' = "arm"
    /\ UNCHANGED <<managerVars, prompts, emptydata, incdata, loaded, excused,
                   input, due>>

(* ... the bootloader's: loadFirmware() is called ...                        *)
BootloaderLine ==
    /\ pc = "line"
    /\ TakeLine /\ Head(buf) = "bootloader"
    /\ pc' = "command"
    /\ NoteAge
    /\ UNCHANGED <<managerVars, prompts, emptydata, incdata, loaded, input, due>>

(* Slip: the port is closed with the error, and on_error() cannot stop.      *)
TooManyUnknown_PortClosed ==
    /\ pc = "line"
    /\ buf # <<>> /\ Head(buf) \in {"other", "prompt"}
    /\ incdata = MaxInc
    /\ Returns("ERROR")
    /\ buf' = Tail(buf)
    /\ port' = "closed"
    /\ UNCHANGED <<link, hat, motor, command, process, excused>>

(* ... or another: it asks again ...                                         *)
UnknownLine ==
    /\ pc = "line"
    /\ TakeLine /\ Head(buf) \in {"other", "prompt"}
    /\ incdata < MaxInc
    /\ incdata' = incdata + 1
    /\ pc' = "ask"
    /\ UNCHANGED <<managerVars, prompts, emptydata, loaded, excused, input, due>>

(* ... but not for ever: the error leaves the port open.                     *)
TooManyUnknown ==
    /\ pc = "line"
    /\ buf # <<>> /\ Head(buf) \in {"other", "prompt"}
    /\ incdata = MaxInc
    /\ Returns("ERROR")
    /\ buf' = Tail(buf)
    /\ UNCHANGED <<link, port, hat, motor, command, process, excused>>

(* loadFirmware() sends "clear", the image and the signature, and after each *)
(* of them getPrompt() reads lines until it sees a prompt.                   *)
Command ==
    /\ pc = "command"
    /\ Writable
    /\ due' = IF hat = "bootloader" THEN Append(due, "prompt") ELSE due
    /\ pc' = "prompt"
    /\ UNCHANGED <<managerVars, buf, input, prompts, emptydata, incdata,
                   loaded, old, excused>>

PromptLine ==
    /\ pc = "prompt"
    /\ TakeLine
    /\ prompts' = IF Head(buf) = "prompt" THEN prompts + 1 ELSE prompts
    /\ pc' = IF Head(buf) # "prompt" THEN "prompt"
             ELSE IF prompts' = 3 THEN "reboot" ELSE "command"
    /\ UNCHANGED <<managerVars, emptydata, incdata, loaded, excused, input, due>>

(* Before "clear" it looks for the package; the exception of one that is not *)
(* installed is none that on_configure() catches.  The one of an image that  *)
(* is not there when its size is asked for is.                               *)
ImageMissing ==
    /\ pc = "command"
    /\ Returns(IF prompts = 0 THEN "throw" ELSE "ERROR")
    /\ UNCHANGED <<link, port, hat, motor, command, process, buf, excused>>

(* Nobody looks at what the bootloader says to the image, and it may refuse  *)
(* to run it.                                                                *)
Reboot ==
    /\ pc = "reboot"
    /\ Writable
    /\ \/ hat' = "firmware" /\ loaded' = TRUE /\ UNCHANGED excused
       \/ /\ hat' = "bootloader"
          /\ UNCHANGED loaded
          /\ excused' = TRUE
    /\ motor' = AtRest
    /\ due' = <<>>
    /\ pc' = "arm"
    /\ UNCHANGED <<link, port, command, result, state, handler, process, buf,
                   input, prompts, emptydata, incdata, old>>

(* The motors' ports are set up ...                                          *)
Arm ==
    /\ pc = "arm"
    /\ Writable
    /\ pc' = "offsets"
    /\ UNCHANGED <<managerVars, lineVars, prompts, emptydata, incdata, loaded,
                   old, excused>>

(* ... and what has been reported so far is read, if anything: an error is   *)
(* only logged, but a number that is no int throws.                          *)
ReadOffsets ==
    /\ pc = "offsets"
    /\ \/ (hat = "firmware" \/ input # <<>> \/ ~link) /\ Returns("SUCCESS")
       \/ (hat = "firmware" \/ input # <<>>) /\ Returns("throw")
    /\ UNCHANGED <<link, port, hat, motor, command, process, buf, excused>>

-----------------------------------------------------------------------------
(* The HAT answers the oldest command; the line is lost without the device.  *)
HatAnswers ==
    /\ due # <<>>
    /\ due' = Tail(due)
    /\ input' = IF ~link THEN input
                ELSE Append(input, IF Head(due) = "version" THEN hat ELSE "prompt")
    /\ UNCHANGED <<managerVars, callVars, buf>>

(* It echoes commands, greets, reports; the bootloader prompts as well.      *)
HatSays(line) ==
    /\ pc # "idle" /\ link
    /\ line = "prompt" => hat = "bootloader"
    /\ Len(buf) + Len(input) < MaxLines
    /\ input' = Append(input, line)
    /\ UNCHANGED <<managerVars, callVars, buf, due>>

(* A fault in the middle of the call: answers may get lost, and what the HAT *)
(* has answered may be true no more.                                         *)
Fault ==
    /\ process = "up"
    /\ \/ LinkChanges /\ UNCHANGED due
       \/ HatRestarts /\ due' = <<>>
    /\ excused' = TRUE
    /\ UNCHANGED <<state, handler, process, pc, prompts, emptydata, incdata,
                   loaded, old, buf, input>>

OnConfigureSteps ==
    \/ Ask \/ ReadUntil \/ ReadFails \/ WriteFails
    \/ EmptyLine \/ FirmwareLine \/ BootloaderLine \/ UnknownLine \/ TooManyUnknown
    \/ Command \/ PromptLine \/ ImageMissing \/ Reboot \/ Arm \/ ReadOffsets

(* The manager makes one call at a time.                                     *)
ManagerSteps ==
    /\ pc = "idle"
    /\ \/ ErrorProcessing \/ Activate \/ Deactivate
       \/ Cleanup \/ Shutdown \/ Exit \/ Ended \/ CycleFails
       \/ \E velocity \in [Wheels -> Speeds] : Cycle(velocity)
    /\ UNCHANGED <<callVars, lineVars>>

HandshakeNext ==
    \/ pc = "idle" /\ (ConfigureFails \/ Open)
    \/ OnConfigureSteps
    \/ ManagerSteps
    \/ HatAnswers
    \/ \E line \in Noise : HatSays(line)
    \/ Fault

HandshakeSpec == HandshakeInit /\ [][HandshakeNext]_handshakeVars

(* on_configure() goes on, and the HAT answers what it is asked.             *)
FairSpec ==
    /\ HandshakeSpec
    /\ WF_handshakeVars(OnConfigureSteps)
    /\ WF_handshakeVars(HatAnswers)
-----------------------------------------------------------------------------
(* Every variable has its type.                                              *)
HandshakeTypeOK ==
    /\ TypeOK
    /\ pc \in {"idle", "ask", "line", "command", "prompt", "reboot", "arm",
               "offsets"}
    /\ prompts \in 0 .. 3
    /\ emptydata \in 0 .. MaxEmpty + 1
    /\ incdata \in 0 .. MaxInc
    /\ buf \in Seq(Lines)
    /\ input \in Seq(Lines)
    /\ due \in Seq({"version", "prompt"})
    /\ loaded \in BOOLEAN
    /\ old \in 0 .. Len(buf)
    /\ excused \in BOOLEAN

(* The port is never closed with a motor on: nobody could switch it off.  And*)
(* between two calls, a component that is not configured has released the    *)
(* port or its last handler has failed loudly: whatever line, exception or   *)
(* limit on_configure() ends with, on_error() makes up for the open port.    *)
PortReleased ==
    /\ ClosedMeansStopped
    /\ pc = "idle" => UnconfiguredMeansClosed

(* A HAT that on_configure() has reported a SUCCESS for runs the firmware    *)
(* that write() needs, except for reasons that on_configure() does not look  *)
(* at: the fourth empty line ended the loop, the answer was left in buf by   *)
(* an earlier call, the bootloader refused the image, or the device has      *)
(* failed since the call began.                                              *)
ArmedMeansFirmware ==
    handler = "on_configure" /\ result = "SUCCESS" /\ ~excused =>
        hat = "firmware"

(* on_configure() comes back, whatever the HAT says besides its answers and  *)
(* whatever an earlier call has left in buf: no line the loops wait for has  *)
(* been thrown away, and nothing is waited for that was not asked.  A fault  *)
(* may leave it waiting, and so may a HAT that runs no firmware and reports  *)
(* nothing.                                                                  *)
ConfigureReturns == pc # "idle" ~> pc = "idle" \/ excused

(* To the controller manager the conversation is the one step of             *)
(* ControllerManager!Configure, as if the port were opened and the firmware  *)
(* loaded when it ends.                                                      *)
Manager == INSTANCE ControllerManager WITH
    port <- IF pc = "idle" THEN port ELSE "closed",
    hat <- IF pc # "idle" /\ loaded THEN "bootloader" ELSE hat

ImplementsManager == Manager!Spec
=============================================================================
