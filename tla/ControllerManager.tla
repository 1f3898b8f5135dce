-------------------------- MODULE ControllerManager -------------------------
(* TuwSpikeSystemInterface as a ros2_control plugin (hardware_interface.xml  *)
(* and the launch files of tuw_spike_control): the controller manager moves  *)
(* it through the states of a lifecycle component and calls read() and       *)
(* write() in every cycle. The manager is external; it is modelled by the    *)
(* transitions of its component state machine. A handler that returns        *)
(* SUCCESS completes the transition; ERROR from on_configure, and an         *)
(* exception that leaves read() or write(), are followed by on_error; an     *)
(* exception that leaves another handler is logged and the state stays as it *)
(* was, except that nothing catches one that leaves on_error in the control  *)
(* loop.                                                                     *)
EXTENDS SpikeInterface

VARIABLES
    state,    \* "unconfigured", "error", "inactive", "active" or "finalized"
    handler,  \* the handler called last
    process   \* "up", "down", or "aborting" by std::terminate

vars == <<spikeVars, state, handler, process>>

Init ==
    /\ SpikeInit
    /\ state = "unconfigured"
    /\ handler = "none"
    /\ process = "up"

-----------------------------------------------------------------------------
(* A call of handler name that takes the component to state to if it         *)
(* succeeds.                                                                 *)
Transition(name, to) ==
    /\ process = "up"
    /\ handler' = name
    /\ state' = IF result' = "SUCCESS" THEN to ELSE state
    /\ UNCHANGED <<link, command, process>>

(* The state that on_configure() leads to.                                   *)
Configured(r) ==
    CASE r = "SUCCESS" -> "inactive"
      [] r = "ERROR" -> "error"
      [] r = "throw" -> "unconfigured"

Configure ==
    /\ process = "up"
    /\ state = "unconfigured"
    /\ OnConfigure
    /\ handler' = "on_configure"
    /\ state' = Configured(result')
    /\ UNCHANGED <<link, command, process>>

InCycle == handler \in {"read", "write"}

(* After a failed cycle the manager stops the controllers as well, and       *)
(* diff_drive_controller sets its commands to zero as it stops.              *)
ErrorProcessing ==
    /\ process = "up"
    /\ state = "error"
    /\ OnError
    /\ handler' = "on_error"
    /\ state' = "unconfigured"
    /\ process' = IF InCycle /\ result' = "throw" THEN "aborting" ELSE "up"
    /\ command' = IF InCycle THEN AtRest ELSE command
    /\ UNCHANGED link

Activate ==
    state = "inactive" /\ OnActivate /\ Transition("on_activate", "active")

Deactivate ==
    state = "active" /\ OnDeactivate /\ Transition("on_deactivate", "inactive")

Cleanup ==
    state = "inactive" /\ OnCleanup /\ Transition("on_cleanup", "unconfigured")

Shutdown ==
    /\ state \in {"unconfigured", "inactive", "active"}
    /\ OnShutdown
    /\ Transition("on_shutdown", "finalized")

(* One cycle: read() fails, and nothing is written, ...                      *)
CycleFails ==
    /\ process = "up"
    /\ state \in {"inactive", "active"}
    /\ ReadThrows
    /\ handler' = "read"
    /\ state' = "error"
    /\ UNCHANGED <<link, command, process>>

(* ... or does not; in the active state the controllers set the commands     *)
(* before write().                                                           *)
Cycle(velocity) ==
    /\ process = "up"
    /\ state \in {"inactive", "active"}
    /\ state = "inactive" => velocity = command
    /\ command' = velocity
    /\ Write(velocity)
    /\ handler' = "write"
    /\ state' = IF result' = "throw" THEN "error" ELSE state
    /\ UNCHANGED <<link, process>>

(* Ctrl-C: the manager goes away and with it the plugin, in whatever state.  *)
Exit ==
    /\ process = "up"
    /\ state # "error"
    /\ OnDeactivate
    /\ process' = IF result' = "throw" THEN "aborting" ELSE "down"
    /\ handler' = "destructor"
    /\ UNCHANGED <<link, command, state>>

Ended == process # "up" /\ UNCHANGED vars

Next ==
    \/ Configure \/ ErrorProcessing \/ Activate \/ Deactivate
    \/ Cleanup \/ Shutdown \/ Exit \/ Ended \/ CycleFails
    \/ \E velocity \in [Wheels -> Speeds] : Cycle(velocity)
    \/ DeviceFault /\ process = "up" /\ UNCHANGED <<state, handler, process>>

Spec == Init /\ [][Next]_vars

-----------------------------------------------------------------------------
(* Every variable has its type.                                              *)
TypeOK ==
    /\ SpikeTypeOK
    /\ state \in {"unconfigured", "error", "inactive", "active", "finalized"}
    /\ handler \in {"none", "on_configure", "on_error", "on_activate", "read",
                    "write", "on_deactivate", "on_cleanup", "on_shutdown", "destructor"}
    /\ process \in {"up", "down", "aborting"}

(* The interface gives up the port only after the motors have been told to   *)
(* stop, in whatever order the manager calls the handlers and whenever the   *)
(* device comes and goes.                                                    *)
ClosedMeansStopped == port = "closed" => motor = AtRest

(* A component that is not configured does not hold the port, or else its    *)
(* last handler has failed loudly: on_error() has closed what a failed       *)
(* on_configure() left open, and on_configure() can be tried again.          *)
UnconfiguredMeansClosed ==
    state \in {"unconfigured", "finalized"} =>
        port = "closed" \/ result = "throw"

(* While the manager is there, the motors turn only in an active component,  *)
(* or until on_error() has dealt with a failed read() or write(): a set-     *)
(* point written earlier does not outlive the active state, and a component  *)
(* that is configured or fails to be does not start moving.                  *)
MotionMeansActive ==
    motor # AtRest =>
        \/ state = "active"
        \/ state = "error" /\ InCycle
        \/ process = "aborting"

(* README.md:26 of tuw_spike_control: write() converts the commanded wheel   *)
(* velocities "and writes them to the serial port"; in an active component   *)
(* with the device there, the port is open for it.                           *)
WriteReachesPort ==
    process = "up" /\ state = "active" /\ link => Writable
=============================================================================
