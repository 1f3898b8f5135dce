--------------------------- MODULE CameraControls ---------------------------
(* Camera controls set as ROS parameters: class CameraControlsHandler        *)
(* (tuw_libcamera/src/capture/camera_controls_handler.cpp), used by two      *)
(* threads.  parameter_callback() changes current_controls under             *)
(* controls_mutex and bumps the atomic update_seq after unlocking it;        *)
(* update_request(), called by RequestHandler::execute(), reads update_seq,  *)
(* and only if the request has not seen that number locks the mutex and      *)
(* copies the controls into the request.  No lock covers both update_seq and *)
(* the controls.                                                             *)
(*                                                                           *)
(* The camera keeps a control until a later request changes it, so what it   *)
(* uses is the overlay of the control lists queued so far.                   *)
EXTENDS Integers

CONSTANTS
    Requests,  \* the requests that cycle through execute()
    Controls,  \* the camera's controls, one parameter each
    Values,    \* their values
    Unset,     \* a control that is in no list: the camera's own default
    Batches,   \* the parameter lists a caller may set, as settings
    SeqMod     \* values of the uint32_t update_seq (2^32 in the build)

Settings == [Controls -> Values \cup {Unset}]

ASSUME UnsetAssumption == Unset \notin Values
ASSUME BatchesAssumption == Batches \subseteq Settings
ASSUME SeqModAssumption == SeqMod \in Nat \ {0, 1}

VARIABLES
    current_controls, \* CameraControlsHandler::current_controls
    update_seq,       \* CameraControlsHandler::update_seq
    parPc,            \* the thread in parameter_callback(); "locked" holds controls_mutex
    batch, todo,      \* its parameters, and those the loop has still to visit
    exePc, exeReq,    \* the thread in execute(), and its request
    observed,         \* observed_update_seq of update_request()
    list,             \* Request::controls() of exeReq
    control_seq,      \* RequestContext::control_seq
    sent,             \* the camera's settings once it has reached the last queued request
    missed,           \* ghost: bumps since control_seq[r] was the value of update_seq
    missedObserved    \* ghost: bumps since observed was read

parVars == <<current_controls, update_seq, parPc, batch, todo>>
exeVars == <<exePc, exeReq, observed, list, control_seq, sent>>
vars == <<current_controls, update_seq, parPc, batch, todo, exePc, exeReq,
          observed, list, control_seq, sent, missed, missedObserved>>

-----------------------------------------------------------------------------
NoControls == [c \in Controls |-> Unset]

(* ControlList::set for every control of a list.                             *)
Overlay(settings, new) ==
    [c \in Controls |-> IF new[c] = Unset THEN settings[c] ELSE new[c]]

Mentioned(b) == {c \in Controls : b[c] # Unset}

(* Slip: a number that does not wrap.                                        *)
Bumped_Unbounded(n) == n + 1

(* update_seq++ on a uint32_t.                                               *)
Bumped(n) == IF n = SeqMod - 1 THEN 0 ELSE n + 1

(* handle_parameter() at start-up: a parameter override that differs from    *)
(* the default goes into current_controls.                                   *)
InitialControls == {Overlay(NoControls, b) : b \in Batches}

(* RequestHandler's constructor forces the first update of each request.     *)
ForcedUpdate(controls) == Overlay(NoControls, controls)

(* The state after CaptureNode's constructor: every request is queued.       *)
Init ==
    /\ current_controls \in InitialControls
    /\ sent = ForcedUpdate(current_controls)
    /\ update_seq = 0
    /\ parPc = "idle" /\ batch = NoControls /\ todo = {}
    /\ exePc = "free" /\ exeReq \in Requests
    /\ observed = 0
    /\ list = NoControls
    /\ control_seq = [r \in Requests |-> 0]
    /\ missed = [r \in Requests |-> 0] /\ missedObserved = 0

-----------------------------------------------------------------------------
(* parameter_callback().                                                     *)

(* Bound: fewer than SeqMod callbacks fit between two frames of a request    *)
(* (2^32 of them in the build).                                              *)
NoLap ==
    /\ \A r \in Requests : missed[r] < SeqMod - 1
    /\ missedObserved < SeqMod - 1

Lock ==
    /\ parPc = "idle"
    /\ NoLap
    /\ parPc' = "locked"
    /\ batch' \in Batches
    /\ todo' = Mentioned(batch')
    /\ UNCHANGED <<current_controls, update_seq, exeVars, missed, missedObserved>>

SetControl(c) ==
    /\ parPc = "locked"
    /\ c \in todo
    /\ current_controls' = [current_controls EXCEPT ![c] = batch[c]]
    /\ todo' = todo \ {c}
    /\ UNCHANGED <<update_seq, parPc, batch, exeVars, missed, missedObserved>>

(* A Rectangle or Size of the wrong shape: the converter's domain_error      *)
(* leaves the callback and the executor, and the process ends.               *)
ConversionThrows ==
    /\ parPc = "locked"
    /\ todo # {}
    /\ parPc' = "threw"
    /\ UNCHANGED <<current_controls, update_seq, batch, todo, exeVars, missed,
                   missedObserved>>

(* Slip: updates is assigned for every parameter, so that the last one of    *)
(* the list, possibly no control, decides.                                   *)
Unlock_LastDecides ==
    /\ parPc = "locked"
    /\ todo = {}
    /\ parPc' \in IF batch = NoControls THEN {"idle"} ELSE {"idle", "bump"}
    /\ UNCHANGED <<current_controls, update_seq, batch, todo, exeVars, missed,
                   missedObserved>>

(* The end of the locked block; updates is true if a control was set.        *)
Unlock ==
    /\ parPc = "locked"
    /\ todo = {}
    /\ parPc' = IF batch = NoControls THEN "idle" ELSE "bump"
    /\ UNCHANGED <<current_controls, update_seq, batch, todo, exeVars, missed,
                   missedObserved>>

Bump ==
    /\ parPc = "bump"
    /\ update_seq' = Bumped(update_seq)
    /\ parPc' = "idle"
    /\ missed' = [r \in Requests |-> missed[r] + 1]
    /\ missedObserved' = IF exePc = "apply" THEN missedObserved + 1 ELSE 0
    /\ UNCHANGED <<current_controls, batch, todo, exeVars>>

-----------------------------------------------------------------------------
(* execute(): reuse() clears the request's list, update_request() fills it,  *)
(* queueRequest() hands it to the camera.                                    *)
Observe(r) ==
    /\ exePc = "free" /\ parPc # "threw"
    /\ exeReq' = r
    /\ list' = NoControls
    /\ observed' = update_seq
    /\ missedObserved' = 0
    /\ exePc' = IF control_seq[r] # update_seq THEN "apply" ELSE "queue"
    /\ UNCHANGED <<parVars, control_seq, sent, missed>>

(* Slip: the controls are copied without controls_mutex.                     *)
Apply_Unlocked ==
    /\ exePc = "apply" /\ parPc # "threw"
    /\ list' = Overlay(list, current_controls)
    /\ control_seq' = [control_seq EXCEPT ![exeReq] = observed]
    /\ missed' = [missed EXCEPT ![exeReq] = missedObserved]
    /\ missedObserved' = 0
    /\ exePc' = "queue"
    /\ UNCHANGED <<parVars, exeReq, observed, sent>>

Apply ==
    /\ exePc = "apply"
    /\ parPc \notin {"locked", "threw"}
    /\ list' = Overlay(list, current_controls)
    /\ control_seq' = [control_seq EXCEPT ![exeReq] = observed]
    /\ missed' = [missed EXCEPT ![exeReq] = missedObserved]
    /\ missedObserved' = 0
    /\ exePc' = "queue"
    /\ UNCHANGED <<parVars, exeReq, observed, sent>>

Queue ==
    /\ exePc = "queue" /\ parPc # "threw"
    /\ sent' = Overlay(sent, list)
    /\ exePc' = "free"
    /\ UNCHANGED <<parVars, exeReq, observed, list, control_seq, missed,
                   missedObserved>>

(* The process has ended in an exception.                                    *)
Terminated == parPc = "threw" /\ UNCHANGED vars

-----------------------------------------------------------------------------
Callback == Lock \/ (\E c \in Controls : SetControl(c)) \/ ConversionThrows
                 \/ Unlock \/ Bump
CallbackGoesOn == (\E c \in Controls : SetControl(c)) \/ Unlock \/ Bump
Execute == (\E r \in Requests : Observe(r)) \/ Apply \/ Queue

Next == Callback \/ Execute \/ Terminated

Spec == Init /\ [][Next]_vars

(* A callback that has begun goes on, and frames keep arriving.              *)
FairSpec == Spec /\ WF_vars(CallbackGoesOn) /\ WF_vars(Execute)

-----------------------------------------------------------------------------
(* Every variable has its type.                                              *)
TypeOK ==
    /\ current_controls \in Settings /\ batch \in Settings
    /\ list \in Settings /\ sent \in Settings
    /\ todo \subseteq Controls
    /\ update_seq \in 0 .. SeqMod - 1 /\ observed \in 0 .. SeqMod - 1
    /\ parPc \in {"idle", "locked", "bump", "threw"}
    /\ exePc \in {"free", "apply", "queue"}
    /\ exeReq \in Requests
    /\ control_seq \in [Requests -> 0 .. SeqMod - 1]
    /\ missed \in [Requests -> 0 .. SeqMod - 1]
    /\ missedObserved \in 0 .. SeqMod - 1

(* A request that carries the latest sequence number brings the latest       *)
(* controls: once it is queued, and no callback is half way, the camera is   *)
(* going to use exactly current_controls.  Were a number recorded for values *)
(* older than the ones it stands for, every later update_request would skip  *)
(* them and the parameter would never reach the camera.                      *)
NumberCoversControls ==
    \A r \in Requests :
        parPc = "idle" /\ control_seq[r] = update_seq =>
            current_controls = IF exePc = "queue" /\ exeReq = r
                               THEN Overlay(sent, list) ELSE sent

(* The controls of one set_parameters_atomically call reach the camera       *)
(* together: when callers only ever set all controls to the same value, the  *)
(* camera never uses two different ones, wherever execute() interrupts.      *)
Uniform(settings) == \A c, d \in Controls : settings[c] = settings[d]
BatchesNotTorn ==
    (\A b \in Batches : Uniform(b)) => Uniform(sent)

(* When the parameters stop changing, the camera ends up with their values.  *)
SettingsConverge == <>[](parPc = "idle") => <>[](sent = current_controls)
=============================================================================
