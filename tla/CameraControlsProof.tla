------------------------ MODULE CameraControlsProof -------------------------
(* Proofs about CameraControls, for any controls, values, parameter lists    *)
(* and requests, and any width of the sequence number.                       *)
EXTENDS CameraControls, TLAPS

(* A callback that has passed the bound leaves room for its own bump.        *)
RoomToBump == parPc \in {"locked", "bump"} => NoLap

(* The ghosts do count what a recorded number is behind.                     *)
Wrapped(n) == IF n >= SeqMod THEN n - SeqMod ELSE n

LagExact ==
    /\ \A r \in Requests : update_seq = Wrapped(control_seq[r] + missed[r])
    /\ exePc = "apply" => update_seq = Wrapped(observed + missedObserved)

(* The callback visits only controls of its batch; no list mentions a        *)
(* control that current_controls does not; and, in a quiet state, a number   *)
(* that is up to date stands for controls the camera has or is about to get. *)
Quiet == parPc = "idle" \/ (parPc = "locked" /\ batch = NoControls)

Covered ==
    /\ parPc = "locked" => todo \subseteq Mentioned(batch)
    /\ \A c \in Controls :
          current_controls[c] = Unset => sent[c] = Unset /\ list[c] = Unset
    /\ \A r \in Requests :
          Quiet /\ control_seq[r] = update_seq /\ ~(exePc = "queue" /\ exeReq = r)
          => /\ sent = current_controls
             /\ exePc = "queue" =>
                   \A c \in Controls : list[c] \in {Unset, current_controls[c]}
    /\ Quiet /\ exePc = "queue" /\ control_seq[exeReq] = update_seq
          => Overlay(sent, list) = current_controls

-----------------------------------------------------------------------------
(* What ControlList::set does to a whole list.                               *)
LEMMA OverlayType ==
  ASSUME NEW a \in Settings, NEW b \in Settings
  PROVE  Overlay(a, b) \in Settings
BY DEF Overlay, Settings

LEMMA NoControlsType == NoControls \in Settings
BY DEF NoControls, Settings

LEMMA OverlayNothing ==
  ASSUME NEW a \in Settings
  PROVE  Overlay(a, NoControls) = a
BY DEF Overlay, NoControls, Settings

(* Setting controls that the older list either lacks or agrees on.           *)
LEMMA OverlayAgreeing ==
  ASSUME NEW a \in Settings, NEW b \in Settings,
         \A c \in Controls : b[c] \in {Unset, a[c]}
  PROVE  Overlay(a, b) = a
BY DEF Overlay, Settings

LEMMA OverlayCovering ==
  ASSUME NEW a \in Settings, NEW b \in Settings,
         \A c \in Controls : b[c] = Unset => a[c] = Unset
  PROVE  Overlay(a, b) = b
BY DEF Overlay, Settings

(* Types, and room for the bump of a callback under way, go together.        *)
LEMMA TypeAndRoom == Spec => [](TypeOK /\ RoomToBump)
<1> USE SeqModAssumption
<1>1. Init => TypeOK /\ RoomToBump
  <2> SUFFICES ASSUME Init PROVE TypeOK /\ RoomToBump
    OBVIOUS
  <2>1. current_controls \in Settings /\ sent \in Settings
    BY BatchesAssumption, OverlayType, NoControlsType
       DEF Init, InitialControls, ForcedUpdate
  <2>2. control_seq \in [Requests -> 0 .. SeqMod - 1]
        /\ missed \in [Requests -> 0 .. SeqMod - 1]
    BY DEF Init
  <2>3. QED
    BY <2>1, <2>2, NoControlsType DEF Init, TypeOK, RoomToBump
<1>2. TypeOK /\ RoomToBump /\ [Next]_vars => TypeOK' /\ RoomToBump'
  <2> SUFFICES ASSUME TypeOK, RoomToBump, [Next]_vars
               PROVE  TypeOK' /\ RoomToBump'
    OBVIOUS
  <2> USE DEF TypeOK, RoomToBump, NoLap
  <2>1. CASE Lock
    BY <2>1, BatchesAssumption DEF Lock, Mentioned, exeVars
  <2>2. ASSUME NEW c \in Controls, SetControl(c) PROVE TypeOK' /\ RoomToBump'
    BY <2>2 DEF SetControl, Settings, exeVars
  <2>3. CASE ConversionThrows
    BY <2>3 DEF ConversionThrows, exeVars
  <2>4. CASE Unlock
    BY <2>4 DEF Unlock, exeVars
  <2>5. CASE Bump
    BY <2>5 DEF Bump, Bumped, exeVars
  <2>6. ASSUME NEW r \in Requests, Observe(r) PROVE TypeOK' /\ RoomToBump'
    BY <2>6, NoControlsType DEF Observe, parVars
  <2>7. CASE Apply
    BY <2>7, OverlayType DEF Apply, parVars
  <2>8. CASE Queue
    BY <2>8, OverlayType DEF Queue, parVars
  <2>9. CASE UNCHANGED vars
    BY <2>9 DEF vars
  <2>10. QED
    BY <2>1, <2>2, <2>3, <2>4, <2>5, <2>6, <2>7, <2>8, <2>9
       DEF Next, Callback, Execute, Terminated
<1>3. QED
  BY <1>1, <1>2, PTL DEF Spec

(* The variables keep their types, the sequence numbers included.            *)
THEOREM TypeCorrect == Spec => []TypeOK
BY TypeAndRoom, PTL

(* The ghosts tell how far a recorded or an observed number is behind.       *)
LEMMA LagInvariant == Spec => []LagExact
<1> USE SeqModAssumption
<1>1. Init => LagExact
  BY DEF Init, LagExact, Wrapped
<1>2. TypeOK /\ RoomToBump /\ LagExact /\ [Next]_vars => LagExact'
  <2> SUFFICES ASSUME TypeOK, RoomToBump, LagExact, [Next]_vars PROVE LagExact'
    OBVIOUS
  <2>1. CASE Lock
    BY <2>1 DEF TypeOK, RoomToBump, NoLap, LagExact, Wrapped, Lock, exeVars
  <2>2. ASSUME NEW c \in Controls, SetControl(c) PROVE LagExact'
    BY <2>2 DEF TypeOK, RoomToBump, NoLap, LagExact, Wrapped, SetControl, exeVars
  <2>3. CASE ConversionThrows
    BY <2>3 DEF TypeOK, RoomToBump, NoLap, LagExact, Wrapped, ConversionThrows, exeVars
  <2>4. CASE Unlock
    BY <2>4 DEF TypeOK, RoomToBump, NoLap, LagExact, Wrapped, Unlock, exeVars
  <2>5. CASE Bump
    BY <2>5 DEF TypeOK, RoomToBump, NoLap, LagExact, Wrapped, Bump, Bumped, exeVars
  <2>6. ASSUME NEW r \in Requests, Observe(r) PROVE LagExact'
    BY <2>6 DEF TypeOK, RoomToBump, NoLap, LagExact, Wrapped, Observe, parVars
  <2>7. CASE Apply
    BY <2>7 DEF TypeOK, RoomToBump, NoLap, LagExact, Wrapped, Apply, parVars
  <2>8. CASE Queue
    BY <2>8 DEF TypeOK, RoomToBump, NoLap, LagExact, Wrapped, Queue, parVars
  <2>9. CASE UNCHANGED vars
    BY <2>9 DEF TypeOK, RoomToBump, NoLap, LagExact, Wrapped, vars
  <2>10. QED
    BY <2>1, <2>2, <2>3, <2>4, <2>5, <2>6, <2>7, <2>8, <2>9
       DEF Next, Callback, Execute, Terminated
<1>3. QED
  BY <1>1, <1>2, TypeAndRoom, PTL DEF Spec

(* An up-to-date number stands for the controls the camera is going to use.  *)
LEMMA CoveredInvariant == Spec => []Covered
<1> USE SeqModAssumption, UnsetAssumption
<1>1. Init => Covered
  <2> SUFFICES ASSUME Init PROVE Covered
    OBVIOUS
  <2>1. current_controls \in Settings
    BY BatchesAssumption, OverlayType, NoControlsType DEF Init, InitialControls
  <2>2. sent = current_controls
    BY <2>1, NoControlsType, OverlayCovering DEF Init, ForcedUpdate, NoControls
  <2>3. QED
    BY <2>2 DEF Init, Covered, NoControls
<1>2. TypeOK /\ RoomToBump /\ LagExact /\ Covered /\ [Next]_vars => Covered'
  <2> SUFFICES ASSUME TypeOK, RoomToBump, LagExact, Covered, [Next]_vars
               PROVE  Covered'
    OBVIOUS
  <2>1. CASE Lock
    BY <2>1 DEF TypeOK, Covered, Quiet, Lock, exeVars
  <2>2. ASSUME NEW c \in Controls, SetControl(c) PROVE Covered'
    <3>1. batch[c] # Unset /\ ~Quiet'
      BY <2>2 DEF Covered, Quiet, SetControl, Mentioned, NoControls
    <3>2. QED
      BY <3>1, <2>2 DEF TypeOK, Settings, Covered, SetControl, exeVars
  <2>3. CASE ConversionThrows
    BY <2>3 DEF TypeOK, Covered, Quiet, ConversionThrows, exeVars
  <2>4. CASE Unlock
    BY <2>4 DEF TypeOK, Covered, Quiet, Unlock, exeVars
  <2>5. CASE Bump
    <3>1. \A r \in Requests : control_seq'[r] # update_seq'
      BY <2>5 DEF TypeOK, RoomToBump, NoLap, LagExact, Wrapped, Bump, Bumped,
         exeVars
    <3>2. QED
      BY <3>1, <2>5 DEF TypeOK, Covered, Bump, exeVars
  <2>6. ASSUME NEW r \in Requests, Observe(r) PROVE Covered'
    <3>1. list' = NoControls /\ NoControls \in Settings
      BY <2>6, NoControlsType DEF Observe
    <3>2. exePc = "free" /\ Quiet' = Quiet
      BY <2>6 DEF Observe, Quiet, parVars
    <3>3. exePc' = "queue" => control_seq[r] = update_seq
      BY <2>6 DEF Observe
    <3>4. Overlay(sent', list') = sent
      BY <2>6, <3>1, OverlayNothing DEF TypeOK, Observe
    <3>5. QED
      BY <3>1, <3>2, <3>3, <3>4, <2>6
         DEF TypeOK, Covered, Observe, NoControls, parVars
  <2>7. CASE Apply
    <3>1. list' = current_controls
      BY <2>7, OverlayCovering DEF TypeOK, Covered, Apply
    <3>2. Overlay(sent, current_controls) = current_controls
      BY <2>7, OverlayCovering DEF TypeOK, Covered
    <3>3. QED
      BY <3>1, <3>2, <2>7 DEF TypeOK, Covered, Quiet, Apply, parVars
  <2>8. CASE Queue
    <3>1. \A c \in Controls : current_controls[c] = Unset => sent'[c] = Unset
      BY <2>8 DEF TypeOK, Covered, Queue, Overlay
    <3>2. ASSUME NEW r \in Requests, Quiet, control_seq[r] = update_seq
          PROVE  sent' = current_controls
      <4>1. CASE r = exeReq
        BY <2>8, <3>2, <4>1 DEF TypeOK, Covered, Queue
      <4>2. CASE r # exeReq
        BY <2>8, <3>2, <4>2, OverlayAgreeing DEF TypeOK, Covered, Queue
      <4>3. QED
        BY <4>1, <4>2
    <3>3. QED
      BY <3>1, <3>2, <2>8 DEF TypeOK, Covered, Quiet, Queue, parVars
  <2>9. CASE UNCHANGED vars
    BY <2>9 DEF TypeOK, Covered, Quiet, vars
  <2>10. QED
    BY <2>1, <2>2, <2>3, <2>4, <2>5, <2>6, <2>7, <2>8, <2>9
       DEF Next, Callback, Execute, Terminated
<1>3. QED
  BY <1>1, <1>2, TypeAndRoom, LagInvariant, PTL DEF Spec

(* Every parameter change reaches the camera with the next request that      *)
(* execute() prepares, whichever way the two threads interleave.             *)
THEOREM ControlsReachCamera == Spec => []NumberCoversControls
<1>1. TypeOK /\ Covered => NumberCoversControls
  BY DEF TypeOK, Covered, Quiet, NumberCoversControls
<1>2. QED
  BY <1>1, TypeCorrect, CoveredInvariant, PTL

-----------------------------------------------------------------------------
(* If all batches are uniform, every list in the system is: current_controls *)
(* too, except while a callback that changes it holds the lock.              *)
AllUniform ==
    /\ Uniform(sent) /\ Uniform(list) /\ Uniform(batch)
    /\ parPc = "locked" =>
          /\ todo \subseteq Mentioned(batch)
          /\ \A c \in Mentioned(batch) \ todo : current_controls[c] = batch[c]
    /\ (parPc \in {"idle", "bump"} \/ (parPc = "locked" /\ batch = NoControls))
          => Uniform(current_controls)

LEMMA OverlayUniform ==
  ASSUME NEW a \in Settings, NEW b \in Settings, Uniform(a), Uniform(b)
  PROVE  Uniform(Overlay(a, b))
BY DEF Overlay, Uniform, Settings

(* A batch set in one call reaches the camera as a whole.                    *)
THEOREM BatchesReachCameraWhole == Spec => []BatchesNotTorn
<1> DEFINE UniformIn == \A b \in Batches : Uniform(b)
           Inv == UniformIn => AllUniform
<1>0. Uniform(NoControls)
  BY DEF Uniform, NoControls
<1>1. Init => Inv
  <2> SUFFICES ASSUME UniformIn, Init PROVE AllUniform
    OBVIOUS
  <2>1. current_controls \in Settings /\ Uniform(current_controls)
    BY <1>0, BatchesAssumption, OverlayType, NoControlsType, OverlayUniform
       DEF Init, InitialControls
  <2>2. Uniform(sent)
    BY <1>0, <2>1, NoControlsType, OverlayUniform DEF Init, ForcedUpdate
  <2>3. QED
    BY <1>0, <2>1, <2>2 DEF Init, AllUniform
<1>2. TypeOK /\ Inv /\ [Next]_vars => Inv'
  <2> SUFFICES ASSUME UniformIn, TypeOK, AllUniform, [Next]_vars
               PROVE  AllUniform'
    OBVIOUS
  <2>1. CASE Lock
    BY <2>1 DEF AllUniform, Lock, Uniform, exeVars
  <2>2. ASSUME NEW c \in Controls, SetControl(c) PROVE AllUniform'
    BY <2>2 DEF TypeOK, Settings, AllUniform, SetControl, Mentioned, NoControls,
       Uniform, exeVars
  <2>3. CASE ConversionThrows
    BY <2>3 DEF AllUniform, ConversionThrows, Uniform, exeVars
  <2>4. CASE Unlock
    BY <2>4 DEF TypeOK, Settings, AllUniform, Unlock, Mentioned, NoControls,
       Uniform, exeVars
  <2>5. CASE Bump
    BY <2>5 DEF AllUniform, Bump, Uniform, exeVars
  <2>6. ASSUME NEW r \in Requests, Observe(r) PROVE AllUniform'
    BY <2>6, <1>0 DEF AllUniform, Observe, Uniform, parVars
  <2>7. CASE Apply
    BY <2>7, OverlayUniform DEF TypeOK, AllUniform, Apply, Uniform, parVars
  <2>8. CASE Queue
    BY <2>8, OverlayUniform DEF TypeOK, AllUniform, Queue, Uniform, parVars
  <2>9. CASE UNCHANGED vars
    BY <2>9 DEF AllUniform, Uniform, vars
  <2>10. QED
    BY <2>1, <2>2, <2>3, <2>4, <2>5, <2>6, <2>7, <2>8, <2>9
       DEF Next, Callback, Execute, Terminated
<1>3. Inv => BatchesNotTorn
  BY DEF AllUniform, BatchesNotTorn
<1> HIDE DEF Inv
<1>4. QED
  BY <1>1, <1>2, <1>3, TypeCorrect, PTL DEF Spec
=============================================================================
