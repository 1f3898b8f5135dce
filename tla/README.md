# TLA+ models of tuw_spike

This directory holds TLA+ models of the programs in this repository (ROS 2
packages for a small differential-drive robot: a Raspberry Pi, a LEGO Build HAT
with two motors, a camera), the TLC runs that check them, and TLAPS proofs of
the properties that matter most. Source paths below are relative to the
repository's root; RH is `tuw_libcamera/src/capture/request_handler.cpp`, CN
`capture_node.cpp`, CC `camera_controls_handler.cpp` and SH `stream_handler.cpp`
beside it, SI
`tuw_spike_control/src/tuw_spike_control_interface.cpp`, DD `diffdrive_node.cpp`
beside it, RL `tuw_camera_laserscan/src/ray_localizer.cpp`, FK
`tuw_camera_laserscan/include/tuw_camera_laserscan/filter_kernel.hpp`, SR
`tuw_spike_simulation/src/spawn_robot.cpp`.

1. [The system](#1-the-system)
2. [The models](#2-the-models)
3. [The runs](#3-the-runs)
4. [The proofs](#4-the-proofs)
5. [Where the code differs from what it says](#5-where-the-code-differs-from-what-it-says)
6. [What is not modelled](#6-what-is-not-modelled)
7. [Plan](#7-plan)

To run: `tlc -config <X>.cfg <module>` for a model, `tlapm <X>Proof.tla` for a
proof; `PROJECT.json` lists the runs, the source lines of every definition, the
hazards and the theorems.

## 1. The system

    camera --libcamera--> CaptureNode (RequestHandler, CameraControlsHandler,
                            |          stream handlers)
                            | Image, CameraInfo
                            +--> TransportNode --> image_transport
                            +--> RayLocalizerNode (RayLocalizer) --> LaserScan

    cmd_vel --> DiffDriveNode ----------------+
    controller_manager + diff_drive_controller +--> TuwSpikeSystemInterface
    demo --------------------------------------+        | serial port
                                                        v
                                                     Build HAT --> two motors

    spawn_robot --> Gazebo (create / check of entities)

### Capture (package tuw_libcamera)

| Component | State | Operations | Hard because |
|---|---|---|---|
| RequestHandler (RH) | a context per request with `waiting`, atomic `waiting_requests`, a guard condition | `start`, `handle` (libcamera's camera thread), `is_ready`, `execute` (executor thread), `add_stream` | two threads, no common lock; `waiting` is a plain `bool`; a lost wake-up stops the capture; dropped error codes |
| CameraControlsHandler (CC) | `current_controls` under a mutex, atomic `update_seq`, a `control_seq` per request | start-up, `parameter_callback`, `update_request` | the number and the controls are not covered by one lock; the number wraps; a converter may throw half way |
| CaptureNode (CN) | a shared camera manager (weak pointer), the camera, its configuration, the handlers | construction in steps that may throw, destruction | several nodes in one container share the manager and the cameras; results of `acquire()` and `start()` are dropped; the handler is connected to the camera and never disconnected; the destructor stops a camera whose thread may be in `handle()` |
| stream handlers, buffers, formats | memory mappings, a map from formats to handlers | `publish_buffer`, conversions | indices (cookies) tie a buffer to its mapping and its handler; the metadata of a message come from the configuration and its data from the buffer or a decoder |
| TransportNode | a publisher | one callback | - |

Correct means: a request is in exactly one hand at a time, none drops out of
the cycle, each frame is published once and not arbitrarily late, the executor
never sleeps while a frame waits, the assertion in `handle()` never fires, the
node can always be stopped; a control set once reaches the camera, and controls
set together reach it together; two nodes never stream from one camera, a camera
calls its own node's handler, and a message is of the buffer the camera has filled,
described by the format of that buffer's stream.

### Drive (package tuw_spike_control)

| Component | State | Operations | Hard because |
|---|---|---|---|
| TuwSpikeSystemInterface (SI) | the global serial port and its global read buffer, `command_motor_velocity`, `state_motor_*`, `reverse`, offsets | the lifecycle handlers, `write`, `read`, the destructor | the HAT regulates the motors on its own: motors nobody stops go on turning; any write may throw; handlers come in any legal order; `on_configure()` is a conversation without timeouts with a HAT that talks unasked |
| DiffDriveNode (DD) | `hardware_ready_`, an interface | construction, `on_cmd_vel`, destruction | runs on without hardware; the process may end in an exception and be started again |
| demo | a loop counter, an interface | `main` with five ways out | each `return` runs the destructor |
| ros2_control integration | the component's lifecycle state | the controller manager's transitions and its cycle | error handling of the manager meets handlers that throw |

Correct means: the motors turn only for somebody who is there and asked for it,
as the last command says; the port is closed only on resting motors and is
never left open by a component that is not configured; `on_configure()` comes
back, and its SUCCESS means a HAT that listens; the feedback is what the HAT has
reported, relative to the zero of its wheel, and never goes back in time.

### Localisation (package tuw_camera_laserscan)

RayLocalizer clips rays to the image; along each of them FilterLineIterator (FK)
convolves the brightness with an odd kernel in a ring buffer, and
`detect_edge()` looks for a dark stripe that the ray before has seen as well.
State: the ring buffer and its wrapping index, the stripes of this ray and of
the one before, the ranges of the scan. It is sequential; what is hard are the
boundaries: rays that begin beside the image, miss it or touch a corner, the
filling and the wrapping of the history, the last increment behind the line,
several stripes on a ray. Correct means: the ranges are a function of the image,
and a finite one is confirmed by two rays of the same frame.

### Simulation and description

`spawn_robot` (SR) asks the simulator whether a robot of its name exists, asks
it to create the robot if there is none, and tells the launch by its exit code
whether to go on. It is hard because the two requests are not one, each may time
out and be executed all the same, and the launch may be repeated. Correct means:
the exit code is true, and two robots of one name come only of launches that have
raced. The other launch files and the robot description are data.

The hazards of the code, each at its line and with the properties that cover
it or the reason why none does, are listed under `hazards` in `PROJECT.json`.

## 2. The models

| Module | Models | Composes |
|---|---|---|
| `RequestHandler` | `handle`, `start`, `is_ready`, `execute`, the camera thread, the executor's wait, `Camera::stop` | - |
| `FrameCycle` | what the capture loop promises, without threads | - |
| `RequestHandlerRefinement` | the refinement mapping from the one to the other | both |
| `CameraControls` | `parameter_callback` against `update_request` | - |
| `StreamHandlers` | the format map, and what each kind of handler publishes of a buffer | - |
| `CaptureNode` | nodes of a container, the shared manager, the signals of the cameras, `add_stream`'s bookkeeping, publishing | `StreamHandlers` |
| `SpikeInterface` | handlers, `write` and destructor over port, HAT and motors | - |
| `DiffDriveNode`, `Demo` | the two programs that drive the base themselves | `SpikeInterface` |
| `BasePrograms` | these programs, started one after the other on one robot | both |
| `ControllerManager` | the component's lifecycle under ros2_control | `SpikeInterface` |
| `Handshake` | `on_configure()` line by line, inside of that lifecycle | `ControllerManager` |
| `StatusReader` | `read()` and the end of `on_configure()` on a serial stream | - |
| `RayClip` | `ray_clip` and the rounding of its ends to pixels | - |
| `FilterLine` | the filter iterator | - |
| `EdgeDetect` | `process_frame`, `ray_cast`, `detect_edge` | `RayClip`, `FilterLine` |
| `SpawnRobot` | `main()` of spawn_robot and its launch, against the simulator | - |

`MC*` modules and `.cfg` files give the constants their values; `*Proof`
modules hold the proofs. Definitions marked *Slip* are mutated forms of the
definition that follows them, with which the properties are tested: each
property fails when the model makes the slip that is paired with it.

### RequestHandler

Every statement of `handle()` and `execute()` that touches shared state is an
action. The camera thread's place is `camPc` with its request `camReq`:
`run` (in libcamera), `handle` (before the assertion at RH:89), `count` (flag
raised, RH:92 due), `trigger` (RH:93 due), or `threw`. The executor's place is
`exePc` with the loop index `exeIdx`: `start` (the node's constructor), `wait`
(rcl_wait), `ready` (RH:143), `scan` to `queue` (the statements of the loop
from RH:100), `stopping` and `released` (the node's destructor).

`waiting_requests` is an unsigned number of width `CounterMod`; decremented at
zero it is `CounterMod - 1`. It may be, since `waiting` is raised before the
counter is incremented and `execute()` looks at the flag alone.

The data race on `waiting` is modelled by what the builds of this program can
show: the flag is seen late (the interleavings contain it) or seen before the
metadata that was written earlier, when the two threads have not yet met at
the atomic counter. In the second case `execute()` may publish the frame with
the metadata the buffer had before; that is the place `publish_stale`, which
exists if `WeakMemory` is TRUE.

libcamera is modelled from the calls: requests complete in the order they were
queued, `queueRequest` refuses a request that is not pending (the code drops
the error), `stop` cancels what is queued and returns when all are back.

### CameraControls

The callback holds the mutex from `Lock` to `Unlock`, sets one control a step,
and bumps `update_seq` after it has unlocked. `update_request()` reads the
number in `Observe`, and locks and copies in `Apply`. What the camera uses is
the overlay of the lists it was sent, `sent`. A converter's exception ends the
process. The ghosts `missed` and `missedObserved` count bumps since a number
was recorded or read; the guard `NoLap` uses them to keep them below the width
of the number: 2^32 changes between two frames are excluded, by name.

### CaptureNode and StreamHandlers

A container loads and unloads nodes on one thread, so at most one constructor
runs at a time (`Busy`); each of its stages is a step that may be the last
(`Throw`: the members are destroyed, the destructor is not run). libcamera's
cameras refuse calls that are out of order; the node looks at the result of
`configure` and `allocate` but not of `acquire` and `start`. The cameras are
new with each manager, and the manager goes with the last node (`LastHolder`).

A camera has a signal: `connected` are the nodes whose handler it calls, and it
is in `dangling` if it also calls one that is gone, since nothing disconnects a
handler (CN:88) and the signal lives as long as the camera. `relet` are the
cameras that a second node has connected to in one life of the manager. What a
call to a foreign or a destroyed handler does is undefined and is not followed:
`OwnHandlerOnly` says exactly when there is none.

`AddStream` numbers the buffers as `add_stream()` does and chooses the handler
from `FORMAT_MAP`, which is a multimap: without a `target_format` any mapping of
the camera's format may be found. A buffer that completes leads to its mapping
and to a handler by its cookie (`Mapping`). A message is its metadata and the
length of its data, which for a direct handler is that of all the memory the
buffer's planes map (`MappedSize`, over the constant `Planes`), whatever the
metadata say. A decoding handler sees the outcomes that `cv::imdecode` has for a
destination it was given: decoded in place, left alone (an unreadable header: a
blank frame is published), replaced by an image of another size, or emptied. In a
build with assertions the last two end the container (`Abort`); the package's
CMake sets no build type, so that `NDebug` is a constant, and without assertions
the message has the decoded size with the memory of the stream.

### SpikeInterface and its clients

A handler is one action over `port`, `hat`, `motor` (what the HAT regulates
to), `command` and `result`. A write throws if the port is closed or the device
gone (`Writable`). `OnConfigure` has the six outcomes of the code: the port
does not open; the firmware answers; the bootloader answers and the firmware is
loaded; four empty lines; after the port was opened, a `std::runtime_error`, which
is caught (SI:445) and returned as ERROR, or another exception, which leaves the
handler: that of a package that is not installed (SI:81) or the `std::out_of_range`
of a number that is no `int` (SI:417). The same may leave `read()` (SI:241;
`ReadThrows`), which says nothing to the HAT. `OnCleanup` is
also `on_deactivate`, `on_shutdown`, `on_error` and the destructor, which all
call it. The bootloader ignores motor commands. In all clients the device may be
unplugged and plugged in again at any step (`LinkChanges`), and the HAT may
lose its power and come back with its motors at rest (`HatRestarts`).

`DiffDriveNode` adds the process (`up`, `down`, `aborting`), `hardware_ready_`
and the mapping from a body velocity to the wheels; `Demo` is `main()` with its
five ways out. `BasePrograms` starts them one after the other, any number of
times, on one robot: a program that dies leaves the motors as the HAT was last
told, and the ghost `orphaned` holds until a later program's message arrives.

`ControllerManager` adds the lifecycle state: the manager itself is not in the
repository and is modelled by its transitions (see the module's header for what
it does with ERROR and with exceptions). A cycle fails in `read()` (`CycleFails`)
or in `write()` (`Cycle`) and is followed by `ErrorProcessing`; an exception that
leaves `on_configure()` keeps the component unconfigured. In the two programs that
have no manager it ends the process.

### Handshake

`Handshake` replaces the one step of `ControllerManager!Configure` by the
conversation of SI:322-452: `Ask` ("version"), `ReadUntil` and the cases of a
line (`EmptyLine`, `FirmwareLine`, `BootloaderLine`, `UnknownLine`,
`TooManyUnknown`), `loadFirmware()` with a prompt awaited after each of its
three parts (`Command`, `PromptLine`), `Reboot`, `Arm`, and `ReadOffsets`. Lines
are known by what the code looks for in them. The HAT owes answers (`due`), the
driver holds lines (`input`), and `read_until()` moves a line *and whatever came
with it* into the global `buf`, which outlives the call: lines at its head that
are older than the call are counted by `old`. The HAT says other things at any
time (`HatSays`: echoes, greetings, reports, the bootloader's prompts).

### StatusReader

Characters are abstracted to cells (head, two numbers, end), a number is known
by the line it came from. `ReadSome(n)` overwrites the first `n` cells of the
buffer and parses *all* of it, as the loop at SI:222 does with its 128 bytes;
the loop goes on while the chunk fills the buffer. A chunk may end between any
two cells; of a cut inside of a number only the worst is kept, a number that does
not fit into an `int`. Its `std::out_of_range` is not caught (SI:240-260, 417) and
leaves the call (`ParseThrows`): `read()` has then changed nothing,
`on_configure()` has already written the offsets it has parsed, without their
signs, and the component has to be configured anew (`ready`). `on_configure()`
ends with the same loop (`call` tells which of the two it is) and keeps the
positions as the wheels' zeros: `UpdateOffsets` turns the zero of a reversed wheel
round, read anew or not.

### RayClip, FilterLine and EdgeDetect

`RayClip` is `ray_clip()` on an integer grid with exact fractions along the ray,
so that only the rounding of the code (`cv::Point`) rounds; its reference
`ClipOf` tries every place at which the ray can cross an edge of the image.
`FilterLine` is the iterator with its ring buffer of kernel size, index
arithmetic on a `size_t` of `SizeBits` and the sum that saturates to `int16_t`.
`EdgeDetect` casts one ray after the other: each is clipped, and the iterator is
moved over as many pixels as the clip has. Pixels are chosen as they
are read and remembered in the ghost `image`, so that the reference
(`Response`, `Stripes`, `ExpectedRange`) computes from the image alone. The
read of an `optional` that has been reset (RL:267) yields what was there or
aborts. A frame may also end before it begins: cv_bridge throws for an encoding it
cannot convert (RL:63), which ends the process (`ConvertThrows`).

### SpawnRobot

Spawners run `main()` side by side; `requests` and `replies` are what is under
way to and from the simulator, which serves requests in any order, also those
whose sender has given up. A creation has three outcomes: done, refused in the
reply's data (which SR:92 only prints), or a call that fails. A launch whose
spawner exited with 1 has been shut down and may be started again
(`Relaunch`).

## 3. The runs

Distinct states are those of the passing runs; the runs together take about two
minutes on two workers.

| Run | States | Checks | Shows |
|---|---|---|---|
| `capture_threads` | 27752 | `TypeOK NeverThrows CounterExact NoLostWakeup ExclusiveBuffers NoRequestLost` | flag, counter, guard condition and requests stay consistent in every interleaving, with the data race |
| `capture_delivery` | 4718 | `EveryRequestRequeued StopReturns ImplementsFrameCycle` | the loop implements `FrameCycle`, the requests go round, the node stops |
| `camera_controls` | 17868 | `TypeOK NumberCoversControls BatchesNotTorn SettingsConverge` | no change is skipped or torn; the camera converges to the parameters |
| `capture_nodes` | 336505 | `TypeOK StartedNodeStreams RunningHasNode OwnHandlerOnly CookiesResolve MessageMatches` | nodes do not share a camera or its handler, none is left running, cookies lead to their buffers, messages are of the buffer that was filled and have its format |
| `base_programs` | 16080 | `TypeOK MotionHasOwner BodyFollowsTwist ReturnedStopped` | motors turn only for a program that was told to, and as it was told; the exit code tells the truth |
| `handshake` | 422691 | `HandshakeTypeOK PortReleased MotionMeansActive ArmedMeansFirmware ConfigureReturns ImplementsManager` | no conversation and no order of handlers and faults leaks the port, closes it on turning motors, moves an inactive component or blocks; SUCCESS means firmware; the whole implements `ControllerManager` |
| `status_reader` | 247182 | `TypeOK OneChunkFaithful ZeroKept NeverOlder` | a call of one chunk reports one line; a zero read in one chunk is its wheel's, and positions follow it; feedback never goes back |
| `edge_detect` | 328133 | `TypeOK ClipExact FilterIsResponse RangesConfirmed` | clips, filter and ranges are those of the references |
| `spawn_robot` | 35826 | `TypeOK ExitCodeTrue TwinsHaveRaced` | the exit code is true, and repeated launches add no second robot |
| `degraded_exit`, `reactivation`, `stale_feedback` | - | one property each, violated | section 5 |

What the less obvious properties say:

- `CounterExact`: the wrapped counter is the number of raised flags, minus one
  for an increment the camera thread owes, minus one for the request under way
  in `execute()`; the two may cross.
- `NoLostWakeup`: while the executor sleeps, a raised flag has a wake-up on its
  way. `is_ready()` looks only at the counter and the guard condition is reset
  by the wait, so this rests on the order of RH:91-93.
- `ImplementsFrameCycle` carries what a subscriber can rely on: each frame is
  published once and, with fairness, at some time; and since `execute()` visits
  contexts by index, not by age, a frame may be overtaken, but never by one
  `NumRequests` or more frames younger (`FrameCycle!Publish`).
- `NumberCoversControls`: a request whose recorded number is the current one
  leaves the camera with exactly the current controls. The number is read
  before the controls it is recorded for; the converse order would lose updates.
- `StartedNodeStreams`: its exception is a real one. A node that could not
  start stays loaded, and when it is unloaded its destructor stops the camera
  under the node that has it; the ghost `disturbed` names these nodes.
- `OwnHandlerOnly`: the missing disconnect is harmless as long as no camera is
  let twice in one life of the manager. A camera in `relet` does call handlers
  of other nodes, or destroyed ones.
- `MessageMatches` follows a buffer from the camera through its cookie to the
  message: what is copied is what was filled, under the format of its stream, and
  each row is as long as its encoding needs. How many rows a direct image has is
  what the camera maps, which the code compares with nothing, so nothing is said
  of it. Its exceptions are `ARGB8888`, four bytes a pixel, which
  `convert.cpp:38` maps to `BGRA16`, eight bytes a pixel, and decoded images of a
  build without assertions: they have the size of whatever JPEG came, with the
  stream's rows and memory.
- `MotionHasOwner` excludes processes that aborted, or died otherwise, until the
  next program has spoken: after `std::terminate` the motors may be turning,
  which the code does not prevent. What it does say is that no *orderly* end, no
  failed configuration and no restart leaves them so.
- `PortReleased` is `ClosedMeansStopped` at every line of the conversation, and
  `UnconfiguredMeansClosed` between calls: `on_configure()` returns ERROR with the
  port open, and only `on_error()` makes up for it.
- `ArmedMeansFirmware` names the four ways a SUCCESS can be wrong (ghost
  `excused`): the fourth empty line, an answer left in `buf` by an earlier
  call, an image that the bootloader refuses, a fault of the device.
- `ConfigureReturns`: the read loops have no timeout, so each must be sure of a
  line to come. Its exceptions are the stale answer and the faults: a stale
  bootloader line makes the call load firmware into a HAT that runs it and does
  not prompt.
- `ZeroKept`: a zero that `on_configure()` has read in one chunk is a position of
  that very wheel, has the direction of its positions, and is not younger than any
  of them, whatever exceptions and configurations come between. Nothing is said of
  a wheel of which the last `on_configure()` has read no line, whose zero is turned
  round once more (SI:438), nor of one whose zero came with several chunks: a line
  that the last of them cuts joins the tail of the one before, and the zero may be
  a number of the other wheel, as `stale_feedback` shows for `read()`.
- `NeverOlder` holds although the tail of an earlier chunk is parsed again: the
  lines in it are replaced only by younger ones from the front.
- `RangesConfirmed`: `prev_ray` is kept when a ray misses the image, so a
  stripe is compared with that of the last ray that met it, and never with one
  of another frame.
- `ClipExact`: the clip is the part of the ray in the image, to the point, and
  its rounded ends are pixels of the image; `None` exactly if there is no such
  part.
- `TwinsHaveRaced`: of two robots of one name neither creator had been shown the
  other. Asking and creating are two requests, so twins do occur; a launch that
  is merely repeated does not make them.

### Bounds

- `NumRequests = 3`: flags before, at and behind the scan's position;
  `MaxFrames = 6`: every request goes round twice; `CounterMod = 5`: the
  counter passes below zero and the wrapped value is not a legal count. The
  proofs remove these bounds for all properties of `capture_threads`.
- `camera_controls`: two controls (a batch can be half applied), two values,
  two requests (one can be behind the other), `SeqMod = 4`: the number wraps
  many times. `UniformBatches` sets both controls alike, the case that can show
  a torn batch.
- `capture_nodes`: three nodes on two cameras: one that keeps the manager alive,
  one that fails, one that takes over. Nodes and cameras are interchangeable,
  hence the symmetry. One stream of JPEGs (decoded or compressed) and one of
  pixels (`RGB888`, or the suspicious `ARGB8888`), with different numbers of
  buffers; images of 2 by 2 with a byte of padding a row and more bytes mapped
  than the rows have, in two planes; a JPEG of another width. `NDebug` is FALSE:
  the assertion of a decoding handler ends the container. The proofs remove these
  bounds and cover the whole format map.
- `base_programs`: `MaxSpeed = 2`: forward and yaw velocities combine.
  `DriveWrites = 3` stands for the demo's 150 passes, which differ in the counter
  only. No joint is reversed, as neither program sets parameters. One program
  runs at a time: both open the same port, and what two that run at once send
  each other's HAT is not bounded by the code.
- `handshake` reverses the left joint as `model/spike/ros_control.xacro` does.
  `MaxEmpty = MaxInc = 1` stand for 3 and 5: one that is tolerated and one that
  is not. `MaxLines = 2`: the HAT says nothing unasked while two lines are
  unread; with the answers that is enough for a line read ahead, and for one
  that stays in `buf` for the next call. Configurations are not bounded. The
  proofs hold for any limits and any number of unread lines.
- `status_reader`: the buffer holds two lines and a part of a third (9 cells),
  so chunk boundaries fall at every cell; five lines (`MaxTick`), of which
  `MaxPending = 20` cells may wait, allow calls of two chunks with a short last
  one; `MaxConfigures = 2`: an offset can be kept and turned round again. After
  `MaxTick` lines the HAT is silent. The proofs remove these bounds.
- `edge_detect`: a kernel of three, black and white pixels, an image of 8 by 2
  that is met along a row (two stripes of different widths), at a corner (too
  short for the filter) or not at all, three rays. `SizeBits = 4`: 2^4 and 2^64
  have the same residue modulo three, so the wrapping index behaves alike.
  `MCEdgeDetect` also lets TLC compute the kernel of the program and that no
  partial sum of it leaves `int16_t`. The proofs remove the bounds on kernel,
  image, rays and index, but not those on the directions in `ClipExact`.
- `spawn_robot`: two spawners of one name, two launches each: a race, a repeated
  launch, and a request of a launch before that arrives late. The proofs hold for
  any number of spawners and launches.

Deadlock is checked in every run. The states in which a program rests on
purpose (destroyed, ended, terminated, silent, aborted) have a step of their
own that changes nothing.

### Fairness

`capture_delivery`, `camera_controls` and `handshake` check liveness.

- A thread inside `handle()`, `start()` or `execute()` goes on (weak fairness of
  `Handle`, `Start`, `Execute`): these functions do not block; the operating
  system schedules both threads.
- A triggered guard condition ends the executor's wait (`WakeOnGuard`): this is
  rcl_wait's contract.
- A camera that is being stopped cancels what is queued (`CancelRequest`), and
  `Camera::stop` then returns (`Stopped`).
- Nothing is assumed of frames (none ever has to arrive), of other wake-ups
  (`WakeOnOther`), or of the node being stopped. A lost wake-up is therefore not
  repaired by luck.
- `SettingsConverge` assumes that a callback that has begun goes on and that
  frames keep being executed; without frames no request carries the controls.
  Callbacks need not begin or stop; the property is conditional on their end.
- `ConfigureReturns` assumes that `on_configure()` goes on while it can
  (`OnConfigureSteps`; it cannot while a read waits) and that the HAT answers
  what it was asked (`HatAnswers`), in order. Of the rest the HAT says nothing is
  assumed; a HAT that runs no firmware need not report anything.

### Refinement

`RequestHandler` implements `FrameCycle`. A frame is in the camera while its
request is `Queued`, captured until `execute()` has published it, and the cycle is
open until the destructor stops the camera. Under this mapping every step of the
two threads is a step of `FrameCycle` or a stutter, and the loop makes the
progress `FrameCycle!FairSpec` asks for. It is checked without `WeakMemory`,
since a stale stamp is a frame published twice under its old number and once less
under its own; in `capture_threads` the request's cycle is shown to survive it.
That each step is one of `FrameCycle` is also proved, for any number of requests.

`Handshake` implements `ControllerManager`: the conversation is the one step
`Configure`, at its last line. Until then the manager's view has the port closed
and, if the firmware was loaded in this call, the bootloader still running. So
the outcomes of `SpikeInterface!OnConfigure`, on which the proofs about the
base programs rest too, are those that the conversation has, and faults in its
middle are faults before the step. This too is proved (section 4).

## 4. The proofs

All theorems are about `Spec` for every value of the constants under the named
assumptions of the modules, and use no liveness.

**RequestHandlerProof** (any number of requests, any counter wider than it, any
number of frames, with or without `WeakMemory`): `TypeCorrect`,
`AssertionHolds` (`NeverThrows`), `BuffersExclusive`, `RequestsKept`
(`NoRequestLost`), `CounterCorrect`, `WakeupCorrect`.
- `Ownership` is the invariant behind the first ones: a raised flag means that
  the request is complete, or pending in the one place between `reuse()` and
  the clearing of its flag; the request in `handle()` has no flag; the request
  in `execute()` is complete or, further on, pending. None of the properties is
  inductive without it: the assertion, for one, depends on the camera not
  owning a flagged request.
- `CounterCorrect` is arithmetic on cardinalities (`FlagRaised`, `FlagLowered`):
  each of the steps that changes a flag, the counter or one of the two places
  changes both sides alike, modulo the wrap.
- `WakeupCorrect` needs more than the sleeping state: `WakeupPending` says that
  any flag the executor has already *passed by*, at any place of the scan, has
  a wake-up on its way. When `is_ready()` sees zero, `CounterExact` implies that
  the only flag that may be up is one not counted yet, whose trigger is due.

**CameraControlsProof** (any controls, values, lists, requests and width):
`TypeCorrect`, `ControlsReachCamera` (`NumberCoversControls`) and
`BatchesReachCameraWhole` (`BatchesNotTorn`). `LagExact` ties the wrapping
numbers to the ghosts, so that equal numbers mean no missed bump; `Covered`
says what an up-to-date number stands for in the states between the steps;
`AllUniform` is the strengthening for the batches.

**BaseProgramsProof** (any speed range and length of the drive, any order of
programs, deaths, and behaviour of the device): `TypeCorrect`, `MotionOwned`
(`MotionHasOwner`), `TwistFollowed` (`BodyFollowsTwist`) under the assumption that
no joint is reversed, which is how `init_hardware_interface()` sets the interface
up, and `DemoReturnsStopped` (`ReturnedStopped`). `Idle` is what `MotionHasOwner`
needs to be inductive: one program runs at a time, a bootloader turns no motor
(`on_configure` may change what the HAT runs), and a process that is down has
written no command. `ReturnInv` adds what a zero exit code stands for on the way
to the return statement.

**CaptureNodeProof** (any nodes, cameras, streams, buffers, formats, sizes and
padding): `TypeCorrect`, `NodesDoNotShare` (`StartedNodeStreams`) and
`CamerasAreStopped` (`RunningHasNode`), each the other's induction hypothesis in
`CameraInv`; `GoneKeeps` is the common part of a constructor that throws and a
destructor. `HandlersAreOwn` (`OwnHandlerOnly`) needs `SignalInv`: the nodes a
camera is connected to are the loaded nodes on it, at most one if it is not
relet, and then it does not dangle. `MessagesMatch` (`MessageMatches`) needs
`MessageInv`: what was published is a message that the handler of the filled
buffer's stream makes of that very buffer's mapping; `PublishOwn` has this from
`BufferInv`, and the rest is arithmetic over the rows of the map, for any planes
and in builds with and without assertions. `BufferInv`, which says how far
`buffer_ctx`, the cookies and the handlers have grown after each `AddStream`, is
also behind `CookiesAreRight` (`CookiesResolve`).

**SpawnRobotProof** (any spawners, names and launches): `TypeCorrect`,
`ExitCodesTrue` (`ExitCodeTrue`), `TwinsOnlyRaced` (`TwinsHaveRaced`). A launch is
known by the requests it has sent: nothing of a launch that has not begun is on
its way (`NothingEarly`), each request and each reply exists once (`AskedOnce`),
a reply says what the simulator did (`RepliesTrue`), and a program that has ended
without a timeout leaves no request behind (`NothingLeft`). For the twins,
`SceneWithout` adds that the scene a creator was shown did not have its name.

**HandshakeProof** (any limits of the loops, speeds and talk of the HAT):
`TypeCorrect`, `PortIsReleased` (`PortReleased`), `NoStrayMotion`
(`MotionMeansActive`), `SuccessMeansFirmware` (`ArmedMeansFirmware`) and
`ConversationIsOneCall` (`ImplementsManager`).
- `MotionInv` says for every line of the conversation who has the port and
  whether the motors can turn: the conversation talks to motors that stand
  still, so whatever exception or limit ends it may close the port.
- `FirmwareInv` follows what the component has reason to believe of the HAT
  through the lines it has read, and what it has not (`excused`).
- The simulation maps a conversation under way to the state before the step
  `Configure` (`Seen`), with one difference: firmware the call has loaded is a
  bootloader to the manager until the call ends. If the HAT ran its firmware
  already, which the call can overlook when a stale line of a bootloader is left
  in `buf`, a reboot before the end of the call is a restart the manager does not
  know of. The theorem therefore assumes that the device may fail at any time
  (`Faults`), the case in which `ControllerManager` has the step `HatRestarts`;
  the invariants above need no such assumption.

**StatusReaderProof** (any size of the buffer, cuts of the chunks, number of
lines and configurations): `TypeCorrect`, `VelocitiesInOrder` (`NeverOlder`),
`ZeroIsKept` (`ZeroKept`), `OneChunkIsFaithful` (`OneChunkFaithful`).
- `OrderInv`: the port gives out its lines in order (`SerialSorted`), nothing the
  component has kept is younger than what still waits there (`KeptIsPast`), and
  during a call all that its buffer and locals hold lies between the two
  (`HeldIsBetween`); positions are not older than their zeros (`PositionsFollow`).
  `NeverOlder` alone is not inductive: a cut line joins the tail of an earlier
  chunk, and it takes the bounds on all of the buffer to know its age.
- `LinesInv`: the port holds whole lines between calls, and the first chunk of a
  call is a prefix of them (`WholeLines`, `EmptyBefore`, `FirstChunk`); with
  `LineIsFound` the last separators of the chunk enclose one of these lines.
- `MeasuredOwn`: a zero that was read in one chunk is its wheel's position with its
  direction. At the end of `on_configure()` this is what `LinesInv` says of the one
  chunk; an exception leaves no wheel measured. With `PositionsFollow` it is
  `ZeroKept`.

**The step simulation of FrameCycle** (`CycleImplemented` in RequestHandlerProof):
every step of `RequestHandler` is a step of `FrameCycle` or a stutter. `FrameInv`
holds what the mapping needs: requests hold different frames (`FramesDistinct`),
which are completed in the order they were queued in (`FramesInOrder`), every frame
from that of a request on its way to the newest is held by some request
(`FramesHeld`), so that there are fewer than `NumRequests` younger ones
(`FewYounger`, a pigeonhole argument), and a request the scan comes to later is
behind by less than that (`OvertakenOnce`). It assumes `~WeakMemory`: a stale stamp
makes `execute()` publish an old number for a new frame, which is the data race
that `capture_threads` shows and `FrameCycle` does not allow.

**EdgeDetectProof** (any odd symmetric kernel, image, number of rays, thresholds,
widths, and any width of `size_t`): `TypeCorrect`, `ValueIsResponse`
(`FilterIsResponse`), `RangesAreConfirmed` (`RangesConfirmed`) and
`ClipsAreExact` (`ClipExact`).
- The sums of the filter are functions that recursion defines over the numbers up
  to a bound. `Recursion` shows that there is such a function, `SumsAgree` that
  there is one only, `SumShift` and `SumReverse` move its window and turn it
  round; they rest on `UpTo`, induction over a set instead of a predicate.
- `LineInv` says what the ring buffer holds: the last `N` samples, each at its
  index modulo `N` (`RingHolds`). `FilteredIs` splits the filter's sum into the
  part under the smoothing kernel and the part under the same kernel two samples
  later, each at most 255 times the sum of the weights, so no partial sum
  saturates; `WindowUnderKernel` finds the two smoothed values of the reference
  in them, the symmetric kernel read backwards.
- `RayInv` has the scan of a ray in progress: the stripes found are those of the
  pixels passed so far, in their order, and `entry` is the fall a next rise will
  end (`Scanned`, kept by `ScanFall`, `ScanRiseOutside` and `ScanRiseInside`); the
  comparison has come as far as the stripes, or as the ray before has stripes, or
  has found the first that fits (`Compared`). `RoundAddsPixel` shows that a round
  adds the iterator's pixel to the falls or to the rises of the image, and no
  other: that is where the filter's theorem is needed.
- `Confirmed` has the rays of the frame that are done, and `prev_ray` as what the
  last of them that met the image has seen (`LastSeen`), through any number of
  rays that missed it.
- `ClipsAreExact` holds for an image of any size. `Ticks` counts fractions along
  the ray in whole steps of `1 / L`, in which order (`TicksOrder`), the edges
  (`EdgeAhead`) and the coordinates (`Axis`, `SameCoordinate`) are linear because
  directions are of -2 .. 2; the latest crossing of an edge the ray enters at and
  the earliest of one it leaves at (`LatestIs`, `EarliestIs`) then bound exactly
  the ticks at which it is ahead of all four (`ClipIs`), and `RoundedIn` keeps
  their pixels in the image. `ClipIsExact` is the same for a start anywhere.
- Assumed of the constants: brightness times the sum of the weights fits `int16_t`
  (`KernelAssumption`; 255 * 97 for the program's kernel), the numbers of pixels
  leave room in a `size_t` (`CountAssumption`), clips are as long as `Counts`
  allows (`RayAssumption`), and `None` is no number, sequence or clip.

Only model-checked: liveness and the fairness part of the refinements
(`EveryRequestRequeued`, `StopReturns`, `SettingsConverge`, `ConfigureReturns`, the
fairness in `FrameCycle!FairSpec`), which are out of the prover's reach, and the
three properties of section 5, which the code violates. Every invariant of a
passing run is a theorem.

## 5. Where the code differs from what it says

- `degraded_exit`: the comment at DD:37 promises that the interface's
  destructor stops the motors and closes the port. A node whose `on_configure`
  could not open the port runs on without hardware (DD:21); when it is stopped,
  that destructor calls `on_cleanup()` (SI:126), whose write to the closed port
  throws out of a destructor: `std::terminate`.
- `reactivation`: the package's README (lines 26-27) says that `write()` writes the
  commands to the serial port. `on_deactivate()` closes the port and
  `on_activate()` (SI:473) does not open it: after deactivate and activate the
  component is active and each `write()` throws.
- `stale_feedback`: the same README (lines 28-29) says that `read()` parses the
  status lines to update position and velocity. It parses the whole buffer
  whatever was received (SI:222): after a full chunk and a short one, a cut line
  is joined with the tail of the first chunk, and the velocity of one line is
  published with the position of another.

Some properties hold only with an exception that their comments name. No text in
the repository promises more, so these are not listed as divergences; a
maintainer may want to know of them all the same: a stale answer in the global
`buf` decides the next `on_configure()` (`ArmedMeansFirmware`); a SUCCESS after
four empty lines; exceptions that leave `on_configure()` and `read()`, since only
`std::runtime_error` and `std::invalid_argument` are caught
(`UnconfiguredMeansClosed`, `ZeroKept`); an offset that is negated twice
(`ZeroKept`); handlers that stay connected (`OwnHandlerOnly`); a failed node that
stops another one's camera (`StartedNodeStreams`); `ARGB8888` as `BGRA16`, and a
blank frame for a JPEG without a readable header; an `assert` about the camera's
data (SH:141), so that a JPEG of another size ends the container, or, since CMake
sets no build type, is published with metadata that do not fit
(`MessageMatches`); a refused creation that counts as success (`ExitCodeTrue`).

## 6. What is not modelled

- The bytes of the firmware image and its checksum: the bootloader may accept
  it or not.
- Characters: units, formatting, and cuts inside of a number that leave another
  number, which are the errors of a cut line once more. The conversions of
  the control types are values or an exception.
- Floating point: the homography, and `num_rays = 1`, which divides by zero
  (RL:105). Rays are clipped on a grid; widths are measured as if the rays were
  parallel. The Gaussian kernel is evaluated by the compiler; its values are a
  constant. The timing recorder is a ring of durations for a log message.
- Pixels, topics, and the system calls that map buffers into memory: planes with
  different descriptors, an invalid offset and a failed `mmap` are among the ways
  `Throw` ends a constructor. How the planes' size relates to the image is not
  modelled, since the code does not look at it.
- Errors of `queueRequest()` other than the refusal of a request that is not
  pending: such a request leaves the cycle, and nothing in the code brings it back.
- The byte that the last increment reads behind a line: it is not used, and what
  memory it lies in is not modelled.
- Clocks and stamps; frames with an error status, which are published as any
  other.
- What happens when a camera calls a handler that is gone.
- A watchdog for cmd_vel: the code has none, and nothing in it bounds the age of
  a command.
- `TransportNode`: one callback without state. `interface_utils.hpp`: conversions
  of strings at start-up; `OnInit` may fail for them. The robot description and
  the launch files other than spawn_robot's: data.

## 7. Plan

All components with state of their own are modelled, and every safety property
that a passing run checks is proved. What could be taken further: `ClipExact` for
directions of any size, whose ticks are then products of two variables, and the
lengths of clips, which `RayAssumption` states and TLC evaluates for its instance
only: a clip is never longer than the image is wide or high.
