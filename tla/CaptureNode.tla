---------------------------- MODULE CaptureNode -----------------------------
(* Capture nodes that a component container loads and unloads, one after the *)
(* other: CaptureNode's constructor and destructor, the shared camera manager*)
(* (tuw_libcamera/src/capture/capture_node.cpp) and the bookkeeping of       *)
(* buffers in RequestHandler::add_stream(), with what the stream handlers    *)
(* publish.  libcamera's cameras are modelled from the calls: each has a     *)
(* state, which refuses calls out of order, and a signal, whose slots live as*)
(* long as the camera.                                                       *)
EXTENDS StreamHandlers, Sequences

CONSTANTS
    Nodes,
    Cameras,
    NumStreams,     \* stream_roles.size()
    Formats,        \* bound: the pixel formats of each stream
    Targets,        \* bound: target_format of the streams, "" for any
    MaxBuffers,     \* bound: buffers a stream is given
    Planes,         \* bound: the planes of the buffers of each stream
    None

ASSUME StreamsAssumption == NumStreams \in Nat \ {0}
ASSUME BuffersAssumption == MaxBuffers \in Nat
ASSUME FormatsAssumption ==
    Formats \in [1 .. NumStreams -> SUBSET {m.pixel : m \in FORMAT_MAP}]
ASSUME PlanesAssumption ==
    \A s \in 1 .. NumStreams : Planes[s] \subseteq [offset : Nat, length : Nat]
ASSUME NoneAssumption == None \notin Nodes \cup Cameras

VARIABLES
    step,           \* [Nodes -> how far the constructor has got]
    camera,
    started,        \* [Nodes -> whether camera->start() was accepted]
    num_requests,
    config,         \* [Nodes -> the pixel formats of the streams]
    stream_handlers,
    buffer_ctx,
    cookie,         \* [Nodes -> the cookies of the buffers of each stream]
    state,          \* [Cameras -> libcamera's state of the camera]
    connected,      \* [Cameras -> the nodes whose handler requestCompleted calls]
    dangling,       \* cameras whose signal also calls a handler that is gone
    message,        \* the last one sent, as long as no node goes; ghosts: the
                    \* buffer the camera has filled and its stream's format, and
                    \* the mapping that was copied
    user,           \* ghost: [Cameras -> the node it streams for]
    disturbed,      \* ghost: nodes whose camera the unloading of another stopped
    relet           \* ghost: cameras that a second node has connected to

nodeVars == <<step, camera, started, num_requests, config, stream_handlers,
              buffer_ctx, cookie>>
signalVars == <<connected, dangling, relet>>
vars == <<nodeVars, signalVars, state, message, user, disturbed>>

-----------------------------------------------------------------------------
Streams == 1 .. NumStreams

Constructing(n) == step[n] \notin {"none", "loaded"}
Busy == \E n \in Nodes : Constructing(n)

(* Slip: the static pointer owns the manager.                                *)
LastHolder_Static(n) == FALSE

(* The manager lives as long as a node holds it, and the cameras with it.    *)
LastHolder(n) == \A m \in Nodes \ {n} : step[m] = "none"

Init ==
    /\ step = [n \in Nodes |-> "none"]
    /\ camera = [n \in Nodes |-> None]
    /\ started = [n \in Nodes |-> FALSE]
    /\ num_requests = [n \in Nodes |-> 0]
    /\ config = [n \in Nodes |-> <<>>]
    /\ stream_handlers = [n \in Nodes |-> <<>>]
    /\ buffer_ctx = [n \in Nodes |-> <<>>]
    /\ cookie = [n \in Nodes |-> <<>>]
    /\ state = [c \in Cameras |-> "Available"]
    /\ connected = [c \in Cameras |-> {}]
    /\ dangling = {}
    /\ message = None
    /\ user = [c \in Cameras |-> None]
    /\ disturbed = {}
    /\ relet = {}

(* init_camera_manager().                                                    *)
Load(n) ==
    /\ ~Busy /\ step[n] = "none"
    /\ step' = [step EXCEPT ![n] = "manager"]
    /\ UNCHANGED <<camera, started, num_requests, config, stream_handlers,
                   buffer_ctx, cookie, signalVars, state, message, user, disturbed>>

(* camera->acquire() is refused for a camera that is not available, which    *)
(* the node does not notice.                                                 *)
AcquireCamera(n, c) ==
    /\ step[n] = "manager"
    /\ camera' = [camera EXCEPT ![n] = c]
    /\ state' = [state EXCEPT ![c] = IF @ = "Available" THEN "Acquired" ELSE @]
    /\ step' = [step EXCEPT ![n] = "acquired"]
    /\ UNCHANGED <<started, num_requests, config, stream_handlers, buffer_ctx,
                   cookie, signalVars, message, user, disturbed>>

(* Slip: a camera that runs is stopped to be configured.                     *)
ConfigureCamera_StopsFirst(n, formats) ==
    /\ step[n] = "acquired"
    /\ state' = [state EXCEPT ![camera[n]] = "Configured"]
    /\ config' = [config EXCEPT ![n] = formats]
    /\ step' = [step EXCEPT ![n] = "configured"]
    /\ UNCHANGED <<camera, started, num_requests, stream_handlers, buffer_ctx,
                   cookie, signalVars, message, user, disturbed>>

(* camera->configure() refuses a camera that runs: the node throws.  The     *)
(* camera may have adjusted the formats asked for.                           *)
ConfigureCamera(n, formats) ==
    /\ step[n] = "acquired"
    /\ state[camera[n]] \in {"Acquired", "Configured"}
    /\ state' = [state EXCEPT ![camera[n]] = "Configured"]
    /\ config' = [config EXCEPT ![n] = formats]
    /\ step' = [step EXCEPT ![n] = "configured"]
    /\ UNCHANGED <<camera, started, num_requests, stream_handlers, buffer_ctx,
                   cookie, signalVars, message, user, disturbed>>

(* Each stream has been given size[s] buffers; the stream with the fewest    *)
(* limits the number of requests, and none is not enough.                    *)
AllocateBuffers(n, size) ==
    /\ step[n] = "configured"
    /\ num_requests' = [num_requests EXCEPT ![n] = Min({size[s] : s \in Streams})]
    /\ num_requests'[n] > 0
    /\ step' = [step EXCEPT ![n] = "allocated"]
    /\ UNCHANGED <<camera, started, config, stream_handlers, buffer_ctx, cookie,
                   signalVars, state, message, user, disturbed>>

(* Slip: the cookie of a buffer is the index of its request.                 *)
AddStream_CookieOfRequest(n, m) ==
    LET s == Len(stream_handlers[n]) + 1
        requests == 1 .. num_requests[n]
    IN
    /\ step[n] = "allocated" /\ s \in Streams
    /\ \E target \in Targets : m \in get_format_mapping(config[n][s], target)
    /\ cookie' = [cookie EXCEPT ![n] = Append(@, [r \in requests |-> r - 1])]
    /\ buffer_ctx' = [buffer_ctx EXCEPT ![n] =
                         @ \o [r \in requests |-> [stream |-> s, buffer |-> r]]]
    /\ stream_handlers' = [stream_handlers EXCEPT ![n] = Append(@, m)]
    /\ UNCHANGED <<step, camera, started, num_requests, config, signalVars, state,
                   message, user, disturbed>>

(* Slip: the cookie is taken after the buffer has been added.                *)
AddStream_AddedFirst(n, m) ==
    LET s == Len(stream_handlers[n]) + 1
        first == Len(buffer_ctx[n])
        requests == 1 .. num_requests[n]
    IN
    /\ step[n] = "allocated" /\ s \in Streams
    /\ \E target \in Targets : m \in get_format_mapping(config[n][s], target)
    /\ cookie' = [cookie EXCEPT ![n] = Append(@, [r \in requests |-> first + r])]
    /\ buffer_ctx' = [buffer_ctx EXCEPT ![n] =
                         @ \o [r \in requests |-> [stream |-> s, buffer |-> r]]]
    /\ stream_handlers' = [stream_handlers EXCEPT ![n] = Append(@, m)]
    /\ UNCHANGED <<step, camera, started, num_requests, config, signalVars, state,
                   message, user, disturbed>>

(* add_stream() for the next stream, whose format is mapped by m: its buffers*)
(* are mapped to memory, and each has the index of its mapping as cookie.    *)
AddStream(n, m) ==
    LET s == Len(stream_handlers[n]) + 1
        first == Len(buffer_ctx[n])
        requests == 1 .. num_requests[n]
    IN
    /\ step[n] = "allocated" /\ s \in Streams
    /\ \E target \in Targets : m \in get_format_mapping(config[n][s], target)
    /\ cookie' = [cookie EXCEPT ![n] =
                     Append(@, [r \in requests |-> first + r - 1])]
    /\ buffer_ctx' = [buffer_ctx EXCEPT ![n] =
                         @ \o [r \in requests |-> [stream |-> s, buffer |-> r]]]
    /\ stream_handlers' = [stream_handlers EXCEPT ![n] = Append(@, m)]
    /\ UNCHANGED <<step, camera, started, num_requests, config, signalVars, state,
                   message, user, disturbed>>

(* The request handler is connected.  camera->start() may fail, or be        *)
(* refused, and the node does not notice: its requests are refused as well.  *)
Start(n, accepted) ==
    LET c == camera[n] IN
    /\ step[n] = "allocated" /\ Len(stream_handlers[n]) = NumStreams
    /\ accepted => state[c] = "Configured"
    /\ connected' = [connected EXCEPT ![c] = @ \cup {n}]
    /\ relet' = IF connected[c] = {} THEN relet ELSE relet \cup {c}
    /\ state' = IF accepted THEN [state EXCEPT ![c] = "Running"] ELSE state
    /\ user' = IF accepted THEN [user EXCEPT ![c] = n] ELSE user
    /\ started' = [started EXCEPT ![n] = accepted]
    /\ step' = [step EXCEPT ![n] = "loaded"]
    /\ UNCHANGED <<camera, num_requests, config, stream_handlers, buffer_ctx,
                   cookie, dangling, message, disturbed>>

(* The members of a node go; with the last node the manager, its cameras and *)
(* their signals.  Nothing disconnects a handler from a camera that stays.   *)
Gone(n, s, u) ==
    LET served == {c \in Cameras : n \in connected[c]}
        kept == \E m \in Nodes \ {n} : step[m] # "none"
    IN
    /\ step' = [step EXCEPT ![n] = "none"]
    /\ camera' = [camera EXCEPT ![n] = None]
    /\ started' = [started EXCEPT ![n] = FALSE]
    /\ num_requests' = [num_requests EXCEPT ![n] = 0]
    /\ config' = [config EXCEPT ![n] = <<>>]
    /\ stream_handlers' = [stream_handlers EXCEPT ![n] = <<>>]
    /\ buffer_ctx' = [buffer_ctx EXCEPT ![n] = <<>>]
    /\ cookie' = [cookie EXCEPT ![n] = <<>>]
    /\ state' = IF LastHolder(n) THEN [c \in Cameras |-> "Available"] ELSE s
    /\ user' = IF LastHolder(n) THEN [c \in Cameras |-> None] ELSE u
    /\ connected' = [c \in Cameras |->
                        IF LastHolder(n) THEN {} ELSE connected[c] \ {n}]
    /\ dangling' = IF LastHolder(n) THEN {} ELSE dangling \cup served
    /\ relet' = IF kept THEN relet \cup served ELSE {}
    /\ message' = None

(* The constructor may throw until it connects the camera: no cameras, no    *)
(* such camera, no valid configuration, no buffers, a format without a       *)
(* handler or a buffer that cannot be mapped.  The destructor does not run:  *)
(* the camera keeps its state.                                               *)
Throw(n) ==
    /\ Constructing(n)
    /\ Gone(n, state, user)
    /\ UNCHANGED disturbed

(* Slip: the destructor only releases the camera, which is refused while it  *)
(* runs.                                                                     *)
Unload_ReleaseOnly(n) ==
    LET c == camera[n] IN
    /\ ~Busy /\ step[n] = "loaded"
    /\ disturbed' = disturbed \ {n}
    /\ Gone(n, [state EXCEPT ![c] = IF @ = "Running" THEN @ ELSE "Available"], user)

(* The destructor stops and releases the camera, whoever runs it.            *)
Unload(n) ==
    LET c == camera[n] IN
    /\ ~Busy /\ step[n] = "loaded"
    /\ disturbed' = (disturbed \cup {user[c]}) \ {n, None}
    /\ Gone(n, [state EXCEPT ![c] = "Available"], [user EXCEPT ![c] = None])

(* Requests of node n complete.                                              *)
Streaming(n) == \E c \in Cameras : state[c] = "Running" /\ user[c] = n

(* Slip: a buffer is looked up by the number of its request.                 *)
Mapping_OfRequest(n, s, r) == buffer_ctx[n][r]

(* What the cookie of a completed buffer, that of stream s in request r,     *)
(* leads to: a mapping, which knows the index of a stream.                   *)
Mapping(n, s, r) == buffer_ctx[n][cookie[n][s][r] + 1]

(* The handler of the stream of the mapping publishes it.                    *)
Publish(n, s, r) ==
    LET ctx == Mapping(n, s, r) IN
    /\ Streaming(n) /\ r <= num_requests[n]
    /\ \E sent \in Messages(stream_handlers[n][ctx.stream],
                            MappedSize(Planes[ctx.stream])) :
           message' = [sent |-> sent, copied |-> ctx, format |-> config[n][s],
                       filled |-> [stream |-> s, buffer |-> r]]
    /\ UNCHANGED <<nodeVars, signalVars, state, user, disturbed>>

(* The assertion of a decoding handler ends the container and all its nodes; *)
(* it is started anew.                                                       *)
Abort(n, s, r) ==
    /\ Streaming(n) /\ r <= num_requests[n]
    /\ MayAbort(stream_handlers[n][Mapping(n, s, r).stream])
    /\ step' = [m \in Nodes |-> "none"]
    /\ camera' = [m \in Nodes |-> None]
    /\ started' = [m \in Nodes |-> FALSE]
    /\ num_requests' = [m \in Nodes |-> 0]
    /\ config' = [m \in Nodes |-> <<>>]
    /\ stream_handlers' = [m \in Nodes |-> <<>>]
    /\ buffer_ctx' = [m \in Nodes |-> <<>>]
    /\ cookie' = [m \in Nodes |-> <<>>]
    /\ state' = [c \in Cameras |-> "Available"]
    /\ connected' = [c \in Cameras |-> {}]
    /\ dangling' = {}
    /\ message' = None
    /\ user' = [c \in Cameras |-> None]
    /\ disturbed' = {}
    /\ relet' = {}

StreamFormats == {f \in [Streams -> UNION {Formats[s] : s \in Streams}] :
                     \A s \in Streams : f[s] \in Formats[s]}

Next ==
    \E n \in Nodes :
        \/ Load(n)
        \/ \E c \in Cameras : AcquireCamera(n, c)
        \/ \E formats \in StreamFormats : ConfigureCamera(n, formats)
        \/ \E size \in [Streams -> 0 .. MaxBuffers] : AllocateBuffers(n, size)
        \/ \E m \in FORMAT_MAP : AddStream(n, m)
        \/ \E accepted \in BOOLEAN : Start(n, accepted)
        \/ Throw(n)
        \/ Unload(n)
        \/ \E s \in Streams, r \in 1 .. MaxBuffers : Publish(n, s, r)
        \/ \E s \in Streams, r \in 1 .. MaxBuffers : Abort(n, s, r)

Spec == Init /\ [][Next]_vars

-----------------------------------------------------------------------------
BufferIds == [stream : Streams, buffer : 1 .. MaxBuffers]
SentMessages ==
    UNION {Messages(m, MappedSize(Planes[s])) : m \in FORMAT_MAP, s \in Streams}

(* Every variable has its type.                                              *)
TypeOK ==
    /\ step \in [Nodes -> {"none", "manager", "acquired", "configured",
                           "allocated", "loaded"}]
    /\ camera \in [Nodes -> Cameras \cup {None}]
    /\ started \in [Nodes -> BOOLEAN]
    /\ num_requests \in [Nodes -> 0 .. MaxBuffers]
    /\ config \in [Nodes -> StreamFormats \cup {<<>>}]
    /\ stream_handlers \in [Nodes -> Seq(FORMAT_MAP)]
    /\ buffer_ctx \in [Nodes -> Seq(BufferIds)]
    /\ cookie \in [Nodes -> Seq(Seq(0 .. NumStreams * MaxBuffers - 1))]
    /\ state \in [Cameras -> {"Available", "Acquired", "Configured", "Running"}]
    /\ connected \in [Cameras -> SUBSET Nodes]
    /\ dangling \subseteq Cameras
    /\ message \in [sent : SentMessages, copied : BufferIds, filled : BufferIds,
                   format : UNION {Formats[s] : s \in Streams}] \cup {None}
    /\ user \in [Cameras -> Nodes \cup {None}]
    /\ disturbed \subseteq Nodes
    /\ relet \subseteq Cameras

(* Although the result of acquire() is dropped, two nodes never share a      *)
(* camera: a node whose start() was accepted streams until it is unloaded,   *)
(* also while others try to load on its camera.  The one exception is a node *)
(* whose camera was taken over, or that never got it: when it is unloaded,   *)
(* its destructor stops the camera under the node that has it.               *)
StartedNodeStreams ==
    \A n \in Nodes :
        step[n] = "loaded" /\ started[n] =>
            \/ state[camera[n]] = "Running" /\ user[camera[n]] = n
            \/ n \in disturbed

(* A camera streams for a loaded node only: unloading leaves none running    *)
(* with requests of a node that is gone, and neither does a load that fails. *)
RunningHasNode ==
    \A c \in Cameras :
        state[c] = "Running" =>
            \E n \in Nodes :
                /\ user[c] = n
                /\ step[n] = "loaded" /\ started[n] /\ camera[n] = c

(* A running camera calls the handler of the node it streams for.  It calls  *)
(* no other, and none that is gone, although the destructor disconnects      *)
(* nothing: the camera goes with the last node.  Excepted are cameras that a *)
(* second node has used, or connected to in vain, while some node kept the   *)
(* manager: their signal still calls the handlers of the nodes before        *)
(* (capture_node.cpp:88).                                                    *)
OwnHandlerOnly ==
    \A c \in Cameras :
        state[c] = "Running" =>
            /\ user[c] \in connected[c]
            /\ c \notin relet => connected[c] = {user[c]} /\ c \notin dangling

(* When a request completes, the cookie of each of its buffers leads to the  *)
(* mapping of that very buffer and to the handler of its stream, also when   *)
(* the streams have been given different numbers of buffers.                 *)
CookiesResolve ==
    \A n \in Nodes :
        step[n] = "loaded" =>
            \A s \in Streams, r \in 1 .. num_requests[n] :
                LET k == cookie[n][s][r] + 1 IN
                /\ k \in 1 .. Len(buffer_ctx[n])
                /\ buffer_ctx[n][k] = [stream |-> s, buffer |-> r]
                /\ stream_handlers[n][buffer_ctx[n][k].stream].pixel = config[n][s]

(* A message is of the buffer that the camera has filled, and describes it by*)
(* the format of the stream that the buffer belongs to, whatever streams and *)
(* buffers the node has; an image has rows long enough for its encoding, and *)
(* one that was decoded has all its rows, whatever the JPEG was.  How many   *)
(* rows a direct image has is what the camera maps, which nothing compares   *)
(* with the height (stream_handler.cpp:48).  Excepted are ARGB8888, which is *)
(* mapped to an encoding of 16 bits among the formats of 8 bits              *)
(* (convert.cpp:36-38), so that half of each row is missing, and decoded     *)
(* images of a build without assertions.                                     *)
MessageMatches ==
    message # None =>
        LET image == message.sent
            rows_fit == image.width * EncodingBytes(image.encoding) <= image.step
        IN
        /\ message.copied = message.filled
        /\ image.pixel = message.format
        /\ "encoding" \in DOMAIN image =>
               /\ image.pixel \notin {"ARGB8888", "MJPEG"} => rows_fit
               /\ image.pixel = "MJPEG" /\ ~NDebug =>
                      rows_fit /\ image.data = image.step * image.height

=============================================================================
