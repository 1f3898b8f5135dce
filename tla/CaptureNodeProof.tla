-------------------------- MODULE CaptureNodeProof --------------------------
(* Proofs about CaptureNode, for any number of nodes, cameras, streams and   *)
(* buffers: nodes do not share a camera, none is left running, a camera calls*)
(* its own node's handler, and what is published can be indexed.             *)
EXTENDS CaptureNode, WellFoundedInduction, TLAPS

(* The part of the type invariant that the cameras' states rest on.          *)
CameraTypes ==
    /\ step \in [Nodes -> {"none", "manager", "acquired", "configured",
                           "allocated", "loaded"}]
    /\ camera \in [Nodes -> Cameras \cup {None}]
    /\ started \in [Nodes -> BOOLEAN]
    /\ state \in [Cameras -> {"Available", "Acquired", "Configured", "Running"}]
    /\ user \in [Cameras -> Nodes \cup {None}]
    /\ disturbed \subseteq Nodes

(* A node that has got past acquire_camera() has a camera.                   *)
HasCamera == \A n \in Nodes : step[n] \notin {"none", "manager"} => camera[n] \in Cameras

CameraInv == CameraTypes /\ HasCamera /\ StartedNodeStreams /\ RunningHasNode

-----------------------------------------------------------------------------
LEMMA CameraInit == Init => CameraInv
BY DEF Init, CameraInv, CameraTypes, HasCamera, StartedNodeStreams, RunningHasNode

(* A constructor that throws or a destructor that ends leaves the invariant, *)
(* if the cameras' states it leaves suit the nodes that stay.                *)
LEMMA GoneKeeps ==
    ASSUME CameraInv, NEW n \in Nodes, NEW s, NEW u, Gone(n, s, u),
           disturbed' \subseteq Nodes,
           s \in [Cameras -> {"Available", "Acquired", "Configured", "Running"}],
           u \in [Cameras -> Nodes \cup {None}],
           \A m \in Nodes \ {n} :
               step[m] = "loaded" /\ started[m] =>
                   \/ s[camera[m]] = "Running" /\ u[camera[m]] = m
                   \/ m \in disturbed',
           \A c \in Cameras :
               s[c] = "Running" =>
                   \E m \in Nodes \ {n} :
                       /\ u[c] = m
                       /\ step[m] = "loaded" /\ started[m] /\ camera[m] = c
    PROVE  CameraInv'
<1>1. CameraTypes'
    BY DEF CameraInv, CameraTypes, Gone
<1>2. HasCamera'
    BY DEF CameraInv, CameraTypes, HasCamera, Gone
<1>3. StartedNodeStreams'
    <2> SUFFICES ASSUME NEW m \in Nodes, step'[m] = "loaded", started'[m]
                 PROVE  \/ state'[camera'[m]] = "Running" /\ user'[camera'[m]] = m
                        \/ m \in disturbed'
        BY DEF StartedNodeStreams
    <2>1. m # n /\ step[m] = "loaded" /\ started[m] /\ camera'[m] = camera[m]
        BY DEF CameraInv, CameraTypes, Gone
    <2>2. ~LastHolder(n)
        BY <2>1 DEF LastHolder
    <2>3. state' = s /\ user' = u
        BY <2>2 DEF Gone
    <2> QED BY <2>1, <2>3
<1>4. RunningHasNode'
    <2> SUFFICES ASSUME NEW c \in Cameras, state'[c] = "Running"
                 PROVE  \E m \in Nodes :
                            /\ user'[c] = m
                            /\ step'[m] = "loaded" /\ started'[m] /\ camera'[m] = c
        BY DEF RunningHasNode
    <2>1. state' = s /\ user' = u
        BY DEF Gone
    <2>2. PICK m \in Nodes \ {n} :
              u[c] = m /\ step[m] = "loaded" /\ started[m] /\ camera[m] = c
        BY <2>1
    <2> QED BY <2>1, <2>2 DEF Gone, CameraInv, CameraTypes
<1> QED BY <1>1, <1>2, <1>3, <1>4 DEF CameraInv

LEMMA CameraStep == CameraInv /\ [Next]_vars => CameraInv'
<1> SUFFICES ASSUME CameraInv, [Next]_vars PROVE CameraInv'
    OBVIOUS
<1> USE NoneAssumption
<1>1. ASSUME NEW n \in Nodes, Load(n) PROVE CameraInv'
    BY <1>1 DEF Load, CameraInv, CameraTypes, HasCamera, StartedNodeStreams,
            RunningHasNode
<1>2. ASSUME NEW n \in Nodes, NEW c \in Cameras, AcquireCamera(n, c) PROVE CameraInv'
    <2>1. CameraTypes'
        BY <1>2 DEF AcquireCamera, CameraInv, CameraTypes
    <2>2. HasCamera'
        BY <1>2 DEF AcquireCamera, CameraInv, CameraTypes, HasCamera
    <2>3. StartedNodeStreams'
        BY <1>2 DEF AcquireCamera, CameraInv, CameraTypes, HasCamera, StartedNodeStreams
    <2>4. RunningHasNode'
        BY <1>2 DEF AcquireCamera, CameraInv, CameraTypes, HasCamera, RunningHasNode
    <2> QED BY <2>1, <2>2, <2>3, <2>4 DEF CameraInv
<1>3. ASSUME NEW n \in Nodes, NEW formats \in StreamFormats, ConfigureCamera(n, formats)
      PROVE  CameraInv'
    <2>1. CameraTypes'
        BY <1>3 DEF ConfigureCamera, CameraInv, CameraTypes
    <2>2. HasCamera'
        BY <1>3 DEF ConfigureCamera, CameraInv, CameraTypes, HasCamera
    <2>3. StartedNodeStreams'
        BY <1>3 DEF ConfigureCamera, CameraInv, CameraTypes, HasCamera, StartedNodeStreams
    <2>4. RunningHasNode'
        BY <1>3 DEF ConfigureCamera, CameraInv, CameraTypes, HasCamera, RunningHasNode
    <2> QED BY <2>1, <2>2, <2>3, <2>4 DEF CameraInv
<1>4. ASSUME NEW n \in Nodes, NEW size \in [Streams -> 0 .. MaxBuffers],
             AllocateBuffers(n, size)
      PROVE  CameraInv'
    BY <1>4 DEF AllocateBuffers, CameraInv, CameraTypes, HasCamera, StartedNodeStreams,
            RunningHasNode
<1>5. ASSUME NEW n \in Nodes, NEW m \in FORMAT_MAP, AddStream(n, m) PROVE CameraInv'
    BY <1>5 DEF AddStream, CameraInv, CameraTypes, HasCamera, StartedNodeStreams,
            RunningHasNode
<1>6. ASSUME NEW n \in Nodes, NEW accepted \in BOOLEAN, Start(n, accepted)
      PROVE  CameraInv'
    <2>1. camera[n] \in Cameras
        BY <1>6 DEF Start, CameraInv, HasCamera
    <2>2. CameraTypes'
        BY <1>6, <2>1 DEF Start, CameraInv, CameraTypes
    <2>3. HasCamera'
        BY <1>6 DEF Start, CameraInv, CameraTypes, HasCamera
    <2>4. StartedNodeStreams'
        <3> SUFFICES ASSUME NEW m \in Nodes, step'[m] = "loaded", started'[m]
                     PROVE  \/ state'[camera'[m]] = "Running" /\ user'[camera'[m]] = m
                            \/ m \in disturbed'
            BY DEF StartedNodeStreams
        <3>1. CASE m = n
            BY <1>6, <2>1, <3>1 DEF Start, CameraInv, CameraTypes
        <3>2. CASE m # n
            <4>1. step[m] = "loaded" /\ started[m]
                BY <1>6, <3>2 DEF Start, CameraInv, CameraTypes
            <4>2. \/ state[camera[m]] = "Running" /\ user[camera[m]] = m
                  \/ m \in disturbed
                BY <4>1 DEF CameraInv, StartedNodeStreams
            <4> QED BY <1>6, <2>1, <4>1, <4>2
                    DEF Start, CameraInv, CameraTypes, HasCamera
        <3> QED BY <3>1, <3>2
    <2>5. RunningHasNode'
        <3> SUFFICES ASSUME NEW c \in Cameras, state'[c] = "Running"
                     PROVE  \E m \in Nodes :
                                /\ user'[c] = m
                                /\ step'[m] = "loaded" /\ started'[m] /\ camera'[m] = c
            BY DEF RunningHasNode
        <3>1. CASE accepted /\ c = camera[n]
            BY <1>6, <2>1, <3>1 DEF Start, CameraInv, CameraTypes
        <3>2. CASE ~(accepted /\ c = camera[n])
            <4>1. state[c] = "Running" /\ user'[c] = user[c]
                BY <1>6, <2>1, <3>2 DEF Start, CameraInv, CameraTypes
            <4>2. PICK m \in Nodes :
                      user[c] = m /\ step[m] = "loaded" /\ started[m] /\ camera[m] = c
                BY <4>1 DEF CameraInv, RunningHasNode
            <4> QED BY <1>6, <4>1, <4>2 DEF Start, CameraInv, CameraTypes
        <3> QED BY <3>1, <3>2
    <2> QED BY <2>2, <2>3, <2>4, <2>5 DEF CameraInv
<1>7. ASSUME NEW n \in Nodes, Throw(n) PROVE CameraInv'
    <2>1. step[n] # "loaded" /\ Gone(n, state, user) /\ UNCHANGED disturbed
        BY <1>7 DEF Throw, Constructing
    <2> QED BY <2>1, GoneKeeps DEF CameraInv, CameraTypes, StartedNodeStreams,
               RunningHasNode
<1>8. ASSUME NEW n \in Nodes, Unload(n) PROVE CameraInv'
    <2> DEFINE c == camera[n]
               s == [state EXCEPT ![c] = "Available"]
               u == [user EXCEPT ![c] = None]
    <2>1. c \in Cameras /\ Gone(n, s, u)
        BY <1>8 DEF Unload, CameraInv, HasCamera
    <2>2. disturbed' = (disturbed \cup {user[c]}) \ {n, None}
        BY <1>8 DEF Unload
    <2>3. disturbed' \subseteq Nodes
        BY <2>1, <2>2 DEF CameraInv, CameraTypes
    <2>4. /\ s \in [Cameras -> {"Available", "Acquired", "Configured", "Running"}]
          /\ u \in [Cameras -> Nodes \cup {None}]
        BY <2>1 DEF CameraInv, CameraTypes
    <2>5. ASSUME NEW m \in Nodes \ {n}, step[m] = "loaded", started[m]
          PROVE  \/ s[camera[m]] = "Running" /\ u[camera[m]] = m
                 \/ m \in disturbed'
        <3>1. \/ state[camera[m]] = "Running" /\ user[camera[m]] = m
              \/ m \in disturbed
            BY <2>5 DEF CameraInv, StartedNodeStreams
        <3>2. camera[m] \in Cameras /\ m # None
            BY <2>5 DEF CameraInv, HasCamera
        <3> QED BY <2>1, <2>2, <2>5, <3>1, <3>2 DEF CameraInv, CameraTypes
    <2>6. ASSUME NEW d \in Cameras, s[d] = "Running"
          PROVE  \E m \in Nodes \ {n} :
                     /\ u[d] = m
                     /\ step[m] = "loaded" /\ started[m] /\ camera[m] = d
        <3>1. d # c /\ state[d] = "Running" /\ u[d] = user[d]
            BY <2>1, <2>6 DEF CameraInv, CameraTypes
        <3> QED BY <3>1 DEF CameraInv, RunningHasNode
    <2> HIDE DEF s, u
    <2> QED BY <2>1, <2>3, <2>4, <2>5, <2>6, GoneKeeps
<1>9. ASSUME NEW n \in Nodes, NEW s \in Streams, NEW r \in 1 .. MaxBuffers,
             Publish(n, s, r) PROVE CameraInv'
    BY <1>9 DEF Publish, nodeVars, CameraInv, CameraTypes, HasCamera,
            StartedNodeStreams, RunningHasNode
<1>10. ASSUME NEW n \in Nodes, NEW s \in Streams, NEW r \in 1 .. MaxBuffers,
             Abort(n, s, r) PROVE CameraInv'
    BY <1>10 DEF Abort, CameraInv, CameraTypes, HasCamera, StartedNodeStreams,
            RunningHasNode
<1>11. CASE UNCHANGED vars
    BY <1>11 DEF vars, nodeVars, CameraInv, CameraTypes, HasCamera, StartedNodeStreams,
            RunningHasNode
<1> QED BY <1>1, <1>2, <1>3, <1>4, <1>5, <1>6, <1>7, <1>8, <1>9, <1>10, <1>11 DEF Next

-----------------------------------------------------------------------------
(* The signals: a camera calls the loaded nodes on it, and a second handler, *)
(* alive or gone, is on record.                                              *)
SignalInv ==
    /\ connected \in [Cameras -> SUBSET Nodes]
    /\ \A c \in Cameras : \A n \in connected[c] : step[n] = "loaded" /\ camera[n] = c
    /\ \A n \in Nodes : step[n] = "loaded" => n \in connected[camera[n]]
    /\ \A c \in Cameras : c \notin relet =>
           /\ c \notin dangling
           /\ \A m, n \in connected[c] : m = n

LEMMA SignalInit == Init => SignalInv
BY DEF Init, SignalInv

LEMMA SignalStep == CameraInv /\ SignalInv /\ [Next]_vars => SignalInv'
<1> SUFFICES ASSUME CameraInv, SignalInv, [Next]_vars PROVE SignalInv'
    OBVIOUS
<1> USE NoneAssumption
<1> USE DEF CameraInv, CameraTypes
<1>1. ASSUME NEW n \in Nodes, Load(n) PROVE SignalInv'
    BY <1>1 DEF Load, signalVars, SignalInv
<1>2. ASSUME NEW n \in Nodes, NEW c \in Cameras, AcquireCamera(n, c) PROVE SignalInv'
    BY <1>2 DEF AcquireCamera, signalVars, SignalInv
<1>3. ASSUME NEW n \in Nodes, NEW formats \in StreamFormats, ConfigureCamera(n, formats)
      PROVE  SignalInv'
    BY <1>3 DEF ConfigureCamera, signalVars, SignalInv
<1>4. ASSUME NEW n \in Nodes, NEW size \in [Streams -> 0 .. MaxBuffers],
             AllocateBuffers(n, size)
      PROVE  SignalInv'
    BY <1>4 DEF AllocateBuffers, signalVars, SignalInv
<1>5. ASSUME NEW n \in Nodes, NEW m \in FORMAT_MAP, AddStream(n, m) PROVE SignalInv'
    BY <1>5 DEF AddStream, signalVars, SignalInv
<1>6. ASSUME NEW n \in Nodes, NEW accepted \in BOOLEAN, Start(n, accepted)
      PROVE  SignalInv'
    <2>1. camera[n] \in Cameras
        BY <1>6 DEF Start, HasCamera
    <2>2. /\ connected' = [connected EXCEPT ![camera[n]] = @ \cup {n}]
          /\ step' = [step EXCEPT ![n] = "loaded"]
          /\ relet' = IF connected[camera[n]] = {} THEN relet ELSE relet \cup {camera[n]}
          /\ camera' = camera /\ dangling' = dangling
        BY <1>6 DEF Start
    <2>3. connected' \in [Cameras -> SUBSET Nodes]
        BY <2>1, <2>2 DEF SignalInv
    <2>4. \A c \in Cameras : \A m \in connected'[c] : step'[m] = "loaded" /\ camera'[m] = c
        BY <2>1, <2>2 DEF SignalInv
    <2>5. \A m \in Nodes : step'[m] = "loaded" => m \in connected'[camera'[m]]
        <3> SUFFICES ASSUME NEW m \in Nodes, step'[m] = "loaded"
                     PROVE  m \in connected'[camera'[m]]
            OBVIOUS
        <3>1. CASE m = n
            BY <2>1, <2>2, <3>1 DEF SignalInv
        <3>2. CASE m # n
            <4>1. step[m] = "loaded" /\ camera[m] \in Cameras
                BY <2>2, <3>2 DEF HasCamera
            <4> QED BY <2>1, <2>2, <4>1 DEF SignalInv
        <3> QED BY <3>1, <3>2
    <2>6. \A c \in Cameras : c \notin relet' =>
              c \notin dangling' /\ \A m, k \in connected'[c] : m = k
        <3> SUFFICES ASSUME NEW c \in Cameras, c \notin relet'
                     PROVE  c \notin dangling' /\ \A m, k \in connected'[c] : m = k
            OBVIOUS
        <3>1. c \notin relet
            BY <2>2
        <3>2. CASE c = camera[n]
            <4>1. connected[c] = {}
                BY <2>2, <3>2
            <4>2. connected'[c] = {n}
                BY <2>1, <2>2, <3>2, <4>1 DEF SignalInv
            <4> QED BY <2>2, <3>1, <4>2 DEF SignalInv
        <3>3. CASE c # camera[n]
            BY <2>1, <2>2, <3>1, <3>3 DEF SignalInv
        <3> QED BY <3>2, <3>3
    <2> QED BY <2>3, <2>4, <2>5, <2>6 DEF SignalInv
<1>7. ASSUME NEW n \in Nodes, NEW s, NEW u, Gone(n, s, u) PROVE SignalInv'
    <2>1. CASE LastHolder(n)
        <3>1. \A m \in Nodes : step'[m] = "none"
            BY <1>7, <2>1 DEF Gone, LastHolder
        <3>2. connected' = [c \in Cameras |-> {}] /\ dangling' = {}
            BY <1>7, <2>1 DEF Gone
        <3> QED BY <3>1, <3>2 DEF SignalInv
    <2>2. CASE ~LastHolder(n)
        <3>1. /\ connected' = [c \in Cameras |-> connected[c] \ {n}]
              /\ step' = [step EXCEPT ![n] = "none"]
              /\ camera' = [camera EXCEPT ![n] = None]
              /\ dangling' = dangling \cup {c \in Cameras : n \in connected[c]}
            BY <1>7, <2>2 DEF Gone
        <3>2. \E m \in Nodes \ {n} : step[m] # "none"
            BY <2>2 DEF LastHolder
        <3>3. relet' = relet \cup {c \in Cameras : n \in connected[c]}
            BY <1>7, <3>2 DEF Gone
        <3>4. connected' \in [Cameras -> SUBSET Nodes]
            BY <3>1 DEF SignalInv
        <3>5. \A c \in Cameras : \A m \in connected'[c] :
                  step'[m] = "loaded" /\ camera'[m] = c
            BY <3>1 DEF SignalInv
        <3>6. \A m \in Nodes : step'[m] = "loaded" => m \in connected'[camera'[m]]
            <4> SUFFICES ASSUME NEW m \in Nodes, step'[m] = "loaded"
                         PROVE  m \in connected'[camera'[m]]
                OBVIOUS
            <4>1. m # n /\ step[m] = "loaded" /\ camera'[m] = camera[m]
                BY <3>1
            <4>2. camera[m] \in Cameras
                BY <4>1 DEF HasCamera
            <4> QED BY <3>1, <4>1, <4>2 DEF SignalInv
        <3>7. \A c \in Cameras : c \notin relet' =>
                  c \notin dangling' /\ \A m, k \in connected'[c] : m = k
            BY <3>1, <3>3 DEF SignalInv
        <3> QED BY <3>4, <3>5, <3>6, <3>7 DEF SignalInv
    <2> QED BY <2>1, <2>2
<1>8. ASSUME NEW n \in Nodes, Throw(n) PROVE SignalInv'
    BY <1>7, <1>8 DEF Throw
<1>9. ASSUME NEW n \in Nodes, Unload(n) PROVE SignalInv'
    BY <1>7, <1>9 DEF Unload
<1>10. ASSUME NEW n \in Nodes, NEW s \in Streams, NEW r \in 1 .. MaxBuffers,
             Publish(n, s, r) PROVE SignalInv'
    BY <1>10 DEF Publish, nodeVars, signalVars, SignalInv
<1>11. ASSUME NEW n \in Nodes, NEW s \in Streams, NEW r \in 1 .. MaxBuffers,
             Abort(n, s, r) PROVE SignalInv'
    BY <1>11 DEF Abort, SignalInv
<1>12. CASE UNCHANGED vars
    BY <1>12 DEF vars, nodeVars, signalVars, SignalInv
<1> QED BY <1>1, <1>2, <1>3, <1>4, <1>5, <1>6, <1>8, <1>9, <1>10, <1>11, <1>12 DEF Next

LEMMA SignalMeansOwn == CameraInv /\ SignalInv => OwnHandlerOnly
<1> SUFFICES ASSUME CameraInv, SignalInv, NEW c \in Cameras, state[c] = "Running"
             PROVE  /\ user[c] \in connected[c]
                    /\ c \notin relet => connected[c] = {user[c]} /\ c \notin dangling
    BY DEF OwnHandlerOnly
<1>1. PICK n \in Nodes : user[c] = n /\ step[n] = "loaded" /\ camera[n] = c
    BY DEF CameraInv, RunningHasNode
<1>2. n \in connected[c]
    BY <1>1 DEF SignalInv
<1> QED BY <1>1, <1>2 DEF SignalInv

-----------------------------------------------------------------------------
(* The bookkeeping of the buffers.  What add_stream() has done for the       *)
(* streams so far: as many mappings as there are streams and requests, and   *)
(* for each buffer a cookie that is the index of its mapping.                *)
BufferTypes ==
    /\ num_requests \in [Nodes -> 0 .. MaxBuffers]
    /\ config \in [Nodes -> StreamFormats \cup {<<>>}]
    /\ stream_handlers \in [Nodes -> Seq(FORMAT_MAP)]
    /\ buffer_ctx \in [Nodes -> Seq(BufferIds)]
    /\ cookie \in [Nodes -> Seq(Seq(0 .. NumStreams * MaxBuffers - 1))]

(* How far a node is: no streams until the buffers are allocated, all of them*)
(* once it is loaded.                                                        *)
StreamsAdded(n) ==
    /\ Len(stream_handlers[n]) <= NumStreams
    /\ step[n] = "loaded" => Len(stream_handlers[n]) = NumStreams
    /\ step[n] \in {"configured", "allocated", "loaded"} => config[n] \in StreamFormats
    /\ step[n] \notin {"allocated", "loaded"} =>
           /\ stream_handlers[n] = <<>>
           /\ buffer_ctx[n] = <<>>
           /\ cookie[n] = <<>>

BuffersMapped(n) ==
    /\ Len(cookie[n]) = Len(stream_handlers[n])
    /\ Len(buffer_ctx[n]) = Len(stream_handlers[n]) * num_requests[n]
    /\ \A s \in 1 .. Len(stream_handlers[n]) :
           /\ stream_handlers[n][s].pixel = config[n][s]
           /\ \A r \in 1 .. num_requests[n] :
                  /\ cookie[n][s][r] + 1 \in 1 .. Len(buffer_ctx[n])
                  /\ buffer_ctx[n][cookie[n][s][r] + 1] = [stream |-> s, buffer |-> r]

BufferInv ==
    /\ BufferTypes
    /\ \A n \in Nodes : StreamsAdded(n) /\ BuffersMapped(n)

(* A set of natural numbers that is not empty has a smallest.                *)
LEMMA HasSmallest ==
    ASSUME NEW S \in SUBSET Nat, S # {}
    PROVE  Min(S) \in S /\ \A y \in S : Min(S) <= y
<1> DEFINE R == {p \in Nat \X Nat : p[1] < p[2]}
<1>1. IsWellFoundedOn(R, Nat)
    BY NatLessThanWellFounded, Zenon DEF OpToRel
<1>2. \A x, y \in Nat : y < x => <<y, x>> \in R
    OBVIOUS
<1> HIDE DEF R
<1>3. PICK x \in S : \A y \in S : ~ (<<y, x>> \in R)
    BY <1>1, WFMin
<1>4. \A y \in S : ~ (y < x)
    BY <1>2, <1>3
<1>5. \E z \in S : \A y \in S : z <= y
    BY <1>4
<1> QED BY <1>5 DEF Min

(* A node whose variables stay as they are keeps its part of the invariant.  *)
SameBuffers(n) ==
    /\ step'[n] = step[n] /\ num_requests'[n] = num_requests[n]
    /\ config'[n] = config[n] /\ stream_handlers'[n] = stream_handlers[n]
    /\ buffer_ctx'[n] = buffer_ctx[n] /\ cookie'[n] = cookie[n]

LEMMA SameKeeps ==
    ASSUME NEW n \in Nodes, SameBuffers(n), StreamsAdded(n), BuffersMapped(n)
    PROVE  StreamsAdded(n)' /\ BuffersMapped(n)'
BY DEF SameBuffers, StreamsAdded, BuffersMapped

(* A node without streams has nothing mapped.                                *)
LEMMA NoStreamsMapped ==
    ASSUME NEW n \in Nodes, num_requests'[n] \in Nat,
           stream_handlers'[n] = <<>>, buffer_ctx'[n] = <<>>, cookie'[n] = <<>>
    PROVE  BuffersMapped(n)'
<1>1. Len(stream_handlers'[n]) = 0 /\ Len(buffer_ctx'[n]) = 0 /\ Len(cookie'[n]) = 0
    OBVIOUS
<1>2. 0 * num_requests'[n] = 0
    OBVIOUS
<1> QED BY <1>1, <1>2 DEF BuffersMapped

(* The mappings of one more stream fit.                                      *)
LEMMA OneMoreStream ==
    ASSUME NEW k \in Nat, NEW q \in Nat, NEW N \in Nat, NEW M \in Nat,
           k + 1 <= N, q <= M
    PROVE  (k + 1) * q = k * q + q /\ k * q + q <= N * M
<1>1. \A a, b \in Nat : (a + 1) * b = a * b + b
    OBVIOUS
<1>2. \A a, b, c, d \in Nat : a <= b /\ c <= d => a * c <= b * d
    OBVIOUS
<1> QED BY <1>1, <1>2

(* What a sequence is after an element, or another sequence, is appended.    *)
LEMMA Appended ==
    ASSUME NEW S, NEW seq \in Seq(S), NEW x \in S
    PROVE  /\ Append(seq, x) \in Seq(S)
           /\ Len(Append(seq, x)) = Len(seq) + 1
           /\ Append(seq, x)[Len(seq) + 1] = x
           /\ \A i \in 1 .. Len(seq) : Append(seq, x)[i] = seq[i]
OBVIOUS

LEMMA Concatenated ==
    ASSUME NEW S, NEW seq \in Seq(S), NEW t \in Seq(S)
    PROVE  /\ seq \o t \in Seq(S)
           /\ Len(seq \o t) = Len(seq) + Len(t)
           /\ \A i \in 1 .. Len(t) : (seq \o t)[Len(seq) + i] = t[i]
           /\ \A i \in 1 .. Len(seq) : (seq \o t)[i] = seq[i]
OBVIOUS

(* The cookies and mappings of the next stream.                              *)
LEMMA AddStreamMaps ==
    ASSUME BufferInv, NEW n \in Nodes, NEW m \in FORMAT_MAP, AddStream(n, m)
    PROVE  BufferTypes' /\ StreamsAdded(n)' /\ BuffersMapped(n)'
<1> DEFINE Keys == 0 .. NumStreams * MaxBuffers - 1
           Mappings == [stream : Streams, buffer : 1 .. MaxBuffers]
           k == Len(stream_handlers[n])
           q == num_requests[n]
           first == Len(buffer_ctx[n])
           new == [r \in 1 .. q |-> [stream |-> k + 1, buffer |-> r]]
           keys == [r \in 1 .. q |-> first + r - 1]
<1>1. /\ step[n] = "allocated" /\ k + 1 \in Streams
      /\ \E target \in Targets : m \in get_format_mapping(config[n][k + 1], target)
      /\ cookie' = [cookie EXCEPT ![n] = Append(@, keys)]
      /\ buffer_ctx' = [buffer_ctx EXCEPT ![n] = @ \o new]
      /\ stream_handlers' = [stream_handlers EXCEPT ![n] = Append(@, m)]
      /\ UNCHANGED <<step, num_requests, config>>
    BY DEF AddStream
<1>2. /\ cookie[n] \in Seq(Seq(Keys))
      /\ buffer_ctx[n] \in Seq(Mappings)
      /\ stream_handlers[n] \in Seq(FORMAT_MAP)
      /\ q \in 0 .. MaxBuffers
    BY DEF BufferInv, BufferTypes, BufferIds
<1>3. /\ first = k * q /\ Len(cookie[n]) = k
      /\ \A s \in 1 .. k :
             /\ stream_handlers[n][s].pixel = config[n][s]
             /\ \A r \in 1 .. q :
                    /\ cookie[n][s][r] + 1 \in 1 .. first
                    /\ buffer_ctx[n][cookie[n][s][r] + 1] = [stream |-> s, buffer |-> r]
    BY DEF BufferInv, BuffersMapped
<1>4. /\ k \in Nat /\ q \in Nat /\ q <= MaxBuffers /\ first \in Nat
      /\ k + 1 <= NumStreams /\ NumStreams \in Nat /\ MaxBuffers \in Nat
    BY <1>1, <1>2, BuffersAssumption, StreamsAssumption DEF Streams
<1>5. m.pixel = config[n][k + 1]
    BY <1>1 DEF get_format_mapping
<1>6. /\ Append(stream_handlers[n], m) \in Seq(FORMAT_MAP)
      /\ Len(Append(stream_handlers[n], m)) = k + 1
      /\ Append(stream_handlers[n], m)[k + 1] = m
      /\ \A i \in 1 .. k : Append(stream_handlers[n], m)[i] = stream_handlers[n][i]
    BY <1>2, Appended
<1>7. /\ cookie'[n] = Append(cookie[n], keys)
      /\ buffer_ctx'[n] = buffer_ctx[n] \o new
      /\ stream_handlers'[n] = Append(stream_handlers[n], m)
      /\ step'[n] = "allocated" /\ num_requests'[n] = q /\ config'[n] = config[n]
    BY <1>1 DEF BufferInv, BufferTypes
<1> HIDE DEF k, q, first, Keys
<1>8. first + q = (k + 1) * q /\ first + q <= NumStreams * MaxBuffers
    BY <1>3, <1>4, OneMoreStream
<1>9. new \in Seq(Mappings) /\ Len(new) = q
    <2>1. k + 1 \in Streams
        BY <1>4 DEF Streams
    <2> QED BY <1>4, <2>1
<1>10. keys \in Seq(Keys)
    <2>1. NumStreams * MaxBuffers \in Nat
        BY <1>4
    <2>2. \A r \in 1 .. q : first + r - 1 \in Keys
        BY <1>4, <1>8, <2>1 DEF Keys
    <2> QED BY <1>4, <2>2
<1> HIDE DEF new, keys, Mappings
<1>11. /\ buffer_ctx'[n] \in Seq(Mappings)
       /\ Len(buffer_ctx'[n]) = first + q
       /\ \A i \in 1 .. q : buffer_ctx'[n][first + i] = new[i]
       /\ \A i \in 1 .. first : buffer_ctx'[n][i] = buffer_ctx[n][i]
    <2> DEFINE ctx == buffer_ctx[n]
    <2>1. ctx \in Seq(Mappings) /\ Len(ctx) = first
        BY <1>2 DEF first
    <2> HIDE DEF ctx
    <2>2. /\ ctx \o new \in Seq(Mappings)
          /\ Len(ctx \o new) = Len(ctx) + Len(new)
          /\ \A i \in 1 .. Len(new) : (ctx \o new)[Len(ctx) + i] = new[i]
          /\ \A i \in 1 .. Len(ctx) : (ctx \o new)[i] = ctx[i]
        BY <1>9, <2>1, Concatenated, Zenon
    <2> QED BY <1>7, <1>9, <2>1, <2>2, Zenon DEF ctx
<1>12. /\ cookie'[n] \in Seq(Seq(Keys))
       /\ Len(cookie'[n]) = k + 1
       /\ cookie'[n][k + 1] = keys
       /\ \A i \in 1 .. k : cookie'[n][i] = cookie[n][i]
    <2> DEFINE cookies == cookie[n]
               KeySeqs == Seq(Keys)
    <2>1. cookies \in Seq(KeySeqs) /\ keys \in KeySeqs
        BY <1>2, <1>10
    <2> HIDE DEF cookies, KeySeqs
    <2>2. /\ Append(cookies, keys) \in Seq(KeySeqs)
          /\ Len(Append(cookies, keys)) = Len(cookies) + 1
          /\ Append(cookies, keys)[Len(cookies) + 1] = keys
          /\ \A i \in 1 .. Len(cookies) : Append(cookies, keys)[i] = cookies[i]
        BY <2>1, Appended, SMT
    <2> QED BY <1>3, <1>7, <2>2, Zenon DEF cookies, KeySeqs
<1>13. BufferTypes'
    <2>1. cookie' \in [Nodes -> Seq(Seq(Keys))]
        BY <1>1, <1>7, <1>12 DEF BufferInv, BufferTypes, Keys
    <2>2. buffer_ctx' \in [Nodes -> Seq(Mappings)]
        BY <1>1, <1>7, <1>11 DEF BufferInv, BufferTypes, BufferIds, Mappings
    <2>3. stream_handlers' \in [Nodes -> Seq(FORMAT_MAP)]
        BY <1>1, <1>6, <1>7 DEF BufferInv, BufferTypes
    <2> QED BY <1>1, <2>1, <2>2, <2>3 DEF BufferInv, BufferTypes, BufferIds, Keys,
                                       Mappings
<1>14. StreamsAdded(n)'
    BY <1>1, <1>4, <1>6, <1>7 DEF BufferInv, StreamsAdded
<1>15. BuffersMapped(n)'
    <2>1. ASSUME NEW s \in 1 .. k, NEW r \in 1 .. q
          PROVE  /\ cookie'[n][s][r] + 1 \in 1 .. first + q
                 /\ buffer_ctx'[n][cookie'[n][s][r] + 1] = [stream |-> s, buffer |-> r]
        <3>1. cookie[n][s][r] + 1 \in 1 .. first
            BY <1>3
        <3>2. buffer_ctx[n][cookie[n][s][r] + 1] = [stream |-> s, buffer |-> r]
            BY <1>3
        <3>3. cookie[n][s][r] + 1 \in 1 .. first + q
            BY <1>4, <3>1
        <3> QED BY <1>11, <1>12, <3>1, <3>2, <3>3
    <2>2. ASSUME NEW r \in 1 .. q
          PROVE  /\ cookie'[n][k + 1][r] + 1 \in 1 .. first + q
                 /\ buffer_ctx'[n][cookie'[n][k + 1][r] + 1]
                        = [stream |-> k + 1, buffer |-> r]
        <3>1. keys[r] + 1 = first + r /\ first + r \in 1 .. first + q
            BY <1>4 DEF keys
        <3>2. new[r] = [stream |-> k + 1, buffer |-> r]
            BY DEF new
        <3> QED BY <1>11, <1>12, <3>1, <3>2
    <2>3. \A s \in 1 .. k + 1 : s = k + 1 \/ s \in 1 .. k
        BY <1>4
    <2>4. \A s \in 1 .. k + 1 : stream_handlers'[n][s].pixel = config'[n][s]
        <3>1. \A s \in 1 .. k : stream_handlers'[n][s].pixel = config'[n][s]
            BY <1>3, <1>6, <1>7
        <3>2. stream_handlers'[n][k + 1].pixel = config'[n][k + 1]
            BY <1>5, <1>6, <1>7
        <3> QED BY <2>3, <3>1, <3>2, Zenon
    <2>5. \A s \in 1 .. k + 1, r \in 1 .. q :
              /\ cookie'[n][s][r] + 1 \in 1 .. first + q
              /\ buffer_ctx'[n][cookie'[n][s][r] + 1] = [stream |-> s, buffer |-> r]
        BY <2>1, <2>2, <2>3, Zenon
    <2>6. /\ Len(stream_handlers'[n]) = k + 1 /\ num_requests'[n] = q
          /\ Len(cookie'[n]) = k + 1 /\ Len(buffer_ctx'[n]) = (k + 1) * q
          /\ Len(buffer_ctx'[n]) = first + q
        BY <1>6, <1>7, <1>8, <1>11, <1>12
    <2> QED BY <2>4, <2>5, <2>6, Zenon DEF BuffersMapped
<1> QED BY <1>13, <1>14, <1>15

(* A step of one node leaves the bookkeeping of the others alone.            *)
LEMMA OneNodeStep ==
    ASSUME BufferInv, BufferTypes', NEW n \in Nodes,
           \A k \in Nodes \ {n} : SameBuffers(k),
           StreamsAdded(n)' /\ BuffersMapped(n)'
    PROVE  BufferInv'
<1>1. ASSUME NEW k \in Nodes PROVE StreamsAdded(k)' /\ BuffersMapped(k)'
    <2>1. CASE k = n
        BY <2>1
    <2>2. CASE k # n
        BY <2>2, SameKeeps DEF BufferInv
    <2> QED BY <2>1, <2>2
<1> QED BY <1>1 DEF BufferInv

LEMMA BufferInit == Init => BufferInv
<1> SUFFICES ASSUME Init PROVE BufferInv
    OBVIOUS
<1>1. BufferTypes
    BY BuffersAssumption DEF Init, BufferTypes
<1>2. \A n \in Nodes : StreamsAdded(n)
    BY StreamsAssumption DEF Init, StreamsAdded
<1>3. \A n \in Nodes : BuffersMapped(n)
    BY DEF Init, BuffersMapped
<1> QED BY <1>1, <1>2, <1>3 DEF BufferInv

LEMMA BufferStep == CameraInv /\ BufferInv /\ [Next]_vars => BufferInv'
<1> SUFFICES ASSUME CameraInv, BufferInv, [Next]_vars PROVE BufferInv'
    OBVIOUS
<1> step \in [Nodes -> {"none", "manager", "acquired", "configured", "allocated",
                        "loaded"}]
    BY DEF CameraInv, CameraTypes
<1> BufferTypes /\ \A n \in Nodes : StreamsAdded(n) /\ BuffersMapped(n)
    BY DEF BufferInv
<1>1. ASSUME NEW n \in Nodes,
             UNCHANGED <<num_requests, config, stream_handlers, buffer_ctx, cookie>>,
             NEW to \in {"manager", "acquired"}, step' = [step EXCEPT ![n] = to],
             step[n] \in {"none", "manager"}
      PROVE  BufferInv'
    <2>1. StreamsAdded(n)' /\ BuffersMapped(n)'
        BY <1>1 DEF StreamsAdded, BuffersMapped
    <2> QED BY <1>1, <2>1, OneNodeStep DEF BufferTypes, SameBuffers
<1>2. ASSUME NEW n \in Nodes, NEW formats \in StreamFormats, ConfigureCamera(n, formats)
      PROVE  BufferInv'
    <2>1. step[n] = "acquired" /\ step' = [step EXCEPT ![n] = "configured"]
          /\ config' = [config EXCEPT ![n] = formats]
          /\ UNCHANGED <<num_requests, stream_handlers, buffer_ctx, cookie>>
        BY <1>2 DEF ConfigureCamera
    <2>2. BufferTypes'
        BY <2>1 DEF BufferTypes
    <2>3. StreamsAdded(n)'
        BY <2>1, StreamsAssumption DEF StreamsAdded, BufferTypes
    <2>4. BuffersMapped(n)'
        <3>1. num_requests'[n] \in Nat
            BY <2>1, BuffersAssumption DEF BufferTypes
        <3>2. stream_handlers[n] = <<>> /\ buffer_ctx[n] = <<>> /\ cookie[n] = <<>>
            BY <2>1 DEF StreamsAdded
        <3> QED BY <2>1, <3>1, <3>2, NoStreamsMapped
    <2>5. \A k \in Nodes \ {n} : SameBuffers(k)
        BY <2>1 DEF SameBuffers, BufferTypes
    <2> QED BY <2>2, <2>3, <2>4, <2>5, OneNodeStep
<1>3. ASSUME NEW n \in Nodes, NEW size \in [Streams -> 0 .. MaxBuffers],
             AllocateBuffers(n, size)
      PROVE  BufferInv'
    <2> DEFINE fewest == Min({size[s] : s \in Streams})
    <2>1. step[n] = "configured" /\ step' = [step EXCEPT ![n] = "allocated"]
          /\ num_requests' = [num_requests EXCEPT ![n] = fewest]
          /\ UNCHANGED <<config, stream_handlers, buffer_ctx, cookie>>
        BY <1>3 DEF AllocateBuffers
    <2>2. fewest \in 0 .. MaxBuffers
        <3>1. {size[s] : s \in Streams} \in SUBSET (0 .. MaxBuffers)
            OBVIOUS
        <3>2. {size[s] : s \in Streams} # {}
            <4>1. 1 \in Streams
                BY StreamsAssumption DEF Streams
            <4> QED BY <4>1
        <3>3. {size[s] : s \in Streams} \in SUBSET Nat
            BY <3>1, BuffersAssumption
        <3> HIDE DEF fewest
        <3>4. fewest \in {size[s] : s \in Streams}
            BY <3>2, <3>3, HasSmallest DEF fewest
        <3> QED BY <3>1, <3>4
    <2> HIDE DEF fewest
    <2>3. BufferTypes'
        BY <2>1, <2>2 DEF BufferTypes
    <2>4. StreamsAdded(n)'
        BY <2>1 DEF StreamsAdded, BufferTypes
    <2>5. BuffersMapped(n)'
        <3>1. num_requests'[n] \in Nat
            BY <2>1, <2>2, BuffersAssumption DEF BufferTypes
        <3>2. stream_handlers[n] = <<>> /\ buffer_ctx[n] = <<>> /\ cookie[n] = <<>>
            BY <2>1 DEF StreamsAdded
        <3> QED BY <2>1, <3>1, <3>2, NoStreamsMapped
    <2>6. \A k \in Nodes \ {n} : SameBuffers(k)
        BY <2>1 DEF SameBuffers, BufferTypes
    <2> QED BY <2>3, <2>4, <2>5, <2>6, OneNodeStep
<1>4. ASSUME NEW n \in Nodes, NEW m \in FORMAT_MAP, AddStream(n, m) PROVE BufferInv'
    <2>1. \A k \in Nodes \ {n} : SameBuffers(k)
        BY <1>4 DEF AddStream, SameBuffers, BufferTypes
    <2> QED BY <1>4, <2>1, AddStreamMaps, OneNodeStep
<1>5. ASSUME NEW n \in Nodes, NEW accepted \in BOOLEAN, Start(n, accepted)
      PROVE  BufferInv'
    <2>1. step[n] = "allocated" /\ Len(stream_handlers[n]) = NumStreams
          /\ step' = [step EXCEPT ![n] = "loaded"]
          /\ UNCHANGED <<num_requests, config, stream_handlers, buffer_ctx, cookie>>
        BY <1>5 DEF Start
    <2>2. StreamsAdded(n)' /\ BuffersMapped(n)'
        BY <2>1 DEF StreamsAdded, BuffersMapped
    <2> QED BY <2>1, <2>2, OneNodeStep DEF BufferTypes, SameBuffers
<1>6. ASSUME NEW n \in Nodes, NEW s, NEW u, Gone(n, s, u) PROVE BufferInv'
    <2>1. /\ step' = [step EXCEPT ![n] = "none"]
          /\ num_requests' = [num_requests EXCEPT ![n] = 0]
          /\ config' = [config EXCEPT ![n] = <<>>]
          /\ stream_handlers' = [stream_handlers EXCEPT ![n] = <<>>]
          /\ buffer_ctx' = [buffer_ctx EXCEPT ![n] = <<>>]
          /\ cookie' = [cookie EXCEPT ![n] = <<>>]
        BY <1>6 DEF Gone
    <2>2. BufferTypes'
        <3>1. num_requests' \in [Nodes -> 0 .. MaxBuffers]
            BY <2>1, BuffersAssumption DEF BufferTypes
        <3>2. config' \in [Nodes -> StreamFormats \cup {<<>>}]
            BY <2>1 DEF BufferTypes
        <3>3. stream_handlers' \in [Nodes -> Seq(FORMAT_MAP)]
            BY <2>1 DEF BufferTypes
        <3>4. buffer_ctx' \in [Nodes -> Seq(BufferIds)]
            BY <2>1 DEF BufferTypes
        <3>5. cookie' \in [Nodes -> Seq(Seq(0 .. NumStreams * MaxBuffers - 1))]
            BY <2>1 DEF BufferTypes
        <3> QED BY <3>1, <3>2, <3>3, <3>4, <3>5, Zenon DEF BufferTypes
    <2>3. StreamsAdded(n)'
        BY <2>1, StreamsAssumption DEF StreamsAdded, BufferTypes
    <2>4. BuffersMapped(n)'
        BY <2>1, NoStreamsMapped DEF BufferTypes
    <2>5. \A k \in Nodes \ {n} : SameBuffers(k)
        BY <2>1 DEF SameBuffers, BufferTypes
    <2> QED BY <2>2, <2>3, <2>4, <2>5, OneNodeStep
<1>7. ASSUME NEW n \in Nodes, NEW s \in Streams, NEW r \in 1 .. MaxBuffers,
             Abort(n, s, r) PROVE BufferInv'
    <2>1. /\ step' = [m \in Nodes |-> "none"]
          /\ num_requests' = [m \in Nodes |-> 0]
          /\ config' = [m \in Nodes |-> <<>>]
          /\ stream_handlers' = [m \in Nodes |-> <<>>]
          /\ buffer_ctx' = [m \in Nodes |-> <<>>]
          /\ cookie' = [m \in Nodes |-> <<>>]
        BY <1>7 DEF Abort
    <2>2. BufferTypes'
        <3>1. num_requests' \in [Nodes -> 0 .. MaxBuffers]
            BY <2>1, BuffersAssumption
        <3>2. config' \in [Nodes -> StreamFormats \cup {<<>>}]
            BY <2>1
        <3>3. stream_handlers' \in [Nodes -> Seq(FORMAT_MAP)]
            BY <2>1
        <3>4. buffer_ctx' \in [Nodes -> Seq(BufferIds)]
            BY <2>1
        <3>5. cookie' \in [Nodes -> Seq(Seq(0 .. NumStreams * MaxBuffers - 1))]
            BY <2>1
        <3> QED BY <3>1, <3>2, <3>3, <3>4, <3>5, Zenon DEF BufferTypes
    <2>3. \A k \in Nodes : StreamsAdded(k)'
        BY <2>1, StreamsAssumption DEF StreamsAdded
    <2>4. \A k \in Nodes : BuffersMapped(k)'
        BY <2>1, NoStreamsMapped
    <2> QED BY <2>2, <2>3, <2>4 DEF BufferInv
<1>8. CASE UNCHANGED <<step, num_requests, config, stream_handlers, buffer_ctx, cookie>>
    <2>1. BufferTypes'
        BY <1>8, Zenon DEF BufferTypes
    <2>2. \A n \in Nodes : SameBuffers(n)
        BY <1>8 DEF SameBuffers
    <2> QED BY <2>1, <2>2, SameKeeps DEF BufferInv
<1>9. ASSUME NEW n \in Nodes,
             \/ Load(n) \/ \E c \in Cameras : AcquireCamera(n, c)
             \/ Throw(n) \/ Unload(n) \/ \E s \in Streams, r \in 1 .. MaxBuffers : Publish(n, s, r)
      PROVE  BufferInv'
    <2>1. CASE Load(n)
        BY <1>1, <2>1 DEF Load
    <2>2. CASE \E c \in Cameras : AcquireCamera(n, c)
        <3>1. /\ step[n] = "manager" /\ step' = [step EXCEPT ![n] = "acquired"]
              /\ UNCHANGED <<num_requests, config, stream_handlers, buffer_ctx, cookie>>
            BY <2>2 DEF AcquireCamera
        <3> QED BY <1>1, <3>1
    <2>3. CASE Throw(n) \/ Unload(n)
        BY <1>6, <2>3 DEF Throw, Unload
    <2>4. CASE \E s \in Streams, r \in 1 .. MaxBuffers : Publish(n, s, r)
        BY <1>8, <2>4 DEF Publish, nodeVars
    <2> QED BY <1>9, <2>1, <2>2, <2>3, <2>4
<1>10. CASE UNCHANGED vars
    BY <1>8, <1>10 DEF vars, nodeVars
<1> QED BY <1>2, <1>3, <1>4, <1>5, <1>7, <1>9, <1>10 DEF Next

LEMMA CookiesLead == CameraInv /\ BufferInv => CookiesResolve
<1> SUFFICES ASSUME BufferInv, NEW n \in Nodes, step[n] = "loaded",
                    NEW s \in Streams, NEW r \in 1 .. num_requests[n]
             PROVE  LET k == cookie[n][s][r] + 1 IN
                    /\ k \in 1 .. Len(buffer_ctx[n])
                    /\ buffer_ctx[n][k] = [stream |-> s, buffer |-> r]
                    /\ stream_handlers[n][buffer_ctx[n][k].stream].pixel = config[n][s]
    BY DEF CookiesResolve
<1>1. s \in 1 .. Len(stream_handlers[n])
    BY DEF BufferInv, StreamsAdded, Streams
<1>2. /\ cookie[n][s][r] + 1 \in 1 .. Len(buffer_ctx[n])
      /\ buffer_ctx[n][cookie[n][s][r] + 1] = [stream |-> s, buffer |-> r]
      /\ stream_handlers[n][s].pixel = config[n][s]
    BY <1>1 DEF BufferInv, BuffersMapped
<1> QED BY <1>2

-----------------------------------------------------------------------------
(* A message has been made by a handler of the format map, that of the       *)
(* buffer's stream, of the buffer that the camera has filled.                *)
MessageOf(m, b, x) == [sent |-> x, copied |-> b, filled |-> b, format |-> m.pixel]

MessageInv ==
    \/ message = None
    \/ \E m \in FORMAT_MAP, b \in BufferIds :
           /\ m.pixel \in UNION {Formats[s] : s \in Streams}
           /\ \E x \in Messages(m, MappedSize(Planes[b.stream])) :
                  message = MessageOf(m, b, x)

LEMMA PublishOwn ==
    ASSUME CameraInv, BufferInv, NEW n \in Nodes, NEW s \in Streams,
           NEW r \in 1 .. MaxBuffers, Publish(n, s, r)
    PROVE  MessageInv'
<1>1. PICK c \in Cameras : state[c] = "Running" /\ user[c] = n
    BY DEF Publish, Streaming
<1>2. step[n] = "loaded"
    BY <1>1 DEF CameraInv, RunningHasNode
<1>3. /\ stream_handlers[n] \in Seq(FORMAT_MAP)
      /\ Len(stream_handlers[n]) = NumStreams
      /\ config[n] \in StreamFormats
      /\ num_requests[n] \in 0 .. MaxBuffers
    BY <1>2 DEF BufferInv, BufferTypes, StreamsAdded
<1>4. s \in 1 .. Len(stream_handlers[n]) /\ r \in 1 .. num_requests[n]
    BY <1>3, StreamsAssumption, BuffersAssumption DEF Publish, Streams
<1> DEFINE b == [stream |-> s, buffer |-> r]
           m == stream_handlers[n][s]
<1>5. Mapping(n, s, r) = b /\ m.pixel = config[n][s]
    BY <1>4 DEF BufferInv, BuffersMapped, Mapping
<1>6. m \in FORMAT_MAP /\ b \in BufferIds
    BY <1>3, <1>4 DEF BufferIds
<1>7. m.pixel \in UNION {Formats[t] : t \in Streams}
    BY <1>3, <1>5 DEF StreamFormats
<1>8. PICK x \in Messages(m, MappedSize(Planes[b.stream])) :
          message' = MessageOf(m, b, x)
    BY <1>5 DEF Publish, MessageOf
<1> HIDE DEF b, m
<1> QED BY <1>6, <1>7, <1>8 DEF MessageInv

LEMMA MessageStep == CameraInv /\ BufferInv /\ MessageInv /\ [Next]_vars => MessageInv'
<1> SUFFICES ASSUME CameraInv, BufferInv, MessageInv, [Next]_vars PROVE MessageInv'
    OBVIOUS
<1>1. ASSUME message' \in {message, None} PROVE MessageInv'
    BY <1>1 DEF MessageInv
<1>2. ASSUME NEW n \in Nodes, NEW s \in Streams, NEW r \in 1 .. MaxBuffers,
             Publish(n, s, r)
      PROVE  MessageInv'
    BY <1>2, PublishOwn
<1>3. ASSUME NEW n \in Nodes, Load(n) \/ Throw(n) \/ Unload(n) PROVE MessageInv'
    BY <1>1, <1>3 DEF Load, Throw, Unload, Gone
<1>4. ASSUME NEW n \in Nodes, NEW c \in Cameras, AcquireCamera(n, c) PROVE MessageInv'
    BY <1>1, <1>4 DEF AcquireCamera
<1>5. ASSUME NEW n \in Nodes, NEW formats \in StreamFormats, ConfigureCamera(n, formats)
      PROVE  MessageInv'
    BY <1>1, <1>5 DEF ConfigureCamera
<1>6. ASSUME NEW n \in Nodes, NEW size \in [Streams -> 0 .. MaxBuffers],
             AllocateBuffers(n, size)
      PROVE  MessageInv'
    BY <1>1, <1>6 DEF AllocateBuffers
<1>7. ASSUME NEW n \in Nodes, NEW m \in FORMAT_MAP, AddStream(n, m) PROVE MessageInv'
    BY <1>1, <1>7 DEF AddStream
<1>8. ASSUME NEW n \in Nodes, NEW accepted \in BOOLEAN, Start(n, accepted)
      PROVE  MessageInv'
    BY <1>1, <1>8 DEF Start
<1>9. ASSUME NEW n \in Nodes, NEW s \in Streams, NEW r \in 1 .. MaxBuffers,
             Abort(n, s, r)
      PROVE  MessageInv'
    BY <1>1, <1>9 DEF Abort
<1>10. CASE UNCHANGED vars
    BY <1>1, <1>10 DEF vars
<1> QED BY <1>2, <1>3, <1>4, <1>5, <1>6, <1>7, <1>8, <1>9, <1>10 DEF Next

(* The encoding of a direct handler has the pixels of its format.            *)
LEMMA EncodingsAgree ==
    ASSUME NEW m \in FORMAT_MAP, m.convert = "direct", m.pixel # "ARGB8888"
    PROVE  EncodingBytes(m.ros_format) = PixelBytes(m.pixel) /\ PixelBytes(m.pixel) \in Nat
BY DEF FORMAT_MAP, direct, decode, compressed, EncodingBytes, PixelBytes

(* What a handler publishes is of its format; its rows are long enough for   *)
(* the encoding, and those of a decoded image are all there.                 *)
RowsFit(image) == image.width * EncodingBytes(image.encoding) <= image.step

LEMMA SentFits ==
    ASSUME NEW m \in FORMAT_MAP, NEW size, NEW x \in Messages(m, size)
    PROVE  /\ x.pixel = m.pixel
           /\ "encoding" \in DOMAIN x =>
                  /\ x.pixel \notin {"ARGB8888", "MJPEG"} => RowsFit(x)
                  /\ x.pixel = "MJPEG" /\ ~NDebug =>
                         RowsFit(x) /\ x.data = x.step * x.height
<1> USE SizeAssumption
<1>1. m.convert \in {"direct", "compressed", "decode"}
    BY DEF FORMAT_MAP, direct, decode, compressed
<1>2. CASE m.convert = "direct"
    <2> DEFINE stride == Width * PixelBytes(m.pixel) + Padding
    <2>1. x = Image(m, Width, Height, stride, size)
        BY <1>2 DEF Messages, PublishDirect
    <2>2. x.pixel = m.pixel /\ m.pixel # "MJPEG"
        BY <1>2, <2>1 DEF Image, FORMAT_MAP, direct, decode, compressed
    <2>3. ASSUME x.pixel # "ARGB8888" PROVE RowsFit(x)
        <3>1. EncodingBytes(m.ros_format) = PixelBytes(m.pixel)
              /\ PixelBytes(m.pixel) \in Nat
            BY <1>2, <2>2, <2>3, EncodingsAgree
        <3>2. Width * EncodingBytes(m.ros_format) <= stride
            BY <3>1
        <3> QED BY <2>1, <3>2 DEF Image, RowsFit
    <2> QED BY <2>2, <2>3
<1>3. CASE m.convert = "compressed"
    <2>1. x = [pixel |-> m.pixel, format |-> m.ros_format, data |-> size]
        BY <1>3 DEF Messages, PublishCompressed
    <2> QED BY <2>1
<1>4. CASE m.convert = "decode"
    <2>1. PICK dst \in Decoded : Asserted(dst) /\ x = PublishDecoded(m, dst)
        BY <1>4 DEF Messages
    <2>2. x.pixel = m.pixel /\ m.pixel = "MJPEG" /\ m.ros_format = "BGR8"
        BY <1>4, <2>1 DEF PublishDecoded, Image, FORMAT_MAP, direct, decode, compressed
    <2>3. ASSUME ~NDebug PROVE RowsFit(x) /\ x.data = x.step * x.height
        <3>1. dst.cols = Width /\ dst.rows = Height
            BY <2>1, <2>3 DEF Decoded, Asserted
        <3>2. x = Image(m, Width, Height, Width * 3, Width * Height * 3)
            BY <2>1, <3>1 DEF PublishDecoded
        <3>3. EncodingBytes(m.ros_format) = 3
            BY <2>2 DEF EncodingBytes
        <3>4. Width * Height * 3 = (Width * 3) * Height
            OBVIOUS
        <3> QED BY <3>2, <3>3, <3>4 DEF Image, RowsFit
    <2> QED BY <2>2, <2>3
<1> QED BY <1>1, <1>2, <1>3, <1>4

LEMMA PublishedMatches == MessageInv => MessageMatches
<1> SUFFICES ASSUME MessageInv, message # None PROVE MessageMatches
    BY DEF MessageMatches
<1>1. PICK m \in FORMAT_MAP, b \in BufferIds :
          \E x \in Messages(m, MappedSize(Planes[b.stream])) : message = MessageOf(m, b, x)
    BY DEF MessageInv
<1>2. PICK x \in Messages(m, MappedSize(Planes[b.stream])) : message = MessageOf(m, b, x)
    BY <1>1
<1>3. /\ message.sent = x /\ message.copied = message.filled
      /\ message.format = m.pixel
    BY <1>2 DEF MessageOf
<1> QED BY <1>2, <1>3, SentFits DEF MessageMatches, RowsFit

-----------------------------------------------------------------------------
(* The cameras on record as having a second or a dangling handler.           *)
RecordInv == dangling \subseteq Cameras /\ relet \subseteq Cameras

LEMMA RecordStep == CameraInv /\ RecordInv /\ [Next]_vars => RecordInv'
<1> SUFFICES ASSUME CameraInv, RecordInv, [Next]_vars PROVE RecordInv'
    OBVIOUS
<1>1. ASSUME NEW n \in Nodes, NEW accepted \in BOOLEAN, Start(n, accepted)
      PROVE  RecordInv'
    <2>1. camera[n] \in Cameras
        BY <1>1 DEF Start, CameraInv, HasCamera
    <2> QED BY <1>1, <2>1 DEF Start, RecordInv
<1>2. ASSUME NEW n \in Nodes, NEW s, NEW u, Gone(n, s, u) PROVE RecordInv'
    <2>1. dangling' \subseteq dangling \cup Cameras /\ relet' \subseteq relet \cup Cameras
        BY <1>2 DEF Gone
    <2> QED BY <2>1 DEF RecordInv
<1>3. ASSUME NEW n \in Nodes, NEW s \in Streams, NEW r \in 1 .. MaxBuffers,
             Abort(n, s, r) PROVE RecordInv'
    BY <1>3 DEF Abort, RecordInv
<1>4. CASE UNCHANGED signalVars
    BY <1>4 DEF signalVars, RecordInv
<1>5. ASSUME NEW n \in Nodes,
             \/ Load(n)
             \/ \E c \in Cameras : AcquireCamera(n, c)
             \/ \E formats \in StreamFormats : ConfigureCamera(n, formats)
             \/ \E size \in [Streams -> 0 .. MaxBuffers] : AllocateBuffers(n, size)
             \/ \E m \in FORMAT_MAP : AddStream(n, m)
             \/ \E s \in Streams, r \in 1 .. MaxBuffers : Publish(n, s, r)
      PROVE  UNCHANGED signalVars
    BY <1>5 DEF Load, AcquireCamera, ConfigureCamera, AllocateBuffers, AddStream, Publish
<1>6. ASSUME NEW n \in Nodes, Throw(n) \/ Unload(n) PROVE RecordInv'
    BY <1>2, <1>6 DEF Throw, Unload
<1>7. CASE UNCHANGED vars
    BY <1>4, <1>7 DEF vars
<1> QED BY <1>1, <1>3, <1>4, <1>5, <1>6, <1>7 DEF Next

-----------------------------------------------------------------------------
(* A node whose start() was accepted streams until it is unloaded, whatever  *)
(* is loaded on its camera meanwhile (capture_node.cpp:133, 193 and 96-102). *)
THEOREM NodesDoNotShare == Spec => []StartedNodeStreams
<1>1. CameraInv => StartedNodeStreams
    BY DEF CameraInv
<1> QED BY CameraInit, CameraStep, <1>1, PTL DEF Spec

(* A camera never streams for a node that is gone (capture_node.cpp:96-102). *)
THEOREM CamerasAreStopped == Spec => []RunningHasNode
<1>1. CameraInv => RunningHasNode
    BY DEF CameraInv
<1> QED BY CameraInit, CameraStep, <1>1, PTL DEF Spec

(* A running camera calls its node's handler, and before a second node is on *)
(* it no other, alive or gone (capture_node.cpp:30-44 and 88-102).           *)
THEOREM HandlersAreOwn == Spec => []OwnHandlerOnly
<1>1. Init => CameraInv /\ SignalInv
    BY CameraInit, SignalInit
<1>2. CameraInv /\ SignalInv /\ [Next]_vars => CameraInv' /\ SignalInv'
    BY CameraStep, SignalStep
<1>3. CameraInv /\ SignalInv => OwnHandlerOnly
    BY SignalMeansOwn
<1> QED BY <1>1, <1>2, <1>3, PTL DEF Spec

NodeInv == CameraInv /\ SignalInv /\ MessageInv /\ BufferInv /\ RecordInv

LEMMA NodeInvariant == Spec => []NodeInv
<1>1. Init => NodeInv
    BY CameraInit, SignalInit, BufferInit DEF Init, NodeInv, MessageInv, RecordInv
<1>2. NodeInv /\ [Next]_vars => NodeInv'
    BY CameraStep, SignalStep, MessageStep, BufferStep, RecordStep DEF NodeInv
<1> QED BY <1>1, <1>2, PTL DEF Spec

(* A completed buffer is published by the handler of its stream, from its own*)
(* memory, however many buffers each stream has been given                   *)
(* (request_handler.cpp:50-67 and 108-120).                                  *)
THEOREM CookiesAreRight == Spec => []CookiesResolve
<1>1. NodeInv => CookiesResolve
    BY CookiesLead DEF NodeInv
<1> QED BY <1>1, NodeInvariant, PTL

(* A message describes the buffer that the camera has filled, by the format  *)
(* of its stream; its rows fit its encoding, and a decoded image is complete,*)
(* whatever the streams, the sizes, the planes and the JPEG                  *)
(* (request_handler.cpp:109-117, stream_handler.cpp:42-59, 132-152).         *)
THEOREM MessagesMatch == Spec => []MessageMatches
<1>1. NodeInv => MessageMatches
    BY PublishedMatches DEF NodeInv
<1> QED BY <1>1, NodeInvariant, PTL

(* Every variable has its type; no node is given more cookies than fit.      *)
THEOREM TypeCorrect == Spec => []TypeOK
<1>1. NodeInv => TypeOK
    <2> SUFFICES ASSUME NodeInv PROVE TypeOK
        OBVIOUS
    <2>1. message \in [sent : SentMessages, copied : BufferIds, filled : BufferIds,
                        format : UNION {Formats[s] : s \in Streams}] \cup {None}
        <3> SUFFICES ASSUME message # None
                     PROVE  message \in [sent : SentMessages, copied : BufferIds,
                                         filled : BufferIds,
                                         format : UNION {Formats[s] : s \in Streams}]
            OBVIOUS
        <3>1. PICK m \in FORMAT_MAP, b \in BufferIds :
                  /\ m.pixel \in UNION {Formats[s] : s \in Streams}
                  /\ \E x \in Messages(m, MappedSize(Planes[b.stream])) :
                         message = MessageOf(m, b, x)
            BY DEF NodeInv, MessageInv
        <3>2. PICK x \in Messages(m, MappedSize(Planes[b.stream])) :
                  message = MessageOf(m, b, x)
            BY <3>1
        <3>3. b.stream \in Streams
            BY DEF BufferIds
        <3>4. x \in SentMessages
            BY <3>2, <3>3 DEF SentMessages
        <3> QED BY <3>1, <3>2, <3>4 DEF MessageOf
    <2>2. connected \in [Cameras -> SUBSET Nodes]
        BY DEF NodeInv, SignalInv
    <2>3. CameraTypes /\ BufferTypes /\ RecordInv
        BY DEF NodeInv, CameraInv, BufferInv
    <2> QED BY <2>1, <2>2, <2>3, Zenon DEF TypeOK, CameraTypes, BufferTypes, RecordInv
<1> QED BY <1>1, NodeInvariant, PTL
=============================================================================
