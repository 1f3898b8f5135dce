--------------------------- MODULE RequestHandler ---------------------------
(* The capture loop of tuw_libcamera: class RequestHandler                   *)
(* (tuw_libcamera/src/capture/request_handler.cpp) with the libcamera camera *)
(* thread that calls handle() and the rclcpp executor thread that calls      *)
(* is_ready() and execute().                                                 *)
(*                                                                           *)
(* Each of the NumRequests requests travels                                  *)
(*    executor -- queueRequest --> camera -- requestCompleted --> handle()   *)
(*    -- ctx.waiting --> execute() -- queueRequest --> camera ...            *)
(* The hand-over from handle() to execute() uses a plain bool per request    *)
(* (ctx.waiting), an atomic counter (waiting_requests) and a guard condition *)
(* (gc); no lock protects them together.  Every statement of the two         *)
(* functions that touches shared state is an action, so that the two threads *)
(* interleave as they do in the program.                                     *)
EXTENDS Integers, FiniteSets

CONSTANTS
    NumRequests,  \* requests allocated by CaptureNode::allocate_buffers
    CounterMod,   \* values of the size_t waiting_requests (2^64 in the build)
    MaxFrames,    \* bound: the camera produces at most this many frames
    WeakMemory    \* may execute() see ctx.waiting before the frame's metadata?

ASSUME NumRequestsAssumption == NumRequests \in Nat \ {0}
ASSUME CounterModAssumption == CounterMod \in Nat /\ CounterMod > NumRequests
ASSUME MaxFramesAssumption == MaxFrames \in Nat
ASSUME WeakMemoryAssumption == WeakMemory \in BOOLEAN

Requests == 0 .. NumRequests - 1

VARIABLES
    status,           \* libcamera::Request::status(), "Queued" while the camera owns it
    sequence,         \* libcamera::Request::sequence(): the frame the request was queued for
    nextSequence,     \* the camera's counter of queued requests
    waiting,          \* RequestContext::waiting
    waiting_requests, \* the atomic counter
    gc,               \* trigger state of the guard condition
    camPc, camReq,    \* the camera thread: where in handle(), for which request
    exePc, exeIdx,    \* the executor thread: where in execute(), at which ctx
    published         \* history: frames handed to the stream handlers

camVars == <<camPc, camReq>>
exeVars == <<exePc, exeIdx>>
reqVars == <<status, sequence, nextSequence>>
vars == <<status, sequence, nextSequence, waiting, waiting_requests, gc,
          camPc, camReq, exePc, exeIdx, published>>

-----------------------------------------------------------------------------
(* size_t arithmetic of the atomic counter.                                  *)
Incremented(n) == IF n = CounterMod - 1 THEN 0 ELSE n + 1

(* Slip: the counter is signed.                                              *)
Decremented_Signed(n) == n - 1

Decremented(n) == IF n = 0 THEN CounterMod - 1 ELSE n - 1

Init ==
    /\ status = [r \in Requests |-> "Pending"]
    /\ sequence = [r \in Requests |-> 0]
    /\ nextSequence = 0
    /\ waiting = [r \in Requests |-> FALSE]
    /\ waiting_requests = 0
    /\ gc = FALSE
    /\ camPc = "run" /\ camReq = 0
    /\ exePc = "start" /\ exeIdx = 0
    /\ published = {}

(* libcamera::Camera::queueRequest on a running camera: a request that is    *)
(* not pending is refused, and the caller drops the error code.              *)
QueueRequest(r) ==
    LET accepted == status[r] = "Pending" IN
    /\ status' = IF accepted THEN [status EXCEPT ![r] = "Queued"] ELSE status
    /\ sequence' = IF accepted THEN [sequence EXCEPT ![r] = nextSequence]
                               ELSE sequence
    /\ nextSequence' = IF accepted THEN nextSequence + 1 ELSE nextSequence

-----------------------------------------------------------------------------
(* The camera thread.  libcamera completes requests in the order they were   *)
(* queued and emits requestCompleted from its own thread.                    *)
Oldest(r) ==
    /\ status[r] = "Queued"
    /\ \A q \in Requests : status[q] = "Queued" => sequence[r] <= sequence[q]

CompleteRequest(r) ==
    /\ camPc = "run"
    /\ Oldest(r)
    /\ sequence[r] < MaxFrames
    /\ exePc # "released"
    /\ status' = [status EXCEPT ![r] = "Complete"]
    /\ camPc' = "handle" /\ camReq' = r
    /\ UNCHANGED <<sequence, nextSequence, waiting, waiting_requests, gc,
                   exeVars, published>>

(* Camera::stop() cancels what is still queued and emits the signal for it.  *)
CancelRequest(r) ==
    /\ camPc = "run"
    /\ Oldest(r)
    /\ exePc = "stopping"
    /\ status' = [status EXCEPT ![r] = "Cancelled"]
    /\ camPc' = "handle" /\ camReq' = r
    /\ UNCHANGED <<sequence, nextSequence, waiting, waiting_requests, gc,
                   exeVars, published>>

(* Slip: handle() waits for the executor before it returns.                  *)
HandleCancelled_Waits ==
    /\ camPc = "handle"
    /\ status[camReq] = "Cancelled"
    /\ exePc = "wait"
    /\ camPc' = "run"
    /\ UNCHANGED <<reqVars, waiting, waiting_requests, gc, camReq,
                   exeVars, published>>

(* handle(): the early return for a cancelled request ...                    *)
HandleCancelled ==
    /\ camPc = "handle"
    /\ status[camReq] = "Cancelled"
    /\ camPc' = "run"
    /\ UNCHANGED <<reqVars, waiting, waiting_requests, gc, camReq,
                   exeVars, published>>

(* ... the assertion and the flag ...                                        *)
HandleWaiting ==
    /\ camPc = "handle"
    /\ status[camReq] # "Cancelled"
    /\ camPc' = IF waiting[camReq] THEN "threw" ELSE "count"
    /\ waiting' = [waiting EXCEPT ![camReq] = TRUE]
    /\ UNCHANGED <<reqVars, waiting_requests, gc, camReq, exeVars, published>>

(* ... waiting_requests++ ...                                                *)
HandleCount ==
    /\ camPc = "count"
    /\ waiting_requests' = Incremented(waiting_requests)
    /\ camPc' = "trigger"
    /\ UNCHANGED <<reqVars, waiting, gc, camReq, exeVars, published>>

(* Slip: only the first flag triggers, as if the others were seen anyway.    *)
HandleTrigger_First ==
    /\ camPc = "trigger"
    /\ gc' = (gc \/ waiting_requests = 1)
    /\ camPc' = "run"
    /\ UNCHANGED <<reqVars, waiting, waiting_requests, camReq, exeVars,
                   published>>

(* ... and gc->trigger().                                                    *)
HandleTrigger ==
    /\ camPc = "trigger"
    /\ gc' = TRUE
    /\ camPc' = "run"
    /\ UNCHANGED <<reqVars, waiting, waiting_requests, camReq, exeVars,
                   published>>

-----------------------------------------------------------------------------
(* The executor thread.  CaptureNode's constructor calls start(), then the   *)
(* executor waits, asks is_ready() and calls execute().                      *)

(* The loop variable of start() and of execute(): past the last context the  *)
(* function returns to the executor's wait.                                  *)
Advance(pc) ==
    IF exeIdx = NumRequests - 1
    THEN exePc' = "wait" /\ exeIdx' = 0
    ELSE exePc' = pc /\ exeIdx' = exeIdx + 1

Start ==
    /\ exePc = "start"
    /\ QueueRequest(exeIdx)
    /\ Advance("start")
    /\ UNCHANGED <<waiting, waiting_requests, gc, camVars, published>>

(* rcl_wait returns for the guard condition and resets it.                   *)
WakeOnGuard ==
    /\ exePc = "wait"
    /\ gc
    /\ gc' = FALSE
    /\ exePc' = "ready"
    /\ UNCHANGED <<reqVars, waiting, waiting_requests, camVars, exeIdx,
                   published>>

(* rcl_wait returns for another entity of the node (a parameter service);    *)
(* the executor asks every waitable all the same.                            *)
WakeOnOther ==
    /\ exePc = "wait"
    /\ ~gc
    /\ exePc' = "ready"
    /\ UNCHANGED <<reqVars, waiting, waiting_requests, gc, camVars, exeIdx,
                   published>>

(* Slip: off by one.                                                         *)
IsReady_MoreThanOne ==
    /\ exePc = "ready"
    /\ exePc' = IF waiting_requests > 1 THEN "scan" ELSE "wait"
    /\ exeIdx' = 0
    /\ UNCHANGED <<reqVars, waiting, waiting_requests, gc, camVars, published>>

IsReady ==
    /\ exePc = "ready"
    /\ exePc' = IF waiting_requests > 0 THEN "scan" ELSE "wait"
    /\ exeIdx' = 0
    /\ UNCHANGED <<reqVars, waiting, waiting_requests, gc, camVars, published>>

(* execute(): if (ctx.waiting) ...                                           *)
ScanSkip ==
    /\ exePc = "scan"
    /\ ~waiting[exeIdx]
    /\ Advance("scan")
    /\ UNCHANGED <<reqVars, waiting, waiting_requests, gc, camVars, published>>

(* Slip: the flag is not looked at, the counter is trusted alone.            *)
ScanTake_Unchecked ==
    /\ exePc = "scan"
    /\ exePc' = "publish"
    /\ waiting_requests' = Decremented(waiting_requests)
    /\ UNCHANGED <<reqVars, waiting, gc, camVars, exeIdx, published>>

(* Slip: the counter is reset instead of counted down.                       *)
ScanTake_Reset ==
    /\ exePc = "scan"
    /\ waiting[exeIdx]
    /\ exePc' = "publish"
    /\ waiting_requests' = 0
    /\ UNCHANGED <<reqVars, waiting, gc, camVars, exeIdx, published>>

(* ... waiting_requests--.  ctx.waiting is no atomic: when the counter has   *)
(* not been incremented yet for this request nothing orders the metadata     *)
(* written by the camera thread before the read of it below, and on a weakly *)
(* ordered CPU the read may return what the buffer held before.              *)
ScanTake ==
    /\ exePc = "scan"
    /\ waiting[exeIdx]
    /\ exePc' \in {"publish"} \cup
                  (IF WeakMemory /\ camPc = "count" /\ camReq = exeIdx
                   THEN {"publish_stale"} ELSE {})
    /\ waiting_requests' = Decremented(waiting_requests)
    /\ UNCHANGED <<reqVars, waiting, gc, camVars, exeIdx, published>>

(* Slip: a frame is skipped when others are waiting behind it.               *)
Publish_SkipWhenBehind ==
    /\ exePc \in {"publish", "publish_stale"}
    /\ published' = IF waiting_requests = 0
                    THEN published \cup {sequence[exeIdx]} ELSE published
    /\ exePc' = "update"
    /\ UNCHANGED <<reqVars, waiting, waiting_requests, gc, camVars, exeIdx>>

(* ... publish_buffer() for every buffer, and the camera_info callback: the  *)
(* stamp is the metadata's, the old one (already published) if it is stale.  *)
Publish ==
    /\ exePc \in {"publish", "publish_stale"}
    /\ published' = IF exePc = "publish"
                    THEN published \cup {sequence[exeIdx]} ELSE published
    /\ exePc' = "update"
    /\ UNCHANGED <<reqVars, waiting, waiting_requests, gc, camVars, exeIdx>>

(* Slip: the request is queued before its flag is cleared.                   *)
Reuse_QueuedEarly ==
    /\ exePc = "update"
    /\ status' = [status EXCEPT ![exeIdx] = "Queued"]
    /\ sequence' = [sequence EXCEPT ![exeIdx] = nextSequence]
    /\ nextSequence' = nextSequence + 1
    /\ exePc' = "release"
    /\ UNCHANGED <<waiting, waiting_requests, gc, camVars, exeIdx, published>>

(* Slip: reuse() is forgotten, the request is still marked complete.         *)
Reuse_Forgotten ==
    /\ exePc = "update"
    /\ exePc' = "release"
    /\ UNCHANGED <<reqVars, waiting, waiting_requests, gc, camVars, exeIdx,
                   published>>

(* ... request->reuse() and update_request() ...                             *)
Reuse ==
    /\ exePc = "update"
    /\ status' = [status EXCEPT ![exeIdx] = "Pending"]
    /\ exePc' = "release"
    /\ UNCHANGED <<sequence, nextSequence, waiting, waiting_requests, gc,
                   camVars, exeIdx, published>>

(* ... ctx.waiting = false ...                                               *)
Release ==
    /\ exePc = "release"
    /\ waiting' = [waiting EXCEPT ![exeIdx] = FALSE]
    /\ exePc' = "queue"
    /\ UNCHANGED <<reqVars, waiting_requests, gc, camVars, exeIdx, published>>

(* ... and camera->queueRequest(), then the next context.                    *)
Queue ==
    /\ exePc = "queue"
    /\ QueueRequest(exeIdx)
    /\ Advance("scan")
    /\ UNCHANGED <<waiting, waiting_requests, gc, camVars, published>>

(* ~CaptureNode, when the executor has left its wait for good: camera->stop()*)
(* returns once every request is back, then camera->release().               *)
Stop ==
    /\ exePc = "wait"
    /\ exePc' = "stopping"
    /\ UNCHANGED <<reqVars, waiting, waiting_requests, gc, camVars, exeIdx,
                   published>>

Stopped ==
    /\ exePc = "stopping"
    /\ camPc = "run"
    /\ \A r \in Requests : status[r] # "Queued"
    /\ exePc' = "released"
    /\ UNCHANGED <<reqVars, waiting, waiting_requests, gc, camVars, exeIdx,
                   published>>

(* The node is gone: the system rests here.                                  *)
Destroyed == exePc = "released" /\ UNCHANGED vars

-----------------------------------------------------------------------------
Camera == \E r \in Requests : CompleteRequest(r) \/ CancelRequest(r)
Handle == HandleCancelled \/ HandleWaiting \/ HandleCount \/ HandleTrigger
Execute == IsReady \/ ScanSkip \/ ScanTake \/ Publish \/ Reuse \/ Release \/ Queue

Next == Camera \/ Handle \/ Start \/ WakeOnGuard \/ WakeOnOther \/ Execute
            \/ Stop \/ Stopped \/ Destroyed

Spec == Init /\ [][Next]_vars

(* A thread inside handle(), start() or execute() goes on, a triggered guard *)
(* condition ends the executor's wait, and Camera::stop() cancels what it    *)
(* must.  No frame ever has to arrive, and no other entity has to wake the   *)
(* executor.                                                                 *)
Fairness ==
    /\ WF_vars(Handle)
    /\ WF_vars(Start)
    /\ WF_vars(WakeOnGuard)
    /\ WF_vars(Execute)
    /\ WF_vars(\E r \in Requests : CancelRequest(r))
    /\ WF_vars(Stopped)

FairSpec == Spec /\ Fairness

-----------------------------------------------------------------------------
(* Every variable has its type.                                              *)
TypeOK ==
    /\ status \in [Requests -> {"Pending", "Queued", "Complete", "Cancelled"}]
    /\ sequence \in [Requests -> Nat]
    /\ nextSequence \in Nat
    /\ waiting \in [Requests -> BOOLEAN]
    /\ waiting_requests \in 0 .. CounterMod - 1
    /\ gc \in BOOLEAN
    /\ camPc \in {"run", "handle", "count", "trigger", "threw"}
    /\ camReq \in Requests
    /\ exePc \in {"start", "wait", "ready", "scan", "publish", "publish_stale",
                  "update", "release", "queue", "stopping", "released"}
    /\ exeIdx \in Requests
    /\ published \subseteq Nat

(* "assertion failed: request not processed" (request_handler.cpp:90) is     *)
(* never thrown: the camera cannot complete a request again before execute() *)
(* has cleared its flag, in whatever order the two threads run.              *)
NeverThrows == camPc # "threw"

Processing == {"publish", "publish_stale", "update", "release"}
Waiting == {r \in Requests : waiting[r]}

(* The counter is the number of raised flags, less the increment the camera  *)
(* thread still owes and the request execute() has already counted down; the *)
(* two may cross, and the unsigned counter is then one below zero until the  *)
(* increment arrives.                                                        *)
Balance == Cardinality(Waiting)
           - (IF camPc = "count" THEN 1 ELSE 0)
           - (IF exePc \in Processing THEN 1 ELSE 0)

CounterExact ==
    waiting_requests = IF Balance < 0 THEN Balance + CounterMod ELSE Balance

(* While the executor sleeps, a raised flag has a wake-up on its way: gc is  *)
(* triggered or the camera thread is about to trigger it.  A lost wake-up    *)
(* would leave the frame, and its buffer, unused until the next event.       *)
NoLostWakeup ==
    exePc = "wait" /\ Waiting # {} => gc \/ camPc \in {"count", "trigger"}

(* The buffers execute() reads and publishes belong to it: the camera does   *)
(* not own the request and the camera thread is not about to hand it over.   *)
ExclusiveBuffers ==
    exePc \in {"publish", "publish_stale", "update"} =>
        /\ status[exeIdx] = "Complete"
        /\ ~(camPc = "handle" /\ camReq = exeIdx)

(* No request drops out of the cycle: outside the camera, a completed        *)
(* request is about to be flagged or is flagged, a pending one is about to   *)
(* be queued by the executor.                                                *)
NoRequestLost ==
    \A r \in Requests :
        /\ status[r] = "Complete" =>
              waiting[r] \/ (camPc = "handle" /\ camReq = r)
        /\ status[r] = "Pending" =>
              \/ exePc = "start" /\ exeIdx <= r
              \/ exePc \in {"release", "queue"} /\ exeIdx = r

(* Frames that left the camera and that execute() has still to publish.      *)
Unpublished ==
    {r \in Requests : /\ status[r] = "Complete"
                      /\ ~(exePc = "update" /\ exeIdx = r)}

(* Every request the camera completes is given back to it, unless the node   *)
(* is stopped first: the pool of buffers never dries up.                     *)
EveryRequestRequeued ==
    \A r \in Requests :
        status[r] = "Complete"
            ~> (status[r] = "Queued" \/ exePc \in {"stopping", "released"})

(* ~CaptureNode always gets through Camera::stop().                          *)
StopReturns == exePc = "stopping" ~> exePc = "released"
=============================================================================
