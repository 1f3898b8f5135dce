---------------------- MODULE RequestHandlerRefinement ----------------------
(* RequestHandler implements FrameCycle.  A frame is in the camera while its *)
(* request is queued, captured until execute() has handed it to the stream   *)
(* handlers, and the cycle is open until ~CaptureNode stops the camera.      *)
EXTENDS RequestHandler

Cycle == INSTANCE FrameCycle WITH
    PoolSize  <- NumRequests,
    issued    <- nextSequence,
    inCamera  <- {sequence[r] : r \in {q \in Requests : status[q] = "Queued"}},
    captured  <- {sequence[r] : r \in Unpublished},
    open      <- exePc \notin {"stopping", "released"}

(* Each step of the two threads is a step of the frame cycle or invisible to *)
(* it, and the frames under way make the progress it promises.               *)
ImplementsFrameCycle == Cycle!FairSpec
=============================================================================
