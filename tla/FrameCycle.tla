----------------------------- MODULE FrameCycle -----------------------------
(* What the capture loop promises, without threads, flags or buffers: frames *)
(* are ordered from the camera one by one, at most PoolSize are under way,   *)
(* the camera delivers them in order, and every delivered frame is published *)
(* once, overtaken by fewer than PoolSize younger frames.                    *)
EXTENDS Integers, FiniteSets

CONSTANTS PoolSize,  \* frames that may be under way at a time
          MaxFrames  \* frames the camera delivers

VARIABLES issued,     \* frames ordered so far: 0 .. issued - 1
          inCamera,   \* ordered and not delivered
          captured,   \* delivered and not published
          published,  \* published
          open        \* FALSE once the node is being destroyed

vars == <<issued, inCamera, captured, published, open>>

Init ==
    /\ issued = 0
    /\ inCamera = {} /\ captured = {} /\ published = {}
    /\ open = TRUE

Order ==
    /\ open
    /\ Cardinality(inCamera \cup captured) < PoolSize
    /\ inCamera' = inCamera \cup {issued}
    /\ issued' = issued + 1
    /\ UNCHANGED <<captured, published, open>>

Capture(f) ==
    /\ f \in inCamera
    /\ \A g \in inCamera : f <= g
    /\ inCamera' = inCamera \ {f}
    /\ captured' = captured \cup {f}
    /\ UNCHANGED <<issued, published, open>>

Publish(f) ==
    /\ open
    /\ f \in captured
    /\ f \notin published
    /\ \A g \in captured : f < g + PoolSize
    /\ captured' = captured \ {f}
    /\ published' = published \cup {f}
    /\ UNCHANGED <<issued, inCamera, open>>

Close ==
    /\ open
    /\ open' = FALSE
    /\ UNCHANGED <<issued, inCamera, captured, published>>

Cancel(f) ==
    /\ ~open
    /\ f \in inCamera
    /\ inCamera' = inCamera \ {f}
    /\ UNCHANGED <<issued, captured, published, open>>

Next ==
    \/ Order \/ Close
    \/ \E f \in inCamera : Capture(f) \/ Cancel(f)
    \/ \E f \in captured : Publish(f)

Spec == Init /\ [][Next]_vars

(* A delivered frame does not wait for ever while the node is open.          *)
FairSpec == Spec /\ \A f \in 0 .. MaxFrames - 1 : WF_vars(Publish(f))
=============================================================================
