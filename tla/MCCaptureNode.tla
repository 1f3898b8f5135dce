--------------------------- MODULE MCCaptureNode ----------------------------
(* TLC instance of CaptureNode: three nodes on two cameras, so that a node   *)
(* that keeps the camera manager alive, a node that fails to start and one   *)
(* that takes its camera over meet; a stream of JPEGs and one of pixels, of  *)
(* at most two buffers each, those of the pixels in two planes with more     *)
(* bytes behind the rows.                                                    *)
EXTENDS CaptureNode, TLC

MCFormats == <<{"MJPEG"}, {"RGB888", "ARGB8888"}>>
MCPlanes == <<{[offset |-> 0, length |-> 5]},
              {[offset |-> 0, length |-> 7], [offset |-> 7, length |-> 9]}>>
MCOtherSize == [width |-> 3, height |-> 2]

Symmetry == Permutations(Nodes) \cup Permutations(Cameras)
=============================================================================
