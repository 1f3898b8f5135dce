----------------------------- MODULE EdgeDetect -----------------------------
(* The laser scan from a camera image: RayLocalizer::process_frame(),        *)
(* ray_cast() and detect_edge() (tuw_camera_laserscan/src/ray_localizer.cpp).*)
(* Rays are cast through the image one after the other; on each ray a dark   *)
(* stripe is a fall of the brightness followed by a rise, and the first one  *)
(* that the ray before has seen as well, with the right width, is the edge.  *)
(*                                                                           *)
(* A point of a ray is its pixel.  The homography, which gives the centre and*)
(* the directions of the rays in the image, is left out: they are any of a   *)
(* set, and a stripe's width on two rays is measured as if they were parallel*)
EXTENDS FilterLine, RayClip, FiniteSets

CONSTANTS
    NumRays,                 \* num_rays
    EnterThreshold, ExitThreshold,
    MinWidth2, MaxWidth2,    \* twice edge_min_width and edge_max_width
    Centres, Directions      \* bound: of the rays in the image

ASSUME RaysAssumption == NumRays \in Nat \ {0}
ASSUME ThresholdAssumption == EnterThreshold \in Nat /\ ExitThreshold \in Nat
ASSUME WidthAssumption == MinWidth2 \in Nat /\ MaxWidth2 \in Int
ASSUME RayAssumption ==
    /\ Centres \subseteq Int \X Int
    /\ Directions \subseteq Int \X Int \ {<<0, 0>>}
    /\ \A c \in Centres, d \in Directions :
           LET clip == ray_clip(c, d, viewport)
           IN clip # None => PixelCount(clip) \in Counts

(* A ray that was clipped is no ray without stripes.                         *)
ASSUME NoStripesAssumption == None \notin Seq([entry : Int, exit : Int])

VARIABLES
    pc,             \* "idle", "cast" (a ray), "edge" (along it), or "aborted"
                    \* there or "failed" before the first
    ray_center,
    entry,
    point_pairs,
    prev_ray,
    prev_ray_iter,
    detected,
    ranges,
    seen            \* ghost: per ray of the frame, its stripes, None if clipped

rayVars == <<entry, point_pairs, prev_ray_iter, detected>>
vars == <<lineVars, pc, ray_center, rayVars, prev_ray, ranges, seen>>

-----------------------------------------------------------------------------
Width2(p, q) == (p.exit - p.entry) + (q.exit - q.entry)

WidthFits(p, q) ==
    /\ MinWidth2 <= Width2(p, q)
    /\ MaxWidth2 < 0 \/ Width2(p, q) < MaxWidth2

(* detect_edge() has just begun, or does not run.                            *)
NoRay ==
    /\ entry' = None
    /\ point_pairs' = <<>>
    /\ prev_ray_iter' = 1
    /\ detected' = None

Init ==
    /\ NoLine
    /\ pc = "idle"
    /\ ray_center = None
    /\ entry = None
    /\ point_pairs = <<>>
    /\ prev_ray = <<>>
    /\ prev_ray_iter = 1
    /\ detected = None
    /\ ranges = <<>>
    /\ seen = <<>>

(* A frame whose transform to the camera is known, or it yields no scan.     *)
ProcessFrame(centre) ==
    /\ pc = "idle"
    /\ pc' = "cast"
    /\ ray_center' = centre
    /\ prev_ray' = <<>>
    /\ ranges' = <<>>
    /\ seen' = <<>>
    /\ UNCHANGED <<lineVars, rayVars>>

(* cv_bridge throws for an encoding that it cannot convert, before anything  *)
(* of the frame is looked at: the exception leaves the callback and ends the *)
(* process.                                                                  *)
ConvertThrows ==
    /\ pc = "idle"
    /\ pc' = "failed"
    /\ UNCHANGED <<ray_center, lineVars, rayVars, prev_ray, ranges, seen>>

Clip(dir) == ray_clip(ray_center, dir, viewport)

(* Slip: the loop runs to num_rays.                                          *)
RayClipped_OneMore(dir) ==
    /\ pc = "cast" /\ Len(ranges) <= NumRays
    /\ Clip(dir) = None
    /\ ranges' = Append(ranges, None)
    /\ seen' = Append(seen, None)
    /\ UNCHANGED <<lineVars, pc, ray_center, rayVars, prev_ray>>

(* The ray misses the image: its range is infinite, and prev_ray stays.      *)
RayClipped(dir) ==
    /\ pc = "cast" /\ Len(ranges) < NumRays
    /\ Clip(dir) = None
    /\ ranges' = Append(ranges, None)
    /\ seen' = Append(seen, None)
    /\ UNCHANGED <<lineVars, pc, ray_center, rayVars, prev_ray>>

(* detect_edge() begins at the first pixel of the ray, of brightness v.      *)
RayCast(dir, v) ==
    /\ pc = "cast" /\ Len(ranges) < NumRays
    /\ Clip(dir) # None
    /\ Construct(PixelCount(Clip(dir)), v)
    /\ pc' = "edge"
    /\ NoRay
    /\ UNCHANGED <<ray_center, prev_ray, ranges, seen>>

(* One round of the loop in detect_edge(), up to the test of the iterator.   *)
Step(v) == pc = "edge" /\ More(index + 1) /\ Increment(v)

(* The response of the round, at the pixel of the round.                     *)
Falls == -filter_value' > EnterThreshold
Rises == filter_value' > ExitThreshold
Pos == Centre(history', index')

Nothing(v) ==
    /\ Step(v)
    /\ ~(entry = None /\ Falls)
    /\ ~(entry # None /\ Rises)
    /\ UNCHANGED <<ray_center, pc, rayVars, prev_ray, ranges, seen>>

Enter(v) ==
    /\ Step(v)
    /\ entry = None /\ Falls
    /\ entry' = Pos
    /\ UNCHANGED <<ray_center, pc, point_pairs, prev_ray_iter, detected, prev_ray, ranges, seen>>

HasPrev == prev_ray_iter <= Len(prev_ray) /\ detected = None

(* A stripe ends and there is none of the ray before to compare it with, or  *)
(* no need to.                                                               *)
Leave(v) ==
    /\ Step(v)
    /\ entry # None /\ Rises
    /\ point_pairs' = Append(point_pairs, [entry |-> entry, exit |-> Pos])
    /\ entry' = None
    /\ ~HasPrev
    /\ UNCHANGED <<ray_center, pc, prev_ray_iter, detected, prev_ray, ranges, seen>>

(* Slip: the stripe is compared with the first one of the ray before.        *)
LeaveAndCompare_First(v) ==
    LET p == [entry |-> entry, exit |-> Pos] IN
    /\ Step(v)
    /\ entry # None /\ Rises
    /\ point_pairs' = Append(point_pairs, p)
    /\ entry' = None
    /\ HasPrev
    /\ detected' = IF WidthFits(p, prev_ray[1]) THEN p.entry ELSE None
    /\ prev_ray_iter' = prev_ray_iter + 1
    /\ UNCHANGED <<ray_center, pc, prev_ray, ranges, seen>>

(* A stripe ends and is compared with its counterpart.  entry is read once   *)
(* more for the debug image although it has been reset: the read yields what *)
(* was there, or a build with the library's assertions aborts.               *)
LeaveAndCompare(v) ==
    LET p == [entry |-> entry, exit |-> Pos] IN
    /\ Step(v)
    /\ entry # None /\ Rises
    /\ point_pairs' = Append(point_pairs, p)
    /\ entry' = None
    /\ HasPrev
    /\ detected' = IF WidthFits(p, prev_ray[prev_ray_iter]) THEN p.entry ELSE None
    /\ prev_ray_iter' = prev_ray_iter + 1
    /\ pc' \in {"edge", "aborted"}
    /\ UNCHANGED <<ray_center, prev_ray, ranges, seen>>

-----------------------------------------------------------------------------
(* Reference, from the first c pixels of the image alone: a stripe is a      *)
(* rise of the brightness with the first fall since the rise before.         *)
Stripes(c) ==
    LET falls == {x \in InnerTo(c) : -Response(x) > EnterThreshold}
        rises == {x \in InnerTo(c) : Response(x) > ExitThreshold}
    IN {p \in [entry : falls, exit : rises] :
           /\ p.entry < p.exit
           /\ rises \cap (p.entry .. p.exit - 1) = {}
           /\ \A f \in falls : f < p.entry => rises \cap (f .. p.entry) # {}}

(* The stripes in their order along the ray.                                 *)
Ordered(S) ==
    [k \in 1 .. Cardinality(S) |->
        CHOOSE p \in S : Cardinality({q \in S : q.entry <= p.entry}) = k]

-----------------------------------------------------------------------------
(* The last increment reads behind the line and ends the loop; what it has   *)
(* read is not used, and the locals of detect_edge() are gone.               *)
RayDone ==
    /\ pc = "edge" /\ ~More(index + 1)
    /\ prev_ray' = point_pairs
    /\ ranges' = Append(ranges, detected)
    /\ seen' = Append(seen, Ordered(Stripes(count)))
    /\ pc' = "cast"
    /\ Destroy /\ NoRay
    /\ UNCHANGED ray_center

(* The scan is published.                                                    *)
FrameDone ==
    /\ pc = "cast" /\ Len(ranges) = NumRays
    /\ pc' = "idle"
    /\ UNCHANGED <<ray_center, lineVars, rayVars, prev_ray, ranges, seen>>

Aborted == pc \in {"aborted", "failed"} /\ UNCHANGED vars

Next ==
    \/ \E centre \in Centres : ProcessFrame(centre)
    \/ ConvertThrows
    \/ \E dir \in Directions : RayClipped(dir)
    \/ \E dir \in Directions, v \in Brightness : RayCast(dir, v)
    \/ \E v \in Brightness : Nothing(v)
    \/ \E v \in Brightness : Enter(v)
    \/ \E v \in Brightness : Leave(v)
    \/ \E v \in Brightness : LeaveAndCompare(v)
    \/ RayDone
    \/ FrameDone
    \/ Aborted

Spec == Init /\ [][Next]_vars

-----------------------------------------------------------------------------
Points == 0 .. 2 ^ SizeBits
Pairs == [entry : Points, exit : Points]

(* Every variable has its type.                                              *)
TypeOK ==
    /\ LineTypeOK
    /\ pc \in {"idle", "cast", "edge", "aborted", "failed"}
    /\ ray_center \in Centres \cup {None}
    /\ entry \in Points \cup {None}
    /\ point_pairs \in Seq(Pairs)
    /\ prev_ray \in Seq(Pairs)
    /\ prev_ray_iter \in 1 .. Len(prev_ray) + 1
    /\ detected \in Points \cup {None}
    /\ ranges \in Seq(Points \cup {None}) /\ Len(ranges) <= NumRays
    /\ seen \in Seq(Seq(Pairs) \cup {None})

(* The range of ray k that the scan promises: where the first stripe begins  *)
(* that fits its counterpart on the last ray before k that met the image.    *)
ExpectedRange(k) ==
    LET earlier == {j \in 1 .. k - 1 : seen[j] # None}
        prev == IF earlier = {} THEN <<>>
                ELSE seen[CHOOSE j \in earlier : \A i \in earlier : i <= j]
        fits == {i \in 1 .. Len(seen[k]) \cap 1 .. Len(prev) :
                    WidthFits(seen[k][i], prev[i])}
    IN IF seen[k] = None \/ fits = {} THEN None
       ELSE seen[k][CHOOSE i \in fits : \A j \in fits : i <= j].entry

(* Every ray of a frame, also one that misses the image, has its range in    *)
(* its place, and a range is finite only for a stripe that two rays of the   *)
(* same frame have seen and that has the right width: no stripe is compared  *)
(* with another frame's, with the wrong one, or measured from a wrong pixel. *)
RangesConfirmed ==
    /\ Len(ranges) = Len(seen)
    /\ \A k \in 1 .. Len(ranges) : ranges[k] = ExpectedRange(k)

(* A ray is cut to exactly the part of it that lies in the image, whether it *)
(* starts inside or outside, ahead of the image or behind it, and its ends   *)
(* round to pixels of the image: for the rays from every pixel in and next to*)
(* an image of this size, in each direction with coordinates of -2 .. 2.     *)
ClipExact ==
    pc = "idle" /\ ray_center = None =>
        \A start \in (-2 .. Width + 1) \X (-2 .. Height + 1),
           dir \in ((-2 .. 2) \X (-2 .. 2)) \ {<<0, 0>>} : ClipOf(start, dir)
=============================================================================
