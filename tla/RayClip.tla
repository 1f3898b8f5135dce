------------------------------ MODULE RayClip -------------------------------
(* ray_clip(): the part of a ray that lies in the image                      *)
(* (tuw_camera_laserscan/src/geometry.cpp), and the pixels ray_cast() and    *)
(* cv::LineIterator make of its ends.  Points and directions are on a grid;  *)
(* places along the ray are fractions <<n, d>> with d > 0, so that nothing   *)
(* is rounded before the code rounds it.                                     *)
EXTENDS Integers

CONSTANTS
    Width, Height,   \* img->image.cols and rows
    None             \* std::nullopt

ASSUME ImageAssumption == Width \in Nat \ {0} /\ Height \in Nat \ {0}
ASSUME NoneAssumption == None \notin Int

(* std::nullopt is not a clip.                                               *)
PointType == [x : Int, y : Int, over : Int]
ASSUME NoClipAssumption == None \notin [start : PointType, end : PointType]

viewport == [x |-> 0, y |-> 0, width |-> Width - 1, height |-> Height - 1]

LessEq(s, t) == s[1] * t[2] <= t[1] * s[2]

(* The point of the ray at t, as numerators and their common denominator.    *)
At(start, dir, t) ==
    [x |-> start[1] * t[2] + t[1] * dir[1],
     y |-> start[2] * t[2] + t[1] * dir[2],
     over |-> t[2]]

(* Slip: the line is clipped, also behind the start of the ray.              *)
ray_clip_Line(start, dir, bounds) ==
    LET p == <<-dir[1], dir[1], -dir[2], dir[2]>>
        q == <<start[1] - bounds.x, bounds.x + bounds.width - start[1],
               start[2] - bounds.y, bounds.y + bounds.height - start[2]>>
        t(i) == IF p[i] > 0 THEN <<q[i], p[i]>> ELSE <<-q[i], -p[i]>>
        enters == {t(i) : i \in {j \in 1 .. 4 : p[j] < 0}}
        leaves == {t(i) : i \in {j \in 1 .. 4 : p[j] > 0}}
        t1 == CHOOSE s \in enters : \A r \in enters : LessEq(r, s)
        t2 == CHOOSE s \in leaves : \A r \in leaves : LessEq(s, r)
    IN IF (\E i \in 1 .. 4 : p[i] = 0 /\ q[i] < 0) \/ ~LessEq(t1, t2)
       THEN None
       ELSE [start |-> At(start, dir, t1), end |-> At(start, dir, t2)]

(* The ray is behind an edge of the bounds from t1 = 0 at the earliest, and  *)
(* reaches the next one at t2; a parallel to an edge is on one side of it.   *)
ray_clip(start, dir, bounds) ==
    LET p == <<-dir[1], dir[1], -dir[2], dir[2]>>
        q == <<start[1] - bounds.x, bounds.x + bounds.width - start[1],
               start[2] - bounds.y, bounds.y + bounds.height - start[2]>>
        t(i) == IF p[i] > 0 THEN <<q[i], p[i]>> ELSE <<-q[i], -p[i]>>
        enters == {<<0, 1>>} \cup {t(i) : i \in {j \in 1 .. 4 : p[j] < 0}}
        leaves == {t(i) : i \in {j \in 1 .. 4 : p[j] > 0}}
        t1 == CHOOSE s \in enters : \A r \in enters : LessEq(r, s)
        t2 == CHOOSE s \in leaves : \A r \in leaves : LessEq(s, r)
    IN IF (\E i \in 1 .. 4 : p[i] = 0 /\ q[i] < 0) \/ ~LessEq(t1, t2)
       THEN None
       ELSE [start |-> At(start, dir, t1), end |-> At(start, dir, t2)]

(* cv::Point rounds to the nearest integer, a half to the even one.          *)
Rounded(n, d) ==
    LET below == (2 * n + d) \div (2 * d)
    IN IF (2 * n + d) % (2 * d) = 0 /\ below % 2 = 1 THEN below - 1 ELSE below

Pixel(point) == <<Rounded(point.x, point.over), Rounded(point.y, point.over)>>

Distance(m, n) == IF m < n THEN n - m ELSE m - n

(* cv::LineIterator counts the pixels along the longer axis.                 *)
PixelCount(clip) ==
    LET s == Pixel(clip.start)
        e == Pixel(clip.end)
        dx == Distance(s[1], e[1])
        dy == Distance(s[2], e[2])
    IN 1 + (IF dx < dy THEN dy ELSE dx)

-----------------------------------------------------------------------------
InImage(pixel) == pixel[1] \in 0 .. Width - 1 /\ pixel[2] \in 0 .. Height - 1

SamePoint(p, q) == p.x * q.over = q.x * p.over /\ p.y * q.over = q.y * p.over

(* Reference: the ray crosses the edges of the image at multiples of 1 / L.  *)
(* Its clip runs from the first to the last of them that lies in the image,  *)
(* and all its pixels are in the image.                                      *)
ClipOf(start, dir) ==
    LET L == (IF dir[1] = 0 THEN 1 ELSE Distance(0, dir[1]))
             * (IF dir[2] = 0 THEN 1 ELSE Distance(0, dir[2]))
        far == Distance(0, start[1]) + Distance(0, start[2]) + Width + Height
        inside == {k \in 0 .. far * L :
                      LET p == At(start, dir, <<k, L>>) IN
                      /\ p.x \in 0 .. (Width - 1) * L
                      /\ p.y \in 0 .. (Height - 1) * L}
        clip == ray_clip(start, dir, viewport)
    IN IF inside = {} THEN clip = None
       ELSE /\ clip # None
            /\ SamePoint(clip.start, At(start, dir,
                   <<CHOOSE k \in inside : \A j \in inside : k <= j, L>>))
            /\ SamePoint(clip.end, At(start, dir,
                   <<CHOOSE k \in inside : \A j \in inside : k >= j, L>>))
            /\ InImage(Pixel(clip.start)) /\ InImage(Pixel(clip.end))
=============================================================================
