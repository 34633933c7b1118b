-------------------------------- MODULE Raster -------------------------------
(****************************************************************************)
(* From a triangle of shaded vertices to the pixels it is drawn on:         *)
(* src/gpu/clipper.c, and the coverage of src/gpu/rasterizer.c.  A vertex   *)
(* is its position (x, y, z, w), a fraction: whole numbers num over one     *)
(* denominator den.  Fractions are exact where the code has floats, and     *)
(* zero has no sign.  Screen coordinates have four fractional bits.         *)
(****************************************************************************)
EXTENDS Integers, SequencesExt

CONSTANTS
    HalfWidth,      \* half the viewport's width, in pixels
    HalfHeight,     \* half its height
    OffsetX,        \* the viewport's place on the screen
    OffsetY

U16(n) == n % 65536
Abs(n) == IF n < 0 THEN -n ELSE n
\* Division of C: towards zero.
Quotient(a, b) == IF (a < 0) # (b < 0) THEN -(Abs(a) \div Abs(b)) ELSE Abs(a) \div Abs(b)

\* roundf of a/b, b positive: halves away from zero.
Rounded(a, b) == IF a < 0 THEN -((b - 2 * a) \div (2 * b)) ELSE (2 * a + b) \div (2 * b)

GCD[a, b \in Nat] == IF b = 0 THEN a ELSE GCD[b, a % b]

\* num over den, den not zero, in lowest terms.
Fraction(num, den) ==
    LET sign == IF den < 0 THEN -1 ELSE 1
        common == FoldLeft(LAMBDA n, i : GCD[n, Abs(num[i])], Abs(den), <<0, 1, 2, 3>>)
    IN  [num |-> [i \in 0 .. 3 |-> (sign * num[i]) \div common], den |-> Abs(den) \div common]
Whole(v) == [num |-> [i \in 0 .. 3 |-> v[i]], den |-> 1]

-----------------------------------------------------------------------------
(* Clipping. *)

\* a/b = c/d for floats: x/0 is infinite, or no number when x is 0.
SameRatio(a, b, c, d) ==
    \/ b # 0 /\ d # 0 /\ a * d = c * b
    \/ b = 0 /\ d = 0 /\ a * c > 0

\* The test for triangles that are a line: whether the third vertex less the
\* first is a multiple of the second.
PointIsOnLine(start, end, point) ==
    /\ SameRatio(point[0] - start[0], end[0], point[1] - start[1], end[1])
    /\ SameRatio(point[1] - start[1], end[1], point[2] - start[2], end[2])

\* The planes of the view volume.
Edge(x, y, z, w) == [i \in 0 .. 3 |-> <<x, y, z, w>>[i + 1]]
edges == <<Edge(1, 0, 0, -1), Edge(-1, 0, 0, -1), Edge(0, 1, 0, -1), Edge(0, -1, 0, -1),
           Edge(0, 0, 1, 0), Edge(0, 0, -1, -1), Edge(0, 0, 0, -1)>>

Dot3(n, edge) == n[0] * edge[0] + n[1] * edge[1] + n[2] * edge[2]
Dot(n, edge) == Dot3(n, edge) + n[3] * edge[3]
IsInside(v, edge) == Dot(v.num, edge) <= 0

\* Where the line from v1 to v0 meets a plane, by what each is beyond it; for
\* v1 that is computed with v0's w.  dp and dp_prev are over v0.den * v1.den.
GetIntersection(v0, v1, edge) ==
    LET dp == Dot(v0.num, edge) * v1.den
        dp_prev == Dot3(v1.num, edge) * v0.den + v0.num[3] * edge[3] * v1.den
    IN  Fraction([i \in 0 .. 3 |-> v1.num[i] * v0.den * dp_prev - v0.num[i] * v1.den * dp],
                 v0.den * v1.den * (dp_prev - dp))

\* A polygon cut at one plane: its vertices inside, and the crossings.
CutAt(polygon, edge) ==
    LET Reference(j) == polygon[IF j = 1 THEN Len(polygon) ELSE j - 1]
        Crossing(j) == IF IsInside(polygon[j], edge) # IsInside(Reference(j), edge)
                          THEN <<GetIntersection(polygon[j], Reference(j), edge)>> ELSE <<>>
        Kept(j) == IF IsInside(polygon[j], edge) THEN <<polygon[j]>> ELSE <<>>
    IN  FoldLeft(LAMBDA done, j : done \o Crossing(j) \o Kept(j), <<>>, [j \in DOMAIN polygon |-> j])

\* What the planes leave of a triangle: the vertices of a polygon, or fewer
\* than three.
Cut(triangle) ==
    FoldLeft(LAMBDA polygon, edge : IF Len(polygon) < 3 THEN polygon ELSE CutAt(polygon, edge),
             triangle, edges)

\* The triangles that a polygon is drawn as.
Fan(polygon) == [i \in 1 .. Len(polygon) - 2 |-> <<polygon[1], polygon[i + 1], polygon[i + 2]>>]

\* Screen coordinates as rasterizer_ProcessTriangle rounds them; w is positive
\* in the scenes.
InitScreenCoordinates(v) ==
    LET At(n, half, offset) == Rounded(((n + v.num[3]) * half + offset * v.num[3]) * 16, v.num[3])
    IN  [x |-> At(v.num[0], HalfWidth, OffsetX), y |-> At(v.num[1], HalfHeight, OffsetY)]

-----------------------------------------------------------------------------
(* Coverage. *)

\* Twice the area to the left of the line from a to b, seen from c.
orient2d(a, b, c) ==
    (U16(b.x) - U16(a.x)) * (U16(c.y) - U16(a.y)) - (U16(b.y) - U16(a.y)) * (U16(c.x) - U16(a.x))

\* The edge between a and b, opposite of vertex v.
IsRightSideOrFlatBottomEdge(v, a, b) ==
    IF a.y = b.y THEN v.y < a.y
    ELSE v.x < a.x + Quotient((b.x - a.x) * (v.y - a.y), b.y - a.y)

\* Mutant (SharedEdgesDrawnOnce): a pixel on any edge is drawn.
NoBias(v, a, b) == 0
Bias(v, a, b) == IF IsRightSideOrFlatBottomEdge(v, a, b) THEN -1 ELSE 0

min3(p, q, r) == IF p < q /\ p < r THEN p ELSE IF q < r THEN q ELSE r
max3(p, q, r) == IF p > q /\ p > r THEN p ELSE IF q > r THEN q ELSE r
IntMask(n) == (n \div 16) * 16

\* The order in which the triangle's vertices are taken; cull is the mode of
\* culling, 1 to keep what is wound clockwise.  Nothing is culled.
Wound(t, cull) ==
    LET swapped == <<t[1], t[3], t[2]>>
        taken == IF cull = 1 THEN swapped ELSE t
    IN  IF orient2d(taken[1], taken[2], taken[3]) <= 0 THEN <<taken[1], taken[3], taken[2]>>
        ELSE taken

\* The centres that the loops over the bounding box visit.
Centres(low, high) ==
    {c \in IntMask(U16(low)) + 8 .. IntMask(U16(U16(high) + 15)) - 1 : c % 16 = 8}

\* The pixels that get a colour when the triangle of screen coordinates t is
\* drawn and no test refuses it (rasterizer_ProcessTriangle).
Covered(t, cull) ==
    LET s == Wound(t, cull)
        v0 == s[1]
        v1 == s[2]
        v2 == s[3]
        bias0 == Bias(v0, v1, v2)
        bias1 == Bias(v1, v2, v0)
        bias2 == Bias(v2, v0, v1)
        box == [x : Centres(min3(v0.x, v1.x, v2.x), max3(v0.x, v1.x, v2.x)),
                y : Centres(min3(v0.y, v1.y, v2.y), max3(v0.y, v1.y, v2.y))]
    IN  {p \in box : /\ bias0 + orient2d(v1, v2, p) >= 0
                     /\ bias1 + orient2d(v2, v0, p) >= 0
                     /\ bias2 + orient2d(v0, v1, p) >= 0}
=============================================================================
