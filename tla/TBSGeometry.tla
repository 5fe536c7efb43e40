----------------------------- MODULE TBSGeometry -----------------------------
(***************************************************************************)
(* The geometry engine of TiledBackingStore.cpp: the IntRect primitives it *)
(* relies on and its pure, stateless functions (mapping between contents   *)
(* and backing-store space, tile coordinates and tile rects, the tile      *)
(* distance used for creation order, and the cover/keep rect computation). *)
(*                                                                         *)
(* Every store-wide value the C++ methods read from `this` (m_rect,        *)
(* m_tileSize, m_contentsScale, m_coverAreaMultiplier, m_trajectoryVector) *)
(* is an explicit argument here.                                           *)
(*                                                                         *)
(* Numbers: a rect is [x, y, w, h] of integers.  A float scale is the      *)
(* exact rational <<num, den>>; a normalized trajectory component is an    *)
(* integer in units of 1/Unit; a float converted to int truncates toward   *)
(* zero (TruncDiv), as the C++ conversion does.                            *)
(***************************************************************************)
EXTENDS Integers, FiniteSets

Rect(x, y, w, h) == [x |-> x, y |-> y, w |-> w, h |-> h]

\* IntRect(): the zero rect every empty intersection collapses to.
EmptyRect == Rect(0, 0, 0, 0)

MaxX(r) == r.x + r.w
MaxY(r) == r.y + r.h

IsEmpty(r) == r.w <= 0 \/ r.h <= 0

\* IntRect::intersect: the overlap, or IntRect() when there is none.
Intersection(a, b) ==
    LET l == IF a.x > b.x THEN a.x ELSE b.x
        t == IF a.y > b.y THEN a.y ELSE b.y
        r == IF MaxX(a) < MaxX(b) THEN MaxX(a) ELSE MaxX(b)
        bo == IF MaxY(a) < MaxY(b) THEN MaxY(a) ELSE MaxY(b)
    IN  IF l >= r \/ t >= bo THEN EmptyRect ELSE Rect(l, t, r - l, bo - t)

\* IntRect::unite: the bounding box, ignoring an empty operand.
Unite(a, b) ==
    CASE IsEmpty(b) -> a
      [] IsEmpty(a) -> b
      [] OTHER ->
           LET l == IF a.x < b.x THEN a.x ELSE b.x
               t == IF a.y < b.y THEN a.y ELSE b.y
               r == IF MaxX(a) > MaxX(b) THEN MaxX(a) ELSE MaxX(b)
               bo == IF MaxY(a) > MaxY(b) THEN MaxY(a) ELSE MaxY(b)
           IN  Rect(l, t, r - l, bo - t)

\* IntRect::intersects and FloatRect::intersects (strict at shared edges).
Intersects(a, b) ==
    /\ ~IsEmpty(a) /\ ~IsEmpty(b)
    /\ a.x < MaxX(b) /\ b.x < MaxX(a)
    /\ a.y < MaxY(b) /\ b.y < MaxY(a)

\* IntRect::contains(const IntRect&): edge comparison only.
Contains(a, b) ==
    a.x <= b.x /\ MaxX(a) >= MaxX(b) /\ a.y <= b.y /\ MaxY(a) >= MaxY(b)

InflateX(r, d) == [r EXCEPT !.x = r.x - d, !.w = r.w + 2 * d]
InflateY(r, d) == [r EXCEPT !.y = r.y - d, !.h = r.h + 2 * d]
Move(r, dx, dy) == [r EXCEPT !.x = r.x + dx, !.y = r.y + dy]

\* The pixels of a rect, used to state what a tile's buffer shows.
Pixels(r) == (r.x .. MaxX(r) - 1) \X (r.y .. MaxY(r) - 1)

\* C++ int division and float-to-int conversion: truncation toward zero.
TruncDiv(a, b) == IF (a >= 0) = (b > 0) THEN a \div b ELSE -((-a) \div b)
FloorDiv(a, b) == a \div b
CeilDiv(a, b) == -((-a) \div b)

\* Mutant: the max edges rounded down instead of up.
ScaleRectFloorMax(r, num, den) ==
    LET x == FloorDiv(r.x * num, den)
        y == FloorDiv(r.y * num, den)
    IN  Rect(x, y, FloorDiv(MaxX(r) * num, den) - x, FloorDiv(MaxY(r) * num, den) - y)

\* enclosingIntRect(FloatRect(x*s, y*s, w*s, h*s)) for s = num/den > 0.
ScaleRect(r, num, den) ==
    LET x == FloorDiv(r.x * num, den)
        y == FloorDiv(r.y * num, den)
        mx == CeilDiv(MaxX(r) * num, den)
        my == CeilDiv(MaxY(r) * num, den)
    IN  Rect(x, y, mx - x, my - y)

\* TiledBackingStore::mapFromContents / mapToContents.
MapFromContents(r, scale) == ScaleRect(r, scale[1], scale[2])
MapToContents(r, scale) == ScaleRect(r, scale[2], scale[1])

\* innerBottomRight: the last pixel a rect contains.
InnerBottomRight(r) == <<MaxX(r) - 1, MaxY(r) - 1>>

\* TiledBackingStore::tileCoordinateForPoint.
TileCoordinateForPoint(p, tileSize) ==
    LET x == TruncDiv(p[1], tileSize[1])
        y == TruncDiv(p[2], tileSize[2])
    IN  <<IF x > 0 THEN x ELSE 0, IF y > 0 THEN y ELSE 0>>

\* TiledBackingStore::tileRectForCoordinate: the cell clipped to m_rect.
TileRectForCoordinate(c, tileSize, mrect) ==
    Intersection(Rect(c[1] * tileSize[1], c[2] * tileSize[2],
                      tileSize[1], tileSize[2]), mrect)

\* Mutant: the loops run to the cell of the exclusive bottom-right corner.
CoordinatesSpanningPastEdge(r, tileSize) ==
    LET tl == TileCoordinateForPoint(<<r.x, r.y>>, tileSize)
        br == TileCoordinateForPoint(<<MaxX(r), MaxY(r)>>, tileSize)
    IN  (tl[1] .. br[1]) \X (tl[2] .. br[2])

\* The coordinates from the cell of a rect's top-left pixel to the cell of
\* its inner bottom-right pixel: the double loop of invalidate, coverageRatio
\* and createTiles.
CoordinatesSpanning(r, tileSize) ==
    LET tl == TileCoordinateForPoint(<<r.x, r.y>>, tileSize)
        br == TileCoordinateForPoint(InnerBottomRight(r), tileSize)
    IN  (tl[1] .. br[1]) \X (tl[2] .. br[2])

Abs(n) == IF n < 0 THEN -n ELSE n

\* TiledBackingStore::tileDistance: 0 for a tile meeting the viewport, else
\* the Chebyshev distance to the cell of the viewport centre.
TileDistance(viewport, c, tileSize, mrect) ==
    IF Intersects(viewport, TileRectForCoordinate(c, tileSize, mrect))
    THEN 0
    ELSE LET centre == <<viewport.x + TruncDiv(viewport.w, 2),
                         viewport.y + TruncDiv(viewport.h, 2)>>
             cc == TileCoordinateForPoint(centre, tileSize)
             dy == Abs(cc[2] - c[2])
             dx == Abs(cc[1] - c[1])
         IN  IF dy > dx THEN dy ELSE dx

\* FloatPoint::normalize on the trajectory inputs the model offers, which
\* are axis-aligned or diagonal: each component becomes its sign times
\* 1/sqrt(k), k the number of non-zero components; (0,0) is left alone.
Unit == 10000
Sign(n) == IF n > 0 THEN 1 ELSE IF n < 0 THEN -1 ELSE 0
Normalize(v) ==
    LET k == IF v[1] # 0 /\ v[2] # 0 THEN 7071 ELSE Unit
    IN  <<Sign(v[1]) * k, Sign(v[2]) * k>>

\* Mutant: the regained area added on both sides, without the halving.
AdjustForContentsRectNoHalf(rect, bounds) ==
    LET clipped == Intersection(rect, bounds)
        pixelsCovered == rect.w * rect.h
        grownY == IF clipped.w < rect.w
                  THEN InflateY(clipped, TruncDiv(pixelsCovered, clipped.w) - clipped.h)
                  ELSE clipped
        grownX == IF grownY.h < rect.h
                  THEN InflateX(grownY, TruncDiv(pixelsCovered, grownY.h) - grownY.w)
                  ELSE grownY
    IN  IF (clipped.w = rect.w /\ clipped.h = rect.h) \/ IsEmpty(clipped)
        THEN clipped
        ELSE Intersection(grownX, bounds)

\* adjustForContentsRect's first re-growth: a cover rect clipped in width
\* regains the lost area in height, half on each side.
RegainHeight(clipped, rect) ==
    IF clipped.w < rect.w
    THEN InflateY(clipped,
                  TruncDiv(TruncDiv(rect.w * rect.h, clipped.w) - clipped.h, 2))
    ELSE clipped

\* Its second: a rect still short in height regains the area in width.
RegainWidth(grownY, rect) ==
    IF grownY.h < rect.h
    THEN InflateX(grownY,
                  TruncDiv(TruncDiv(rect.w * rect.h, grownY.h) - grownY.w, 2))
    ELSE grownY

\* adjustForContentsRect once the candidate has been clipped to the bounds.
AdjustClipped(rect, bounds, clipped) ==
    IF (clipped.w = rect.w /\ clipped.h = rect.h) \/ IsEmpty(clipped)
    THEN clipped
    ELSE Intersection(RegainWidth(RegainHeight(clipped, rect), rect), bounds)

\* TiledBackingStore::adjustForContentsRect: clip the candidate cover rect
\* to the contents and try to regain the lost area on the other axis.
AdjustForContentsRect(rect, bounds) ==
    AdjustClipped(rect, bounds, Intersection(rect, bounds))

\* Mutant: the ghost not united with the visible rect.
CandidateRectsNoUnite(visible, multiplier, trajectory) ==
    IF multiplier > 1
    THEN LET inflated == InflateY(InflateX(visible,
                             TruncDiv(visible.w * (multiplier - 1), 2)),
                             TruncDiv(visible.h * (multiplier - 1), 2))
         IN  [cover |-> IF trajectory = <<0, 0>> THEN inflated
                        ELSE Move(visible,
                          TruncDiv(visible.w * trajectory[1] * (multiplier - 1), 2 * Unit),
                          TruncDiv(visible.h * trajectory[2] * (multiplier - 1), 2 * Unit)),
              keep  |-> inflated]
    ELSE [cover |-> visible, keep |-> visible]

\* The cover rect before adjustForContentsRect: the visible rect inflated by
\* the multiplier, or, with a trajectory, the visible rect united with a
\* ghost of it moved along the trajectory.  keep is the symmetric inflation.
CandidateRects(visible, multiplier, trajectory) ==
    IF multiplier > 1
    THEN LET inflated == InflateY(InflateX(visible,
                             TruncDiv(visible.w * (multiplier - 1), 2)),
                             TruncDiv(visible.h * (multiplier - 1), 2))
             moved == Move(visible,
                        TruncDiv(visible.w * trajectory[1] * (multiplier - 1), 2 * Unit),
                        TruncDiv(visible.h * trajectory[2] * (multiplier - 1), 2 * Unit))
         IN  [cover |-> IF trajectory = <<0, 0>> THEN inflated
                        ELSE Unite(moved, visible),
              keep  |-> inflated]
    ELSE [cover |-> visible, keep |-> visible]

\* The two rects computeCoverAndKeepRect returns, from the candidates and
\* the adjusted cover rect: keep is united with cover, inflated by half a
\* tile and clipped to the contents.
CoverAndKeep(cand, cover, tileSize, mrect) ==
    [cover |-> cover,
     keep |-> Intersection(InflateY(InflateX(Unite(cand.keep, cover),
                  TruncDiv(tileSize[1], 2)), TruncDiv(tileSize[2], 2)), mrect),
     uncheckedCover |-> cand.cover, uncheckedKeep |-> cand.keep]

CoverAndKeepFrom(cand, tileSize, mrect) ==
    CoverAndKeep(cand, AdjustForContentsRect(cand.cover, mrect), tileSize, mrect)

\* Mutant: the keep rect not united with the adjusted cover rect.
ComputeCoverAndKeepRectNoUnite(visible, multiplier, trajectory, tileSize, mrect) ==
    LET cand == CandidateRects(visible, multiplier, trajectory)
        cover == AdjustForContentsRect(cand.cover, mrect)
        keep == InflateY(InflateX(cand.keep,
                    TruncDiv(tileSize[1], 2)), TruncDiv(tileSize[2], 2))
    IN  [cover |-> cover, keep |-> Intersection(keep, mrect),
         uncheckedCover |-> cand.cover, uncheckedKeep |-> cand.keep]

\* TiledBackingStore::computeCoverAndKeepRect.
ComputeCoverAndKeepRect(visible, multiplier, trajectory, tileSize, mrect) ==
    CoverAndKeepFrom(CandidateRects(visible, multiplier, trajectory), tileSize, mrect)

=============================================================================
