-------------------------- MODULE TBSGeometryCheck --------------------------
(***************************************************************************)
(* The geometry engine's functions are stateless, so their properties are  *)
(* checked for every input of a bounded domain: each initial state is one  *)
(* input, and nothing changes it.                                          *)
(***************************************************************************)
EXTENDS TBSGeometry

CONSTANTS
    Xs, Ys,           \* origins of visible rects
    Widths, Heights,  \* sizes of visible rects
    Multipliers,      \* m_coverAreaMultiplier values
    Directions,       \* raw trajectory vectors (normalized before use)
    TileSizes,
    ContentsRects,    \* m_rect values
    Scales            \* contents scales as <<num, den>>

VARIABLE input

Inputs ==
    [visible : {Rect(x, y, w, h) : x \in Xs, y \in Ys, w \in Widths, h \in Heights},
     multiplier : Multipliers,
     trajectory : {Normalize(d) : d \in Directions},
     tileSize : TileSizes,
     contents : ContentsRects,
     scale : Scales]

Init == input \in Inputs
Next == UNCHANGED input
Spec == Init /\ [][Next]_input

Geometry ==
    ComputeCoverAndKeepRect(input.visible, input.multiplier, input.trajectory,
                            input.tileSize, input.contents)

(***************************************************************************)
(* The two ASSERTs of computeCoverAndKeepRect: before clamping, the keep   *)
(* rect contains the trajectory-biased cover rect (the ghost of the       *)
(* visible rect is moved by at most the inflation); after clamping, the    *)
(* keep rect contains any non-empty cover rect.                           *)
(***************************************************************************)
KeepContainsCover ==
    /\ input.multiplier > 1 => Contains(Geometry.uncheckedKeep, Geometry.uncheckedCover)
    /\ IsEmpty(Geometry.cover) \/ Contains(Geometry.keep, Geometry.cover)

(***************************************************************************)
(* The cover rect contains the visible part of the contents, whatever the  *)
(* trajectory and however adjustForContentsRect re-grows a clipped cover:  *)
(* so the tiles createTiles creates at distance 0 cover what is visible.   *)
(***************************************************************************)
CoverContainsVisibleContents ==
    LET seen == Intersection(input.visible, input.contents)
    IN  IsEmpty(seen) \/ Contains(Geometry.cover, seen)

(***************************************************************************)
(* Edge compensation never asks for more tiles than the multiplier does:   *)
(* adjustForContentsRect's re-grown cover rect has at most the area of     *)
(* the unclamped candidate, so the tile count, and memory, stays bounded.  *)
(***************************************************************************)
CoverAreaBounded ==
    LET adjusted == Geometry.cover
        candidate == Geometry.uncheckedCover
    IN  adjusted.w * adjusted.h <= candidate.w * candidate.h

(***************************************************************************)
(* Round trip of the scale mappings: mapToContents(mapFromContents(R))     *)
(* contains R, for every rect and scale; rounding only grows a rect.       *)
(***************************************************************************)
MapRoundTrip ==
    Contains(MapToContents(MapFromContents(input.visible, input.scale), input.scale),
             input.visible)

=============================================================================
