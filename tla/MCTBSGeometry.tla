---------------------------- MODULE MCTBSGeometry ----------------------------
(***************************************************************************)
(* Bounded input domain for TBSGeometryCheck: visible rects that lie       *)
(* inside, across and outside the contents on both sides, every            *)
(* multiplier from "no halo" to a wide one, all eight directions, square   *)
(* and non-square tiles, contents at and away from the origin, and scales  *)
(* above, at and below 1.                                                  *)
(***************************************************************************)
EXTENDS TBSGeometryCheck

MCXs == -3 .. 5
MCYs == {-2, 0, 3}
MCWidths == {1, 2, 3}
MCHeights == {1, 3}
MCMultipliers == {1, 2, 3}
MCDirections == {<<dx, dy>> : dx, dy \in {-1, 0, 2}}
MCTileSizes == {<<2, 2>>, <<3, 2>>}
MCContentsRects == {Rect(0, 0, 4, 4), Rect(0, 0, 6, 3), Rect(1, 1, 3, 2)}
MCScales == {<<1, 1>>, <<2, 1>>, <<1, 2>>, <<3, 2>>, <<2, 3>>}

=============================================================================
