------------------------- MODULE MCTiledBackingStore -------------------------
(***************************************************************************)
(* A small instance of TiledBackingStore for TLC: 2x2 tiles over contents  *)
(* of at most 4x4 pixels (8x8 at scale 2), so a cover rect spans up to     *)
(* four tile columns and rows and a pass can leave tiles pending.          *)
(***************************************************************************)
EXTENDS TiledBackingStore

MCVisibleRects ==
    { Rect(0, 0, 2, 2),   \* top-left corner
      Rect(2, 2, 2, 2),   \* bottom-right corner
      Rect(4, 0, 2, 2) }  \* off the right edge: only the halo meets the contents
MCContentsRects ==
    { Rect(0, 0, 4, 4), Rect(0, 0, 3, 4), Rect(0, 0, 0, 0) }
MCDirtyRects == { Rect(3, 0, 1, 1), Rect(1, 1, 2, 2) }
MCScales == { <<1, 1>>, <<2, 1>> }
\* A zoomed-out scale, where backing-store space is smaller than contents.
MCScalesDown == { <<1, 1>>, <<1, 2>> }
MCTileSizes == { <<3, 3>> }
MCTrajectories == { <<0, 0>>, <<2, 0>>, <<-1, -1>> }
MCInitTileSize == <<2, 2>>
MCInitVisible == Rect(0, 0, 2, 2)
MCInitContents == Rect(0, 0, 4, 4)

(***************************************************************************)
(* Liveness is checked with the client's flushes as the only fair steps.   *)
(* LiveSpec leaves out the two calls that drop tiles without scheduling    *)
(* their re-creation; TileSizeSpec adds setTileSize back.                   *)
(***************************************************************************)
LiveSpec == Init /\ [][ClientNext \/ FlushNext]_vars /\ Fairness
TileSizeSpec ==
    Init /\ [][ClientNext \/ (\E s \in TileSizes : SetTileSize(s)) \/ FlushNext]_vars
         /\ Fairness

=============================================================================
