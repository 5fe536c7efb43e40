-------------------------- MODULE TiledBackingStore --------------------------
(***************************************************************************)
(* TiledBackingStore (TiledBackingStore.cpp) and the Tile objects it owns, *)
(* driven by its client, the host layer.                                   *)
(*                                                                         *)
(* The client owns the visible rect and the contents rect, in contents    *)
(* space, and the store reads them through tiledBackingStoreVisibleRect   *)
(* and tiledBackingStoreContentsRect whenever it needs them.  The client   *)
(* changes them, and calls the store's public methods, in any order.     *)
(* Every method runs to completion on the client's thread, so each is one  *)
(* atomic step.                                                            *)
(*                                                                         *)
(* The Tile class is not in the source tree.  Its methods (constructor,    *)
(* invalidate, resize, updateBackBuffer, isDirty, isReadyToPaint) are      *)
(* modelled from the design: a tile keeps its rect, a dirty rect that      *)
(* invalidate unites into, and whether it has been painted once.  Each     *)
(* tile also carries a ghost field `stale`: the pixels of its rect whose   *)
(* painted content no longer matches the page.                            *)
(***************************************************************************)
EXTENDS TBSGeometry, FiniteSetsExt, Functions, TLC

CONSTANTS
    VisibleRects,     \* visible rects the client may report (contents space)
    ContentsRects,    \* contents rects the client may report
    DirtyRects,       \* rects the client may invalidate (contents space)
    Scales,           \* contents scales, as <<num, den>>
    TileSizes,        \* tile sizes setTileSize may be called with
    Trajectories,     \* raw vectors setTrajectoryVector may be called with
    Multiplier,       \* m_coverAreaMultiplier
    InitTileSize,     \* m_tileSize after construction
    InitVisible,      \* the client's rects when the store is created
    InitContents,
    MaxEvents         \* bound on client-initiated changes and calls

ASSUME /\ Multiplier \in Nat \ {0}
       /\ \A s \in TileSizes \cup {InitTileSize} : s[1] > 0 /\ s[2] > 0
       /\ \A s \in Scales : s[1] > 0 /\ s[2] > 0
       /\ <<1, 1>> \in Scales
       /\ \A v \in Trajectories : v[1] = 0 \/ v[2] = 0 \/ Abs(v[1]) = Abs(v[2])
       /\ MaxEvents \in Nat

VARIABLES
    clientVisible,        \* client: tiledBackingStoreVisibleRect()
    clientContents,       \* client: tiledBackingStoreContentsRect()
    tileSize,             \* m_tileSize
    contentsScale,        \* m_contentsScale
    supportsAlpha,        \* m_supportsAlpha
    pendingTrajectory,    \* m_pendingTrajectoryVector
    trajectory,           \* m_trajectoryVector
    visibleRect,          \* m_visibleRect
    rect,                 \* m_rect
    coverRect,            \* m_coverRect
    keepRect,             \* m_keepRect
    pendingTileCreation,  \* m_pendingTileCreation
    tiles,                \* m_tiles: coordinate -> tile
    events                \* client-initiated steps taken so far

storeVars == <<tileSize, contentsScale, supportsAlpha, pendingTrajectory,
               trajectory, visibleRect, rect, coverRect, keepRect,
               pendingTileCreation, tiles>>
vars == <<clientVisible, clientContents, events, storeVars>>

(***************************************************************************)
(* Tile (spec-modelled)                                                    *)
(***************************************************************************)
IsDirty(t) == ~IsEmpty(t.dirty)

\* Tile(store, coordinate): the clipped cell, entirely dirty, never painted.
NewTile(c, ts, mrect) ==
    LET r == TileRectForCoordinate(c, ts, mrect)
    IN  [rect |-> r, dirty |-> r, ready |-> FALSE, stale |-> Pixels(r)]

\* Tile::invalidate: unite the part of the rect inside the tile.
TileInvalidate(t, dirtyRect) ==
    LET d == Intersection(dirtyRect, t.rect)
    IN  IF IsEmpty(d) THEN t ELSE [t EXCEPT !.dirty = Unite(t.dirty, d)]

\* Tile::resize: new size at the same location; the whole tile is dirty and
\* its buffer holds nothing.
TileResize(t, w, h) ==
    LET r == [t.rect EXCEPT !.w = w, !.h = h]
    IN  [t EXCEPT !.rect = r, !.dirty = r, !.stale = Pixels(r)]

\* Tile::updateBackBuffer: repaint the dirty rect, if any.
TileUpdateBackBuffer(t) ==
    IF IsDirty(t)
    THEN [t EXCEPT !.dirty = EmptyRect, !.ready = TRUE,
                   !.stale = t.stale \ Pixels(t.dirty)]
    ELSE t

(***************************************************************************)
(* Helpers of TiledBackingStore over a tile map                            *)
(***************************************************************************)
\* setKeepRect: drop every tile whose rect does not meet the keep rect.
DropTilesOutside(tl, keep) ==
    RestrictDomain(tl, LAMBDA c : Intersects(tl[c].rect, keep))

\* resizeEdgeTiles: remove tiles whose cell left the contents, resize those
\* whose clipped rect changed.
ExpectedTileRect(c, ts, mrect) == TileRectForCoordinate(c, ts, mrect)
ResizeEdgeTiles(tl, ts, mrect) ==
    [c \in {d \in DOMAIN tl : ~IsEmpty(ExpectedTileRect(d, ts, mrect))} |->
        LET e == ExpectedTileRect(c, ts, mrect)
        IN  IF e # tl[c].rect THEN TileResize(tl[c], e.w, e.h) ELSE tl[c]]
DidResizeEdgeTiles(tl, ts, mrect) ==
    \E c \in DOMAIN tl : LET e == ExpectedTileRect(c, ts, mrect)
                         IN  ~IsEmpty(e) /\ e # tl[c].rect

\* updateTileBuffers: repaint every dirty tile.
UpdateAllTileBuffers(tl) == [c \in DOMAIN tl |-> TileUpdateBackBuffer(tl[c])]

\* The coordinates of the cover rect that lack a tile and are nearest to the
\* viewport: createTiles' search loop.
TilesToCreate(missing, viewport, ts, mrect) ==
    IF missing = {} THEN {}
    ELSE LET dist(c) == TileDistance(viewport, c, ts, mrect)
             shortest == Min({dist(c) : c \in missing})
         IN  {c \in missing : dist(c) = shortest}

\* Mutant: invalidate walks the keep rect itself, not its tile-aligned box.
KeepRectUnfitted(keep, ts, mrect) == keep

\* The tile-aligned box around the keep rect that invalidate walks.
KeepRectFitToTileSize(keep, ts, mrect) ==
    Unite(TileRectForCoordinate(TileCoordinateForPoint(<<keep.x, keep.y>>, ts), ts, mrect),
          TileRectForCoordinate(TileCoordinateForPoint(InnerBottomRight(keep), ts), ts, mrect))

\* TiledBackingStore::invalidate over a tile map, dirtyRect already mapped.
InvalidateTiles(tl, dirtyRect, ts, keep, mrect) ==
    LET covered == Intersection(dirtyRect, KeepRectFitToTileSize(keep, ts, mrect))
        walked == CoordinatesSpanning(covered, ts)
    IN  [c \in DOMAIN tl |->
            IF c \in walked THEN TileInvalidate(tl[c], dirtyRect) ELSE tl[c]]

\* The page content under `pixels` changed: ghost update of every tile.
\* Only pixels inside the contents (m_rect) hold page content.
MarkStale(tl, pixels) ==
    [c \in DOMAIN tl |-> [tl[c] EXCEPT !.stale = @ \cup (pixels \cap Pixels(tl[c].rect))]]

\* The area of an IntRect, width * height.
RectArea(r) == r.w * r.h

\* Mutant: whole tile areas summed, not their part inside the rect.
CoverageRatioWholeTiles(contentsRect) ==
    LET dirtyRect == MapFromContents(contentsRect, contentsScale)
        readyAt == {c \in CoordinatesSpanning(dirtyRect, tileSize) :
                        c \in DOMAIN tiles /\ tiles[c].ready}
    IN  <<MapThenSumSet(LAMBDA c : RectArea(tiles[c].rect), readyAt), RectArea(dirtyRect)>>

\* TiledBackingStore::coverageRatio, as the pair <<coverArea, rectArea>>
\* whose quotient it returns: the areas of the ready tiles met by the loop,
\* each intersected with the mapped rect, summed.
CoverageRatio(contentsRect) ==
    LET dirtyRect == MapFromContents(contentsRect, contentsScale)
        readyAt == {c \in CoordinatesSpanning(dirtyRect, tileSize) :
                        c \in DOMAIN tiles /\ tiles[c].ready}
    IN  <<MapThenSumSet(LAMBDA c : RectArea(Intersection(dirtyRect, tiles[c].rect)), readyAt),
          RectArea(dirtyRect)>>

\* TiledBackingStore::visibleAreaIsCovered: coverageRatio(...) == 1.0f.  The
\* float quotient of two small integers is 1 only when they are equal, and
\* 0 / 0 is NaN, which equals nothing.
VisibleAreaIsCovered ==
    LET q == CoverageRatio(Intersection(clientVisible, clientContents))
    IN  q[2] # 0 /\ q[1] = q[2]

(***************************************************************************)
(* createTiles and coverWithTilesIfNeeded, from a given scale and tile map *)
(* (setContentsScale runs them after changing both).                       *)
(***************************************************************************)
\* The fields a createTiles pass writes, as they are now.
PassState ==
    [rect |-> rect, trajectory |-> trajectory, visibleRect |-> visibleRect,
     coverRect |-> coverRect, keepRect |-> keepRect,
     pending |-> pendingTileCreation, tiles |-> tiles]

\* TiledBackingStore::createTiles: the fields it leaves behind.
CreateTiles(sc, tl) ==
    LET newRect == MapFromContents(clientContents, sc)
        vis == MapFromContents(clientVisible, sc)
        geo == ComputeCoverAndKeepRect(vis, Multiplier, pendingTrajectory,
                                       tileSize, newRect)
        kept == DropTilesOutside(tl, geo.keep)
        resize == rect # newRect
        resized == IF resize THEN ResizeEdgeTiles(kept, tileSize, newRect) ELSE kept
        didResize == resize /\ DidResizeEdgeTiles(kept, tileSize, newRect)
        missing == {c \in CoordinatesSpanning(geo.cover, tileSize) :
                        c \notin DOMAIN resized}
        toCreate == TilesToCreate(missing, vis, tileSize, newRect)
        created == [c \in DOMAIN resized \cup toCreate |->
                        IF c \in toCreate THEN NewTile(c, tileSize, newRect)
                        ELSE resized[c]]
        geometry == [PassState EXCEPT !.rect = newRect,
                        !.trajectory = pendingTrajectory, !.visibleRect = vis]
    IN  CASE IsEmpty(newRect) ->
               [geometry EXCEPT !.coverRect = EmptyRect, !.keepRect = EmptyRect,
                                !.tiles = DropTilesOutside(tl, EmptyRect)]
          [] IsEmpty(geo.cover) ->
               [geometry EXCEPT !.coverRect = geo.cover, !.keepRect = geo.keep,
                                !.tiles = kept]
          [] OTHER ->
               [geometry EXCEPT !.coverRect = geo.cover, !.keepRect = geo.keep,
                   !.tiles = IF toCreate # {} \/ didResize
                             THEN UpdateAllTileBuffers(created) ELSE created,
                   !.pending = (missing \ toCreate # {})]

\* Mutant: a moved viewport not noticed.
DidChangeIgnoringViewport(sc) ==
    \/ trajectory # pendingTrajectory
    \/ rect # MapFromContents(clientContents, sc)

\* coverWithTilesIfNeeded's test: has the geometry moved since the last pass?
DidChange(sc) ==
    \/ trajectory # pendingTrajectory
    \/ visibleRect # MapFromContents(clientVisible, sc)
    \/ rect # MapFromContents(clientContents, sc)

\* TiledBackingStore::coverWithTilesIfNeeded: the fields it leaves behind.
CoverWithTilesFrom(sc, tl) ==
    IF DidChange(sc) \/ pendingTileCreation
    THEN CreateTiles(sc, tl)
    ELSE [PassState EXCEPT !.tiles = tl]

\* Store the fields a pass leaves behind.
ApplyPass(p) ==
    /\ rect' = p.rect
    /\ trajectory' = p.trajectory
    /\ visibleRect' = p.visibleRect
    /\ coverRect' = p.coverRect
    /\ keepRect' = p.keepRect
    /\ pendingTileCreation' = p.pending
    /\ tiles' = p.tiles

(***************************************************************************)
(* Public methods, called by the client                                    *)
(***************************************************************************)
ClientStep == events < MaxEvents /\ events' = events + 1

SetTileSize(s) ==
    /\ ClientStep
    /\ tileSize' = s
    /\ tiles' = <<>>
    /\ UNCHANGED <<clientVisible, clientContents, contentsScale, supportsAlpha,
                   pendingTrajectory, trajectory, visibleRect, rect, coverRect,
                   keepRect, pendingTileCreation>>

SetTrajectoryVector(v) ==
    /\ ClientStep
    /\ pendingTrajectory' = Normalize(v)
    /\ UNCHANGED <<clientVisible, clientContents, tileSize, contentsScale,
                   supportsAlpha, trajectory, visibleRect, rect, coverRect,
                   keepRect, pendingTileCreation, tiles>>

CoverWithTilesIfNeeded ==
    /\ ApplyPass(CoverWithTilesFrom(contentsScale, tiles))
    /\ UNCHANGED <<clientVisible, clientContents, tileSize, contentsScale,
                   supportsAlpha, pendingTrajectory, events>>

Invalidate(contentsDirtyRect) ==
    LET dirtyRect == MapFromContents(contentsDirtyRect, contentsScale)
    IN  /\ ClientStep
        /\ tiles' = MarkStale(InvalidateTiles(tiles, dirtyRect, tileSize,
                                              keepRect, rect),
                              Pixels(Intersection(dirtyRect, rect)))
        /\ UNCHANGED <<clientVisible, clientContents, tileSize, contentsScale,
                       supportsAlpha, pendingTrajectory, trajectory,
                       visibleRect, rect, coverRect, keepRect,
                       pendingTileCreation>>

UpdateTileBuffers ==
    /\ \E c \in DOMAIN tiles : IsDirty(tiles[c])
    /\ tiles' = UpdateAllTileBuffers(tiles)
    /\ UNCHANGED <<clientVisible, clientContents, tileSize, contentsScale,
                   supportsAlpha, pendingTrajectory, trajectory, visibleRect,
                   rect, coverRect, keepRect, pendingTileCreation, events>>

SetContentsScale(s) ==
    /\ ClientStep
    /\ s # contentsScale
    /\ contentsScale' = s
    /\ ApplyPass(CoverWithTilesFrom(s, <<>>))
    /\ UNCHANGED <<clientVisible, clientContents, tileSize, supportsAlpha,
                   pendingTrajectory>>

\* setSupportsAlpha repaints everything: the ghost marks every pixel of
\* every tile stale, the code invalidates m_rect.
SetSupportsAlpha(a) ==
    LET dirtyRect == MapFromContents(rect, contentsScale)
    IN  /\ ClientStep
        /\ a # supportsAlpha
        /\ supportsAlpha' = a
        /\ tiles' = [c \in DOMAIN tiles |->
                        LET t == InvalidateTiles(tiles, dirtyRect, tileSize,
                                                 keepRect, rect)[c]
                        IN  [t EXCEPT !.stale = Pixels(Intersection(t.rect, rect))]]
        /\ UNCHANGED <<clientVisible, clientContents, tileSize, contentsScale,
                       pendingTrajectory, trajectory, visibleRect, rect,
                       coverRect, keepRect, pendingTileCreation>>

RemoveAllNonVisibleTiles ==
    LET bounded == MapFromContents(Intersection(clientVisible, clientContents),
                                   contentsScale)
    IN  /\ ClientStep
        /\ tiles' = DropTilesOutside(tiles, bounded)
        /\ keepRect' = bounded
        /\ UNCHANGED <<clientVisible, clientContents, tileSize, contentsScale,
                       supportsAlpha, pendingTrajectory, trajectory,
                       visibleRect, rect, coverRect, pendingTileCreation>>

(***************************************************************************)
(* The client's own state changes                                          *)
(***************************************************************************)
ClientSetVisibleRect(v) ==
    /\ ClientStep
    /\ v # clientVisible
    /\ clientVisible' = v
    /\ UNCHANGED <<clientContents>> /\ UNCHANGED storeVars

ClientSetContentsRect(r) ==
    /\ ClientStep
    /\ r # clientContents
    /\ clientContents' = r
    /\ UNCHANGED <<clientVisible>> /\ UNCHANGED storeVars

(***************************************************************************)
(* The specification                                                       *)
(***************************************************************************)
Init ==
    /\ clientVisible = InitVisible
    /\ clientContents = InitContents
    /\ tileSize = InitTileSize
    /\ contentsScale = <<1, 1>>
    /\ supportsAlpha = FALSE
    /\ pendingTrajectory = <<0, 0>>
    /\ trajectory = <<0, 0>>
    /\ visibleRect = EmptyRect
    /\ rect = EmptyRect
    /\ coverRect = EmptyRect
    /\ keepRect = EmptyRect
    /\ pendingTileCreation = FALSE
    /\ tiles = <<>>
    /\ events = 0

\* The client's geometry changes, configuration calls and invalidations.
ClientNext ==
    \/ \E v \in VisibleRects : ClientSetVisibleRect(v)
    \/ \E r \in ContentsRects : ClientSetContentsRect(r)
    \/ \E v \in Trajectories : SetTrajectoryVector(v)
    \/ \E r \in DirtyRects : Invalidate(r)
    \/ \E s \in Scales : SetContentsScale(s)
    \/ \E a \in BOOLEAN : SetSupportsAlpha(a)

\* The calls that drop tiles without scheduling their re-creation.
PurgeNext ==
    \/ RemoveAllNonVisibleTiles
    \/ \E s \in TileSizes : SetTileSize(s)

\* The client flushes: it runs the store's update cycle.
FlushNext == CoverWithTilesIfNeeded \/ UpdateTileBuffers

Next == ClientNext \/ PurgeNext \/ FlushNext

\* The client flushes whenever the store has work: a flush is requested on
\* every geometry change, invalidation and pending-tile-creation callback.
\* CoverWithTilesIfNeeded writes exactly the fields of PassState, so it can
\* take a non-stuttering step exactly when CoverHasWork: the first conjunct
\* is WF_vars(CoverWithTilesIfNeeded), with ENABLED spelled out.
CoverHasWork == CoverWithTilesFrom(contentsScale, tiles) # PassState

Fairness ==
    /\ <>[]CoverHasWork => []<><<CoverWithTilesIfNeeded>>_vars
    /\ WF_vars(UpdateTileBuffers)

Spec == Init /\ [][Next]_vars /\ Fairness

(***************************************************************************)
(* Properties                                                              *)
(***************************************************************************)
TypeOK ==
    /\ tileSize \in TileSizes \cup {InitTileSize}
    /\ contentsScale \in Scales
    /\ supportsAlpha \in BOOLEAN
    /\ pendingTileCreation \in BOOLEAN
    /\ DOMAIN tiles \subseteq Nat \X Nat
    /\ \A c \in DOMAIN tiles : ~IsEmpty(tiles[c].rect) /\ tiles[c].ready \in BOOLEAN
    /\ events \in 0 .. MaxEvents


(***************************************************************************)
(* No tile ever shows stale content without knowing it: every pixel of a  *)
(* tile whose page content changed since it was painted (an invalidation, *)
(* a resize, a new tile, a change of alpha support) lies inside the       *)
(* tile's dirty rect, so updateTileBuffers will repaint it.  This checks  *)
(* that invalidate's walk over the tile-aligned keep box reaches every    *)
(* tile the dirty rect touches, and setSupportsAlpha's full invalidation. *)
(***************************************************************************)
StaleTilesAreDirty ==
    \A c \in DOMAIN tiles : tiles[c].stale \subseteq Pixels(tiles[c].dirty)

(***************************************************************************)
(* Once the client stops changing things, the tile-creation passes       *)
(* (one distance ring each, re-run while m_pendingTileCreation is set)    *)
(* and the repaints eventually give every tile coordinate of the cover    *)
(* rect that the client's current geometry calls for a tile, painted and *)
(* with nothing dirty, for good.  This is about the existence and        *)
(* painting of tiles; whether each tile fills its cell is                 *)
(* TileRectMatchesCell's question.                                        *)
(***************************************************************************)
WantedCover ==
    LET r == MapFromContents(clientContents, contentsScale)
    IN  IF IsEmpty(r) THEN EmptyRect
        ELSE ComputeCoverAndKeepRect(MapFromContents(clientVisible, contentsScale),
                                     Multiplier, pendingTrajectory, tileSize, r).cover

CoverTiled ==
    ~IsEmpty(WantedCover) =>
        \A c \in CoordinatesSpanning(WantedCover, tileSize) :
            /\ c \in DOMAIN tiles
            /\ tiles[c].ready
            /\ ~IsDirty(tiles[c])

CoverEventuallyTiled == <>[]CoverTiled

(***************************************************************************)
(* What the client sees: every cell of the visible part of the contents   *)
(* has a painted, clean tile that fills the cell.  No run asserts that   *)
(* this eventually holds for good: the code breaks it (see                *)
(* MCTileNarrowLiveness.cfg), as it breaks TileRectMatchesCell.           *)
(***************************************************************************)
VisibleTiled ==
    LET vis == MapFromContents(clientVisible, contentsScale)
        r == MapFromContents(clientContents, contentsScale)
    IN  \A c \in CoordinatesSpanning(Intersection(vis, r), tileSize) :
            Intersects(TileRectForCoordinate(c, tileSize, r), vis) =>
                /\ c \in DOMAIN tiles
                /\ tiles[c].ready
                /\ ~IsDirty(tiles[c])
                /\ Contains(tiles[c].rect, TileRectForCoordinate(c, tileSize, r))

(***************************************************************************)
(* The design's tile invariant: every tile's rect is its grid cell        *)
(* clipped to the current contents rect m_rect, neither larger nor        *)
(* smaller: resizeEdgeTiles exists "in case the contents size has         *)
(* changed".  createTiles stores the new m_rect first and reaches          *)
(* resizeEdgeTiles only after the early return for an empty cover rect.  *)
(***************************************************************************)
TileRectMatchesCell ==
    \A c \in DOMAIN tiles :
        tiles[c].rect = TileRectForCoordinate(c, tileSize, rect)

(***************************************************************************)
(* The client's view, in time: once it stops, the visible area ends up     *)
(* covered by clean tiles that fill their cells, for good.                *)
(***************************************************************************)
VisibleEventuallyTiled == <>[]VisibleTiled

(***************************************************************************)
(* When visibleAreaIsCovered answers true, every pixel of the visible part *)
(* of the contents, in backing-store space, lies in a painted tile:        *)
(* coverageRatio's sum of tile areas does not reach the visible area while *)
(* part of it is uncovered.                                                *)
(***************************************************************************)
CoveredMeansPainted ==
    VisibleAreaIsCovered =>
        Pixels(MapFromContents(Intersection(clientVisible, clientContents), contentsScale))
            \subseteq UNION {Pixels(tiles[c].rect) : c \in {d \in DOMAIN tiles : tiles[d].ready}}

=============================================================================
