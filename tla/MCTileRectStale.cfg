CONSTANTS
    VisibleRects <- MCVisibleRects
    ContentsRects <- MCContentsRects
    DirtyRects <- MCDirtyRects
    Scales <- MCScales
    TileSizes <- MCTileSizes
    Trajectories <- MCTrajectories
    InitTileSize <- MCInitTileSize
    InitVisible <- MCInitVisible
    InitContents <- MCInitContents
    Multiplier = 2
    MaxEvents = 4
SPECIFICATION Spec
INVARIANT TileRectMatchesCell
