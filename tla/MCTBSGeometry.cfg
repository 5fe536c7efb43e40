CONSTANTS
    Xs <- MCXs
    Ys <- MCYs
    Widths <- MCWidths
    Heights <- MCHeights
    Multipliers <- MCMultipliers
    Directions <- MCDirections
    TileSizes <- MCTileSizes
    ContentsRects <- MCContentsRects
    Scales <- MCScales
SPECIFICATION Spec
INVARIANTS KeepContainsCover CoverContainsVisibleContents CoverAreaBounded MapRoundTrip
