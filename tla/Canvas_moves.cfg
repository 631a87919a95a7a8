SPECIFICATION FairSpec
CONSTANTS
    c1 = c1
    c2 = c2
    None = None
    Cards <- TwoCards
    Views <- BothViews
    MaxMoves = 2
    MaxLoads = 3
INVARIANTS TypeOK CanvasAgrees
PROPERTIES NeverPutBack EveryMoveSaved
CHECK_DEADLOCK FALSE
