SPECIFICATION FairSpec
CONSTANTS
    Pieces = 2
    N = 5
    Puzzles <- UpToTwo
    Mazes <- SmallMazes
INVARIANTS
    PuzzleIsSolved
    WalkIsShortest
PROPERTY SolversEnd
CHECK_DEADLOCK FALSE
