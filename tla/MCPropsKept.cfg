\* One player, two requests, one entry with or without props.
SPECIFICATION Spec
CONSTANTS
    b1 = b1
    b2 = b2
    p1 = p1
    p2 = p2
    p3 = p3
    r1 = r1
    r2 = r2
    x1 = x1
    Boards <- MCOneBoard
    Players <- MCOnePlayer
    NoBoard = NoBoard
    NoPlayer = NoPlayer
    Scores <- MCScores
    Props <- MCProps
    NoProps = NoProps
    Requests <- MCRequests
    MaxPerPage = 2
    MaxEntries = 1
    MaxSecond = 1
CHECK_DEADLOCK FALSE
SYMMETRY Symmetry
PROPERTIES
    PropsKept
