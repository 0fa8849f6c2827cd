\* Two boards, three players, two requests in flight, three entries, two seconds.
\* Once every player is deleted no request is accepted, and the clock is bounded.
SPECIFICATION Spec
CONSTANTS
    b1 = b1
    b2 = b2
    p1 = p1
    p2 = p2
    p3 = p3
    r1 = r1
    r2 = r2
    x1 = x1
    Boards <- MCTwoBoards
    Players <- MCThreePlayers
    NoBoard = NoBoard
    NoPlayer = NoPlayer
    Scores <- MCScores
    Props <- MCNoProps
    NoProps = NoProps
    Requests <- MCRequests
    MaxPerPage = 2
    MaxEntries = 3
    MaxSecond = 2
CHECK_DEADLOCK FALSE
SYMMETRY Symmetry
INVARIANTS
    TypeOK
    PagesTile
    RanksAgree
    AnswerFitsBoard
PROPERTIES
    OwnEntryOnly
