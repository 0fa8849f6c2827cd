--------------------------- MODULE MCLeaderboards ---------------------------
(* Model values for Leaderboards.                                          *)
EXTENDS Leaderboards

CONSTANTS b1, b2, p1, p2, p3, r1, r2, x1

MCOneBoard == {b1}
MCTwoBoards == {b1, b2}
MCOnePlayer == {p1}
MCThreePlayers == {p1, p2, p3}
MCScores == {1, 2}
MCNoProps == {}
MCProps == {x1}
MCRequests == {r1, r2}

Symmetry == Permutations(Boards) \cup Permutations(Players) \cup Permutations(Requests)

=============================================================================
