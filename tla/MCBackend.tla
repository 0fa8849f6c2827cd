----------------------------- MODULE MCBackend -----------------------------
(* Model values for Backend.                                               *)
EXTENDS Backend

CONSTANTS p1, p2, s1, s2, k1, r1, r2, h1

MCPlayers == {p1, p2}
MCSaveIds == {s1, s2}
MCSecrets == {k1}
MCRequests == {r1, r2}
MCLogins == {h1}

=============================================================================
