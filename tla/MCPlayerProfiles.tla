-------------------------- MODULE MCPlayerProfiles --------------------------
(* Model values for PlayerProfiles.                                        *)
EXTENDS PlayerProfiles, TLC

CONSTANTS p1, p2, n1, n2, e1, r1, r2, r3

MCOnePlayer == {p1}
MCTwoPlayers == {p1, p2}
MCOneRequest == {r1}
MCTwoRequests == {r1, r2}
MCThreeRequests == {r1, r2, r3}
MCNames == {n1, n2}
MCEmails == {e1}
MCNoEmails == {}

\* A rename, an e-mail change, and both at once.
MCPuts == [username : {n2, Omitted}, email : {e1, Omitted}] \ {NoPut}
\* Renames to either name.
MCRenames == [username : {n1, n2}, email : {Omitted}]

Symmetry == Permutations(Requests)

=============================================================================
