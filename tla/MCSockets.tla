------------------------------ MODULE MCSockets ------------------------------
(* Model values for Sockets: an account, its subaccount and a stranger, two *)
(* tickets.                                                                *)
EXTENDS Sockets, TLC

CONSTANTS c1, c2, root, sub, other, t1, t2, ch1

MCConns == {c1, c2}
MCAliases == {root, sub, other}
MCParentOf == (root :> NoParent) @@ (sub :> root) @@ (other :> NoParent)
MCTickets == {t1, t2}
MCChannels == {ch1}

Symmetry == Permutations(Conns) \cup Permutations(Tickets)

=============================================================================
