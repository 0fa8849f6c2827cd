---------------------------- MODULE MCChannelHub ----------------------------
(* Model values for ChannelHub: an account, its subaccount, and as many     *)
(* connections as a run needs.                                              *)
EXTENDS ChannelHub, TLC

CONSTANTS c1, c2, c3, root, sub, ch1, ch2

MCThreeConns == {c1, c2, c3}
MCTwoConns == {c1, c2}
MCAliases == {root, sub}
MCParentOf == (root :> NoParent) @@ (sub :> root)
MCOneChannel == {ch1}
MCTwoChannels == {ch1, ch2}

\* The accounts are not interchangeable, connections and channels are.
Symmetry == Permutations(Conns) \cup Permutations(Channels)

=============================================================================
