---------------------------- MODULE MCPresenceHub ----------------------------
(* Model values for PresenceHub.  Presence ignores subaccount parents, so   *)
(* every alias is a root account here.                                      *)
EXTENDS PresenceHub

CONSTANTS c1, c2, c3, a1, a2

MCConns == {c1, c2, c3}
MCAliases == {a1, a2}
MCParentOf == [a \in MCAliases |-> NoParent]

=============================================================================
