----------------------------- MODULE WsConnProofs -----------------------------
(***************************************************************************)
(* What the proofs about the hubs share: a mailbox as a queue, and the     *)
(* types of a connection's own state.                                      *)
(***************************************************************************)
EXTENDS WsConn, TLAPS

\* What is in a mailbox after a do_send: the old messages and, last, the new one.
LEMMA Sent ==
    ASSUME NEW M, NEW q \in Seq(M), NEW m \in M
    PROVE  /\ Append(q, m) \in Seq(M)
           /\ Len(q) \in Nat
           /\ Len(Append(q, m)) = Len(q) + 1
           /\ \A i \in 1..Len(q) : Append(q, m)[i] = q[i]
           /\ Append(q, m)[Len(q) + 1] = m
  OBVIOUS

\* What is in a mailbox after a handler: the old messages but the first.
LEMMA Handled ==
    ASSUME NEW M, NEW q \in Seq(M), q # <<>>
    PROVE  /\ Tail(q) \in Seq(M)
           /\ Len(q) \in Nat \ {0}
           /\ Len(Tail(q)) = Len(q) - 1
           /\ \A i \in 1..Len(Tail(q)) : Tail(q)[i] = q[i + 1]
           /\ Head(q) = q[1]
           /\ Head(q) \in M
  OBVIOUS

\* A step of a connection's own state keeps it well typed.
LEMMA ConnTyped ==
    ASSUME ConnTypeOK, NEW c \in Conns,
           \/ \E a \in Aliases \cup {NoAlias} : \E p \in ResolvedParents(a) : Started(c, a, p)
           \/ \E claim \in Aliases : PlayersIdentify(c, claim)
           \/ Stopping(c)
           \/ Dropped(c)
    PROVE  ConnTypeOK'
<1>1. ASSUME NEW a \in Aliases \cup {NoAlias}, NEW p \in ResolvedParents(a), Started(c, a, p)
      PROVE  ConnTypeOK'
  <2>1. p \in Aliases \cup {NoParent}
    BY AliasAssumption DEF ResolvedParents
  <2>. QED
    BY <1>1, <2>1 DEF ConnTypeOK, Started, Phases
<1>2. ASSUME NEW claim \in Aliases, PlayersIdentify(c, claim)
      PROVE  ConnTypeOK'
  BY <1>2 DEF ConnTypeOK, PlayersIdentify
<1>3. CASE Stopping(c)
  BY <1>3 DEF ConnTypeOK, Stopping, Phases
<1>4. CASE Dropped(c)
  BY <1>4 DEF ConnTypeOK, Dropped, Phases
<1>. QED
  BY <1>1, <1>2, <1>3, <1>4

\* Only a connection with a valid ticket identifies, once it is open.
IdentifiedSound ==
    \A c \in Conns : identified[c] => phase[c] # "idle" /\ alias[c] \in Aliases

LEMMA IdentifiedKept ==
    ASSUME ConnTypeOK, IdentifiedSound, NEW c \in Conns,
           \/ \E a \in Aliases \cup {NoAlias} : \E p \in ResolvedParents(a) : Started(c, a, p)
           \/ \E claim \in Aliases : PlayersIdentify(c, claim)
           \/ Stopping(c)
           \/ Dropped(c)
    PROVE  IdentifiedSound'
<1>1. ASSUME NEW a \in Aliases \cup {NoAlias}, NEW p \in ResolvedParents(a), Started(c, a, p)
      PROVE  IdentifiedSound'
  <2>1. ~identified[c] /\ identified' = identified
        /\ \A d \in Conns \ {c} : phase'[d] = phase[d] /\ alias'[d] = alias[d]
    BY <1>1 DEF ConnTypeOK, Started, IdentifiedSound
  <2>. QED
    BY <2>1 DEF IdentifiedSound
<1>2. ASSUME NEW claim \in Aliases, PlayersIdentify(c, claim)
      PROVE  IdentifiedSound'
  BY <1>2 DEF ConnTypeOK, PlayersIdentify, IdentifiedSound, Open
<1>3. CASE Stopping(c)
  BY <1>3 DEF ConnTypeOK, Stopping, IdentifiedSound
<1>4. CASE Dropped(c)
  BY <1>4 DEF ConnTypeOK, Dropped, IdentifiedSound
<1>. QED
  BY <1>1, <1>2, <1>3, <1>4

=============================================================================
