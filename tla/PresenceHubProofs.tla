-------------------------- MODULE PresenceHubProofs --------------------------
(***************************************************************************)
(* Theorems about PresenceHub, for any set of connections and aliases, any *)
(* cap and any backlog.  The argument is one inductive invariant, Inv: it  *)
(* says what the mailbox may hold of a connection in each phase of its     *)
(* life, which is what makes the registry's promises survive joins handled *)
(* after their connection has stopped.                                     *)
(***************************************************************************)
EXTENDS PresenceHub, WsConnProofs, FiniteSetTheorems

(***************************************************************************)
(* A message carries its sender's ticketed alias, its sender has           *)
(* identified, and a leave is only sent by a connection that is gone.      *)
(***************************************************************************)
MessagesSound ==
    \A i \in 1..Len(mailbox) :
        /\ identified[mailbox[i].conn]
        /\ mailbox[i].alias = alias[mailbox[i].conn]
        /\ mailbox[i].type = "LeavePresence" => Gone(mailbox[i].conn)

\* Nothing of a connection stands behind its leave.
LeaveIsLast ==
    \A i, j \in 1..Len(mailbox) :
        i < j /\ mailbox[i].type = "LeavePresence" => mailbox[j].conn # mailbox[i].conn

\* A join that outlives its connection is followed by that connection's leave.
LateJoinHasLeave ==
    \A i \in 1..Len(mailbox) :
        Gone(mailbox[i].conn) => Queued(LeavePresence(mailbox[i].conn))

EntriesSound ==
    \A e \in conns : identified[e.conn] /\ e.alias = alias[e.conn]

Inv ==
    /\ TypeOK
    /\ IdentifiedSound
    /\ MessagesSound
    /\ LeaveIsLast
    /\ LateJoinHasLeave
    /\ EntriesSound
    /\ NoLeakedEntry
    /\ LiveStaysRegistered

-----------------------------------------------------------------------------
(***************************************************************************)
(* Type correctness.                                                       *)
(***************************************************************************)

\* A fan-out keeps the record of what was told well typed.
LEMMA BroadcastTyped ==
    ASSUME told \in [Conns -> [Aliases -> News]],
           NEW reg, NEW a \in Aliases, NEW news \in News
    PROVE  Broadcast(reg, a, news) \in [Conns -> [Aliases -> News]]
  BY DEF Broadcast

LEMMA TypeInit == Init => TypeOK
  BY DEF Init, ConnInit, TypeOK, ConnTypeOK, Phases, NothingTold, News

LEMMA TypeStep == TypeOK /\ [Next]_vars => TypeOK'
<1>. SUFFICES ASSUME TypeOK, [Next]_vars PROVE TypeOK'
  OBVIOUS
<1>a. /\ ConnTypeOK /\ mailbox \in Seq(Message) /\ conns \subseteq Entry
      /\ told \in [Conns -> [Aliases -> News]]
  BY DEF TypeOK
<1>b. NothingTold \in [Aliases -> News]
  BY DEF NothingTold, News
<1>1. ASSUME NEW c \in Conns, NEW a \in Aliases \cup {NoAlias},
             NEW p \in ResolvedParents(a), Connect(c, a, p)
      PROVE  TypeOK'
  <2>1. ConnTypeOK'
    BY <1>a, <1>1, ConnTyped DEF Connect
  <2>. QED
    BY <1>a, <1>1, <2>1 DEF Connect, hubVars, TypeOK
<1>2. ASSUME NEW c \in Conns, NEW claim \in Aliases, Identify(c, claim)
      PROVE  TypeOK'
  <2>1. ConnTypeOK'
    BY <1>a, <1>2, ConnTyped DEF Identify
  <2>2. JoinPresence(c) \in Message
    BY <1>2 DEF Identify, PlayersIdentify, JoinPresence, Message
  <2>3. mailbox' \in Seq(Message)
    BY <1>a, <1>2, <2>2, Sent DEF Identify
  <2>. QED
    BY <1>a, <1>2, <2>1, <2>3 DEF Identify, TypeOK
<1>3. ASSUME NEW c \in Conns, Stop(c)
      PROVE  TypeOK'
  <2>1. ConnTypeOK'
    BY <1>a, <1>3, ConnTyped DEF Stop
  <2>2. LeavesHubs(c) => LeavePresence(c) \in Message
    BY <1>a DEF ConnTypeOK, LeavesHubs, LeavePresence, Message
  <2>3. mailbox' \in Seq(Message)
    BY <1>a, <1>3, <2>2, Sent DEF Stop
  <2>4. told' \in [Conns -> [Aliases -> News]]
    BY <1>a, <1>b, <1>3 DEF Stop
  <2>. QED
    BY <1>a, <1>3, <2>1, <2>3, <2>4 DEF Stop, TypeOK
<1>4. ASSUME NEW c \in Conns, Drop(c)
      PROVE  TypeOK'
  <2>1. ConnTypeOK'
    BY <1>a, <1>4, ConnTyped DEF Drop
  <2>. QED
    BY <1>a, <1>4, <2>1 DEF Drop, hubVars, TypeOK
<1>5. CASE HandleJoin
  <2>. DEFINE m == Head(mailbox)
              reg == Admitted(conns, m.alias)
  <2>1. m \in Message /\ mailbox' \in Seq(Message)
    BY <1>a, <1>5, Handled DEF HandleJoin
  <2>2. m.alias \in Aliases /\ [alias |-> m.alias, conn |-> m.conn] \in Entry
    BY <2>1 DEF Message, Entry
  <2>3. reg \subseteq conns
    BY DEF Admitted, PruneDead
  <2>4. conns' \subseteq Entry
    BY <1>a, <1>5, <2>2, <2>3 DEF HandleJoin
  <2>5. Broadcast(conns', m.alias, "on") \in [Conns -> [Aliases -> News]]
    BY <1>a, <2>2, BroadcastTyped DEF News
  <2>6. told' \in [Conns -> [Aliases -> News]]
    BY <1>a, <1>5, <2>5 DEF HandleJoin
  <2>7. ConnTypeOK'
    BY <1>a, <1>5 DEF HandleJoin, connVars, ConnTypeOK
  <2>. QED
    BY <2>1, <2>4, <2>6, <2>7 DEF TypeOK
<1>6. CASE HandleLeave
  <2>. DEFINE m == Head(mailbox)
  <2>1. m \in Message /\ mailbox' \in Seq(Message)
    BY <1>a, <1>6, Handled DEF HandleLeave
  <2>2. m.alias \in Aliases
    BY <2>1 DEF Message
  <2>3. conns' \subseteq Entry
    BY <1>a, <1>6 DEF HandleLeave
  <2>4. Broadcast(conns', m.alias, "off") \in [Conns -> [Aliases -> News]]
    BY <1>a, <2>2, BroadcastTyped DEF News
  <2>5. told' \in [Conns -> [Aliases -> News]]
    BY <1>a, <1>6, <2>4 DEF HandleLeave
  <2>6. ConnTypeOK'
    BY <1>a, <1>6 DEF HandleLeave, connVars, ConnTypeOK
  <2>. QED
    BY <2>1, <2>3, <2>5, <2>6 DEF TypeOK
<1>7. CASE UNCHANGED vars
  BY <1>a, <1>7 DEF vars, connVars, hubVars, TypeOK, ConnTypeOK
<1>. QED
  BY <1>1, <1>2, <1>3, <1>4, <1>5, <1>6, <1>7 DEF Next, HubStep, ConnStep

(***************************************************************************)
(* Every variable keeps its type, however many connections identify, stop  *)
(* and are handled late.                                                   *)
(***************************************************************************)
THEOREM TypeInvariance == Spec => []TypeOK
  BY TypeInit, TypeStep, PTL DEF Spec

-----------------------------------------------------------------------------
(***************************************************************************)
(* The inductive invariant.                                                *)
(***************************************************************************)
LEMMA InvInit == Init => Inv
<1>. SUFFICES ASSUME Init PROVE Inv
  OBVIOUS
<1>1. TypeOK
  BY TypeInit
<1>2. mailbox = <<>> /\ conns = {} /\ \A c \in Conns : ~identified[c] /\ phase[c] = "idle"
  BY DEF Init, ConnInit
<1>3. Len(mailbox) = 0
  BY <1>2
<1>. QED
  BY <1>1, <1>2, <1>3 DEF Inv, IdentifiedSound, MessagesSound, LeaveIsLast,
     LateJoinHasLeave, EntriesSound, NoLeakedEntry, LiveStaysRegistered

\* Types, in the form the steps below use.
LEMMA Typed ==
    ASSUME TypeOK
    PROVE  /\ phase \in [Conns -> Phases]
           /\ alias \in [Conns -> Aliases \cup {NoAlias}]
           /\ identified \in [Conns -> BOOLEAN]
           /\ mailbox \in Seq(Message)
           /\ Len(mailbox) \in Nat
           /\ \A i \in 1..Len(mailbox) : mailbox[i] \in Message /\ mailbox[i].conn \in Conns
           /\ conns \subseteq Entry
           /\ \A e \in conns : e.conn \in Conns
<1>1. mailbox \in Seq(Message) /\ Len(mailbox) \in Nat
  BY DEF TypeOK
<1>2. \A i \in 1..Len(mailbox) : mailbox[i] \in Message
  BY <1>1
<1>3. \A m \in Message : m.conn \in Conns
  BY DEF Message
<1>4. conns \subseteq Entry /\ \A e \in Entry : e.conn \in Conns
  BY DEF TypeOK, Entry
<1>. QED
  BY <1>1, <1>2, <1>3, <1>4 DEF TypeOK, ConnTypeOK

\* A connection that opens has no message and no entry yet.
LEMMA InvConnect ==
    ASSUME Inv, NEW c \in Conns, NEW a \in Aliases \cup {NoAlias},
           NEW p \in ResolvedParents(a), Connect(c, a, p), TypeOK'
    PROVE  Inv'
<1>. USE Typed DEF Inv
<1>1. /\ ~identified[c] /\ identified' = identified
      /\ mailbox' = mailbox /\ conns' = conns
      /\ \A d \in Conns \ {c} : phase'[d] = phase[d] /\ alias'[d] = alias[d]
  BY DEF Connect, Started, hubVars, IdentifiedSound
<1>2. \A d \in Conns : identified[d] => d # c
  BY <1>1
<1>3. IdentifiedSound'
  BY <1>1, <1>2 DEF IdentifiedSound
<1>4. MessagesSound' /\ LeaveIsLast'
  BY <1>1, <1>2 DEF MessagesSound, LeaveIsLast, Gone
<1>5. \A d \in Conns : identified[d] =>
         /\ Gone(d)' <=> Gone(d)
         /\ Open(d)' <=> Open(d)
         /\ Queued(LeavePresence(d))' <=> Queued(LeavePresence(d))
         /\ Queued(JoinPresence(d))' <=> Queued(JoinPresence(d))
         /\ Registered(d)' <=> Registered(d)
  BY <1>1, <1>2 DEF Gone, Open, Queued, LeavePresence, JoinPresence, Registered
<1>6. LateJoinHasLeave'
  BY <1>1, <1>5 DEF LateJoinHasLeave, MessagesSound
<1>7. EntriesSound' /\ NoLeakedEntry'
  BY <1>1, <1>2, <1>5 DEF EntriesSound, NoLeakedEntry
<1>8. LiveStaysRegistered'
  BY <1>1, <1>5 DEF LiveStaysRegistered
<1>. QED
  BY <1>3, <1>4, <1>6, <1>7, <1>8

\* An identify appends a join of an open connection, which has sent no leave.
LEMMA InvIdentify ==
    ASSUME Inv, NEW c \in Conns, NEW claim \in Aliases, Identify(c, claim), TypeOK'
    PROVE  Inv'
<1>. USE Typed DEF Inv
<1>. DEFINE m == JoinPresence(c)
<1>1. /\ Open(c) /\ ~Gone(c) /\ alias[c] \in Aliases
      /\ phase' = phase /\ alias' = alias /\ conns' = conns
      /\ identified' = [identified EXCEPT ![c] = TRUE]
      /\ mailbox' = Append(mailbox, m)
  BY DEF Identify, PlayersIdentify, Open, Gone
<1>2. m \in Message /\ m.type = "JoinPresence" /\ m.conn = c /\ m.alias = alias[c]
  BY <1>1 DEF JoinPresence, Message
<1>3. /\ Len(mailbox') = Len(mailbox) + 1
      /\ \A i \in 1..Len(mailbox) : mailbox'[i] = mailbox[i]
      /\ mailbox'[Len(mailbox) + 1] = m
  BY <1>1, <1>2, Sent
<1>4. \A d \in Conns : identified[d] => identified'[d]
  BY <1>1
<1>5. IdentifiedSound'
  BY <1>1 DEF IdentifiedSound, Open
<1>6. \A i \in 1..Len(mailbox') : i \in 1..Len(mailbox) \/ i = Len(mailbox) + 1
  BY <1>3
<1>7. MessagesSound'
  BY <1>1, <1>2, <1>3, <1>4, <1>6 DEF MessagesSound, Gone
<1>8. LeaveIsLast'
  <2>. SUFFICES ASSUME NEW i \in 1..Len(mailbox'), NEW j \in 1..Len(mailbox'),
                       i < j, mailbox'[i].type = "LeavePresence"
                PROVE  mailbox'[j].conn # mailbox'[i].conn
    BY DEF LeaveIsLast
  <2>1. i \in 1..Len(mailbox) /\ mailbox'[i] = mailbox[i] /\ Gone(mailbox[i].conn)
    BY <1>3, <1>6 DEF MessagesSound
  <2>2. CASE j \in 1..Len(mailbox)
    BY <1>3, <2>1, <2>2 DEF LeaveIsLast
  <2>3. CASE j = Len(mailbox) + 1
    BY <1>1, <1>2, <1>3, <2>1, <2>3
  <2>. QED
    BY <1>6, <2>2, <2>3
<1>9. \A n : Queued(n) => Queued(n)'
  BY <1>3 DEF Queued
<1>11. \A d \in Conns : /\ LeavePresence(d)' = LeavePresence(d)
                        /\ JoinPresence(d)' = JoinPresence(d)
                        /\ Registered(d)' <=> Registered(d)
                        /\ Gone(d)' <=> Gone(d)
                        /\ Open(d)' <=> Open(d)
  BY <1>1 DEF LeavePresence, JoinPresence, Registered, Gone, Open
<1>12. \A d \in Conns : Queued(LeavePresence(d)) => Queued(LeavePresence(d))'
  BY <1>9, <1>11 DEF Queued
<1>13. \A d \in Conns : Queued(JoinPresence(d)) => Queued(JoinPresence(d))'
  BY <1>9, <1>11 DEF Queued
<1>14. LateJoinHasLeave'
  BY <1>1, <1>2, <1>3, <1>6, <1>11, <1>12 DEF LateJoinHasLeave
<1>15. EntriesSound' /\ NoLeakedEntry'
  BY <1>1, <1>4, <1>11, <1>12 DEF EntriesSound, NoLeakedEntry
<1>16. Queued(JoinPresence(c))'
  <2>1. Len(mailbox) + 1 \in 1..Len(mailbox')
    BY <1>3
  <2>2. mailbox'[Len(mailbox) + 1] = JoinPresence(c)'
    BY <1>3, <1>11
  <2>. QED
    BY <2>1, <2>2 DEF Queued
<1>17. LiveStaysRegistered'
  BY <1>1, <1>11, <1>13, <1>16 DEF LiveStaysRegistered
<1>. QED
  BY <1>5, <1>7, <1>8, <1>14, <1>15, <1>17

\* Stopping appends the leave of an identified connection, and nothing else.
LEMMA InvStop ==
    ASSUME Inv, NEW c \in Conns, Stop(c), TypeOK'
    PROVE  Inv'
<1>. USE Typed DEF Inv
<1>. DEFINE m == LeavePresence(c)
<1>1. /\ Open(c) /\ ~Gone(c)
      /\ alias' = alias /\ identified' = identified /\ conns' = conns
      /\ phase' = [phase EXCEPT ![c] = "stopping"]
      /\ Gone(c)' /\ ~Open(c)'
      /\ \A d \in Conns \ {c} : (Gone(d)' <=> Gone(d)) /\ (Open(d)' <=> Open(d))
  BY DEF Stop, Stopping, Open, Gone
<1>2. \A d \in Conns : /\ LeavePresence(d)' = LeavePresence(d)
                       /\ JoinPresence(d)' = JoinPresence(d)
                       /\ Registered(d)' <=> Registered(d)
  BY <1>1 DEF LeavePresence, JoinPresence, Registered
<1>3. IdentifiedSound'
  BY <1>1 DEF IdentifiedSound, Open
<1>4. CASE ~identified[c]
  <2>1. mailbox' = mailbox
    BY <1>4 DEF Stop, LeavesHubs
  <2>2. \A d \in Conns : identified[d] => d # c
    BY <1>4
  <2>3. MessagesSound' /\ LeaveIsLast'
    BY <1>1, <2>1, <2>2 DEF MessagesSound, LeaveIsLast
  <2>4. \A d \in Conns : /\ Queued(LeavePresence(d))' <=> Queued(LeavePresence(d))
                         /\ Queued(JoinPresence(d))' <=> Queued(JoinPresence(d))
    BY <1>2, <2>1 DEF Queued
  <2>5. LateJoinHasLeave'
    BY <1>1, <2>1, <2>2, <2>4 DEF LateJoinHasLeave, MessagesSound
  <2>6. EntriesSound' /\ NoLeakedEntry' /\ LiveStaysRegistered'
    BY <1>1, <1>2, <2>2, <2>4 DEF EntriesSound, NoLeakedEntry, LiveStaysRegistered
  <2>. QED
    BY <1>3, <2>3, <2>5, <2>6
<1>5. CASE identified[c]
  <2>1. alias[c] \in Aliases /\ mailbox' = Append(mailbox, m)
    BY <1>5, AliasAssumption DEF Stop, LeavesHubs, IdentifiedSound
  <2>2. m \in Message /\ m.type = "LeavePresence" /\ m.conn = c /\ m.alias = alias[c]
    BY <2>1 DEF LeavePresence, Message
  <2>3. /\ Len(mailbox') = Len(mailbox) + 1
        /\ \A i \in 1..Len(mailbox) : mailbox'[i] = mailbox[i]
        /\ mailbox'[Len(mailbox) + 1] = m
    BY <2>1, <2>2, Sent
  <2>4. \A i \in 1..Len(mailbox') : i \in 1..Len(mailbox) \/ i = Len(mailbox) + 1
    BY <2>3
  <2>5. \A d \in Conns : Gone(d) => Gone(d)'
    BY <1>1
  <2>6. MessagesSound'
    BY <1>1, <1>5, <2>2, <2>3, <2>4, <2>5 DEF MessagesSound
  <2>7. LeaveIsLast'
    <3>. SUFFICES ASSUME NEW i \in 1..Len(mailbox'), NEW j \in 1..Len(mailbox'),
                         i < j, mailbox'[i].type = "LeavePresence"
                  PROVE  mailbox'[j].conn # mailbox'[i].conn
      BY DEF LeaveIsLast
    <3>1. i \in 1..Len(mailbox) /\ mailbox'[i] = mailbox[i] /\ Gone(mailbox[i].conn)
      BY <2>3, <2>4 DEF MessagesSound
    <3>2. CASE j \in 1..Len(mailbox)
      BY <2>3, <3>1, <3>2 DEF LeaveIsLast
    <3>3. CASE j = Len(mailbox) + 1
      BY <1>1, <2>2, <2>3, <3>1, <3>3
    <3>. QED
      BY <2>4, <3>2, <3>3
  <2>8. \A d \in Conns : /\ Queued(LeavePresence(d)) => Queued(LeavePresence(d))'
                         /\ Queued(JoinPresence(d)) => Queued(JoinPresence(d))'
    BY <1>2, <2>3 DEF Queued
  <2>9. Queued(LeavePresence(c))'
    <3>1. Len(mailbox) + 1 \in 1..Len(mailbox')
      BY <2>3
    <3>2. mailbox'[Len(mailbox) + 1] = LeavePresence(c)'
      BY <1>2, <2>3
    <3>. QED
      BY <3>1, <3>2 DEF Queued
  <2>10. \A d \in Conns : (Gone(d) => Queued(LeavePresence(d))) => (Gone(d)' => Queued(LeavePresence(d))')
    BY <1>1, <2>8, <2>9
  <2>11. LateJoinHasLeave'
    BY <2>2, <2>3, <2>4, <2>9, <2>10 DEF LateJoinHasLeave
  <2>12. EntriesSound' /\ NoLeakedEntry'
    BY <1>1, <2>10 DEF EntriesSound, NoLeakedEntry
  <2>13. LiveStaysRegistered'
    BY <1>1, <1>2, <2>8 DEF LiveStaysRegistered
  <2>. QED
    BY <1>3, <2>6, <2>7, <2>11, <2>12, <2>13
<1>. QED
  BY <1>4, <1>5

\* The drop of a stopping connection changes nothing the invariant speaks of.
LEMMA InvDrop ==
    ASSUME Inv, NEW c \in Conns, Drop(c), TypeOK'
    PROVE  Inv'
<1>. USE Typed DEF Inv
<1>1. /\ Gone(c) /\ ~Open(c)
      /\ alias' = alias /\ identified' = identified
      /\ mailbox' = mailbox /\ conns' = conns
      /\ phase' = [phase EXCEPT ![c] = "stopped"]
      /\ \A d \in Conns : (Gone(d)' <=> Gone(d)) /\ (Open(d)' <=> Open(d))
  BY DEF Drop, Dropped, Open, Gone, hubVars
<1>2. \A d \in Conns : /\ LeavePresence(d)' = LeavePresence(d)
                       /\ JoinPresence(d)' = JoinPresence(d)
                       /\ Registered(d)' <=> Registered(d)
  BY <1>1 DEF LeavePresence, JoinPresence, Registered
<1>3. \A d \in Conns : /\ Queued(LeavePresence(d))' <=> Queued(LeavePresence(d))
                       /\ Queued(JoinPresence(d))' <=> Queued(JoinPresence(d))
  BY <1>1, <1>2 DEF Queued
<1>4. IdentifiedSound'
  BY <1>1 DEF IdentifiedSound
<1>5. MessagesSound' /\ LeaveIsLast'
  BY <1>1 DEF MessagesSound, LeaveIsLast
<1>6. LateJoinHasLeave'
  BY <1>1, <1>3 DEF LateJoinHasLeave
<1>7. EntriesSound' /\ NoLeakedEntry' /\ LiveStaysRegistered'
  BY <1>1, <1>2, <1>3 DEF EntriesSound, NoLeakedEntry, LiveStaysRegistered
<1>. QED
  BY <1>4, <1>5, <1>6, <1>7

(***************************************************************************)
(* A handler takes the first message: what the invariant says of the rest  *)
(* of the mailbox still holds, because no leave at the head is owed to a   *)
(* message behind it.                                                      *)
(***************************************************************************)
LEMMA MailboxHandled ==
    ASSUME Inv, mailbox # <<>>, mailbox' = Tail(mailbox), UNCHANGED connVars
    PROVE  /\ Head(mailbox) \in Message
           /\ identified[Head(mailbox).conn]
           /\ Head(mailbox).alias = alias[Head(mailbox).conn]
           /\ Head(mailbox).type = "LeavePresence" => Gone(Head(mailbox).conn)
           /\ Gone(Head(mailbox).conn) => Queued(LeavePresence(Head(mailbox).conn))
           /\ \A n : Queued(n) /\ n # Head(mailbox) => Queued(n)'
           /\ \A d \in Conns : /\ LeavePresence(d)' = LeavePresence(d)
                               /\ JoinPresence(d)' = JoinPresence(d)
                               /\ Gone(d)' <=> Gone(d)
                               /\ Open(d)' <=> Open(d)
           /\ IdentifiedSound' /\ MessagesSound' /\ LeaveIsLast' /\ LateJoinHasLeave'
<1>. USE Typed DEF Inv
<1>1. /\ Head(mailbox) \in Message
      /\ Head(mailbox) = mailbox[1]
      /\ 1 \in 1..Len(mailbox)
      /\ Len(mailbox') = Len(mailbox) - 1
      /\ \A i \in 1..Len(mailbox') : /\ i + 1 \in 1..Len(mailbox)
                                     /\ mailbox'[i] = mailbox[i + 1]
                                     /\ 1 < i + 1
  BY Handled
<1>2. phase' = phase /\ alias' = alias /\ identified' = identified
  BY DEF connVars
<1>3. \A d \in Conns : /\ LeavePresence(d)' = LeavePresence(d)
                       /\ JoinPresence(d)' = JoinPresence(d)
                       /\ Gone(d)' <=> Gone(d)
                       /\ Open(d)' <=> Open(d)
  BY <1>2 DEF LeavePresence, JoinPresence, Gone, Open
<1>4. \A n : Queued(n) /\ n # Head(mailbox) => Queued(n)'
  <2>. SUFFICES ASSUME NEW n, NEW i \in 1..Len(mailbox), mailbox[i] = n, n # mailbox[1]
                PROVE  Queued(n)'
    BY <1>1 DEF Queued
  <2>1. i # 1
    OBVIOUS
  <2>2. i - 1 \in 1..Len(mailbox') /\ (i - 1) + 1 = i
    BY <1>1, <2>1
  <2>3. mailbox'[i - 1] = n
    BY <1>1, <2>2
  <2>. QED
    BY <2>2, <2>3 DEF Queued
<1>5. IdentifiedSound'
  BY <1>2 DEF IdentifiedSound
<1>6. MessagesSound'
  BY <1>1, <1>2, <1>3 DEF MessagesSound
<1>7. LeaveIsLast'
  <2>. SUFFICES ASSUME NEW i \in 1..Len(mailbox'), NEW j \in 1..Len(mailbox'),
                       i < j, mailbox'[i].type = "LeavePresence"
                PROVE  mailbox'[j].conn # mailbox'[i].conn
    BY DEF LeaveIsLast
  <2>1. i + 1 < j + 1
    OBVIOUS
  <2>. QED
    BY <1>1, <2>1 DEF LeaveIsLast
<1>8. LateJoinHasLeave'
  <2>. SUFFICES ASSUME NEW i \in 1..Len(mailbox'), NEW d \in Conns,
                       d = mailbox'[i].conn, Gone(d)'
                PROVE  Queued(LeavePresence(d))'
    <3>1. \A i \in 1..Len(mailbox') : mailbox'[i].conn \in Conns
      BY <1>1
    <3>. QED
      BY <3>1 DEF LateJoinHasLeave, LeavePresence, Queued, Gone
  <2>1. d = mailbox[i + 1].conn /\ Gone(d)
    BY <1>1, <1>3
  <2>2. Queued(LeavePresence(d))
    BY <1>1, <2>1 DEF LateJoinHasLeave
  <2>3. LeavePresence(d) # Head(mailbox)
    BY <1>1, <2>1 DEF LeavePresence, LeaveIsLast
  <2>. QED
    BY <1>3, <1>4, <2>2, <2>3 DEF Queued
<1>. QED
  BY <1>1, <1>3, <1>4, <1>5, <1>6, <1>7, <1>8 DEF MessagesSound, LateJoinHasLeave

\* What a join's prune takes out belongs to stopped connections.
LEMMA AdmittedSound ==
    ASSUME NEW reg, NEW a
    PROVE  /\ Admitted(reg, a) \subseteq reg
           /\ \A e \in reg \ Admitted(reg, a) : e.alias = a /\ ~Connected(e.conn)
  BY DEF Admitted, PruneDead

\* A join registers its sender; if that one is gone, its leave is queued.
LEMMA InvHandleJoin ==
    ASSUME Inv, HandleJoin, TypeOK'
    PROVE  Inv'
<1>. USE Typed DEF Inv
<1>. DEFINE m == Head(mailbox)
            reg == Admitted(conns, m.alias)
            new == [alias |-> m.alias, conn |-> m.conn]
<1>1. /\ mailbox # <<>> /\ mailbox' = Tail(mailbox) /\ UNCHANGED connVars
      /\ m.type = "JoinPresence" /\ conns' = reg \cup {new}
      /\ alias' = alias /\ identified' = identified
  BY DEF HandleJoin, connVars
<1>2. /\ m \in Message /\ m.conn \in Conns
      /\ identified[m.conn] /\ m.alias = alias[m.conn]
      /\ Gone(m.conn) => Queued(LeavePresence(m.conn))
  BY <1>1, MailboxHandled DEF Message
<1>3. /\ \A n : Queued(n) /\ n # m => Queued(n)'
      /\ \A d \in Conns : /\ LeavePresence(d)' = LeavePresence(d)
                          /\ JoinPresence(d)' = JoinPresence(d)
                          /\ Gone(d)' <=> Gone(d)
                          /\ Open(d)' <=> Open(d)
  BY <1>1, MailboxHandled
<1>4. IdentifiedSound' /\ MessagesSound' /\ LeaveIsLast' /\ LateJoinHasLeave'
  BY <1>1, MailboxHandled
<1>5. reg \subseteq conns /\ \A e \in conns \ reg : ~Connected(e.conn)
  BY AdmittedSound
<1>6. EntriesSound'
  BY <1>1, <1>2, <1>5 DEF EntriesSound
<1>7. \A d \in Conns : Queued(LeavePresence(d)) => Queued(LeavePresence(d))'
  <2>. SUFFICES ASSUME NEW d \in Conns, Queued(LeavePresence(d))
                PROVE  Queued(LeavePresence(d))'
    OBVIOUS
  <2>1. LeavePresence(d) # m
    BY <1>1 DEF LeavePresence
  <2>2. Queued(LeavePresence(d)) /\ LeavePresence(d)' = LeavePresence(d)
    BY <1>3
  <2>. QED
    BY <1>3, <2>1, <2>2 DEF Queued
<1>8. NoLeakedEntry'
  BY <1>1, <1>2, <1>3, <1>5, <1>7 DEF NoLeakedEntry
<1>9. LiveStaysRegistered'
  <2>. SUFFICES ASSUME NEW d \in Conns, Open(d), identified[d]
                PROVE  Registered(d)' \/ Queued(JoinPresence(d))'
    BY <1>1, <1>3 DEF LiveStaysRegistered
  <2>1. Connected(d)
    BY DEF Open, Connected
  <2>2. CASE Registered(d)
    BY <1>1, <1>5, <2>1, <2>2 DEF Registered
  <2>3. CASE Queued(JoinPresence(d)) /\ JoinPresence(d) # m
    BY <1>3, <2>3 DEF Queued
  <2>4. CASE JoinPresence(d) = m
    BY <1>1, <2>4 DEF JoinPresence, Registered
  <2>. QED
    BY <2>2, <2>3, <2>4 DEF LiveStaysRegistered
<1>. QED
  BY <1>4, <1>6, <1>8, <1>9

\* A leave takes out its sender's entry, whose leave this was, and no other.
LEMMA InvHandleLeave ==
    ASSUME Inv, HandleLeave, TypeOK'
    PROVE  Inv'
<1>. USE Typed DEF Inv
<1>. DEFINE m == Head(mailbox)
            old == [alias |-> m.alias, conn |-> m.conn]
<1>1. /\ mailbox # <<>> /\ mailbox' = Tail(mailbox) /\ UNCHANGED connVars
      /\ m.type = "LeavePresence" /\ conns' = conns \ {old}
      /\ alias' = alias /\ identified' = identified
  BY DEF HandleLeave, connVars
<1>2. m \in Message /\ m.conn \in Conns /\ m.alias = alias[m.conn] /\ Gone(m.conn)
  BY <1>1, MailboxHandled DEF Message
<1>3. /\ \A n : Queued(n) /\ n # m => Queued(n)'
      /\ \A d \in Conns : /\ LeavePresence(d)' = LeavePresence(d)
                          /\ JoinPresence(d)' = JoinPresence(d)
                          /\ Gone(d)' <=> Gone(d)
                          /\ Open(d)' <=> Open(d)
  BY <1>1, MailboxHandled
<1>4. IdentifiedSound' /\ MessagesSound' /\ LeaveIsLast' /\ LateJoinHasLeave'
  BY <1>1, MailboxHandled
<1>5. EntriesSound'
  BY <1>1 DEF EntriesSound
<1>6. NoLeakedEntry'
  <2>. SUFFICES ASSUME NEW e \in conns, e # old, Gone(e.conn)
                PROVE  Queued(LeavePresence(e.conn))'
    BY <1>1, <1>3 DEF NoLeakedEntry
  <2>1. e \in Entry /\ e.conn \in Conns /\ e.alias = alias[e.conn]
    BY DEF EntriesSound
  <2>2. e.conn # m.conn
    BY <1>2, <2>1 DEF Entry
  <2>3. LeavePresence(e.conn) # m /\ Queued(LeavePresence(e.conn))
    BY <2>2 DEF LeavePresence, NoLeakedEntry
  <2>. QED
    BY <1>3, <2>1, <2>3 DEF Queued
<1>7. LiveStaysRegistered'
  <2>. SUFFICES ASSUME NEW d \in Conns, Open(d), identified[d]
                PROVE  Registered(d)' \/ Queued(JoinPresence(d))'
    BY <1>1, <1>3 DEF LiveStaysRegistered
  <2>1. d # m.conn
    BY <1>2 DEF Open, Gone
  <2>2. CASE Registered(d)
    BY <1>1, <2>1, <2>2 DEF Registered
  <2>3. CASE Queued(JoinPresence(d))
    <3>1. JoinPresence(d) # m
      BY <1>1 DEF JoinPresence
    <3>. QED
      BY <1>3, <2>3, <3>1 DEF Queued
  <2>. QED
    BY <2>2, <2>3 DEF LiveStaysRegistered
<1>. QED
  BY <1>4, <1>5, <1>6, <1>7

LEMMA InvStep == Inv /\ [Next]_vars => Inv'
<1>. SUFFICES ASSUME Inv, [Next]_vars PROVE Inv'
  OBVIOUS
<1>0. TypeOK'
  BY TypeStep DEF Inv
<1>1. CASE HubStep
  BY <1>0, <1>1, InvHandleJoin, InvHandleLeave DEF HubStep
<1>2. ASSUME NEW c \in Conns, ConnStep(c)
      PROVE  Inv'
  BY <1>0, <1>2, InvConnect, InvIdentify, InvStop, InvDrop DEF ConnStep
<1>3. CASE UNCHANGED vars
  BY <1>3 DEF vars, connVars, hubVars, Inv, TypeOK, ConnTypeOK, IdentifiedSound,
     MessagesSound, LeaveIsLast, LateJoinHasLeave, EntriesSound, NoLeakedEntry,
     LiveStaysRegistered, Gone, Open, Queued, LeavePresence, JoinPresence, Registered
<1>. QED
  BY <1>1, <1>2, <1>3 DEF Next

(***************************************************************************)
(* The inductive invariant holds in every reachable state.                 *)
(***************************************************************************)
THEOREM Invariance == Spec => []Inv
  BY InvInit, InvStep, PTL DEF Spec

(***************************************************************************)
(* The registry cannot leak: whatever the interleaving of late joins,      *)
(* leaves and prunes, an entry of a connection that is gone has that       *)
(* connection's leave still waiting behind it.                             *)
(***************************************************************************)
THEOREM NoLeak == Spec => []NoLeakedEntry
<1>1. Inv => NoLeakedEntry
  BY DEF Inv
<1>. QED
  BY <1>1, Invariance, PTL

(***************************************************************************)
(* No live connection is ever lost: an open, identified connection is in   *)
(* the registry or about to be, whatever the cap prunes.                   *)
(***************************************************************************)
THEOREM LiveRegistered == Spec => []LiveStaysRegistered
<1>1. Inv => LiveStaysRegistered
  BY DEF Inv
<1>. QED
  BY <1>1, Invariance, PTL

-----------------------------------------------------------------------------
(***************************************************************************)
(* What is announced.  Every step is summed up by what it does to the      *)
(* audience and to the set of aliases that are present.                    *)
(***************************************************************************)

\* A connection outside the audience keeps nothing it was told before.
Unheard == \A o \in Conns \ Audience(conns) : told[o] = NothingTold

\* Connect, Identify and Drop are invisible to the listeners.
LEMMA QuietStep ==
    ASSUME Inv, NEW c \in Conns,
           \/ \E a \in Aliases \cup {NoAlias} : \E p \in ResolvedParents(a) : Connect(c, a, p)
           \/ \E claim \in Aliases : Identify(c, claim)
           \/ Drop(c)
    PROVE  conns' = conns /\ told' = told /\ Audience(conns)' = Audience(conns)
<1>. USE Typed DEF Inv
<1>1. CASE \E a \in Aliases \cup {NoAlias} : \E p \in ResolvedParents(a) : Connect(c, a, p)
  <2>1. /\ ~identified[c] /\ conns' = conns /\ told' = told
        /\ \A d \in Conns \ {c} : phase'[d] = phase[d]
    BY <1>1 DEF Connect, Started, hubVars, IdentifiedSound
  <2>2. \A e \in conns : e.conn # c
    BY <2>1 DEF EntriesSound
  <2>. QED
    BY <2>1, <2>2 DEF Audience, Open
<1>2. CASE \E claim \in Aliases : Identify(c, claim)
  BY <1>2 DEF Identify, PlayersIdentify, Audience, Open
<1>3. CASE Drop(c)
  <2>1. /\ conns' = conns /\ told' = told
        /\ \A d \in Conns : Open(d)' <=> Open(d)
    BY <1>3 DEF Drop, Dropped, hubVars, Open
  <2>. QED
    BY <2>1 DEF Audience
<1>. QED
  BY <1>1, <1>2, <1>3

\* Stopping takes the connection out of the audience.
LEMMA StopStep ==
    ASSUME Inv, NEW c \in Conns, Stop(c)
    PROVE  /\ conns' = conns
           /\ Audience(conns)' = Audience(conns) \ {c}
           /\ told' = [told EXCEPT ![c] = NothingTold]
<1>1. /\ conns' = conns /\ told' = [told EXCEPT ![c] = NothingTold]
      /\ ~Open(c)' /\ \A d \in Conns \ {c} : Open(d)' <=> Open(d)
  BY Typed DEF Inv, Stop, Stopping, Open
<1>. QED
  BY <1>1 DEF Audience

\* A join lets its sender, if it is still open, into the audience; its prune
\* takes nobody out, because only stopped connections are pruned.
LEMMA JoinStep ==
    ASSUME Inv, HandleJoin
    PROVE  LET m == Head(mailbox)
               reg == Admitted(conns, m.alias)
           IN  /\ m.alias \in Aliases /\ m.conn \in Conns
               /\ Audience(conns)' = Audience(conns')
               /\ Audience(conns') = IF Open(m.conn) THEN Audience(conns) \cup {m.conn}
                                                     ELSE Audience(conns)
               /\ ConnsOf(conns', m.alias) # {}
               /\ \A a \in Aliases \ {m.alias} : ConnsOf(conns', a) = ConnsOf(conns, a)
               /\ ConnsOf(conns, m.alias) = {} => ConnsOf(reg, m.alias) = {}
               /\ told' = IF ConnsOf(reg, m.alias) = {}
                          THEN Broadcast(conns', m.alias, "on") ELSE told
<1>. DEFINE m == Head(mailbox)
            reg == Admitted(conns, m.alias)
            new == [alias |-> m.alias, conn |-> m.conn]
<1>1. /\ mailbox # <<>> /\ mailbox' = Tail(mailbox) /\ UNCHANGED connVars
      /\ conns' = reg \cup {new}
      /\ told' = IF ConnsOf(reg, m.alias) = {}
                 THEN Broadcast(conns', m.alias, "on") ELSE told
  BY DEF HandleJoin
<1>2. m.alias \in Aliases /\ m.conn \in Conns
  BY <1>1, MailboxHandled DEF Message
<1>3. /\ reg \subseteq conns
      /\ \A e \in conns \ reg : e.alias = m.alias /\ ~Open(e.conn)
  BY AdmittedSound DEF Connected, Open
<1>4. Audience(conns)' = Audience(conns')
  BY <1>1 DEF Audience, connVars, Open
<1>5. Audience(conns') = IF Open(m.conn) THEN Audience(conns) \cup {m.conn}
                                        ELSE Audience(conns)
  <2>1. new.conn = m.conn
    OBVIOUS
  <2>2. ASSUME NEW o \in Conns, Open(o)
        PROVE  (\E e \in conns' : e.conn = o) <=> (\E e \in conns : e.conn = o) \/ o = m.conn
    <3>1. CASE o = m.conn
      BY <1>1, <2>1, <3>1
    <3>2. CASE o # m.conn
      <4>1. \A e : e.conn = o => (e \in conns' <=> e \in conns)
        BY <1>1, <1>3, <2>1, <2>2, <3>2
      <4>. QED
        BY <3>2, <4>1
    <3>. QED
      BY <3>1, <3>2
  <2>. QED
    BY <1>2, <2>2 DEF Audience
<1>6. ConnsOf(conns', m.alias) # {}
  <2>1. new \in conns' /\ new.alias = m.alias
    BY <1>1
  <2>2. new \in ConnsOf(conns', m.alias)
    BY <2>1 DEF ConnsOf
  <2>. QED
    BY <2>2
<1>7. \A a \in Aliases \ {m.alias} : ConnsOf(conns', a) = ConnsOf(conns, a)
  BY <1>1, <1>3 DEF ConnsOf
<1>8. ConnsOf(conns, m.alias) = {} => ConnsOf(reg, m.alias) = {}
  BY <1>3 DEF ConnsOf
<1>. QED
  BY <1>1, <1>2, <1>4, <1>5, <1>6, <1>7, <1>8

\* A leave leaves the audience alone: its sender was gone already.
LEMMA LeaveStep ==
    ASSUME Inv, HandleLeave
    PROVE  LET m == Head(mailbox)
           IN  /\ m.alias \in Aliases
               /\ Audience(conns)' = Audience(conns')
               /\ Audience(conns') = Audience(conns)
               /\ \A a \in Aliases \ {m.alias} : ConnsOf(conns', a) = ConnsOf(conns, a)
               /\ WentOffline(conns, m) =>
                     ConnsOf(conns, m.alias) # {} /\ ConnsOf(conns', m.alias) = {}
               /\ ~WentOffline(conns, m) =>
                     (ConnsOf(conns', m.alias) = {} <=> ConnsOf(conns, m.alias) = {})
               /\ told' = IF WentOffline(conns, m)
                          THEN Broadcast(conns', m.alias, "off") ELSE told
<1>. DEFINE m == Head(mailbox)
            old == [alias |-> m.alias, conn |-> m.conn]
<1>1. /\ mailbox # <<>> /\ mailbox' = Tail(mailbox) /\ UNCHANGED connVars
      /\ m.type = "LeavePresence" /\ conns' = conns \ {old}
      /\ told' = IF WentOffline(conns, m)
                 THEN Broadcast(conns', m.alias, "off") ELSE told
  BY DEF HandleLeave
<1>2. m.alias \in Aliases /\ ~Open(m.conn)
  BY <1>1, MailboxHandled DEF Message, Gone, Open
<1>3. Audience(conns)' = Audience(conns')
  BY <1>1 DEF Audience, connVars, Open
<1>4. Audience(conns') = Audience(conns)
  BY <1>1, <1>2 DEF Audience
<1>5. \A a \in Aliases \ {m.alias} : ConnsOf(conns', a) = ConnsOf(conns, a)
  BY <1>1 DEF ConnsOf
<1>6. ConnsOf(conns', m.alias) = ConnsOf(conns, m.alias) \ {old}
  BY <1>1 DEF ConnsOf
<1>7. WentOffline(conns, m) <=>
         ConnsOf(conns, m.alias) # {} /\ ConnsOf(conns, m.alias) \subseteq {old}
  BY DEF WentOffline
<1>. QED
  BY <1>1, <1>2, <1>3, <1>4, <1>5, <1>6, <1>7

\* One piece of news, as each listener's record shows it.
LEMMA Heard ==
    ASSUME TypeOK, NEW reg, NEW a \in Aliases, NEW news, NEW o \in Conns
    PROVE  /\ Broadcast(reg, a, news)[o] \in [Aliases -> News \cup {news}]
           /\ o \in Audience(reg) => Broadcast(reg, a, news)[o][a] = news
           /\ o \notin Audience(reg) => Broadcast(reg, a, news)[o] = told[o]
           /\ \A b \in Aliases \ {a} : Broadcast(reg, a, news)[o][b] = told[o][b]
  BY DEF Broadcast, TypeOK

-----------------------------------------------------------------------------
(***************************************************************************)
(* The news is true.                                                       *)
(***************************************************************************)
ToldInv == Unheard /\ ToldIsTrue

LEMMA ToldInit == Init => ToldInv
  BY DEF Init, ConnInit, ToldInv, Unheard, ToldIsTrue, Audience, NothingTold

\* Together the two parts speak of every connection.
LEMMA OldNews ==
    ASSUME ToldInv, NEW o \in Conns, NEW a \in Aliases
    PROVE  /\ told[o][a] = "on" => ConnsOf(conns, a) # {}
           /\ told[o][a] = "off" => ConnsOf(conns, a) = {}
  BY DEF ToldInv, Unheard, ToldIsTrue, NothingTold

LEMMA ToldJoin ==
    ASSUME Inv, ToldInv, HandleJoin
    PROVE  ToldInv'
<1>. DEFINE m == Head(mailbox)
            reg == Admitted(conns, m.alias)
<1>0. TypeOK
  BY DEF Inv
<1>1. /\ m.alias \in Aliases
      /\ Audience(conns)' = Audience(conns') /\ Audience(conns) \subseteq Audience(conns')
      /\ Audience(conns') \subseteq Conns
      /\ ConnsOf(conns', m.alias) # {}
      /\ \A a \in Aliases \ {m.alias} : ConnsOf(conns', a) = ConnsOf(conns, a)
      /\ ConnsOf(conns, m.alias) = {} => ConnsOf(reg, m.alias) = {}
      /\ told' = IF ConnsOf(reg, m.alias) = {}
                 THEN Broadcast(conns', m.alias, "on") ELSE told
  BY JoinStep DEF Audience
<1>2. Unheard'
  <2>1. \A o \in Conns \ Audience(conns') : told'[o] = told[o]
    BY <1>0, <1>1, Heard
  <2>. QED
    BY <1>1, <2>1 DEF ToldInv, Unheard, NothingTold
<1>3. ASSUME NEW o \in Audience(conns'), NEW a \in Aliases
      PROVE  /\ told'[o][a] = "on" => ConnsOf(conns', a) # {}
             /\ told'[o][a] = "off" => ConnsOf(conns', a) = {}
  <2>0. o \in Conns
    BY <1>1
  <2>1. CASE a # m.alias
    <3>1. told'[o][a] = told[o][a] /\ ConnsOf(conns', a) = ConnsOf(conns, a)
      BY <1>0, <1>1, <2>0, <2>1, Heard
    <3>. QED
      BY <2>0, <3>1, OldNews
  <2>2. CASE a = m.alias /\ ConnsOf(reg, m.alias) = {}
    <3>1. told'[o][a] = "on"
      BY <1>0, <1>1, <2>0, <2>2, Heard
    <3>. QED
      BY <1>1, <2>2, <3>1
  <2>3. CASE a = m.alias /\ ConnsOf(reg, m.alias) # {}
    <3>1. told' = told /\ ConnsOf(conns, a) # {}
      BY <1>1, <2>3
    <3>. QED
      BY <1>1, <2>0, <2>3, <3>1, OldNews
  <2>. QED
    BY <2>1, <2>2, <2>3
<1>4. ToldIsTrue'
  BY <1>1, <1>3 DEF ToldIsTrue, ConnsOf
<1>. QED
  BY <1>2, <1>4 DEF ToldInv

LEMMA ToldLeave ==
    ASSUME Inv, ToldInv, HandleLeave
    PROVE  ToldInv'
<1>. DEFINE m == Head(mailbox)
<1>0. TypeOK
  BY DEF Inv
<1>1. /\ m.alias \in Aliases
      /\ Audience(conns)' = Audience(conns') /\ Audience(conns') = Audience(conns)
      /\ Audience(conns') \subseteq Conns
      /\ \A a \in Aliases \ {m.alias} : ConnsOf(conns', a) = ConnsOf(conns, a)
      /\ WentOffline(conns, m) =>
            ConnsOf(conns, m.alias) # {} /\ ConnsOf(conns', m.alias) = {}
      /\ ~WentOffline(conns, m) =>
            (ConnsOf(conns', m.alias) = {} <=> ConnsOf(conns, m.alias) = {})
      /\ told' = IF WentOffline(conns, m)
                 THEN Broadcast(conns', m.alias, "off") ELSE told
  BY LeaveStep DEF Audience
<1>2. Unheard'
  <2>1. \A o \in Conns \ Audience(conns') : told'[o] = told[o]
    BY <1>0, <1>1, Heard
  <2>. QED
    BY <1>1, <2>1 DEF ToldInv, Unheard, NothingTold
<1>3. ASSUME NEW o \in Audience(conns'), NEW a \in Aliases
      PROVE  /\ told'[o][a] = "on" => ConnsOf(conns', a) # {}
             /\ told'[o][a] = "off" => ConnsOf(conns', a) = {}
  <2>0. o \in Conns
    BY <1>1
  <2>1. CASE a # m.alias
    <3>1. told'[o][a] = told[o][a] /\ ConnsOf(conns', a) = ConnsOf(conns, a)
      BY <1>0, <1>1, <2>0, <2>1, Heard
    <3>. QED
      BY <2>0, <3>1, OldNews
  <2>2. CASE a = m.alias /\ WentOffline(conns, m)
    <3>1. told'[o][a] = "off"
      BY <1>0, <1>1, <2>0, <2>2, Heard
    <3>. QED
      BY <1>1, <2>2, <3>1
  <2>3. CASE a = m.alias /\ ~WentOffline(conns, m)
    <3>1. told' = told
      BY <1>1, <2>3
    <3>. QED
      BY <1>1, <2>0, <2>3, <3>1, OldNews
  <2>. QED
    BY <2>1, <2>2, <2>3
<1>4. ToldIsTrue'
  BY <1>1, <1>3 DEF ToldIsTrue, ConnsOf
<1>. QED
  BY <1>2, <1>4 DEF ToldInv

LEMMA ToldStep == Inv /\ ToldInv /\ [Next]_vars => ToldInv'
<1>. SUFFICES ASSUME Inv, ToldInv, [Next]_vars PROVE ToldInv'
  OBVIOUS
<1>1. ASSUME conns' = conns, told' = told, Audience(conns)' = Audience(conns)
      PROVE  ToldInv'
  BY <1>1 DEF ToldInv, Unheard, ToldIsTrue, NothingTold, ConnsOf
<1>2. ASSUME NEW c \in Conns, Stop(c)
      PROVE  ToldInv'
  <2>1. /\ conns' = conns
        /\ Audience(conns)' = Audience(conns) \ {c}
        /\ told' = [told EXCEPT ![c] = NothingTold]
    BY <1>2, StopStep
  <2>2. told \in [Conns -> [Aliases -> News]]
    BY DEF Inv, TypeOK
  <2>3. told'[c] = NothingTold /\ \A o \in Conns \ {c} : told'[o] = told[o]
    BY <1>2, <2>1, <2>2
  <2>4. Audience(conns) \subseteq Conns
    BY DEF Audience
  <2>. QED
    BY <1>2, <2>1, <2>3, <2>4 DEF ToldInv, Unheard, ToldIsTrue, NothingTold, ConnsOf
<1>3. ASSUME NEW c \in Conns, ConnStep(c)
      PROVE  ToldInv'
  BY <1>1, <1>2, <1>3, QuietStep DEF ConnStep
<1>4. CASE HubStep
  BY <1>4, ToldJoin, ToldLeave DEF HubStep
<1>5. CASE UNCHANGED vars
  BY <1>1, <1>5 DEF vars, connVars, hubVars, Audience, Open
<1>. QED
  BY <1>3, <1>4, <1>5 DEF Next

(***************************************************************************)
(* What any open, registered connection was last told of any alias agrees  *)
(* with the registry, for any number of connections, any cap and any       *)
(* interleaving of their joins, deaths and prunes.                         *)
(***************************************************************************)
THEOREM NewsIsTrue == Spec => []ToldIsTrue
<1>1. Init => Inv /\ ToldInv
  BY InvInit, ToldInit
<1>2. Inv /\ ToldInv /\ [Next]_vars => Inv' /\ ToldInv'
  BY InvStep, ToldStep
<1>3. Inv /\ ToldInv => ToldIsTrue
  BY DEF ToldInv
<1>. QED
  BY <1>1, <1>2, <1>3, PTL DEF Spec

-----------------------------------------------------------------------------
(***************************************************************************)
(* Refinement.                                                             *)
(***************************************************************************)
LEMMA AnnouncesInit == Init => A!Init
  BY DEF Init, ConnInit, A!Init, Present, Audience, ConnsOf, NothingTold

LEMMA AnnouncesJoin ==
    ASSUME Inv, HandleJoin
    PROVE  [A!Next]_A!vars
<1>. DEFINE m == Head(mailbox)
            reg == Admitted(conns, m.alias)
<1>1. /\ m.alias \in Aliases /\ m.conn \in Conns
      /\ Audience(conns)' = Audience(conns')
      /\ Audience(conns') = IF Open(m.conn) THEN Audience(conns) \cup {m.conn}
                                            ELSE Audience(conns)
      /\ ConnsOf(conns', m.alias) # {}
      /\ \A a \in Aliases \ {m.alias} : ConnsOf(conns', a) = ConnsOf(conns, a)
      /\ ConnsOf(conns, m.alias) = {} => ConnsOf(reg, m.alias) = {}
      /\ told' = IF ConnsOf(reg, m.alias) = {}
                 THEN Broadcast(conns', m.alias, "on") ELSE told
  BY JoinStep
<1>2. Present' = Present \cup {m.alias}
  <2>1. Present' = {a \in Aliases : ConnsOf(conns', a) # {}}
    BY DEF Present, ConnsOf
  <2>. QED
    BY <1>1, <2>1 DEF Present
<1>3. CASE ConnsOf(reg, m.alias) # {}
  <2>1. told' = told /\ Present' = Present
    BY <1>1, <1>2, <1>3 DEF Present
  <2>2. CASE Open(m.conn)
    BY <1>1, <2>1, <2>2 DEF A!Next, A!Attach
  <2>3. CASE ~Open(m.conn)
    BY <1>1, <2>1, <2>3 DEF A!vars
  <2>. QED
    BY <2>2, <2>3
<1>4. CASE ConnsOf(reg, m.alias) = {}
  <2>1. told' = Broadcast(conns', m.alias, "on")
    BY <1>1, <1>4
  <2>2. A!Tell(m.alias, "on", Audience(conns)')
    BY <1>1, <2>1 DEF A!Tell, Broadcast
  <2>3. \/ Audience(conns)' = Audience(conns)
        \/ \E l \in Conns : Audience(conns)' = Audience(conns) \cup {l}
    BY <1>1
  <2>4. CASE m.alias \notin Present
    BY <1>1, <1>2, <2>2, <2>3, <2>4 DEF A!Next, A!Arrive
  <2>5. CASE m.alias \in Present
    <3>1. Present' = Present
      BY <1>2, <2>5
    <3>. QED
      BY <1>1, <2>2, <2>3, <2>5, <3>1 DEF A!Next, A!Renew
  <2>. QED
    BY <2>4, <2>5
<1>. QED
  BY <1>3, <1>4

LEMMA AnnouncesLeave ==
    ASSUME Inv, HandleLeave
    PROVE  [A!Next]_A!vars
<1>. DEFINE m == Head(mailbox)
<1>1. /\ m.alias \in Aliases
      /\ Audience(conns)' = Audience(conns') /\ Audience(conns') = Audience(conns)
      /\ \A a \in Aliases \ {m.alias} : ConnsOf(conns', a) = ConnsOf(conns, a)
      /\ WentOffline(conns, m) =>
            ConnsOf(conns, m.alias) # {} /\ ConnsOf(conns', m.alias) = {}
      /\ ~WentOffline(conns, m) =>
            (ConnsOf(conns', m.alias) = {} <=> ConnsOf(conns, m.alias) = {})
      /\ told' = IF WentOffline(conns, m)
                 THEN Broadcast(conns', m.alias, "off") ELSE told
  BY LeaveStep
<1>2. Present' = {a \in Aliases : ConnsOf(conns', a) # {}}
  BY DEF Present, ConnsOf
<1>3. CASE WentOffline(conns, m)
  <2>1. m.alias \in Present /\ Present' = Present \ {m.alias}
    BY <1>1, <1>2, <1>3 DEF Present
  <2>2. A!Tell(m.alias, "off", Audience(conns)')
    BY <1>1, <1>3 DEF A!Tell, Broadcast
  <2>. QED
    BY <1>1, <2>1, <2>2 DEF A!Next, A!Depart
<1>4. CASE ~WentOffline(conns, m)
  <2>1. told' = told /\ Present' = Present
    BY <1>1, <1>2, <1>4 DEF Present
  <2>. QED
    BY <1>1, <2>1 DEF A!vars
<1>. QED
  BY <1>3, <1>4

LEMMA AnnouncesStep == Inv /\ [Next]_vars => [A!Next]_A!vars
<1>. SUFFICES ASSUME Inv, [Next]_vars PROVE [A!Next]_A!vars
  OBVIOUS
<1>1. ASSUME conns' = conns, told' = told, Audience(conns)' = Audience(conns)
      PROVE  [A!Next]_A!vars
  BY <1>1 DEF A!vars, Present, ConnsOf
<1>2. ASSUME NEW c \in Conns, Stop(c)
      PROVE  [A!Next]_A!vars
  <2>1. /\ conns' = conns
        /\ Audience(conns)' = Audience(conns) \ {c}
        /\ told' = [told EXCEPT ![c] = NothingTold]
    BY <1>2, StopStep
  <2>2. Present' = Present
    BY <2>1 DEF Present, ConnsOf
  <2>3. A!Detach(c)
    BY <2>1, <2>2 DEF A!Detach, NothingTold
  <2>. QED
    BY <1>2, <2>3 DEF A!Next
<1>3. ASSUME NEW c \in Conns, ConnStep(c)
      PROVE  [A!Next]_A!vars
  BY <1>1, <1>2, <1>3, QuietStep DEF ConnStep
<1>4. CASE HubStep
  BY <1>4, AnnouncesJoin, AnnouncesLeave DEF HubStep
<1>5. CASE UNCHANGED vars
  BY <1>1, <1>5 DEF vars, connVars, hubVars, Audience, Open
<1>. QED
  BY <1>3, <1>4, <1>5 DEF Next

(***************************************************************************)
(* The hub, with its mailbox, its cap and its late joins, implements       *)
(* Announcer: every appearance and disappearance of an alias reaches every *)
(* open registered connection in the step that makes it.                   *)
(***************************************************************************)
THEOREM Refinement == Spec => Announces
<1>1. Init => A!Init
  BY AnnouncesInit
<1>2. Inv /\ [Next]_vars => [A!Next]_A!vars
  BY AnnouncesStep
<1>. QED
  BY <1>1, <1>2, Invariance, PTL DEF Spec, Announces, A!Spec

-----------------------------------------------------------------------------
(***************************************************************************)
(* Nothing flaps.                                                          *)
(***************************************************************************)
NoFlapStep ==
    \A c, o \in Conns :
        Open(c) /\ Registered(c) /\ Open(c)' /\ Registered(c)' /\ Open(o)'
          => told'[o][alias[c]] = told[o][alias[c]]

\* News of one alias is no news of another.
LEMMA OtherAlias ==
    ASSUME TypeOK, NEW reg, NEW a \in Aliases, NEW b \in Aliases, b # a, NEW news,
           NEW o \in Conns, told' \in {Broadcast(reg, a, news), told}
    PROVE  told'[o][b] = told[o][b]
<1>1. Broadcast(reg, a, news)[o][b] = told[o][b]
  BY Heard
<1>. QED
  BY <1>1

LEMMA NoFlapHolds == Inv /\ [Next]_vars => [NoFlapStep]_vars
<1>. SUFFICES ASSUME Inv, [Next]_vars, ~UNCHANGED vars,
                     NEW c \in Conns, NEW o \in Conns,
                     Open(c), Registered(c), Open(c)', Registered(c)', Open(o)'
              PROVE  told'[o][alias[c]] = told[o][alias[c]]
  BY DEF NoFlapStep
<1>. DEFINE entry == [alias |-> alias[c], conn |-> c]
<1>1. /\ entry \in ConnsOf(conns, alias[c]) /\ alias[c] \in Aliases
      /\ TypeOK /\ told \in [Conns -> [Aliases -> News]]
  BY DEF Registered, ConnsOf, Inv, TypeOK, Entry
<1>2. ASSUME NEW d \in Conns, Stop(d)
      PROVE  told'[o][alias[c]] = told[o][alias[c]]
  <2>1. o # d
    BY <1>2, Typed DEF Inv, Stop, Stopping, Open
  <2>. QED
    BY <1>1, <1>2, <2>1, StopStep
<1>3. CASE HandleJoin
  <2>. DEFINE m == Head(mailbox)
              reg == Admitted(conns, m.alias)
  <2>1. m.alias \in Aliases
        /\ told' = IF ConnsOf(reg, m.alias) = {} THEN Broadcast(conns', m.alias, "on") ELSE told
    BY <1>3, JoinStep
  <2>2. CASE m.alias = alias[c]
    <3>1. \A e \in conns \ reg : ~Connected(e.conn)
      BY AdmittedSound
    <3>2. Connected(entry.conn)
      BY DEF Open, Connected
    <3>3. entry \in ConnsOf(reg, m.alias)
      BY <1>1, <2>2, <3>1, <3>2 DEF ConnsOf
    <3>. QED
      BY <2>1, <3>3
  <2>3. CASE m.alias # alias[c]
    <3>1. told' \in {Broadcast(conns', m.alias, "on"), told} /\ m.alias \in Aliases
      BY <2>1
    <3>2. TypeOK /\ alias[c] \in Aliases
      BY <1>1
    <3>. HIDE DEF m, reg
    <3>. QED
      BY <2>3, <3>1, <3>2, OtherAlias
  <2>. QED
    BY <2>2, <2>3
<1>4. CASE HandleLeave
  <2>. DEFINE m == Head(mailbox)
  <2>1. /\ m.alias \in Aliases
        /\ WentOffline(conns, m) => ConnsOf(conns', m.alias) = {}
        /\ told' = IF WentOffline(conns, m) THEN Broadcast(conns', m.alias, "off") ELSE told
    BY <1>4, LeaveStep
  <2>2. entry \in ConnsOf(conns', alias[c])
    BY <1>4 DEF HandleLeave, connVars, Registered, ConnsOf
  <2>3. CASE m.alias = alias[c]
    BY <2>1, <2>2, <2>3
  <2>4. CASE m.alias # alias[c]
    <3>1. told' \in {Broadcast(conns', m.alias, "off"), told}
      BY <2>1
    <3>. HIDE DEF m
    <3>. QED
      BY <1>1, <2>1, <2>4, <3>1, OtherAlias
  <2>. QED
    BY <2>3, <2>4
<1>5. ASSUME NEW d \in Conns, ConnStep(d)
      PROVE  told'[o][alias[c]] = told[o][alias[c]]
  BY <1>2, <1>5, QuietStep DEF ConnStep
<1>. QED
  BY <1>3, <1>4, <1>5 DEF Next, HubStep

(***************************************************************************)
(* While one connection of an alias stays open and registered, its other   *)
(* connections' joins and leaves are announced to nobody, whether or not   *)
(* the cap prunes in between.                                              *)
(***************************************************************************)
THEOREM Steady == Spec => NoFlap
<1>1. Inv /\ [Next]_vars =>
        [\A c, o \in Conns :
            Open(c) /\ Registered(c) /\ Open(c)' /\ Registered(c)' /\ Open(o)'
              => told'[o][alias[c]] = told[o][alias[c]]]_vars
  BY NoFlapHolds DEF NoFlapStep
<1>. QED
  BY <1>1, Invariance, PTL DEF Spec, NoFlap

-----------------------------------------------------------------------------
(***************************************************************************)
(* The cap.  The set of connections need not be finite; the registry is,   *)
(* because each join adds one entry.                                       *)
(***************************************************************************)
FiniteRegistry == IsFiniteSet(conns)

LEMMA FiniteStep == FiniteRegistry /\ [Next]_vars => FiniteRegistry'
<1>. SUFFICES ASSUME FiniteRegistry, [Next]_vars PROVE FiniteRegistry'
  OBVIOUS
<1>1. CASE HandleJoin
  <2>1. PICK reg \in SUBSET conns : \E e : conns' = reg \cup {e}
    BY <1>1 DEF HandleJoin, Admitted, PruneDead
  <2>. QED
    BY <2>1, FS_Subset, FS_AddElement DEF FiniteRegistry
<1>2. CASE HandleLeave
  <2>1. conns' \subseteq conns
    BY <1>2 DEF HandleLeave
  <2>. QED
    BY <2>1, FS_Subset DEF FiniteRegistry
<1>3. ASSUME NEW c \in Conns, ConnStep(c)
      PROVE  conns' = conns
  BY <1>3 DEF ConnStep, Connect, Identify, Stop, Drop, hubVars
<1>. QED
  BY <1>1, <1>2, <1>3 DEF Next, HubStep, vars, hubVars, FiniteRegistry

\* One element more makes a set larger by one at most.
LEMMA OneMore ==
    ASSUME NEW S, IsFiniteSet(S), NEW e, NEW T, T \subseteq S \cup {e}
    PROVE  /\ Cardinality(T) <= Cardinality(S) + 1
           /\ Cardinality(T) \in Nat /\ Cardinality(S) \in Nat
<1>1. Cardinality(S) \in Nat
  BY FS_CardinalityType
<1>2. IsFiniteSet(S \cup {e})
  BY FS_AddElement
<1>3. Cardinality(S \cup {e}) <= Cardinality(S) + 1
  <2>1. Cardinality(S \cup {e}) = IF e \in S THEN Cardinality(S) ELSE Cardinality(S) + 1
    BY FS_AddElement
  <2>. QED
    BY <1>1, <2>1
<1>4. IsFiniteSet(T) /\ Cardinality(T) <= Cardinality(S \cup {e})
  BY <1>2, FS_Subset
<1>5. Cardinality(T) \in Nat /\ Cardinality(S \cup {e}) \in Nat
  BY <1>2, <1>4, FS_CardinalityType
<1>. QED
  BY <1>1, <1>3, <1>4, <1>5

GrowthStep ==
    \A a \in Aliases :
        (/\ Cardinality(ConnsOf(conns', a)) > MaxConnsPerAlias
         /\ ConnsOf(conns', a) \ ConnsOf(conns, a) # {})
        => \A e \in ConnsOf(conns', a) \cap ConnsOf(conns, a) : Connected(e.conn)

LEMMA GrowthHolds == FiniteRegistry /\ [Next]_vars => [GrowthStep]_vars
<1>. SUFFICES ASSUME FiniteRegistry, [Next]_vars, ~UNCHANGED vars,
                     NEW a \in Aliases,
                     Cardinality(ConnsOf(conns', a)) > MaxConnsPerAlias,
                     ConnsOf(conns', a) \ ConnsOf(conns, a) # {}
              PROVE  \A e \in ConnsOf(conns', a) \cap ConnsOf(conns, a) : Connected(e.conn)
  BY DEF GrowthStep
<1>1. HandleJoin
  <2>1. ~(conns' \subseteq conns)
    BY DEF ConnsOf
  <2>2. ASSUME NEW c \in Conns, ConnStep(c)
        PROVE  conns' = conns
    BY <2>2 DEF ConnStep, Connect, Identify, Stop, Drop, hubVars
  <2>. QED
    BY <2>1, <2>2 DEF Next, HubStep, HandleLeave
<1>. DEFINE m == Head(mailbox)
            reg == Admitted(conns, m.alias)
            new == [alias |-> m.alias, conn |-> m.conn]
<1>2. conns' = reg \cup {new} /\ reg \subseteq conns
  BY <1>1 DEF HandleJoin, Admitted, PruneDead
<1>3. new \notin conns /\ m.alias = a
  BY <1>2 DEF ConnsOf
<1>4. ConnsOf(conns', a) \subseteq ConnsOf(conns, a) \cup {new}
  BY <1>2 DEF ConnsOf
\* Below the cap one more entry does not exceed it.
<1>5. AtCap(conns, a)
  <2>1. IsFiniteSet(ConnsOf(conns, a))
    BY FS_Subset DEF ConnsOf, FiniteRegistry
  <2>. HIDE DEF new
  <2>2. Cardinality(ConnsOf(conns', a)) <= Cardinality(ConnsOf(conns, a)) + 1
        /\ Cardinality(ConnsOf(conns', a)) \in Nat /\ Cardinality(ConnsOf(conns, a)) \in Nat
    BY <1>4, <2>1, OneMore
  <2>. QED
    BY <2>2, PresenceAssumption DEF AtCap
<1>6. reg = PruneDead(conns, a)
  BY <1>3, <1>5 DEF Admitted
<1>. QED
  BY <1>2, <1>3, <1>6 DEF PruneDead, ConnsOf

(***************************************************************************)
(* The cap bounds what dead connections can add: an alias grows beyond     *)
(* MAX_CONNS_PER_ALIAS only by a join that finds every other entry of it   *)
(* connected.                                                              *)
(***************************************************************************)
THEOREM CapBoundsTheDead == Spec => GrowthBeyondCapIsLive
<1>1. Init => FiniteRegistry
  BY FS_EmptySet DEF Init, FiniteRegistry
<1>2. FiniteRegistry /\ [Next]_vars =>
        [\A a \in Aliases :
            (/\ Cardinality(ConnsOf(conns', a)) > MaxConnsPerAlias
             /\ ConnsOf(conns', a) \ ConnsOf(conns, a) # {})
            => \A e \in ConnsOf(conns', a) \cap ConnsOf(conns, a) : Connected(e.conn)]_vars
  BY GrowthHolds DEF GrowthStep
<1>. QED
  BY <1>1, <1>2, FiniteStep, PTL DEF Spec, GrowthBeyondCapIsLive

-----------------------------------------------------------------------------
(***************************************************************************)
(* With nothing left to handle, the registry is the open connections that  *)
(* identified: a late join's leave has been handled as well.               *)
(***************************************************************************)
LEMMA Settled ==
    Inv /\ mailbox = <<>> =>
        conns = {[alias |-> alias[c], conn |-> c] : c \in {d \in Conns : Open(d) /\ identified[d]}}
<1>. SUFFICES ASSUME Inv, mailbox = <<>>
              PROVE  conns = {[alias |-> alias[c], conn |-> c] :
                                  c \in {d \in Conns : Open(d) /\ identified[d]}}
  OBVIOUS
<1>1. \A m : ~Queued(m)
  BY DEF Queued
<1>2. ASSUME NEW e \in conns
      PROVE  e.conn \in Conns /\ Open(e.conn) /\ identified[e.conn]
             /\ e = [alias |-> alias[e.conn], conn |-> e.conn]
  <2>1. e \in Entry /\ identified[e.conn] /\ e.alias = alias[e.conn]
    BY DEF Inv, TypeOK, EntriesSound
  <2>2. e.conn \in Conns /\ e = [alias |-> e.alias, conn |-> e.conn]
    BY <2>1 DEF Entry
  <2>3. ~Gone(e.conn)
    BY <1>1 DEF Inv, NoLeakedEntry
  <2>4. Open(e.conn)
    BY <2>1, <2>2, <2>3 DEF Inv, TypeOK, ConnTypeOK, Phases, IdentifiedSound, Gone, Open
  <2>. QED
    BY <2>1, <2>2, <2>4
<1>3. ASSUME NEW c \in Conns, Open(c), identified[c]
      PROVE  [alias |-> alias[c], conn |-> c] \in conns
  BY <1>1, <1>3 DEF Inv, LiveStaysRegistered, Registered
<1>. QED
  BY <1>2, <1>3

=============================================================================
