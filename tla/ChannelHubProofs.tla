--------------------------- MODULE ChannelHubProofs ---------------------------
(***************************************************************************)
(* Theorems about ChannelHub, for any connections, accounts and channels,  *)
(* any cap and any backlog.  One inductive invariant, Inv, says what the   *)
(* mailbox and the two maps may hold of a connection in each phase of its  *)
(* life; the promises about membership and chat follow from it.            *)
(***************************************************************************)
EXTENDS ChannelHub, WsConnProofs

(***************************************************************************)
(* A message is one its sender could have sent: it carries the identity    *)
(* of the sender's ticket and upgrade, the sender has identified, and a    *)
(* LeaveAllChannels comes from a connection that is gone.                  *)
(***************************************************************************)
MessageSound(m) ==
    /\ identified[m.conn]
    /\ \/ m = LeaveAllChannels(m.conn) /\ Gone(m.conn)
       \/ \E ch \in Channels :
            m \in {JoinChannel(m.conn, ch), LeaveChannel(m.conn, ch), ChannelMessage(m.conn, ch)}

MessagesSound == \A m \in Message : Queued(m) => MessageSound(m)

\* Nothing of a connection stands behind its LeaveAllChannels.
LeaveIsLast ==
    \A i, j \in 1..Len(mailbox), c \in Conns :
        i < j /\ mailbox[i] = LeaveAllChannels(c) => mailbox[j].conn # c

\* A request that outlives its connection is followed by that connection's leave.
LateRequestHasLeave ==
    \A m \in Message :
        Queued(m) /\ Gone(m.conn) => Queued(LeaveAllChannels(m.conn))

\* A connection has at most one leaf per channel, under its own account.
LeavesSound ==
    \A e \in channels \cup connIndex : identified[e.conn] /\ e = LeafOf(e.conn, e.channel)

\* Only an open connection wants anything.
WantedSound == \A c \in Conns : ~Open(c) => wanted[c] = {}

-----------------------------------------------------------------------------
(***************************************************************************)
(* Type correctness.                                                       *)
(***************************************************************************)

\* The group of an account is an account.
LEMMA GroupTyped ==
    ASSUME NEW a \in Aliases, NEW p \in Aliases \cup {NoParent}
    PROVE  GroupKey(a, p) \in Aliases
  BY DEF GroupKey

\* What the connections send, and the leaf a request is about.
LEMMA MessageTyped ==
    ASSUME ConnTypeOK, NEW c \in Conns, NEW ch \in Channels, alias[c] \in Aliases
    PROVE  /\ JoinChannel(c, ch) \in Message
           /\ LeaveChannel(c, ch) \in Message
           /\ ChannelMessage(c, ch) \in Message
           /\ LeaveAllChannels(c) \in Message
           /\ LeafOf(c, ch) \in Membership
<1>1. parent[c] \in Aliases \cup {NoParent} /\ GroupKey(alias[c], parent[c]) \in Aliases
  BY GroupTyped DEF ConnTypeOK
<1>. QED
  BY <1>1 DEF JoinChannel, LeaveChannel, ChannelMessage, LeaveAllChannels, LeafOf, Leaf,
     Message, Membership

LEMMA LeafTyped ==
    ASSUME NEW m \in Message, m.type \in {"JoinChannel", "LeaveChannel"}
    PROVE  /\ Leaf(m) \in Membership
           /\ m.channel \in Channels /\ m.alias \in Aliases /\ m.conn \in Conns
           /\ m.parent \in Aliases \cup {NoParent}
<1>1. /\ m.channel \in Channels /\ m.alias \in Aliases /\ m.conn \in Conns
      /\ m.parent \in Aliases \cup {NoParent}
  BY DEF Message
<1>2. GroupKey(m.alias, m.parent) \in Aliases
  BY <1>1, GroupTyped
<1>. QED
  BY <1>1, <1>2 DEF Leaf, Membership

\* A fan-out keeps the record of what was told well typed.
LEMMA AnnounceTyped ==
    ASSUME told \in [Conns -> [Channels -> [Aliases -> News]]],
           NEW reg, NEW G, NEW news \in News
    PROVE  Announce(reg, G, news) \in [Conns -> [Channels -> [Aliases -> News]]]
<1>1. NothingTold \in [Aliases -> News]
  BY DEF NothingTold, News
<1>. QED
  BY <1>1 DEF Announce

LEMMA AdmittedIsPart == ASSUME NEW reg, NEW ch, NEW g PROVE Admitted(reg, ch, g) \subseteq reg
  BY DEF Admitted, PruneDead

LEMMA TypeInit == Init => TypeOK
  BY DEF Init, ConnInit, TypeOK, ConnTypeOK, Phases, NothingTold, News


\* Types, with the fact that frames carry an account.
TypeInv == TypeOK /\ IdentifiedSound

\* A frame appends a message of its sender and leaves the rest alone.
LEMMA SendTyped ==
    ASSUME TypeOK, NEW c \in Conns, NEW m \in Message, Send(c, m),
           wanted' \in [Conns -> SUBSET Channels]
    PROVE  TypeOK'
<1>1. mailbox' \in Seq(Message)
  BY Sent DEF TypeOK, Send
<1>. QED
  BY <1>1 DEF Send, TypeOK, ConnTypeOK, connVars

LEMMA ConnStepTyped == ASSUME TypeInv, NEW c \in Conns, ConnStep(c) PROVE TypeInv'
<1>a. /\ TypeOK /\ IdentifiedSound
      /\ ConnTypeOK /\ mailbox \in Seq(Message)
      /\ wanted \in [Conns -> SUBSET Channels]
      /\ told \in [Conns -> [Channels -> [Aliases -> News]]]
  BY DEF TypeInv, TypeOK
<1>1. ASSUME NEW a \in Aliases \cup {NoAlias}, NEW p \in ResolvedParents(a), Connect(c, a, p)
      PROVE  TypeInv'
  <2>1. ConnTypeOK' /\ IdentifiedSound'
    BY <1>a, <1>1, ConnTyped, IdentifiedKept DEF Connect
  <2>. QED
    BY <1>a, <1>1, <2>1 DEF Connect, TypeInv, TypeOK
<1>2. ASSUME NEW claim \in Aliases, Identify(c, claim)
      PROVE  TypeInv'
  <2>1. ConnTypeOK' /\ IdentifiedSound'
    BY <1>a, <1>2, ConnTyped, IdentifiedKept DEF Identify
  <2>. QED
    BY <1>a, <1>2, <2>1 DEF Identify, TypeInv, TypeOK
<1>3. ASSUME NEW ch \in Channels,
             ChannelsJoin(c, ch) \/ ChannelsLeave(c, ch) \/ ChannelsMessage(c, ch)
      PROVE  TypeInv'
  <2>1. alias[c] \in Aliases /\ UNCHANGED connVars
    BY <1>a, <1>3 DEF ChannelsJoin, ChannelsLeave, ChannelsMessage, Send, MayUseChannels,
       IdentifiedSound
  <2>2. \E m \in Message : Send(c, m)
    BY <1>a, <1>3, <2>1, MessageTyped DEF ChannelsJoin, ChannelsLeave, ChannelsMessage
  <2>3. wanted' \in [Conns -> SUBSET Channels]
    BY <1>a, <1>3 DEF ChannelsJoin, ChannelsLeave, ChannelsMessage
  <2>4. TypeOK'
    BY <1>a, <2>2, <2>3, SendTyped
  <2>. QED
    BY <1>a, <2>1, <2>4 DEF TypeInv, IdentifiedSound, connVars
<1>4. CASE Stop(c)
  <2>1. ConnTypeOK' /\ IdentifiedSound'
    BY <1>a, <1>4, ConnTyped, IdentifiedKept DEF Stop
  <2>2. LeaveAllChannels(c) \in Message
    BY DEF LeaveAllChannels, Message
  <2>3. mailbox' \in Seq(Message)
    BY <1>a, <1>4, <2>2, Sent DEF Stop
  <2>4. NothingTold \in [Aliases -> News]
    BY DEF NothingTold, News
  <2>. QED
    BY <1>a, <1>4, <2>1, <2>3, <2>4 DEF Stop, TypeInv, TypeOK
<1>5. CASE Drop(c)
  <2>1. ConnTypeOK' /\ IdentifiedSound'
    BY <1>a, <1>5, ConnTyped, IdentifiedKept DEF Drop
  <2>. QED
    BY <1>a, <1>5, <2>1 DEF Drop, TypeInv, TypeOK
<1>. QED
  BY <1>1, <1>2, <1>3, <1>4, <1>5 DEF ConnStep

\* What every handler does to the mailbox, and to nothing of the connections.
LEMMA HandlerTyped ==
    ASSUME TypeInv, HubStep
    PROVE  /\ mailbox # <<>> /\ mailbox' = Tail(mailbox)
           /\ Head(mailbox) \in Message /\ mailbox' \in Seq(Message)
           /\ UNCHANGED <<connVars, wanted>>
           /\ ConnTypeOK' /\ IdentifiedSound'
<1>1. /\ mailbox # <<>> /\ mailbox' = Tail(mailbox)
      /\ UNCHANGED connVars /\ UNCHANGED wanted
  BY DEF HubStep, HandleJoin, HandleLeave, HandleLeaveAll, HandleMessage
<1>2. Head(mailbox) \in Message /\ mailbox' \in Seq(Message)
  BY <1>1, Handled DEF TypeInv, TypeOK
<1>3. ConnTypeOK' /\ IdentifiedSound'
  BY <1>1 DEF TypeInv, TypeOK, connVars, ConnTypeOK, IdentifiedSound
<1>. QED
  BY <1>1, <1>2, <1>3

LEMMA HubStepTyped == ASSUME TypeInv, HubStep PROVE TypeInv'
<1>. DEFINE m == Head(mailbox)
<1>a. /\ channels \subseteq Membership /\ connIndex \subseteq Membership
      /\ wanted \in [Conns -> SUBSET Channels]
      /\ told \in [Conns -> [Channels -> [Aliases -> News]]]
  BY DEF TypeInv, TypeOK
<1>b. /\ m \in Message /\ mailbox' \in Seq(Message) /\ wanted' = wanted
      /\ ConnTypeOK' /\ IdentifiedSound'
  BY HandlerTyped
<1>c. \A reg, G : /\ Announce(reg, G, "on") \in [Conns -> [Channels -> [Aliases -> News]]]
                  /\ Announce(reg, G, "off") \in [Conns -> [Channels -> [Aliases -> News]]]
  BY <1>a, AnnounceTyped DEF News
<1>1. CASE HandleJoin
  <2>1. m.type = "JoinChannel"
    BY <1>1 DEF HandleJoin
  <2>2. Leaf(m) \in Membership
    BY <1>b, <2>1, LeafTyped
  <2>3. channels' \subseteq Membership /\ connIndex' \subseteq Membership
    BY <1>a, <1>1, <2>2, AdmittedIsPart DEF HandleJoin
  <2>4. told' \in [Conns -> [Channels -> [Aliases -> News]]] /\ chat' = NoChat
    BY <1>a, <1>c, <1>1 DEF HandleJoin
  <2>. QED
    BY <1>a, <1>b, <2>3, <2>4 DEF TypeInv, TypeOK
<1>2. CASE HandleLeave
  BY <1>a, <1>b, <1>c, <1>2 DEF HandleLeave, ForgetConn, TypeInv, TypeOK
<1>3. CASE HandleLeaveAll
  BY <1>a, <1>b, <1>c, <1>3 DEF HandleLeaveAll, TypeInv, TypeOK
<1>4. CASE HandleMessage
  <2>1. m.type = "ChannelMessage"
    BY <1>4 DEF HandleMessage
  <2>2. m.channel \in Channels
    BY <1>b, <2>1 DEF Message
  <2>3. Recipients(channels', m) \in SUBSET Conns
    BY DEF Recipients, Audience
  <2>4. chat' \in Chat \cup {NoChat}
    BY <1>4, <2>2, <2>3 DEF HandleMessage, Chat
  <2>. QED
    BY <1>a, <1>b, <1>4, <2>4 DEF HandleMessage, PruneChannel, TypeInv, TypeOK
<1>. QED
  BY <1>1, <1>2, <1>3, <1>4 DEF HubStep

LEMMA TypeStep == TypeInv /\ [Next]_vars => TypeInv'
<1>1. ASSUME TypeInv, UNCHANGED vars PROVE TypeInv'
  BY <1>1 DEF vars, connVars, hubVars, TypeInv, TypeOK, ConnTypeOK, IdentifiedSound
<1>. QED
  BY <1>1, ConnStepTyped, HubStepTyped DEF Next

(***************************************************************************)
(* Every variable keeps its type: both maps hold leaves of accounts and    *)
(* channels, and a frame carries an account because only a connection      *)
(* with a valid ticket identifies.                                         *)
(***************************************************************************)
THEOREM TypeInvariance == Spec => []TypeOK
<1>1. Init => TypeInv
  BY TypeInit DEF TypeInv, IdentifiedSound, Init, ConnInit
<1>2. TypeInv => TypeOK
  BY DEF TypeInv
<1>. QED
  BY <1>1, <1>2, TypeStep, PTL DEF Spec

-----------------------------------------------------------------------------
(***************************************************************************)
(* What a queue of requests comes to: for a join j and a leave l of one    *)
(* connection and channel, whether leaf e is in reg once they are counted. *)
(***************************************************************************)
Asked(q, j, l) == {i \in 1..Len(q) : q[i] \in {j, l}}

LastIs(S, q, j) == \E i \in S : (\A k \in S : k <= i) /\ q[i] = j

Ends(q, j, l, e, reg) ==
    \/ Asked(q, j, l) = {} /\ e \in reg
    \/ LastIs(Asked(q, j, l), q, j)

\* A message of another sender or about another channel changes nothing.
LEMMA EndsOther ==
    ASSUME NEW M, NEW q \in Seq(M), NEW m \in M, NEW j, NEW l, NEW e, NEW reg,
           m \notin {j, l}
    PROVE  /\ Asked(Append(q, m), j, l) = Asked(q, j, l)
           /\ Ends(Append(q, m), j, l, e, reg) <=> Ends(q, j, l, e, reg)
<1>. DEFINE r == Append(q, m)
<1>1. /\ Len(q) \in Nat /\ Len(r) = Len(q) + 1
      /\ \A i \in 1..Len(q) : r[i] = q[i]
      /\ r[Len(q) + 1] = m
  BY Sent
<1>2. \A i : i \in 1..Len(r) <=> i \in 1..Len(q) \/ i = Len(q) + 1
  BY <1>1
<1>3. Asked(r, j, l) = Asked(q, j, l)
  BY <1>1, <1>2 DEF Asked
<1>4. \A i \in Asked(q, j, l) : r[i] = q[i]
  BY <1>1 DEF Asked
<1>. QED
  BY <1>3, <1>4 DEF Ends, LastIs

\* The last request decides.
LEMMA EndsOwn ==
    ASSUME NEW M, NEW q \in Seq(M), NEW m \in M, NEW j, NEW l, NEW e, NEW reg,
           m \in {j, l}
    PROVE  Ends(Append(q, m), j, l, e, reg) <=> m = j
<1>. DEFINE r == Append(q, m)
            n == Len(q) + 1
<1>1. /\ Len(q) \in Nat /\ Len(r) = n /\ r[n] = m
  BY Sent
<1>2. n \in Asked(r, j, l) /\ \A k \in Asked(r, j, l) : k \in 1..n
  BY <1>1 DEF Asked
<1>3. \A i \in Asked(r, j, l) : (\A k \in Asked(r, j, l) : k <= i) => i = n
  BY <1>1, <1>2
<1>4. \A k \in Asked(r, j, l) : k <= n
  BY <1>1, <1>2
<1>. QED
  BY <1>1, <1>2, <1>3, <1>4 DEF Ends, LastIs

\* The queue behind its head: places move up by one.
LEMMA AskedTail ==
    ASSUME NEW M, NEW q \in Seq(M), q # <<>>, NEW j, NEW l
    PROVE  \A i \in Nat \ {0} :
              /\ i \in Asked(Tail(q), j, l) <=> i + 1 \in Asked(q, j, l)
              /\ i \in Asked(Tail(q), j, l) => Tail(q)[i] = q[i + 1]
<1>1. /\ Len(q) \in Nat \ {0} /\ Len(Tail(q)) = Len(q) - 1
      /\ \A i \in 1..Len(Tail(q)) : Tail(q)[i] = q[i + 1]
  BY Handled
<1>2. \A i \in Nat \ {0} : i \in 1..Len(Tail(q)) <=> i + 1 \in 1..Len(q)
  BY <1>1
<1>. QED
  BY <1>1, <1>2 DEF Asked

LEMMA AskedHead ==
    ASSUME NEW M, NEW q \in Seq(M), q # <<>>, NEW j, NEW l
    PROVE  /\ Asked(q, j, l) \subseteq Nat \ {0}
           /\ Asked(Tail(q), j, l) \subseteq Nat \ {0}
           /\ 1 \in Asked(q, j, l) <=> Head(q) \in {j, l}
           /\ Head(q) = q[1]
<1>1. Len(q) \in Nat \ {0} /\ Len(Tail(q)) \in Nat /\ Head(q) = q[1]
  BY Handled
<1>. QED
  BY <1>1 DEF Asked

(***************************************************************************)
(* Reading a queue from its second place on, abstractly: S are the places  *)
(* of some requests in q, T those in r, the same requests one place lower. *)
(***************************************************************************)
LEMMA LastMoves ==
    ASSUME NEW S \in SUBSET (Nat \ {0}), NEW T \in SUBSET (Nat \ {0}), NEW q, NEW r, NEW j,
           \A i \in Nat \ {0} : i \in T <=> i + 1 \in S,
           \A i \in Nat \ {0} : i \in T => r[i] = q[i + 1],
           T # {}
    PROVE  LastIs(T, r, j) <=> LastIs(S, q, j)
<1>1. ASSUME NEW i \in T, \A k \in T : k <= i, r[i] = j
      PROVE  \E n \in S : (\A k \in S : k <= n) /\ q[n] = j
  <2>1. i + 1 \in S /\ q[i + 1] = j
    BY <1>1
  <2>2. ASSUME NEW k \in S
        PROVE  k <= i + 1
    <3>1. CASE k = 1
      BY <3>1
    <3>2. CASE k # 1
      <4>1. k - 1 \in Nat \ {0} /\ (k - 1) + 1 = k
        BY <3>2
      <4>2. k - 1 \in T
        BY <4>1
      <4>. QED
        BY <1>1, <4>1, <4>2
    <3>. QED
      BY <3>1, <3>2
  <2>. QED
    BY <2>1, <2>2
<1>2. ASSUME NEW i \in S, \A k \in S : k <= i, q[i] = j
      PROVE  \E n \in T : (\A k \in T : k <= n) /\ r[n] = j
  <2>1. PICK t \in T : TRUE
    OBVIOUS
  <2>2. t + 1 \in S /\ t + 1 <= i
    BY <1>2
  <2>3. i - 1 \in Nat \ {0} /\ (i - 1) + 1 = i
    BY <2>2
  <2>4. i - 1 \in T /\ r[i - 1] = j
    BY <1>2, <2>3
  <2>5. ASSUME NEW k \in T
        PROVE  k <= i - 1
    <3>1. k + 1 \in S
      OBVIOUS
    <3>2. k \in Nat /\ i \in Nat /\ k + 1 <= i
      BY <1>2, <3>1
    <3>. QED
      BY <3>2
  <2>. QED
    BY <2>4, <2>5
<1>. QED
  BY <1>1, <1>2 DEF LastIs

\* A handled message that is none of the requests changes nothing.
LEMMA EndsTailOther ==
    ASSUME NEW M, NEW q \in Seq(M), q # <<>>, NEW j, NEW l, NEW e, NEW reg,
           Head(q) \notin {j, l}
    PROVE  Ends(Tail(q), j, l, e, reg) <=> Ends(q, j, l, e, reg)
<1>. DEFINE S == Asked(q, j, l)
            T == Asked(Tail(q), j, l)
<1>1. S \in SUBSET (Nat \ {0}) /\ T \in SUBSET (Nat \ {0}) /\ 1 \notin S
  BY AskedHead
<1>2. \A i \in Nat \ {0} : /\ i \in T <=> i + 1 \in S
                           /\ i \in T => Tail(q)[i] = q[i + 1]
  BY AskedTail
<1>3. /\ Ends(q, j, l, e, reg) <=>
           \/ S = {} /\ e \in reg
           \/ LastIs(S, q, j)
      /\ Ends(Tail(q), j, l, e, reg) <=>
           \/ T = {} /\ e \in reg
           \/ LastIs(T, Tail(q), j)
  BY DEF Ends
<1>. HIDE DEF S, T
<1>4. S = {} <=> T = {}
  <2>1. \A i \in S : i - 1 \in Nat \ {0} /\ (i - 1) + 1 = i
    BY <1>1
  <2>. QED
    BY <1>1, <1>2, <2>1
<1>5. T # {} => (LastIs(T, Tail(q), j) <=> LastIs(S, q, j))
  BY <1>1, <1>2, LastMoves
<1>. QED
  BY <1>3, <1>4, <1>5 DEF LastIs

\* A handled request is what the leaf's place in the registry now shows.
LEMMA EndsTailOwn ==
    ASSUME NEW M, NEW q \in Seq(M), q # <<>>, NEW j, NEW l, NEW e, NEW reg, NEW after,
           Head(q) \in {j, l}, e \in after <=> Head(q) = j
    PROVE  Ends(Tail(q), j, l, e, after) <=> Ends(q, j, l, e, reg)
<1>. DEFINE S == Asked(q, j, l)
            T == Asked(Tail(q), j, l)
<1>1. /\ S \in SUBSET (Nat \ {0}) /\ T \in SUBSET (Nat \ {0})
      /\ 1 \in S /\ Head(q) = q[1]
  BY AskedHead
<1>2. \A i \in Nat \ {0} : /\ i \in T <=> i + 1 \in S
                           /\ i \in T => Tail(q)[i] = q[i + 1]
  BY AskedTail
<1>3. /\ Ends(q, j, l, e, reg) <=>
           LastIs(S, q, j)
      /\ Ends(Tail(q), j, l, e, after) <=>
           \/ T = {} /\ q[1] = j
           \/ LastIs(T, Tail(q), j)
  BY <1>1 DEF Ends
<1>. HIDE DEF S, T
<1>4. CASE T = {}
  <2>1. \A i \in S : i # 1 => i - 1 \in Nat \ {0} /\ (i - 1) + 1 = i
    BY <1>1
  <2>2. S = {1}
    BY <1>1, <1>2, <1>4, <2>1
  <2>. QED
    BY <1>3, <1>4, <2>2 DEF LastIs
<1>5. CASE T # {}
  <2>1. LastIs(T, Tail(q), j) <=> LastIs(S, q, j)
    BY <1>1, <1>2, <1>5, LastMoves
  <2>. QED
    BY <1>3, <1>5, <2>1
<1>. QED
  BY <1>4, <1>5

-----------------------------------------------------------------------------
(***************************************************************************)
(* The inductive invariant: what waits in the mailbox, what the two maps   *)
(* hold, and how both relate to what the connections asked for.            *)
(***************************************************************************)
MailInv == MessagesSound /\ LeaveIsLast /\ LateRequestHasLeave

MapInv == LeavesSound /\ IndexCoversRegistry /\ NoLeakedMembership

WantInv == WantedSound /\ IntentHonoured

Inv == TypeInv /\ MailInv /\ MapInv /\ WantInv

\* Types, in the form the steps below use.
LEMMA Typed ==
    ASSUME TypeInv
    PROVE  /\ phase \in [Conns -> Phases]
           /\ alias \in [Conns -> Aliases \cup {NoAlias}]
           /\ parent \in [Conns -> Aliases \cup {NoParent}]
           /\ identified \in [Conns -> BOOLEAN]
           /\ mailbox \in Seq(Message)
           /\ Len(mailbox) \in Nat
           /\ \A i \in 1..Len(mailbox) : mailbox[i] \in Message /\ mailbox[i].conn \in Conns
           /\ channels \subseteq Membership /\ connIndex \subseteq Membership
           /\ \A e \in channels \cup connIndex : e.conn \in Conns /\ e.channel \in Channels
           /\ wanted \in [Conns -> SUBSET Channels]
           /\ \A d \in Conns : identified[d] => alias[d] \in Aliases /\ phase[d] # "idle"
<1>1. mailbox \in Seq(Message) /\ Len(mailbox) \in Nat
  BY DEF TypeInv, TypeOK
<1>2. \A i \in 1..Len(mailbox) : mailbox[i] \in Message
  BY <1>1
<1>3. \A m \in Message : m.conn \in Conns
  BY DEF Message
<1>4. channels \subseteq Membership /\ connIndex \subseteq Membership
  BY DEF TypeInv, TypeOK
<1>5. \A e \in Membership : e.conn \in Conns /\ e.channel \in Channels
  BY DEF Membership
<1>. QED
  BY <1>1, <1>2, <1>3, <1>4, <1>5 DEF TypeInv, TypeOK, ConnTypeOK, IdentifiedSound

LEMMA InvInit == Init => Inv
<1>. SUFFICES ASSUME Init PROVE Inv
  OBVIOUS
<1>1. TypeInv
  BY TypeInit DEF TypeInv, IdentifiedSound, Init, ConnInit
<1>2. /\ mailbox = <<>> /\ channels = {} /\ connIndex = {}
      /\ \A c \in Conns : ~Open(c) /\ wanted[c] = {}
  BY DEF Init, ConnInit, Open
<1>3. Len(mailbox) = 0
  BY <1>2
<1>4. MailInv
  BY <1>3 DEF MailInv, MessagesSound, LeaveIsLast, LateRequestHasLeave, Queued
<1>. QED
  BY <1>1, <1>2, <1>4 DEF Inv, MapInv, LeavesSound, IndexCoversRegistry,
     NoLeakedMembership, WantInv, WantedSound, IntentHonoured

-----------------------------------------------------------------------------
(***************************************************************************)
(* The connections' side.                                                  *)
(***************************************************************************)

\* What a connection sends, and its leaf, depend on its ticket and upgrade only.
LEMMA SameSender ==
    ASSUME NEW d, alias'[d] = alias[d], parent'[d] = parent[d]
    PROVE  \A ch : /\ JoinChannel(d, ch)' = JoinChannel(d, ch)
                   /\ LeaveChannel(d, ch)' = LeaveChannel(d, ch)
                   /\ ChannelMessage(d, ch)' = ChannelMessage(d, ch)
                   /\ LeafOf(d, ch)' = LeafOf(d, ch)
                   /\ LeaveAllChannels(d)' = LeaveAllChannels(d)
  BY DEF JoinChannel, LeaveChannel, ChannelMessage, LeafOf, Leaf, LeaveAllChannels

\* The messages of one connection tell each other apart.
LEMMA MessagesDiffer ==
    ASSUME NEW c, NEW d, NEW ch, NEW k
    PROVE  /\ JoinChannel(c, ch).conn = c /\ LeaveChannel(c, ch).conn = c
           /\ ChannelMessage(c, ch).conn = c /\ LeaveAllChannels(c).conn = c
           /\ JoinChannel(c, ch) # LeaveChannel(d, k)
           /\ JoinChannel(c, ch) # LeaveAllChannels(d)
           /\ LeaveChannel(c, ch) # LeaveAllChannels(d)
           /\ ChannelMessage(c, ch) # LeaveAllChannels(d)
           /\ ChannelMessage(c, ch) # JoinChannel(d, k)
           /\ ChannelMessage(c, ch) # LeaveChannel(d, k)
           /\ JoinChannel(c, ch) = JoinChannel(d, k) => c = d /\ ch = k
           /\ LeaveChannel(c, ch) = LeaveChannel(d, k) => c = d /\ ch = k
<1>1. /\ JoinChannel(c, ch).type = "JoinChannel" /\ JoinChannel(c, ch).channel = ch
      /\ LeaveChannel(c, ch).type = "LeaveChannel" /\ LeaveChannel(c, ch).channel = ch
      /\ JoinChannel(d, k).type = "JoinChannel" /\ JoinChannel(d, k).channel = k
      /\ LeaveChannel(d, k).type = "LeaveChannel" /\ LeaveChannel(d, k).channel = k
      /\ ChannelMessage(c, ch).type = "ChannelMessage"
      /\ LeaveAllChannels(d).type = "LeaveAllChannels"
  BY DEF JoinChannel, LeaveChannel, ChannelMessage, LeaveAllChannels
<1>2. /\ JoinChannel(c, ch).conn = c /\ LeaveChannel(c, ch).conn = c
      /\ JoinChannel(d, k).conn = d /\ LeaveChannel(d, k).conn = d
      /\ ChannelMessage(c, ch).conn = c /\ LeaveAllChannels(c).conn = c
  BY DEF JoinChannel, LeaveChannel, ChannelMessage, LeaveAllChannels
<1>. QED
  BY <1>1, <1>2

\* Sound messages stay sound while their sender's identity lasts.
LEMMA SoundKept ==
    ASSUME NEW m, MessageSound(m), alias'[m.conn] = alias[m.conn],
           parent'[m.conn] = parent[m.conn], identified'[m.conn],
           Gone(m.conn) => Gone(m.conn)'
    PROVE  MessageSound(m)'
  BY SameSender DEF MessageSound

\* A LeaveAllChannels in the mailbox is from a connection that is gone.
LEMMA LeaveIsFromGone ==
    ASSUME NEW m, MessageSound(m), m = LeaveAllChannels(m.conn)
    PROVE  Gone(m.conn)
<1>1. \A ch \in Channels : m \notin {JoinChannel(m.conn, ch), LeaveChannel(m.conn, ch),
                                     ChannelMessage(m.conn, ch)}
  BY MessagesDiffer
<1>. QED
  BY <1>1 DEF MessageSound

(***************************************************************************)
(* What a step of connection c does, as far as the invariant can see:      *)
(* nobody's ticket changes once it has identified, nobody comes back, and  *)
(* the mailbox stays or gains one sound message; it gains the              *)
(* LeaveAllChannels when an identified connection goes.                    *)
(***************************************************************************)
Sends(c, m) ==
    /\ m \in Message /\ m.conn = c
    /\ mailbox' = Append(mailbox, m)
    /\ identified[c] /\ ~Gone(c)
    /\ MessageSound(m)'
    /\ Gone(c)' => m = LeaveAllChannels(c)

ConnEffect(c) ==
    /\ channels' = channels /\ connIndex' = connIndex
    /\ \A d \in Conns : identified[d] =>
          /\ identified'[d] /\ alias'[d] = alias[d] /\ parent'[d] = parent[d]
          /\ Gone(d) => Gone(d)'
          /\ ~Connected(d) => ~Connected(d)'
    /\ \A d \in Conns \ {c} : Gone(d)' => Gone(d)
    /\ \/ mailbox' = mailbox /\ (identified[c] => (Gone(c)' => Gone(c)))
       \/ \E m \in Message : Sends(c, m)

LEMMA ConnHasEffect ==
    ASSUME TypeInv, NEW c \in Conns, ConnStep(c)
    PROVE  ConnEffect(c)
<1>. USE Typed
<1>1. ASSUME NEW a \in Aliases \cup {NoAlias}, NEW p \in ResolvedParents(a), Connect(c, a, p)
      PROVE  ConnEffect(c)
  BY <1>1 DEF Connect, Started, ConnEffect, Gone, Connected
<1>2. ASSUME NEW claim \in Aliases, Identify(c, claim)
      PROVE  ConnEffect(c)
  BY <1>2 DEF Identify, PlayersIdentify, ConnEffect, Gone, Connected
<1>3. ASSUME NEW ch \in Channels,
             ChannelsJoin(c, ch) \/ ChannelsLeave(c, ch) \/ ChannelsMessage(c, ch)
      PROVE  ConnEffect(c)
  <2>1. /\ UNCHANGED connVars /\ identified[c] /\ ~Gone(c)
        /\ channels' = channels /\ connIndex' = connIndex
    BY <1>3 DEF ChannelsJoin, ChannelsLeave, ChannelsMessage, Send, MayUseChannels, Open, Gone
  <2>2. PICK m \in {JoinChannel(c, ch), LeaveChannel(c, ch), ChannelMessage(c, ch)} :
          mailbox' = Append(mailbox, m)
    BY <1>3 DEF ChannelsJoin, ChannelsLeave, ChannelsMessage, Send
  <2>3. ConnTypeOK
    BY DEF TypeInv, TypeOK
  <2>4. m \in Message /\ m.conn = c
    BY <2>1, <2>3, MessageTyped, MessagesDiffer
  <2>5. MessageSound(m)
    BY <2>1, <2>4 DEF MessageSound
  <2>6. phase' = phase /\ alias' = alias /\ parent' = parent /\ identified' = identified
    BY <2>1 DEF connVars
  <2>7. MessageSound(m)' /\ ~Gone(c)'
    BY <2>1, <2>4, <2>5, <2>6, SoundKept DEF Gone
  <2>8. Sends(c, m)
    BY <2>1, <2>2, <2>4, <2>7 DEF Sends
  <2>. QED
    BY <2>1, <2>4, <2>6, <2>8 DEF ConnEffect, Gone, Connected
<1>4. CASE Stop(c)
  <2>. DEFINE m == LeaveAllChannels(c)
  <2>1. /\ Open(c) /\ ~Gone(c) /\ Gone(c)'
        /\ channels' = channels /\ connIndex' = connIndex
        /\ alias' = alias /\ parent' = parent /\ identified' = identified
        /\ phase' = [phase EXCEPT ![c] = "stopping"]
    BY <1>4 DEF Stop, Stopping, Open, Gone
  <2>2. CASE identified[c]
    <3>1. mailbox' = Append(mailbox, m)
      BY <1>4, <2>2, AliasAssumption DEF Stop, LeavesHubs
    <3>2. m \in Message /\ m.conn = c
      BY DEF LeaveAllChannels, Message
    <3>3. MessageSound(m)'
      BY <2>1, <2>2, <3>2 DEF MessageSound, LeaveAllChannels
    <3>4. Sends(c, m)
      BY <2>1, <2>2, <3>1, <3>2, <3>3 DEF Sends
    <3>. QED
      BY <2>1, <3>2, <3>4 DEF ConnEffect, Gone, Connected, Open
  <2>3. CASE ~identified[c]
    BY <1>4, <2>1, <2>3 DEF Stop, LeavesHubs, ConnEffect, Gone, Connected, Open
  <2>. QED
    BY <2>2, <2>3
<1>5. CASE Drop(c)
  BY <1>5 DEF Drop, Dropped, ConnEffect, Gone, Connected
<1>. QED
  BY <1>1, <1>2, <1>3, <1>4, <1>5 DEF ConnStep

\* What was waiting waits still, what is new is c's, and who goes leaves its
\* LeaveAllChannels.
LEMMA ConnQueued ==
    ASSUME TypeInv, NEW c \in Conns, ConnEffect(c)
    PROVE  /\ \A m : Queued(m) => Queued(m)'
           /\ \A m : Queued(m)' => Queued(m) \/ Sends(c, m)
           /\ \A d \in Conns : identified[d] /\ (Gone(d) => Queued(LeaveAllChannels(d)))
                => (Gone(d)' => Queued(LeaveAllChannels(d))')
<1>. USE Typed
<1>a. \A d : LeaveAllChannels(d)' = LeaveAllChannels(d)
  BY DEF LeaveAllChannels
<1>1. CASE mailbox' = mailbox /\ (identified[c] => (Gone(c)' => Gone(c)))
  <2>1. \A m : Queued(m)' <=> Queued(m)
    BY <1>1 DEF Queued
  <2>2. \A d : Queued(LeaveAllChannels(d))' <=> Queued(LeaveAllChannels(d))
    BY <1>1, <1>a DEF Queued
  <2>. QED
    BY <1>1, <2>1, <2>2 DEF ConnEffect
<1>2. ASSUME NEW m \in Message, Sends(c, m)
      PROVE  /\ \A n : Queued(n) => Queued(n)'
             /\ \A n : Queued(n)' => Queued(n) \/ Sends(c, n)
             /\ \A d \in Conns : identified[d] /\ (Gone(d) => Queued(LeaveAllChannels(d)))
                  => (Gone(d)' => Queued(LeaveAllChannels(d))')
  <2>1. /\ Len(mailbox') = Len(mailbox) + 1
        /\ \A i \in 1..Len(mailbox) : mailbox'[i] = mailbox[i]
        /\ mailbox'[Len(mailbox) + 1] = m
    BY <1>2, Sent DEF Sends
  <2>2. \A n : Queued(n) => Queued(n)'
    BY <2>1 DEF Queued
  <2>3. \A n : Queued(n)' => Queued(n) \/ n = m
    <3>1. \A i \in 1..Len(mailbox') : i \in 1..Len(mailbox) \/ i = Len(mailbox) + 1
      BY <2>1
    <3>. QED
      BY <2>1, <3>1 DEF Queued
  <2>4. \A d : Queued(LeaveAllChannels(d)) => Queued(LeaveAllChannels(d))'
    BY <2>1, <1>a DEF Queued
  <2>5. Gone(c)' => Queued(LeaveAllChannels(c))'
    <3>1. Len(mailbox) + 1 \in 1..Len(mailbox')
      BY <2>1
    <3>. QED
      BY <1>2, <2>1, <1>a, <3>1 DEF Sends, Queued
  <2>. QED
    BY <1>2, <2>2, <2>3, <2>4, <2>5 DEF ConnEffect
<1>. QED
  BY <1>1, <1>2 DEF ConnEffect

LEMMA ConnKeepsMail ==
    ASSUME TypeInv, MailInv, NEW c \in Conns, ConnEffect(c)
    PROVE  MailInv'
<1>. USE Typed
<1>a. /\ MessagesSound /\ LeaveIsLast /\ LateRequestHasLeave
      /\ \A d : LeaveAllChannels(d)' = LeaveAllChannels(d)
  BY DEF MailInv, LeaveAllChannels
<1>b. \A m \in Message : m.conn \in Conns
  BY DEF Message
<1>1. MessagesSound'
  <2>. SUFFICES ASSUME NEW m \in Message, Queued(m)' PROVE MessageSound(m)'
    BY DEF MessagesSound, Message
  <2>1. CASE Queued(m)
    <3>1. MessageSound(m) /\ m.conn \in Conns /\ identified[m.conn]
      BY <1>a, <1>b, <2>1 DEF MessagesSound, MessageSound
    <3>. QED
      BY <3>1, SoundKept DEF ConnEffect
  <2>2. CASE Sends(c, m)
    BY <2>2 DEF Sends
  <2>. QED
    BY <2>1, <2>2, ConnQueued
<1>2. LeaveIsLast'
  <2>1. CASE mailbox' = mailbox
    BY <1>a, <2>1 DEF LeaveIsLast
  <2>2. ASSUME NEW m \in Message, Sends(c, m)
        PROVE  LeaveIsLast'
    <3>1. /\ Len(mailbox') = Len(mailbox) + 1
          /\ \A i \in 1..Len(mailbox) : mailbox'[i] = mailbox[i]
          /\ mailbox'[Len(mailbox) + 1] = m
      BY <2>2, Sent DEF Sends
    <3>. SUFFICES ASSUME NEW i \in 1..Len(mailbox'), NEW j \in 1..Len(mailbox'),
                         NEW d \in Conns, i < j, mailbox'[i] = LeaveAllChannels(d)
                  PROVE  mailbox'[j].conn # d
      BY <1>a DEF LeaveIsLast
    <3>2. i \in 1..Len(mailbox) /\ mailbox[i] = LeaveAllChannels(d)
      BY <3>1
    <3>3. CASE j \in 1..Len(mailbox)
      BY <1>a, <3>1, <3>2, <3>3 DEF LeaveIsLast
    <3>4. CASE j \notin 1..Len(mailbox)
      <4>1. mailbox'[j] = m /\ m.conn = c /\ ~Gone(c)
        BY <2>2, <3>1, <3>4 DEF Sends
      <4>2. LeaveAllChannels(d) \in Message /\ LeaveAllChannels(d).conn = d
        BY DEF LeaveAllChannels, Message
      <4>3. MessageSound(LeaveAllChannels(d))
        BY <1>a, <3>2, <4>2 DEF MessagesSound, Queued
      <4>4. Gone(d)
        BY <4>2, <4>3, LeaveIsFromGone
      <4>. QED
        BY <4>1, <4>4
    <3>. QED
      BY <3>3, <3>4
  <2>. QED
    BY <2>1, <2>2 DEF ConnEffect
<1>3. LateRequestHasLeave'
  <2>. SUFFICES ASSUME NEW m \in Message, Queued(m)', Gone(m.conn)'
                PROVE  Queued(LeaveAllChannels(m.conn))'
    BY DEF LateRequestHasLeave, Message
  <2>1. m.conn \in Conns
    BY <1>b
  <2>2. CASE Queued(m)
    <3>1. identified[m.conn] /\ (Gone(m.conn) => Queued(LeaveAllChannels(m.conn)))
      BY <1>a, <2>2 DEF MessagesSound, MessageSound, LateRequestHasLeave
    <3>. QED
      BY <2>1, <3>1, ConnQueued
  <2>3. CASE Sends(c, m)
    BY <2>3 DEF Sends
  <2>. QED
    BY <2>2, <2>3, ConnQueued
<1>. QED
  BY <1>1, <1>2, <1>3 DEF MailInv

LEMMA ConnKeepsMaps ==
    ASSUME TypeInv, MapInv, NEW c \in Conns, ConnEffect(c)
    PROVE  MapInv'
<1>. USE Typed
<1>a. /\ LeavesSound /\ IndexCoversRegistry /\ NoLeakedMembership
      /\ channels' = channels /\ connIndex' = connIndex
  BY DEF MapInv, ConnEffect
<1>b. \A e \in channels \cup connIndex :
         /\ e.conn \in Conns /\ identified[e.conn] /\ identified'[e.conn]
         /\ alias'[e.conn] = alias[e.conn] /\ parent'[e.conn] = parent[e.conn]
         /\ ~Connected(e.conn) => ~Connected(e.conn)'
  BY <1>a DEF LeavesSound, ConnEffect
<1>1. LeavesSound'
  BY <1>a, <1>b, SameSender DEF LeavesSound
<1>2. IndexCoversRegistry'
  BY <1>a, <1>b DEF IndexCoversRegistry
<1>3. NoLeakedMembership'
  BY <1>a, <1>b, ConnQueued DEF NoLeakedMembership
<1>. QED
  BY <1>1, <1>2, <1>3 DEF MapInv

\* IntentHonoured, in terms of a queue's outcome.
LEMMA OutcomeIsEnds ==
    ASSUME NEW c, NEW ch
    PROVE  /\ Outcome(c, ch) <=>
                Ends(mailbox, JoinChannel(c, ch), LeaveChannel(c, ch), LeafOf(c, ch), channels)
           /\ Outcome(c, ch)' <=>
                Ends(mailbox', JoinChannel(c, ch)', LeaveChannel(c, ch)', LeafOf(c, ch)', channels')
  BY DEF Outcome, Requests, Ends, Asked, LastIs

\* The outcome of d's requests is left alone by a step that sends none of them.
LEMMA OutcomeKept ==
    ASSUME TypeInv, NEW d \in Conns, NEW ch \in Channels,
           alias'[d] = alias[d], parent'[d] = parent[d], channels' = channels,
           \/ mailbox' = mailbox
           \/ \E m \in Message : /\ mailbox' = Append(mailbox, m)
                                 /\ m \notin {JoinChannel(d, ch), LeaveChannel(d, ch)}
    PROVE  Outcome(d, ch)' <=> Outcome(d, ch)
<1>1. mailbox \in Seq(Message)
  BY Typed
<1>2. Ends(mailbox', JoinChannel(d, ch), LeaveChannel(d, ch), LeafOf(d, ch), channels)
        <=> Ends(mailbox, JoinChannel(d, ch), LeaveChannel(d, ch), LeafOf(d, ch), channels)
  <2>. DEFINE j == JoinChannel(d, ch)
              l == LeaveChannel(d, ch)
              e == LeafOf(d, ch)
  <2>1. ASSUME NEW m \in Message, mailbox' = Append(mailbox, m), m \notin {j, l}
        PROVE  Ends(mailbox', j, l, e, channels) <=> Ends(mailbox, j, l, e, channels)
    <3>1. Ends(Append(mailbox, m), j, l, e, channels) <=> Ends(mailbox, j, l, e, channels)
      <4>. HIDE DEF j, l, e
      <4>. QED
        BY <1>1, <2>1, EndsOther
    <3>. QED
      BY <2>1, <3>1
  <2>. QED
    BY <2>1
<1>3. /\ JoinChannel(d, ch)' = JoinChannel(d, ch) /\ LeaveChannel(d, ch)' = LeaveChannel(d, ch)
      /\ LeafOf(d, ch)' = LeafOf(d, ch)
  BY SameSender
<1>. QED
  BY <1>2, <1>3, OutcomeIsEnds

LEMMA ConnKeepsWant ==
    ASSUME TypeInv, MailInv, MapInv, WantInv, NEW c \in Conns, ConnStep(c)
    PROVE  WantInv'
<1>. USE Typed
<1>a. /\ WantedSound /\ IntentHonoured
      /\ \A d \in Conns : ~Open(d) => wanted[d] = {}
      /\ \A d \in Conns, ch \in Channels : Open(d) => (Outcome(d, ch) <=> ch \in wanted[d])
  BY DEF WantInv, WantedSound, IntentHonoured
\* The other connections.
<1>b. /\ channels' = channels
      /\ mailbox' = mailbox \/ \E m \in Message : mailbox' = Append(mailbox, m) /\ m.conn = c
  BY ConnHasEffect DEF ConnEffect, Sends
<1>c. \A d \in Conns \ {c} : /\ phase'[d] = phase[d] /\ wanted'[d] = wanted[d]
                             /\ alias'[d] = alias[d] /\ parent'[d] = parent[d]
  BY DEF ConnStep, Connect, Identify, ChannelsJoin, ChannelsLeave, ChannelsMessage, Send,
     Stop, Drop, Started, PlayersIdentify, Stopping, Dropped, connVars
<1>d. \A d \in Conns \ {c} :
         /\ ~Open(d)' => wanted'[d] = {}
         /\ \A ch \in Channels : Open(d)' => (Outcome(d, ch)' <=> ch \in wanted'[d])
  <2>. SUFFICES ASSUME NEW d \in Conns \ {c}, NEW ch \in Channels
                PROVE  Outcome(d, ch)' <=> Outcome(d, ch)
    BY <1>a, <1>c DEF Open
  <2>1. \A m : m.conn = c => m \notin {JoinChannel(d, ch), LeaveChannel(d, ch)}
    BY MessagesDiffer
  <2>. QED
    BY <1>b, <1>c, <2>1, OutcomeKept
\* The connection itself.
<1>e. SUFFICES /\ ~Open(c)' => wanted'[c] = {}
               /\ \A ch \in Channels : Open(c)' => (Outcome(c, ch)' <=> ch \in wanted'[c])
  BY <1>d DEF WantInv, WantedSound, IntentHonoured, Open
<1>1. ASSUME NEW a \in Aliases \cup {NoAlias}, NEW p \in ResolvedParents(a), Connect(c, a, p)
      PROVE  /\ ~Open(c)' => wanted'[c] = {}
             /\ \A ch \in Channels : Open(c)' => (Outcome(c, ch)' <=> ch \in wanted'[c])
  <2>1. /\ wanted'[c] = {} /\ ~identified[c] /\ mailbox' = mailbox /\ channels' = channels
    BY <1>1, <1>a DEF Connect, Started, Open
  <2>2. ASSUME NEW ch \in Channels
        PROVE  ~Outcome(c, ch)'
    <3>1. LeafOf(c, ch)' \notin channels
      <4>1. LeafOf(c, ch)'.conn = c
        BY DEF LeafOf, Leaf, JoinChannel
      <4>2. \A e \in channels : identified[e.conn]
        BY DEF MapInv, LeavesSound
      <4>. QED
        BY <2>1, <4>1, <4>2
    <3>2. \A i \in 1..Len(mailbox) : mailbox[i] \notin {JoinChannel(c, ch)', LeaveChannel(c, ch)'}
      <4>1. JoinChannel(c, ch)'.conn = c /\ LeaveChannel(c, ch)'.conn = c
        BY DEF JoinChannel, LeaveChannel
      <4>2. \A i \in 1..Len(mailbox) : identified[mailbox[i].conn]
        BY DEF MailInv, MessagesSound, MessageSound, Queued
      <4>. QED
        BY <2>1, <4>1, <4>2
    <3>3. Asked(mailbox', JoinChannel(c, ch)', LeaveChannel(c, ch)') = {}
      BY <2>1, <3>2 DEF Asked
    <3>. QED
      BY <2>1, <3>1, <3>3, OutcomeIsEnds DEF Ends, LastIs
  <2>. QED
    BY <2>1, <2>2
<1>2. ASSUME NEW claim \in Aliases, Identify(c, claim)
      PROVE  /\ ~Open(c)' => wanted'[c] = {}
             /\ \A ch \in Channels : Open(c)' => (Outcome(c, ch)' <=> ch \in wanted'[c])
  <2>1. /\ Open(c) /\ Open(c)' /\ wanted' = wanted
        /\ mailbox' = mailbox /\ channels' = channels /\ alias' = alias /\ parent' = parent
    BY <1>2 DEF Identify, PlayersIdentify, Open
  <2>. QED
    BY <1>a, <2>1, OutcomeKept
<1>3. ASSUME NEW k \in Channels, ChannelsJoin(c, k) \/ ChannelsLeave(c, k) \/ ChannelsMessage(c, k)
      PROVE  /\ ~Open(c)' => wanted'[c] = {}
             /\ \A ch \in Channels : Open(c)' => (Outcome(c, ch)' <=> ch \in wanted'[c])
  <2>1. /\ Open(c) /\ Open(c)' /\ identified[c] /\ channels' = channels
        /\ alias' = alias /\ parent' = parent
    BY <1>3 DEF ChannelsJoin, ChannelsLeave, ChannelsMessage, Send, MayUseChannels, connVars, Open
  <2>2. ConnTypeOK /\ alias[c] \in Aliases
    BY <2>1 DEF TypeInv, TypeOK
  <2>3. /\ JoinChannel(c, k) \in Message /\ LeaveChannel(c, k) \in Message
        /\ ChannelMessage(c, k) \in Message
    BY <2>2, MessageTyped
  <2>4. ASSUME NEW ch \in Channels
        PROVE  Outcome(c, ch)' <=> ch \in wanted'[c]
    <3>1. CASE ch # k
      <4>1. wanted'[c] = wanted[c] \/ wanted'[c] = wanted[c] \cup {k} \/ wanted'[c] = wanted[c] \ {k}
        BY <1>3 DEF ChannelsJoin, ChannelsLeave, ChannelsMessage
      <4>2. /\ JoinChannel(c, k) \notin {JoinChannel(c, ch), LeaveChannel(c, ch)}
            /\ LeaveChannel(c, k) \notin {JoinChannel(c, ch), LeaveChannel(c, ch)}
            /\ ChannelMessage(c, k) \notin {JoinChannel(c, ch), LeaveChannel(c, ch)}
        BY <3>1, MessagesDiffer
      <4>3. \E m \in Message : /\ mailbox' = Append(mailbox, m)
                               /\ m \notin {JoinChannel(c, ch), LeaveChannel(c, ch)}
        BY <1>3, <2>3, <4>2 DEF ChannelsJoin, ChannelsLeave, ChannelsMessage, Send
      <4>4. Outcome(c, ch)' <=> Outcome(c, ch)
        BY <2>1, <4>3, OutcomeKept
      <4>. QED
        BY <1>a, <2>1, <3>1, <4>1, <4>4
    <3>2. CASE ch = k /\ ChannelsMessage(c, k)
      <4>1. ChannelMessage(c, k) \notin {JoinChannel(c, ch), LeaveChannel(c, ch)}
        BY MessagesDiffer
      <4>2. Outcome(c, ch)' <=> Outcome(c, ch)
        BY <2>1, <2>3, <3>2, <4>1, OutcomeKept DEF ChannelsMessage, Send
      <4>. QED
        BY <1>a, <2>1, <3>2, <4>2 DEF ChannelsMessage
    <3>3. CASE ch = k /\ (ChannelsJoin(c, k) \/ ChannelsLeave(c, k))
      <4>. DEFINE j == JoinChannel(c, ch)
                  l == LeaveChannel(c, ch)
      <4>1. PICK m \in {j, l} : mailbox' = Append(mailbox, m) /\ (m = j <=> ch \in wanted'[c])
        <5>1. j # l
          BY MessagesDiffer
        <5>. QED
          BY <3>3, <5>1 DEF ChannelsJoin, ChannelsLeave, Send
      <4>2. j \in Message /\ l \in Message
        BY <2>3, <3>3
      <4>3. m \in Message
        BY <4>2
      <4>4. Ends(mailbox', j, l, LeafOf(c, ch), channels) <=> m = j
        BY <4>1, <4>3, EndsOwn
      <4>5. j' = j /\ l' = l /\ LeafOf(c, ch)' = LeafOf(c, ch)
        BY <2>1, SameSender
      <4>. QED
        BY <2>1, <4>1, <4>4, <4>5, OutcomeIsEnds
    <3>. QED
      BY <1>3, <3>1, <3>2, <3>3
  <2>. QED
    BY <2>1, <2>4
<1>4. CASE Stop(c)
  BY <1>4 DEF Stop, Stopping, Open
<1>5. CASE Drop(c)
  BY <1>5, <1>a DEF Drop, Dropped, Open
<1>. QED
  BY <1>1, <1>2, <1>3, <1>4, <1>5 DEF ConnStep

-----------------------------------------------------------------------------
(***************************************************************************)
(* The hub's side.  A handler takes the first message; nothing is owed to  *)
(* what a LeaveAllChannels leaves behind it.                               *)
(***************************************************************************)
LEMMA Handling ==
    ASSUME TypeInv, MailInv, HubStep
    PROVE  /\ Head(mailbox) \in Message /\ Head(mailbox).conn \in Conns
           /\ MessageSound(Head(mailbox)) /\ Queued(Head(mailbox))
           /\ \A n : Queued(n) /\ n # Head(mailbox) => Queued(n)'
           /\ \A n : Queued(n)' => Queued(n)
           /\ \A c \in Conns, n \in Message :
                Head(mailbox) = LeaveAllChannels(c) /\ Queued(n)' => n.conn # c
<1>. USE Typed
<1>1. /\ Head(mailbox) \in Message
      /\ Head(mailbox) = mailbox[1]
      /\ 1 \in 1..Len(mailbox)
      /\ Len(mailbox') = Len(mailbox) - 1
      /\ \A i \in 1..Len(mailbox') : /\ i + 1 \in 1..Len(mailbox)
                                     /\ mailbox'[i] = mailbox[i + 1]
                                     /\ 1 < i + 1
  <2>1. mailbox # <<>> /\ mailbox' = Tail(mailbox)
    BY HandlerTyped
  <2>. QED
    BY <2>1, Handled
<1>2. Queued(Head(mailbox)) /\ MessageSound(Head(mailbox)) /\ Head(mailbox).conn \in Conns
  BY <1>1 DEF Queued, MailInv, MessagesSound
<1>3. \A n : Queued(n) /\ n # Head(mailbox) => Queued(n)'
  <2>. SUFFICES ASSUME NEW n, NEW i \in 1..Len(mailbox), mailbox[i] = n, n # mailbox[1]
                PROVE  Queued(n)'
    BY <1>1 DEF Queued
  <2>1. i # 1
    OBVIOUS
  <2>2. i - 1 \in 1..Len(mailbox') /\ (i - 1) + 1 = i
    BY <1>1, <2>1
  <2>3. mailbox'[i - 1] = n
    BY <1>1, <2>2
  <2>. QED
    BY <2>2, <2>3 DEF Queued
<1>4. \A n : Queued(n)' => Queued(n)
  BY <1>1 DEF Queued
<1>5. ASSUME NEW c \in Conns, NEW n \in Message, mailbox[1] = LeaveAllChannels(c), Queued(n)'
      PROVE  n.conn # c
  <2>1. PICK i \in 1..Len(mailbox') : mailbox'[i] = n
    BY <1>5 DEF Queued
  <2>2. /\ mailbox[i + 1] = n /\ i + 1 \in 1..Len(mailbox) /\ 1 < i + 1
    BY <1>1, <2>1
  <2>. QED
    BY <1>1, <1>5, <2>2 DEF MailInv, LeaveIsLast
<1>. QED
  BY <1>1, <1>2, <1>3, <1>4, <1>5

\* Handlers read the connections and change nothing of them.
LEMMA SameConns ==
    ASSUME TypeInv, HubStep
    PROVE  \A d : /\ phase' = phase /\ identified' = identified /\ wanted' = wanted
                  /\ alias' = alias /\ parent' = parent
                  /\ Gone(d)' <=> Gone(d)
                  /\ Open(d)' <=> Open(d)
                  /\ Connected(d)' <=> Connected(d)
                  /\ LeaveAllChannels(d)' = LeaveAllChannels(d)
                  /\ Queued(LeaveAllChannels(d))' <=>
                       \E i \in 1..Len(mailbox') : mailbox'[i] = LeaveAllChannels(d)
<1>1. /\ phase' = phase /\ identified' = identified /\ wanted' = wanted
      /\ alias' = alias /\ parent' = parent
  BY HandlerTyped DEF connVars
<1>2. \A d : LeaveAllChannels(d)' = LeaveAllChannels(d)
  BY DEF LeaveAllChannels
<1>. QED
  BY <1>1, <1>2 DEF Gone, Open, Connected, Queued

\* The leave a gone connection is owed survives the handling of anything else.
LEMMA LeaveWaits ==
    ASSUME TypeInv, MailInv, HubStep, NEW d \in Conns,
           Queued(LeaveAllChannels(d)), Head(mailbox) # LeaveAllChannels(d)
    PROVE  Queued(LeaveAllChannels(d))'
<1>1. PICK n : n = LeaveAllChannels(d)
  OBVIOUS
<1>2. Queued(n)'
  <2>1. Queued(n) /\ n # Head(mailbox)
    BY <1>1
  <2>. QED
    BY <2>1, Handling
<1>. QED
  BY <1>1, <1>2, SameConns DEF Queued

LEMMA HubKeepsMail ==
    ASSUME TypeInv, MailInv, HubStep
    PROVE  MailInv'
<1>. USE Typed
<1>a. MessagesSound /\ LeaveIsLast /\ LateRequestHasLeave
  BY DEF MailInv
<1>b. \A m \in Message : m.conn \in Conns
  BY DEF Message
<1>1. MessagesSound'
  <2>. SUFFICES ASSUME NEW m \in Message, Queued(m)' PROVE MessageSound(m)'
    BY DEF MessagesSound, Message
  <2>1. MessageSound(m) /\ identified[m.conn]
    BY <1>a, Handling DEF MessagesSound, MessageSound
  <2>. QED
    BY <2>1, SameConns, SoundKept
<1>2. LeaveIsLast'
  <2>1. /\ Len(mailbox') = Len(mailbox) - 1
        /\ \A i \in 1..Len(mailbox') : /\ i + 1 \in 1..Len(mailbox)
                                       /\ mailbox'[i] = mailbox[i + 1]
    <3>1. mailbox # <<>> /\ mailbox' = Tail(mailbox)
      BY HandlerTyped
    <3>. QED
      BY <3>1, Handled
  <2>. SUFFICES ASSUME NEW i \in 1..Len(mailbox'), NEW j \in 1..Len(mailbox'),
                       NEW d \in Conns, i < j, mailbox'[i] = LeaveAllChannels(d)
                PROVE  mailbox'[j].conn # d
    BY SameConns DEF LeaveIsLast
  <2>2. i + 1 < j + 1
    OBVIOUS
  <2>. QED
    BY <1>a, <2>1, <2>2 DEF LeaveIsLast
<1>3. LateRequestHasLeave'
  <2>. SUFFICES ASSUME NEW m \in Message, Queued(m)', Gone(m.conn)'
                PROVE  Queued(LeaveAllChannels(m.conn))'
    BY DEF LateRequestHasLeave, Message
  <2>1. Queued(m) /\ Gone(m.conn) /\ m.conn \in Conns
    BY <1>b, Handling, SameConns
  <2>2. Queued(LeaveAllChannels(m.conn))
    BY <1>a, <2>1 DEF LateRequestHasLeave
  <2>3. Head(mailbox) # LeaveAllChannels(m.conn)
    BY <2>1, Handling
  <2>. QED
    BY <2>1, <2>2, <2>3, LeaveWaits
<1>. QED
  BY <1>1, <1>2, <1>3 DEF MailInv

\* A request at the head of the mailbox is about its sender's own leaf.
LEMMA RequestLeaf ==
    ASSUME NEW m, MessageSound(m)
    PROVE  /\ m.type = "JoinChannel" =>
                /\ m.channel \in Channels /\ m = JoinChannel(m.conn, m.channel)
                /\ Leaf(m) = LeafOf(m.conn, m.channel)
           /\ m.type = "LeaveChannel" =>
                /\ m.channel \in Channels /\ m = LeaveChannel(m.conn, m.channel)
                /\ Leaf(m) = LeafOf(m.conn, m.channel)
           /\ m.type = "LeaveAllChannels" => m = LeaveAllChannels(m.conn) /\ Gone(m.conn)
           /\ m.type = "ChannelMessage" =>
                \E ch \in Channels : m = ChannelMessage(m.conn, ch) /\ m.channel = ch
<1>1. ASSUME NEW ch \in Channels, m = JoinChannel(m.conn, ch)
      PROVE  m.type = "JoinChannel" /\ m.channel = ch /\ Leaf(m) = LeafOf(m.conn, ch)
  BY <1>1 DEF JoinChannel, LeafOf, Leaf
<1>2. ASSUME NEW ch \in Channels, m = LeaveChannel(m.conn, ch)
      PROVE  m.type = "LeaveChannel" /\ m.channel = ch /\ Leaf(m) = LeafOf(m.conn, ch)
  BY <1>2 DEF LeaveChannel, JoinChannel, LeafOf, Leaf
<1>3. ASSUME NEW ch \in Channels, m = ChannelMessage(m.conn, ch)
      PROVE  m.type = "ChannelMessage" /\ m.channel = ch
  BY <1>3 DEF ChannelMessage
<1>4. m = LeaveAllChannels(m.conn) => m.type = "LeaveAllChannels"
  BY DEF LeaveAllChannels
<1>5. \/ m = LeaveAllChannels(m.conn) /\ Gone(m.conn)
      \/ \E ch \in Channels : m = JoinChannel(m.conn, ch)
      \/ \E ch \in Channels : m = LeaveChannel(m.conn, ch)
      \/ \E ch \in Channels : m = ChannelMessage(m.conn, ch)
  BY DEF MessageSound
<1>. QED
  BY <1>1, <1>2, <1>3, <1>4, <1>5

\* A leaf names its connection and channel.
LEMMA LeafNames ==
    ASSUME NEW c, NEW ch
    PROVE  LeafOf(c, ch).conn = c /\ LeafOf(c, ch).channel = ch
  BY DEF LeafOf, Leaf, JoinChannel

\* Nothing leaves the registry by a prune while its connection is connected.
LEMMA PruneKeepsLive ==
    ASSUME NEW reg, NEW ch, NEW g
    PROVE  /\ Admitted(reg, ch, g) \subseteq reg
           /\ \A e \in reg \ Admitted(reg, ch, g) : ~Connected(e.conn)
           /\ PruneChannel(reg, ch) \subseteq reg
           /\ \A e \in reg \ PruneChannel(reg, ch) : ~Connected(e.conn)
  BY DEF Admitted, PruneDead, PruneChannel

LEMMA HubKeepsMaps ==
    ASSUME TypeInv, MailInv, MapInv, HubStep
    PROVE  MapInv'
<1>. USE Typed
<1>. SUFFICES ASSUME NEW m, NEW c, m = Head(mailbox), c = m.conn PROVE MapInv'
  OBVIOUS
<1>a. /\ LeavesSound /\ IndexCoversRegistry /\ NoLeakedMembership /\ LateRequestHasLeave
      /\ \A e \in channels \cup connIndex : /\ e.conn \in Conns /\ identified[e.conn]
                                            /\ e = LeafOf(e.conn, e.channel)
      /\ channels \subseteq connIndex
      /\ \A e \in connIndex \ channels : ~Connected(e.conn)
      /\ \A e \in channels \cup connIndex : Gone(e.conn) => Queued(LeaveAllChannels(e.conn))
  BY DEF MapInv, MailInv, LeavesSound, IndexCoversRegistry, NoLeakedMembership
<1>b. /\ m \in Message /\ c \in Conns /\ MessageSound(m) /\ identified[c]
      /\ Gone(c) => Queued(LeaveAllChannels(c))
  BY <1>a, Handling DEF MessageSound, LateRequestHasLeave
\* What is left of the maps keeps its shape, and its leave unless it is the head.
<1>c. ASSUME NEW e \in channels \cup connIndex
      PROVE  /\ identified'[e.conn] /\ e = LeafOf(e.conn, e.channel)'
             /\ Gone(e.conn)' /\ m # LeaveAllChannels(e.conn) => Queued(LeaveAllChannels(e.conn))'
  <2>1. e.conn \in Conns /\ identified[e.conn] /\ e = LeafOf(e.conn, e.channel)
    BY <1>a
  <2>2. e = LeafOf(e.conn, e.channel)'
    BY <2>1, SameConns, SameSender
  <2>3. ASSUME Gone(e.conn)', m # LeaveAllChannels(e.conn)
        PROVE  Queued(LeaveAllChannels(e.conn))'
    BY <1>a, <2>1, <2>3, SameConns, LeaveWaits
  <2>. QED
    BY <2>1, <2>2, <2>3, SameConns
<1>d. \A d : m.type # "LeaveAllChannels" => m # LeaveAllChannels(d)
  BY DEF LeaveAllChannels
<1>1. CASE HandleJoin
  <2>. DEFINE leaf == Leaf(m)
              reg == Admitted(channels, leaf.channel, leaf.group)
  <2>1. /\ m.type = "JoinChannel"
        /\ channels' = reg \cup {leaf} /\ connIndex' = connIndex \cup {leaf}
    BY <1>1 DEF HandleJoin
  <2>2. leaf = LeafOf(c, m.channel) /\ leaf.conn = c /\ leaf.channel = m.channel
    BY <1>b, <2>1, RequestLeaf, LeafNames
  <2>3. reg \subseteq channels /\ \A e \in channels \ reg : ~Connected(e.conn)
    BY PruneKeepsLive
  <2>4. /\ identified'[leaf.conn] /\ leaf = LeafOf(leaf.conn, leaf.channel)'
        /\ Gone(leaf.conn)' => Queued(LeaveAllChannels(leaf.conn))'
    <3>1. LeafOf(c, m.channel)' = LeafOf(c, m.channel)
      BY SameConns, SameSender
    <3>2. Gone(c)' => Queued(LeaveAllChannels(c))'
      BY <1>b, <1>d, <2>1, SameConns, LeaveWaits
    <3>. QED
      BY <1>b, <2>2, <3>1, <3>2, SameConns
  <2>. HIDE DEF leaf, reg
  <2>5. LeavesSound'
    BY <1>c, <2>1, <2>3, <2>4 DEF LeavesSound
  <2>6. IndexCoversRegistry'
    BY <1>a, <2>1, <2>3, SameConns DEF IndexCoversRegistry
  <2>7. NoLeakedMembership'
    BY <1>c, <1>d, <2>1, <2>3, <2>4 DEF NoLeakedMembership
  <2>. QED
    BY <2>5, <2>6, <2>7 DEF MapInv
<1>2. CASE HandleLeave
  <2>1. /\ m.type = "LeaveChannel"
        /\ channels' = channels \ {Leaf(m)} /\ connIndex' = connIndex \ {Leaf(m)}
    BY <1>2 DEF HandleLeave, ForgetConn
  <2>2. LeavesSound' /\ NoLeakedMembership'
    BY <1>c, <1>d, <2>1 DEF LeavesSound, NoLeakedMembership
  <2>3. IndexCoversRegistry'
    BY <1>a, <2>1, SameConns DEF IndexCoversRegistry
  <2>. QED
    BY <2>2, <2>3 DEF MapInv
<1>3. CASE HandleLeaveAll
  <2>. DEFINE leaves == {e \in connIndex : e.conn = c}
  <2>1. /\ m.type = "LeaveAllChannels"
        /\ channels' = channels \ leaves /\ connIndex' = connIndex \ leaves
    BY <1>3 DEF HandleLeaveAll
  <2>2. \A e \in channels' \cup connIndex' :
           e \in channels \cup connIndex /\ m # LeaveAllChannels(e.conn)
    BY <1>a, <2>1, MessagesDiffer
  <2>3. LeavesSound' /\ NoLeakedMembership'
    BY <1>c, <2>2 DEF LeavesSound, NoLeakedMembership
  <2>4. IndexCoversRegistry'
    BY <1>a, <2>1, SameConns DEF IndexCoversRegistry
  <2>. QED
    BY <2>3, <2>4 DEF MapInv
<1>4. CASE HandleMessage
  <2>1. /\ m.type = "ChannelMessage"
        /\ channels' = PruneChannel(channels, m.channel) /\ connIndex' = connIndex
    BY <1>4 DEF HandleMessage
  <2>2. channels' \subseteq channels /\ \A e \in channels \ channels' : ~Connected(e.conn)
    BY <2>1, PruneKeepsLive
  <2>3. LeavesSound' /\ NoLeakedMembership'
    BY <1>c, <1>d, <2>1, <2>2 DEF LeavesSound, NoLeakedMembership
  <2>4. IndexCoversRegistry'
    BY <1>a, <2>1, <2>2, SameConns DEF IndexCoversRegistry
  <2>. QED
    BY <2>3, <2>4 DEF MapInv
<1>. QED
  BY <1>1, <1>2, <1>3, <1>4 DEF HubStep

(***************************************************************************)
(* What a handler does to the leaf of a connection that is open: the       *)
(* connection's own request at the head sets it, nothing else touches it.  *)
(***************************************************************************)
LEMMA MembershipStep ==
    ASSUME TypeInv, MailInv, MapInv, HubStep, NEW d \in Conns, NEW ch \in Channels, Open(d)
    PROVE  /\ Head(mailbox) = JoinChannel(d, ch) => LeafOf(d, ch) \in channels'
           /\ Head(mailbox) = LeaveChannel(d, ch) => LeafOf(d, ch) \notin channels'
           /\ Head(mailbox) \notin {JoinChannel(d, ch), LeaveChannel(d, ch)} =>
                (LeafOf(d, ch) \in channels' <=> LeafOf(d, ch) \in channels)
<1>. USE Typed
<1>. DEFINE m == Head(mailbox)
            c == Head(mailbox).conn
            leaf == LeafOf(d, ch)
<1>a. m \in Message /\ c \in Conns /\ MessageSound(m)
  BY Handling
<1>b. Connected(d) /\ ~Gone(d) /\ leaf.conn = d /\ leaf.channel = ch
  BY LeafNames DEF Open, Connected, Gone
<1>c. /\ JoinChannel(d, ch).type = "JoinChannel" /\ LeaveChannel(d, ch).type = "LeaveChannel"
  BY DEF JoinChannel, LeaveChannel
<1>1. CASE HandleJoin
  <2>1. /\ m.type = "JoinChannel"
        /\ channels' = Admitted(channels, Leaf(m).channel, Leaf(m).group) \cup {Leaf(m)}
    BY <1>1 DEF HandleJoin
  <2>2. m = JoinChannel(c, m.channel) /\ Leaf(m) = LeafOf(c, m.channel)
    BY <1>a, <2>1, RequestLeaf
  <2>3. leaf \in channels => leaf \in channels'
    BY <1>b, <2>1, PruneKeepsLive
  <2>4. leaf \in channels' /\ leaf \notin channels => leaf = Leaf(m)
    BY <2>1, PruneKeepsLive
  <2>5. leaf = Leaf(m) => m = JoinChannel(d, ch)
    BY <1>b, <2>2, LeafNames
  <2>6. m = JoinChannel(d, ch) => leaf \in channels'
    BY <2>1 DEF LeafOf
  <2>. QED
    BY <1>c, <2>1, <2>3, <2>4, <2>5, <2>6
<1>2. CASE HandleLeave
  <2>1. m.type = "LeaveChannel" /\ channels' = channels \ {Leaf(m)}
    BY <1>2 DEF HandleLeave
  <2>2. m = LeaveChannel(c, m.channel) /\ Leaf(m) = LeafOf(c, m.channel)
    BY <1>a, <2>1, RequestLeaf
  <2>3. leaf = Leaf(m) => m = LeaveChannel(d, ch)
    BY <1>b, <2>2, LeafNames
  <2>4. m = LeaveChannel(d, ch) => leaf = Leaf(m)
    BY DEF LeafOf, Leaf, LeaveChannel, JoinChannel
  <2>. QED
    BY <1>c, <2>1, <2>3, <2>4
<1>3. CASE HandleLeaveAll
  <2>1. m.type = "LeaveAllChannels" /\ channels' = channels \ {e \in connIndex : e.conn = c}
    BY <1>3 DEF HandleLeaveAll
  <2>2. c # d
    BY <1>a, <1>b, <2>1, RequestLeaf
  <2>. QED
    BY <1>b, <1>c, <2>1, <2>2
<1>4. CASE HandleMessage
  <2>1. m.type = "ChannelMessage" /\ channels' = PruneChannel(channels, m.channel)
    BY <1>4 DEF HandleMessage
  <2>2. leaf \in channels' <=> leaf \in channels
    <3>1. channels' \subseteq channels /\ \A e \in channels \ channels' : ~Connected(e.conn)
      BY <2>1, PruneKeepsLive
    <3>. QED
      BY <1>b, <3>1
  <2>. QED
    BY <1>c, <2>1, <2>2
<1>. QED
  BY <1>1, <1>2, <1>3, <1>4 DEF HubStep

LEMMA HubKeepsWant ==
    ASSUME TypeInv, MailInv, MapInv, WantInv, HubStep
    PROVE  WantInv'
<1>. USE Typed
<1>a. WantedSound /\ IntentHonoured
  BY DEF WantInv
<1>1. WantedSound'
  BY <1>a, SameConns DEF WantedSound
<1>2. ASSUME NEW d \in Conns, NEW ch \in Channels, Open(d)'
      PROVE  Outcome(d, ch)' <=> ch \in wanted'[d]
  <2>. DEFINE j == JoinChannel(d, ch)
              l == LeaveChannel(d, ch)
              leaf == LeafOf(d, ch)
  <2>1. Open(d) /\ (Outcome(d, ch) <=> ch \in wanted'[d])
    BY <1>a, <1>2, SameConns DEF IntentHonoured
  <2>2. mailbox \in Seq(Message) /\ mailbox # <<>> /\ mailbox' = Tail(mailbox)
    BY HandlerTyped
  <2>3. j' = j /\ l' = l /\ leaf' = leaf
    BY SameConns, SameSender
  <2>4. /\ Head(mailbox) = j => leaf \in channels'
        /\ Head(mailbox) = l => leaf \notin channels'
        /\ Head(mailbox) \notin {j, l} => (leaf \in channels' <=> leaf \in channels)
        /\ j # l
    BY <2>1, MembershipStep, MessagesDiffer
  <2>. HIDE DEF j, l, leaf
  <2>5. Ends(Tail(mailbox), j, l, leaf, channels') <=> Ends(mailbox, j, l, leaf, channels)
    <3>1. CASE Head(mailbox) \in {j, l}
      <4>1. leaf \in channels' <=> Head(mailbox) = j
        BY <2>4, <3>1
      <4>. QED
        BY <2>2, <3>1, <4>1, EndsTailOwn
    <3>2. CASE Head(mailbox) \notin {j, l}
      <4>1. Ends(Tail(mailbox), j, l, leaf, channels) <=> Ends(mailbox, j, l, leaf, channels)
        BY <2>2, <3>2, EndsTailOther
      <4>2. Ends(Tail(mailbox), j, l, leaf, channels') <=> Ends(Tail(mailbox), j, l, leaf, channels)
        BY <2>4, <3>2 DEF Ends
      <4>. QED
        BY <4>1, <4>2
    <3>. QED
      BY <3>1, <3>2
  <2>6. Outcome(d, ch) <=> Ends(mailbox, j, l, leaf, channels)
    BY OutcomeIsEnds DEF j, l, leaf
  <2>7. Outcome(d, ch)' <=> Ends(mailbox', j', l', leaf', channels')
    BY OutcomeIsEnds DEF j, l, leaf
  <2>. QED
    BY <2>1, <2>2, <2>3, <2>5, <2>6, <2>7
<1>3. IntentHonoured'
  BY <1>2 DEF IntentHonoured
<1>. QED
  BY <1>1, <1>3 DEF WantInv

-----------------------------------------------------------------------------
LEMMA InvStep == Inv /\ [Next]_vars => Inv'
<1>. SUFFICES ASSUME Inv, [Next]_vars PROVE Inv'
  OBVIOUS
<1>a. TypeInv /\ MailInv /\ MapInv /\ WantInv /\ TypeInv'
  BY TypeStep DEF Inv
<1>1. ASSUME NEW c \in Conns, ConnStep(c)
      PROVE  Inv'
  <2>1. ConnEffect(c)
    BY <1>a, <1>1, ConnHasEffect
  <2>. QED
    BY <1>a, <1>1, <2>1, ConnKeepsMail, ConnKeepsMaps, ConnKeepsWant DEF Inv
<1>2. CASE HubStep
  BY <1>a, <1>2, HubKeepsMail, HubKeepsMaps, HubKeepsWant DEF Inv
<1>3. CASE UNCHANGED vars
  <2>1. /\ mailbox' = mailbox /\ channels' = channels /\ connIndex' = connIndex
        /\ wanted' = wanted /\ phase' = phase /\ alias' = alias /\ parent' = parent
        /\ identified' = identified
    BY <1>3 DEF vars, connVars, hubVars
  <2>2. MailInv'
    BY <1>a, <2>1 DEF MailInv, MessagesSound, LeaveIsLast, LateRequestHasLeave, MessageSound,
       Queued, Gone, JoinChannel, LeaveChannel, ChannelMessage, LeaveAllChannels
  <2>3. MapInv'
    BY <1>a, <2>1 DEF MapInv, LeavesSound, IndexCoversRegistry, NoLeakedMembership,
       Queued, Gone, Connected, LeafOf, Leaf, JoinChannel, LeaveAllChannels
  <2>4. WantInv'
    BY <1>a, <2>1 DEF WantInv, WantedSound, IntentHonoured, Open, Outcome, Requests,
       LeafOf, Leaf, JoinChannel, LeaveChannel
  <2>. QED
    BY <1>a, <2>2, <2>3, <2>4 DEF Inv
<1>. QED
  BY <1>1, <1>2, <1>3 DEF Next

(***************************************************************************)
(* The strengthening, on its own: types, what the mailbox holds, what the  *)
(* two maps hold, and what both come to for every open connection.         *)
(***************************************************************************)
THEOREM Invariance == Spec => []Inv
  BY InvInit, InvStep, PTL DEF Spec

(***************************************************************************)
(* The reverse index never misses a membership, and what it holds beyond   *)
(* the registry belongs to stopped connections.                            *)
(***************************************************************************)
THEOREM IndexCovers == Spec => []IndexCoversRegistry
<1>1. Inv => IndexCoversRegistry
  BY DEF Inv, MapInv
<1>. QED
  BY <1>1, Invariance, PTL

(***************************************************************************)
(* No membership of a gone connection is left without the LeaveAllChannels *)
(* that will remove it, whatever joins are handled late.                   *)
(***************************************************************************)
THEOREM NoLeak == Spec => []NoLeakedMembership
<1>1. Inv => NoLeakedMembership
  BY DEF Inv, MapInv
<1>. QED
  BY <1>1, Invariance, PTL

(***************************************************************************)
(* Counting in the requests still queued, an open connection is a member   *)
(* of exactly the channels it last asked to be in.                         *)
(***************************************************************************)
THEOREM Intent == Spec => []IntentHonoured
<1>1. Inv => IntentHonoured
  BY DEF Inv, WantInv
<1>. QED
  BY <1>1, Invariance, PTL

-----------------------------------------------------------------------------
(***************************************************************************)
(* With nothing left to handle, the two maps are one, and hold each        *)
(* connection in the channels it wants.                                    *)
(***************************************************************************)
LEMMA Settled ==
    Inv /\ mailbox = <<>> =>
        /\ connIndex = channels
        /\ channels = UNION {{LeafOf(c, ch) : ch \in wanted[c]} : c \in Conns}
<1>. SUFFICES ASSUME Inv, mailbox = <<>>
              PROVE  /\ connIndex = channels
                     /\ channels = UNION {{LeafOf(c, ch) : ch \in wanted[c]} : c \in Conns}
  OBVIOUS
<1>1. (\A m : ~Queued(m)) /\ \A c, ch : Requests(c, ch) = {}
  BY DEF Queued, Requests
<1>2. ASSUME NEW e \in channels \cup connIndex
      PROVE  /\ e.conn \in Conns /\ e.channel \in Channels
             /\ Open(e.conn) /\ e = LeafOf(e.conn, e.channel)
  <2>1. e \in Membership
    BY DEF Inv, TypeInv, TypeOK
  <2>2. e.conn \in Conns /\ e.channel \in Channels
    BY <2>1 DEF Membership
  <2>3. identified[e.conn] /\ e = LeafOf(e.conn, e.channel)
    BY DEF Inv, MapInv, LeavesSound
  <2>4. ~Gone(e.conn)
    BY <1>1 DEF Inv, MapInv, NoLeakedMembership
  <2>5. Open(e.conn)
    BY <2>2, <2>3, <2>4 DEF Inv, TypeInv, TypeOK, ConnTypeOK, Phases, IdentifiedSound, Gone, Open
  <2>. QED
    BY <2>2, <2>3, <2>5
<1>3. connIndex = channels
  <2>1. \A e \in connIndex \ channels : ~Connected(e.conn)
    BY DEF Inv, MapInv, IndexCoversRegistry
  <2>2. \A e \in connIndex : e \in channels
    BY <1>2, <2>1 DEF Connected, Open
  <2>. QED
    BY <2>2 DEF Inv, MapInv, IndexCoversRegistry
<1>4. ASSUME NEW c \in Conns, NEW ch \in Channels, Open(c)
      PROVE  LeafOf(c, ch) \in channels <=> ch \in wanted[c]
  <2>1. Outcome(c, ch) <=> ch \in wanted[c]
    BY <1>4 DEF Inv, WantInv, IntentHonoured
  <2>2. Requests(c, ch) = {}
    BY <1>1
  <2>. QED
    BY <2>1, <2>2 DEF Outcome
<1>5. ASSUME NEW e \in channels
      PROVE  \E c \in Conns : \E ch \in wanted[c] : e = LeafOf(c, ch)
  BY <1>2, <1>4
<1>6. ASSUME NEW c \in Conns, NEW ch \in wanted[c]
      PROVE  LeafOf(c, ch) \in channels
  <2>1. Open(c)
    BY DEF Inv, WantInv, WantedSound
  <2>2. ch \in Channels
    BY DEF Inv, TypeInv, TypeOK
  <2>. QED
    BY <1>4, <2>1, <2>2
<1>. QED
  BY <1>3, <1>5, <1>6

=============================================================================
