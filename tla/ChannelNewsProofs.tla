--------------------------- MODULE ChannelNewsProofs ---------------------------
(***************************************************************************)
(* What ChannelHub announces and to whom, proved from the invariant of     *)
(* ChannelHubProofs.  Every step is first summed up, per channel, by what  *)
(* it does to the participants, to the members that are open and to the    *)
(* record of what they were told; the theorems follow from those sums.     *)
(***************************************************************************)
EXTENDS ChannelHubProofs

\* Whoever is not an open member of a channel keeps nothing it was told of it.
Unheard ==
    \A ch \in Channels : \A o \in Conns \ Audience(channels, ch) : told[o][ch] = NothingTold

\* The open members of a channel, by their own leaf.
LEMMA Members ==
    ASSUME TypeInv, LeavesSound, NEW o \in Conns, NEW ch \in Channels
    PROVE  o \in Audience(channels, ch) <=> Open(o) /\ LeafOf(o, ch) \in channels
<1>1. \A e \in channels : e.conn = o /\ e.channel = ch => e = LeafOf(o, ch)
  BY DEF LeavesSound
<1>. QED
  BY <1>1, LeafNames DEF Audience, In

\* A group is a participant while it has a leaf.
LEMMA GroupHasLeaf ==
    ASSUME NEW reg, NEW ch, NEW g
    PROVE  /\ g \in Groups(reg, ch) <=> InGroup(reg, ch, g) # {}
           /\ g \in Groups(reg, ch) <=> \E e \in reg : e.channel = ch /\ e.group = g
  BY DEF Groups, In, InGroup

\* What remove_conn reports as emptied is exactly what is no participant any more.
LEMMA EmptiedIsLost ==
    ASSUME NEW reg, NEW L, NEW ch, NEW g
    PROVE  <<ch, g>> \in Emptied(reg, L) <=> g \in Groups(reg, ch) \ Groups(reg \ L, ch)
<1>1. <<ch, g>> \in Emptied(reg, L) <=>
         \E l \in L : l.channel = ch /\ l.group = g /\ InGroup(reg, ch, g) # {}
                      /\ InGroup(reg, ch, g) \subseteq L
  BY DEF Emptied
<1>2. InGroup(reg, ch, g) \subseteq L <=> InGroup(reg \ L, ch, g) = {}
  BY DEF InGroup
<1>3. \A e \in InGroup(reg, ch, g) : e.channel = ch /\ e.group = g
  BY DEF InGroup
<1>. QED
  BY <1>1, <1>2, <1>3, GroupHasLeaf

\* A fan-out, as one member's record of one channel shows it.
LEMMA OneNews ==
    ASSUME TypeInv, NEW reg, NEW G, NEW news, NEW ch \in Channels, NEW g \in Aliases,
           \A h \in Aliases : <<ch, h>> \in G <=> h = g, NEW o \in Conns
    PROVE  Announce(reg, G, news)[o][ch] =
              IF o \in Audience(reg, ch) THEN [told[o][ch] EXCEPT ![g] = news] ELSE NothingTold
<1>1. told[o][ch] \in [Aliases -> News]
  BY DEF TypeInv, TypeOK
<1>2. Announce(reg, G, news)[o][ch] =
         IF o \notin Audience(reg, ch) THEN NothingTold
         ELSE [h \in Aliases |-> IF <<ch, h>> \in G THEN news ELSE told[o][ch][h]]
  BY DEF Announce
<1>3. [h \in Aliases |-> IF <<ch, h>> \in G THEN news ELSE told[o][ch][h]]
         = [told[o][ch] EXCEPT ![g] = news]
  BY <1>1
<1>. QED
  BY <1>2, <1>3

LEMMA NoNews ==
    ASSUME TypeInv, NEW reg, NEW G, NEW news, NEW ch \in Channels,
           \A h \in Aliases : <<ch, h>> \notin G, NEW o \in Conns
    PROVE  Announce(reg, G, news)[o][ch] =
              IF o \in Audience(reg, ch) THEN told[o][ch] ELSE NothingTold
<1>1. told[o][ch] \in [Aliases -> News]
  BY DEF TypeInv, TypeOK
<1>2. Announce(reg, G, news)[o][ch] =
         IF o \notin Audience(reg, ch) THEN NothingTold
         ELSE [h \in Aliases |-> IF <<ch, h>> \in G THEN news ELSE told[o][ch][h]]
  BY DEF Announce
<1>3. [h \in Aliases |-> IF <<ch, h>> \in G THEN news ELSE told[o][ch][h]] = told[o][ch]
  BY <1>1
<1>. QED
  BY <1>2, <1>3

-----------------------------------------------------------------------------
(***************************************************************************)
(* The steps, summed up.                                                   *)
(***************************************************************************)

\* A handler decides with the connections as they are.
LEMMA HubAudience ==
    ASSUME TypeInv, HubStep
    PROVE  \A ch : Audience(channels, ch)' = Audience(channels', ch)
  BY SameConns DEF Audience, In, Open

(***************************************************************************)
(* A join of connection c to channel k makes group g a participant, c a    *)
(* listener if it is open, and is announced only if no connected           *)
(* connection of the group was there.                                      *)
(***************************************************************************)
Joins(c, k, g) ==
    /\ \A ch \in Channels \ {k} : /\ Groups(channels', ch) = Groups(channels, ch)
                                  /\ Audience(channels', ch) = Audience(channels, ch)
    /\ Groups(channels', k) = Groups(channels, k) \cup {g}
    /\ Audience(channels', k) = Audience(channels, k) \cup {o \in {c} : Open(o)}
    /\ \/ told' = told /\ g \in Groups(channels, k)
       \/ /\ told' = Announce(channels', {<<k, g>>}, "on")
          /\ \A e \in InGroup(channels, k, g) : ~Connected(e.conn)

LEMMA JoinSum ==
    ASSUME Inv, HandleJoin
    PROVE  \E c \in Conns, k \in Channels, g \in Aliases : Joins(c, k, g)
<1>. USE Typed DEF Inv
<1>. SUFFICES ASSUME NEW m, m = Head(mailbox)
              PROVE  \E c \in Conns, k \in Channels, g \in Aliases : Joins(c, k, g)
  OBVIOUS
<1>. DEFINE c == m.conn
            k == m.channel
            leaf == Leaf(m)
            g == leaf.group
            reg == Admitted(channels, leaf.channel, leaf.group)
<1>1. /\ m.type = "JoinChannel" /\ channels' = reg \cup {leaf}
      /\ told' = IF WasAbsent(reg, leaf)
                 THEN Announce(channels', {<<leaf.channel, leaf.group>>}, "on") ELSE told
  BY DEF HandleJoin
<1>2. m \in Message /\ c \in Conns /\ MessageSound(m)
  BY Handling DEF HubStep
<1>3. /\ k \in Channels /\ leaf = LeafOf(c, k) /\ leaf \in Membership
      /\ leaf.conn = c /\ leaf.channel = k
  BY <1>1, <1>2, RequestLeaf, LeafNames, LeafTyped
<1>4. g \in Aliases
  BY <1>3 DEF Membership
<1>5. /\ reg \subseteq channels
      /\ \A e \in channels \ reg : ~Connected(e.conn) /\ ~Open(e.conn)
      /\ \A e \in channels \ reg : e.channel = k /\ e.group = g
  <2>1. reg = channels \/ reg = PruneDead(channels, k, g)
    BY <1>3 DEF Admitted
  <2>2. \A e \in channels \ PruneDead(channels, k, g) :
           e.channel = k /\ e.group = g /\ ~Connected(e.conn)
    BY DEF PruneDead
  <2>3. PruneDead(channels, k, g) \subseteq channels
    BY DEF PruneDead
  <2>4. \A e : ~Connected(e.conn) => ~Open(e.conn)
    BY DEF Connected, Open
  <2>. QED
    BY <2>1, <2>2, <2>3, <2>4
<1>. HIDE DEF c, k, leaf, g, reg
<1>6. leaf.group = g
  BY DEF g
<1>7. \A ch \in Channels : \A h : h \in Groups(channels', ch) <=>
         h \in Groups(channels, ch) \/ (ch = k /\ h = g)
  <2>. SUFFICES ASSUME NEW ch \in Channels, NEW h
                PROVE  h \in Groups(channels', ch) <=>
                          h \in Groups(channels, ch) \/ (ch = k /\ h = g)
    OBVIOUS
  <2>1. (\E e \in channels' : e.channel = ch /\ e.group = h) <=>
           (\E e \in channels : e.channel = ch /\ e.group = h) \/ (ch = k /\ h = g)
    BY <1>1, <1>3, <1>5, <1>6
  <2>2. /\ h \in Groups(channels', ch) <=> \E e \in channels' : e.channel = ch /\ e.group = h
        /\ h \in Groups(channels, ch) <=> \E e \in channels : e.channel = ch /\ e.group = h
    BY GroupHasLeaf
  <2>. QED
    BY <2>1, <2>2
<1>8. \A ch \in Channels : Groups(channels', ch) =
         IF ch = k THEN Groups(channels, ch) \cup {g} ELSE Groups(channels, ch)
  BY <1>7
<1>9. \A ch \in Channels, o \in Conns : o \in Audience(channels', ch) <=>
         o \in Audience(channels, ch) \/ (ch = k /\ o = c /\ Open(o))
  <2>. SUFFICES ASSUME NEW ch \in Channels, NEW o \in Conns, Open(o)
                PROVE  (\E e \in channels' : e.channel = ch /\ e.conn = o) <=>
                          (\E e \in channels : e.channel = ch /\ e.conn = o) \/ (ch = k /\ o = c)
    BY DEF Audience, In
  <2>1. \A e \in channels : e.conn = o => e \in reg
    BY <1>5
  <2>. QED
    BY <1>1, <1>3, <1>5, <2>1
<1>10. \A ch : Audience(channels', ch) \subseteq Conns /\ Audience(channels, ch) \subseteq Conns
  BY DEF Audience
<1>11. /\ \A ch \in Channels \ {k} : Audience(channels', ch) = Audience(channels, ch)
       /\ Audience(channels', k) = Audience(channels, k) \cup {o \in {c} : Open(o)}
  BY <1>2, <1>3, <1>9, <1>10 DEF c
<1>12. CASE WasAbsent(reg, leaf)
  <2>1. InGroup(reg, k, g) = {}
    BY <1>3, <1>6, <1>12 DEF WasAbsent
  <2>2. \A e \in InGroup(channels, k, g) : ~Connected(e.conn)
    BY <1>5, <2>1 DEF InGroup
  <2>3. told' = Announce(channels', {<<k, g>>}, "on")
    BY <1>1, <1>3, <1>6, <1>12
  <2>4. Joins(c, k, g)
    BY <1>3, <1>8, <1>11, <2>2, <2>3 DEF Joins
  <2>. QED
    BY <1>2, <1>3, <1>4, <2>4 DEF c
<1>13. CASE ~WasAbsent(reg, leaf)
  <2>1. InGroup(reg, k, g) # {}
    BY <1>3, <1>6, <1>13 DEF WasAbsent
  <2>2. g \in Groups(channels, k)
    BY <1>5, <2>1 DEF InGroup, Groups, In
  <2>3. told' = told
    BY <1>1, <1>13
  <2>4. Joins(c, k, g)
    BY <1>3, <1>8, <1>11, <2>2, <2>3 DEF Joins
  <2>. QED
    BY <1>2, <1>3, <1>4, <2>4 DEF c
<1>. QED
  BY <1>12, <1>13

(***************************************************************************)
(* A leave of connection c, from one channel or all: the leaves L, c's own *)
(* and no others, go; at most c stops listening, at most c's group is lost *)
(* in a channel, and what is lost is what is announced.                    *)
(***************************************************************************)
Leaves(c, L) ==
    /\ channels' = channels \ L
    /\ told' = Announce(channels', Emptied(channels, L), "off")
    /\ \A e \in L \cap channels : e = LeafOf(c, e.channel)
    /\ \A ch \in Channels : Audience(channels', ch) \in {Audience(channels, ch),
                                                         Audience(channels, ch) \ {c}}

LEMMA LeaveSum ==
    ASSUME Inv, HandleLeave \/ HandleLeaveAll
    PROVE  \E c \in Conns, L \in SUBSET Membership : Leaves(c, L)
<1>. USE Typed DEF Inv
<1>. SUFFICES ASSUME NEW m, m = Head(mailbox)
              PROVE  \E c \in Conns, L \in SUBSET Membership : Leaves(c, L)
  OBVIOUS
<1>. DEFINE c == m.conn
<1>a. m \in Message /\ c \in Conns /\ MessageSound(m)
  BY Handling DEF HubStep
<1>b. \A e \in channels \cup connIndex : e = LeafOf(e.conn, e.channel)
  BY DEF MapInv, LeavesSound
<1>. HIDE DEF c
\* Removing leaves of c only can cost the channels' audiences c only.
<1>c. ASSUME NEW L, \A e \in L : e.conn = c, channels' = channels \ L, NEW ch \in Channels
      PROVE  Audience(channels, ch) \ {c} \subseteq Audience(channels', ch)
             /\ Audience(channels', ch) \subseteq Audience(channels, ch)
  BY <1>c DEF Audience, In
<1>d. ASSUME NEW L, \A e \in L : e.conn = c, channels' = channels \ L
      PROVE  \A ch \in Channels : Audience(channels', ch) \in {Audience(channels, ch),
                                                               Audience(channels, ch) \ {c}}
  <2>. SUFFICES ASSUME NEW ch \in Channels
                PROVE  Audience(channels', ch) \in {Audience(channels, ch),
                                                    Audience(channels, ch) \ {c}}
    OBVIOUS
  <2>. DEFINE X == Audience(channels, ch)
              Y == Audience(channels', ch)
  <2>1. X \ {c} \subseteq Y /\ Y \subseteq X
    BY <1>c, <1>d
  <2>. HIDE DEF X, Y
  <2>2. Y = X \/ Y = X \ {c}
    BY <2>1
  <2>. QED
    BY <2>2 DEF X, Y
<1>1. CASE HandleLeave
  <2>. DEFINE leaf == Leaf(m)
  <2>1. /\ m.type = "LeaveChannel" /\ channels' = channels \ {leaf}
        /\ told' = Announce(channels', Emptied(channels, {leaf}), "off")
    BY <1>1 DEF HandleLeave
  <2>2. leaf = LeafOf(c, m.channel) /\ leaf.conn = c /\ leaf \in Membership
    BY <1>a, <2>1, RequestLeaf, LeafNames, LeafTyped DEF c
  <2>3. \A e \in {leaf} \cap channels : e = LeafOf(c, e.channel)
    BY <1>b, <2>2
  <2>. HIDE DEF leaf
  <2>4. Leaves(c, {leaf})
    BY <1>d, <2>1, <2>2, <2>3 DEF Leaves
  <2>. QED
    BY <1>a, <2>2, <2>4
<1>2. CASE HandleLeaveAll
  <2>. DEFINE L == {e \in connIndex : e.conn = c}
  <2>1. /\ channels' = channels \ L
        /\ told' = Announce(channels', Emptied(channels, L), "off")
    BY <1>2 DEF HandleLeaveAll, c
  <2>2. \A e \in L \cap channels : e = LeafOf(c, e.channel)
    BY <1>b
  <2>3. \A e \in L : e.conn = c
    OBVIOUS
  <2>4. L \in SUBSET Membership
    OBVIOUS
  <2>. HIDE DEF L
  <2>5. Leaves(c, L)
    BY <1>d, <2>1, <2>2, <2>3 DEF Leaves
  <2>. QED
    BY <1>a, <2>4, <2>5
<1>. QED
  BY <1>1, <1>2

\* What a leave loses in a channel is at most its sender's group.
LEMMA OneGroupLost ==
    ASSUME NEW c, NEW L, Leaves(c, L), NEW ch
    PROVE  /\ Groups(channels', ch) \subseteq Groups(channels, ch)
           /\ \A g : <<ch, g>> \in Emptied(channels, L) <=>
                        g \in Groups(channels, ch) \ Groups(channels', ch)
           /\ \A g \in Groups(channels, ch) \ Groups(channels', ch) : g = LeafOf(c, ch).group
<1>1. channels' = channels \ L /\ \A e \in L \cap channels : e = LeafOf(c, e.channel)
  BY DEF Leaves
<1>2. \A g : <<ch, g>> \in Emptied(channels, L) <=>
                g \in Groups(channels, ch) \ Groups(channels \ L, ch)
  BY EmptiedIsLost
<1>3. Groups(channels \ L, ch) \subseteq Groups(channels, ch)
  BY DEF Groups, In
<1>4. ASSUME NEW g \in Groups(channels, ch) \ Groups(channels \ L, ch)
      PROVE  g = LeafOf(c, ch).group
  <2>1. PICK e \in channels : e.channel = ch /\ e.group = g
    BY GroupHasLeaf
  <2>2. e \in L
    <3>1. e \in channels \ L => g \in Groups(channels \ L, ch)
      BY <2>1 DEF Groups, In
    <3>. QED
      BY <3>1
  <2>. QED
    BY <1>1, <2>1, <2>2
<1>. QED
  BY <1>1, <1>2, <1>3, <1>4

\* The prune of a chat message drops stopped connections and says nothing.
LEMMA MessageSum ==
    ASSUME Inv, HandleMessage
    PROVE  /\ Head(mailbox).type = "ChannelMessage" /\ told' = told
           /\ channels' \subseteq channels
           /\ \A e \in channels \ channels' : ~Connected(e.conn)
           /\ \A ch : /\ Audience(channels', ch) = Audience(channels, ch)
                      /\ Groups(channels', ch) \subseteq Groups(channels, ch)
<1>1. /\ Head(mailbox).type = "ChannelMessage" /\ told' = told
      /\ channels' = PruneChannel(channels, Head(mailbox).channel)
  BY DEF HandleMessage
<1>2. channels' \subseteq channels /\ \A e \in channels \ channels' : ~Connected(e.conn)
  BY <1>1, PruneKeepsLive
<1>3. \A o : Open(o) => Connected(o)
  BY DEF Open, Connected
<1>4. \A ch : Audience(channels', ch) = Audience(channels, ch)
  BY <1>2, <1>3 DEF Audience, In
<1>5. \A ch : Groups(channels', ch) \subseteq Groups(channels, ch)
  BY <1>2 DEF Groups, In
<1>. QED
  BY <1>1, <1>2, <1>4, <1>5

\* A connection that stops hears no more, in any channel.
LEMMA StopSum ==
    ASSUME Inv, NEW c \in Conns, Stop(c)
    PROVE  /\ channels' = channels
           /\ \A ch : Audience(channels, ch)' = Audience(channels, ch) \ {c}
           /\ told' = [told EXCEPT ![c] = [ch \in Channels |-> NothingTold]]
<1>. USE Typed DEF Inv
<1>1. /\ channels' = channels /\ phase' = [phase EXCEPT ![c] = "stopping"]
      /\ told' = [told EXCEPT ![c] = [ch \in Channels |-> NothingTold]]
  BY DEF Stop, Stopping
<1>. QED
  BY <1>1 DEF Audience, In, Open

\* Every other step of a connection is invisible to the members.
LEMMA QuietSum ==
    ASSUME Inv, NEW c \in Conns, ConnStep(c)
    PROVE  \/ Stop(c)
           \/ /\ channels' = channels /\ told' = told
              /\ \A ch : Audience(channels, ch)' = Audience(channels, ch)
<1>. USE Typed DEF Inv
<1>1. ASSUME channels' = channels, told' = told,
             \A o \in Conns, e \in channels : e.conn = o => (Open(o)' <=> Open(o))
      PROVE  /\ channels' = channels /\ told' = told
             /\ \A ch : Audience(channels, ch)' = Audience(channels, ch)
  BY <1>1 DEF Audience, In
<1>2. ASSUME NEW a \in Aliases \cup {NoAlias}, NEW p \in ResolvedParents(a), Connect(c, a, p)
      PROVE  /\ channels' = channels /\ told' = told
             /\ \A o \in Conns, e \in channels : e.conn = o => (Open(o)' <=> Open(o))
  <2>1. /\ channels' = channels /\ told' = told /\ ~identified[c]
        /\ \A d \in Conns \ {c} : phase'[d] = phase[d]
    BY <1>2 DEF Connect, Started
  <2>2. \A e \in channels : e.conn # c
    BY <2>1 DEF MapInv, LeavesSound
  <2>. QED
    BY <2>1, <2>2 DEF Open
<1>3. CASE \/ \E claim \in Aliases : Identify(c, claim)
           \/ \E ch \in Channels :
                ChannelsJoin(c, ch) \/ ChannelsLeave(c, ch) \/ ChannelsMessage(c, ch)
  <2>1. channels' = channels /\ told' = told /\ phase' = phase
    BY <1>3 DEF Identify, PlayersIdentify, ChannelsJoin, ChannelsLeave, ChannelsMessage,
       Send, connVars
  <2>. QED
    BY <2>1, <1>1 DEF Open
<1>4. CASE Drop(c)
  <2>1. /\ channels' = channels /\ told' = told
        /\ \A o \in Conns : Open(o)' <=> Open(o)
    BY <1>4 DEF Drop, Dropped, Open
  <2>. QED
    BY <2>1, <1>1
<1>. QED
  BY <1>1, <1>2, <1>3, <1>4 DEF ConnStep

-----------------------------------------------------------------------------
(***************************************************************************)
(* A member's record, per step.                                            *)
(***************************************************************************)
LEMMA JoinTold ==
    ASSUME TypeInv, Unheard, NEW c \in Conns, NEW k \in Channels, NEW g \in Aliases,
           Joins(c, k, g), NEW ch \in Channels, NEW o \in Conns
    PROVE  /\ o \notin Audience(channels', ch) => told'[o][ch] = NothingTold
           /\ ch # k => told'[o][ch] = told[o][ch]
           /\ ch = k /\ told' # told =>
                told'[o][ch] = IF o \in Audience(channels', ch)
                               THEN [told[o][ch] EXCEPT ![g] = "on"] ELSE told[o][ch]
<1>1. Audience(channels, ch) \subseteq Audience(channels', ch)
  BY DEF Joins
<1>2. o \notin Audience(channels, ch) => told[o][ch] = NothingTold
  BY DEF Unheard
<1>3. CASE told' = told
  BY <1>1, <1>2, <1>3
<1>4. CASE told' # told /\ ch = k
  <2>1. told' = Announce(channels', {<<k, g>>}, "on")
    BY <1>4 DEF Joins
  <2>2. \A h \in Aliases : <<ch, h>> \in {<<k, g>>} <=> h = g
    BY <1>4
  <2>3. told'[o][ch] = IF o \in Audience(channels', ch)
                       THEN [told[o][ch] EXCEPT ![g] = "on"] ELSE NothingTold
    BY <2>1, <2>2, OneNews
  <2>. QED
    BY <1>1, <1>2, <1>4, <2>3
<1>5. CASE told' # told /\ ch # k
  <2>1. told' = Announce(channels', {<<k, g>>}, "on")
    BY <1>5 DEF Joins
  <2>2. \A h \in Aliases : <<ch, h>> \notin {<<k, g>>}
    BY <1>5
  <2>3. told'[o][ch] = IF o \in Audience(channels', ch) THEN told[o][ch] ELSE NothingTold
    BY <2>1, <2>2, NoNews
  <2>. QED
    BY <1>1, <1>2, <1>5, <2>3
<1>. QED
  BY <1>3, <1>4, <1>5

LEMMA JoinElsewhere ==
    ASSUME TypeInv, Unheard, NEW c \in Conns, NEW k \in Channels, NEW g \in Aliases,
           Joins(c, k, g)
    PROVE  \A ch \in Channels \ {k}, o \in Conns : told'[o][ch] = told[o][ch]
<1>. SUFFICES ASSUME NEW ch \in Channels, ch # k, NEW o \in Conns
              PROVE  told'[o][ch] = told[o][ch]
  OBVIOUS
<1>1. CASE told' = told
  BY <1>1
<1>2. CASE told' # told
  <2>1. told' = Announce(channels', {<<k, g>>}, "on")
    BY <1>2 DEF Joins
  <2>2. \A h \in Aliases : <<ch, h>> \notin {<<k, g>>}
    OBVIOUS
  <2>3. told'[o][ch] = IF o \in Audience(channels', ch) THEN told[o][ch] ELSE NothingTold
    BY <2>1, <2>2, NoNews
  <2>4. o \notin Audience(channels', ch) => told[o][ch] = NothingTold
    BY DEF Joins, Unheard
  <2>. QED
    BY <2>3, <2>4
<1>. QED
  BY <1>1, <1>2

LEMMA LeaveTold ==
    ASSUME TypeInv, NEW c \in Conns, NEW L \in SUBSET Membership, Leaves(c, L),
           channels \subseteq Membership, NEW ch \in Channels, NEW o \in Conns
    PROVE  /\ o \notin Audience(channels', ch) => told'[o][ch] = NothingTold
           /\ Groups(channels', ch) = Groups(channels, ch) /\ o \in Audience(channels', ch) =>
                told'[o][ch] = told[o][ch]
           /\ \A g \in Groups(channels, ch) \ Groups(channels', ch) :
                /\ g \in Aliases
                /\ Groups(channels', ch) = Groups(channels, ch) \ {g}
                /\ o \in Audience(channels', ch) =>
                     told'[o][ch] = [told[o][ch] EXCEPT ![g] = "off"]
<1>1. /\ Groups(channels', ch) \subseteq Groups(channels, ch)
      /\ \A g : <<ch, g>> \in Emptied(channels, L) <=>
                   g \in Groups(channels, ch) \ Groups(channels', ch)
      /\ \A g \in Groups(channels, ch) \ Groups(channels', ch) : g = LeafOf(c, ch).group
  BY OneGroupLost
<1>2. told' = Announce(channels', Emptied(channels, L), "off")
  BY DEF Leaves
<1>3. o \notin Audience(channels', ch) => told'[o][ch] = NothingTold
  BY <1>2 DEF Announce
<1>4. ASSUME Groups(channels', ch) = Groups(channels, ch), o \in Audience(channels', ch)
      PROVE  told'[o][ch] = told[o][ch]
  <2>1. \A h \in Aliases : <<ch, h>> \notin Emptied(channels, L)
    BY <1>1, <1>4
  <2>. QED
    BY <1>2, <1>4, <2>1, NoNews
<1>5. ASSUME NEW g \in Groups(channels, ch) \ Groups(channels', ch)
      PROVE  /\ g \in Aliases
             /\ Groups(channels', ch) = Groups(channels, ch) \ {g}
             /\ o \in Audience(channels', ch) =>
                  told'[o][ch] = [told[o][ch] EXCEPT ![g] = "off"]
  <2>1. g \in Aliases
    BY DEF Groups, In, Membership
  <2>2. Groups(channels', ch) = Groups(channels, ch) \ {g}
    BY <1>1
  <2>3. \A h \in Aliases : <<ch, h>> \in Emptied(channels, L) <=> h = g
    BY <1>1
  <2>. QED
    BY <1>2, <2>1, <2>2, <2>3, OneNews
<1>. QED
  BY <1>3, <1>4, <1>5

-----------------------------------------------------------------------------
(***************************************************************************)
(* What a connection is told of a channel ends with its membership.        *)
(***************************************************************************)
LEMMA UnheardInit == Init => Unheard
  BY DEF Init, ConnInit, Unheard

LEMMA UnheardStep == Inv /\ Unheard /\ [Next]_vars => Unheard'
<1>. SUFFICES ASSUME Inv, Unheard, [Next]_vars PROVE Unheard'
  OBVIOUS
<1>. USE Typed DEF Inv
<1>a. \A d \in Conns : told[d] \in [Channels -> [Aliases -> News]]
  BY DEF TypeInv, TypeOK
<1>1. ASSUME channels' = channels, told' = told,
             \A ch : Audience(channels, ch)' = Audience(channels, ch)
      PROVE  Unheard'
  BY <1>1 DEF Unheard, NothingTold
<1>2. ASSUME NEW c \in Conns, Stop(c)
      PROVE  Unheard'
  <2>1. /\ \A ch : Audience(channels, ch)' = Audience(channels, ch) \ {c}
        /\ told' = [told EXCEPT ![c] = [ch \in Channels |-> NothingTold]]
    BY <1>2, StopSum
  <2>2. told \in [Conns -> [Channels -> [Aliases -> News]]]
    BY DEF TypeInv, TypeOK
  <2>3. \A ch \in Channels, o \in Conns :
           told'[o][ch] = IF o = c THEN NothingTold ELSE told[o][ch]
    BY <2>1, <2>2
  <2>. QED
    BY <2>1, <2>3 DEF Unheard, NothingTold
<1>3. ASSUME NEW c \in Conns, ConnStep(c)
      PROVE  Unheard'
  BY <1>1, <1>2, <1>3, QuietSum
<1>b. ASSUME HubStep, \A ch \in Channels, o \in Conns :
                         o \notin Audience(channels', ch) => told'[o][ch] = NothingTold
      PROVE  Unheard'
  BY <1>b, HubAudience DEF Unheard, NothingTold
<1>4. CASE HandleJoin
  <2>1. PICK c \in Conns, k \in Channels, g \in Aliases : Joins(c, k, g)
    BY <1>4, JoinSum
  <2>2. \A ch \in Channels, o \in Conns :
           o \notin Audience(channels', ch) => told'[o][ch] = NothingTold
    BY <2>1, JoinTold
  <2>. QED
    BY <1>4, <1>b, <2>2 DEF HubStep
<1>5. CASE HandleLeave \/ HandleLeaveAll
  <2>1. PICK c \in Conns, L \in SUBSET Membership : Leaves(c, L)
    BY <1>5, LeaveSum
  <2>2. \A ch \in Channels, o \in Conns :
           o \notin Audience(channels', ch) => told'[o][ch] = NothingTold
    BY <2>1, LeaveTold
  <2>. QED
    BY <1>5, <1>b, <2>2 DEF HubStep
<1>6. CASE HandleMessage
  <2>1. told' = told /\ \A ch : Audience(channels', ch) = Audience(channels, ch)
    BY <1>6, MessageSum
  <2>. QED
    BY <1>6, <1>b, <2>1 DEF HubStep, Unheard
<1>7. CASE UNCHANGED vars
  BY <1>1, <1>7 DEF vars, connVars, hubVars, Audience, In, Open
<1>. QED
  BY <1>3, <1>4, <1>5, <1>6, <1>7 DEF Next, HubStep

LEMMA NewsInvariance == Spec => [](Inv /\ Unheard)
  BY InvInit, InvStep, UnheardInit, UnheardStep, PTL DEF Spec

-----------------------------------------------------------------------------
(***************************************************************************)
(* Nobody is bothered by what happens within a group that stays.           *)
(***************************************************************************)
QuietStep ==
    \A ch \in Channels : \A e \in In(channels, ch) \cap In(channels', ch) :
       Open(e.conn) /\ Open(e.conn)' =>
         \A o \in Audience(channels, ch) :
             o \in Audience(channels, ch)' =>
                 told'[o][ch][e.group] = told[o][ch][e.group]

LEMMA QuietHolds == Inv /\ Unheard /\ [Next]_vars => [QuietStep]_vars
<1>. SUFFICES ASSUME Inv, Unheard, [Next]_vars PROVE QuietStep \/ UNCHANGED vars
  OBVIOUS
<1>. USE Typed DEF Inv
<1>a. told \in [Conns -> [Channels -> [Aliases -> News]]]
  BY DEF TypeInv, TypeOK
<1>. SUFFICES ASSUME NEW ch \in Channels, NEW e \in channels, e \in channels', e.channel = ch,
                     Open(e.conn), NEW o \in Conns,
                     o \in Audience(channels, ch), o \in Audience(channels, ch)',
                     ~UNCHANGED vars
              PROVE  told'[o][ch][e.group] = told[o][ch][e.group]
  BY DEF QuietStep, In, Audience
<1>b. /\ e \in InGroup(channels, ch, e.group) /\ e.group \in Groups(channels, ch)
      /\ e.group \in Groups(channels', ch) /\ Connected(e.conn)
  BY DEF InGroup, Groups, In, Connected, Open
<1>1. ASSUME NEW c \in Conns, ConnStep(c)
      PROVE  told'[o][ch][e.group] = told[o][ch][e.group]
  <2>1. CASE Stop(c)
    <3>1. o # c /\ told' = [told EXCEPT ![c] = [k \in Channels |-> NothingTold]]
      BY <2>1, StopSum
    <3>. QED
      BY <1>a, <3>1
  <2>2. CASE ~Stop(c)
    BY <1>1, <2>2, QuietSum
  <2>. QED
    BY <2>1, <2>2
<1>2. CASE HandleJoin
  <2>1. PICK c \in Conns, k \in Channels, g \in Aliases : Joins(c, k, g)
    BY <1>2, JoinSum
  <2>2. CASE ch # k
    BY <2>1, <2>2, JoinElsewhere
  <2>3. CASE ch = k /\ told' # told
    <3>1. \A f \in InGroup(channels, k, g) : ~Connected(f.conn)
      BY <2>1, <2>3 DEF Joins
    <3>2. e.group # g
      BY <1>b, <2>3, <3>1
    <3>3. told'[o][ch] = [told[o][ch] EXCEPT ![g] = "on"] \/ told'[o][ch] = told[o][ch]
      BY <2>1, <2>3, JoinTold
    <3>4. told[o][ch] \in [Aliases -> News]
      BY <1>a
    <3>5. e.group \in Aliases
      BY DEF Membership
    <3>. QED
      BY <3>2, <3>3, <3>4, <3>5
  <2>. QED
    BY <2>2, <2>3
<1>3. CASE HandleLeave \/ HandleLeaveAll
  <2>1. PICK c \in Conns, L \in SUBSET Membership : Leaves(c, L)
    BY <1>3, LeaveSum
  <2>2. o \in Audience(channels', ch)
    BY <1>3, HubAudience DEF HubStep
  <2>3. CASE Groups(channels', ch) = Groups(channels, ch)
    BY <2>1, <2>2, <2>3, LeaveTold
  <2>4. ASSUME NEW g \in Groups(channels, ch) \ Groups(channels', ch)
        PROVE  told'[o][ch][e.group] = told[o][ch][e.group]
    <3>1. g \in Aliases /\ told'[o][ch] = [told[o][ch] EXCEPT ![g] = "off"]
      BY <2>1, <2>2, LeaveTold
    <3>2. told[o][ch] \in [Aliases -> News] /\ e.group \in Aliases
      BY <1>a DEF Membership
    <3>. QED
      BY <1>b, <3>1, <3>2
  <2>5. Groups(channels', ch) \subseteq Groups(channels, ch)
    BY <2>1, OneGroupLost
  <2>. QED
    BY <2>3, <2>4, <2>5
<1>4. CASE HandleMessage
  BY <1>4, MessageSum
<1>. QED
  BY <1>1, <1>2, <1>3, <1>4 DEF Next, HubStep

(***************************************************************************)
(* While one connection of a group stays open and a member, nothing the    *)
(* group's other connections do is announced, in any reachable step.       *)
(***************************************************************************)
THEOREM Quiet == Spec => QuietWhileGroupStays
<1>1. Inv /\ Unheard /\ [Next]_vars =>
        [\A ch \in Channels : \A e \in In(channels, ch) \cap In(channels', ch) :
            Open(e.conn) /\ Open(e.conn)' =>
              \A o \in Audience(channels, ch) :
                  o \in Audience(channels, ch)' =>
                      told'[o][ch][e.group] = told[o][ch][e.group]]_vars
  BY QuietHolds DEF QuietStep
<1>. QED
  BY <1>1, NewsInvariance, PTL DEF Spec, QuietWhileGroupStays

-----------------------------------------------------------------------------
(***************************************************************************)
(* Only the prune of a chat message loses a group without a word.          *)
(***************************************************************************)
LossStep ==
    \A ch \in Channels : \A g \in Groups(channels, ch) \ Groups(channels', ch) :
        (\E o \in Audience(channels, ch)' : told'[o][ch][g] # "off") =>
            /\ Head(mailbox).type = "ChannelMessage"
            /\ \A e \in InGroup(channels, ch, g) : ~Connected(e.conn)

LEMMA LossHolds == Inv /\ [Next]_vars => [LossStep]_vars
<1>. SUFFICES ASSUME Inv, [Next]_vars PROVE LossStep \/ UNCHANGED vars
  OBVIOUS
<1>. USE Typed DEF Inv
<1>a. told \in [Conns -> [Channels -> [Aliases -> News]]]
  BY DEF TypeInv, TypeOK
<1>. SUFFICES ASSUME NEW ch \in Channels, NEW g \in Groups(channels, ch) \ Groups(channels', ch),
                     NEW o \in Conns, o \in Audience(channels, ch)', told'[o][ch][g] # "off",
                     ~UNCHANGED vars
              PROVE  /\ Head(mailbox).type = "ChannelMessage"
                     /\ \A e \in InGroup(channels, ch, g) : ~Connected(e.conn)
  BY DEF LossStep, Audience
<1>1. channels' # channels
  OBVIOUS
<1>2. CASE \E c \in Conns : ConnStep(c)
  BY <1>1, <1>2, ConnHasEffect DEF ConnEffect
<1>3. CASE HandleJoin
  <2>1. PICK c \in Conns, k \in Channels, h \in Aliases : Joins(c, k, h)
    BY <1>3, JoinSum
  <2>. QED
    BY <2>1 DEF Joins
<1>4. CASE HandleLeave \/ HandleLeaveAll
  <2>1. PICK c \in Conns, L \in SUBSET Membership : Leaves(c, L)
    BY <1>4, LeaveSum
  <2>2. o \in Audience(channels', ch)
    BY <1>4, HubAudience DEF HubStep
  <2>3. g \in Aliases /\ told'[o][ch] = [told[o][ch] EXCEPT ![g] = "off"]
    BY <2>1, <2>2, LeaveTold
  <2>4. told[o][ch] \in [Aliases -> News]
    BY <1>a
  <2>. QED
    BY <2>3, <2>4
<1>5. CASE HandleMessage
  <2>1. /\ Head(mailbox).type = "ChannelMessage"
        /\ \A e \in channels \ channels' : ~Connected(e.conn)
    BY <1>5, MessageSum
  <2>2. InGroup(channels, ch, g) \subseteq channels \ channels'
    BY DEF InGroup, Groups, In
  <2>. QED
    BY <2>1, <2>2
<1>. QED
  BY <1>2, <1>3, <1>4, <1>5 DEF Next, HubStep

(***************************************************************************)
(* A group leaves a channel unannounced only by the prune of a chat        *)
(* message, and only when every connection of it is stopped.               *)
(***************************************************************************)
THEOREM SilentLoss == Spec => SilentLossIsPrunedByChat
<1>1. Inv /\ [Next]_vars =>
        [\A ch \in Channels : \A g \in Groups(channels, ch) \ Groups(channels', ch) :
            (\E o \in Audience(channels, ch)' : told'[o][ch][g] # "off") =>
                /\ Head(mailbox).type = "ChannelMessage"
                /\ \A e \in InGroup(channels, ch, g) : ~Connected(e.conn)]_vars
  BY LossHolds DEF LossStep
<1>. QED
  BY <1>1, Invariance, PTL DEF Spec, SilentLossIsPrunedByChat

-----------------------------------------------------------------------------
(***************************************************************************)
(* Chat.                                                                   *)
(***************************************************************************)
LEMMA ChatStep == Inv /\ Inv' /\ ChatAudienceExact /\ [Next]_vars => ChatAudienceExact'
<1>. SUFFICES ASSUME Inv, Inv', ChatAudienceExact, [Next]_vars PROVE ChatAudienceExact'
  OBVIOUS
<1>. USE Typed DEF Inv
<1>1. CASE chat' = NoChat
  BY <1>1 DEF ChatAudienceExact
<1>2. CASE HandleMessage /\ chat' # NoChat
  <2>. DEFINE m == Head(mailbox)
  <2>. SUFFICES ASSUME NEW ch \in Channels, ch = chat'.channel,
                       NEW o \in Conns, Open(o)', Requests(o, ch)' = {}
                PROVE  o \in chat'.to <=> ch \in wanted'[o]
    <3>1. chat'.channel \in Channels
      BY <1>2 DEF TypeInv, TypeOK, Chat
    <3>. QED
      BY <3>1 DEF ChatAudienceExact, Requests, JoinChannel, LeaveChannel
  <2>1. chat' = [channel |-> m.channel, to |-> Recipients(channels', m)]
    BY <1>2 DEF HandleMessage
  <2>2. o \in chat'.to <=> o \in Audience(channels', ch)
    BY <2>1 DEF Recipients
  <2>3. HubStep
    BY <1>2 DEF HubStep
  <2>4. o \in Audience(channels', ch) <=> LeafOf(o, ch)' \in channels'
    <3>1. Audience(channels, ch)' = Audience(channels', ch)
      BY <2>3, HubAudience
    <3>2. LeafOf(o, ch)' = LeafOf(o, ch) /\ LeafOf(o, ch).conn = o /\ LeafOf(o, ch).channel = ch
      BY <2>3, SameConns, SameSender, LeafNames
    <3>3. \A e \in channels' : e.conn = o /\ e.channel = ch => e = LeafOf(o, ch)'
      BY DEF MapInv, LeavesSound
    <3>4. Open(o)
      BY <2>3, SameConns
    <3>. QED
      BY <3>2, <3>3, <3>4 DEF Audience, In
  <2>5. Outcome(o, ch)' <=> ch \in wanted'[o]
    BY DEF WantInv, IntentHonoured
  <2>6. Outcome(o, ch)' <=> LeafOf(o, ch)' \in channels'
    BY DEF Outcome
  <2>. QED
    BY <2>2, <2>4, <2>5, <2>6
<1>3. CASE UNCHANGED vars
  BY <1>3 DEF vars, connVars, hubVars, ChatAudienceExact, Open, Requests, JoinChannel,
     LeaveChannel
<1>. QED
  BY <1>1, <1>2, <1>3 DEF Next, HubStep, ConnStep, HandleJoin, HandleLeave, HandleLeaveAll,
     Connect, Identify, ChannelsJoin, ChannelsLeave, ChannelsMessage, Send, Stop, Drop

(***************************************************************************)
(* Every chat message reaches exactly the open connections that are in the *)
(* channel by their own account.                                           *)
(***************************************************************************)
THEOREM ChatAudience == Spec => []ChatAudienceExact
<1>1. Init => Inv /\ ChatAudienceExact
  BY InvInit DEF Init, ChatAudienceExact
<1>2. Inv /\ ChatAudienceExact /\ [Next]_vars => Inv' /\ ChatAudienceExact'
  BY InvStep, ChatStep
<1>. QED
  BY <1>1, <1>2, PTL DEF Spec

-----------------------------------------------------------------------------
(***************************************************************************)
(* Refinement.  The refinement mapping, before and after a step.           *)
(***************************************************************************)
LEMMA Mapped ==
    ASSUME NEW ch \in Channels
    PROVE  /\ Present[ch] = Groups(channels, ch)
           /\ Listening[ch] = Audience(channels, ch)
           /\ Present'[ch] = Groups(channels', ch)
           /\ Listening'[ch] = Audience(channels, ch)'
<1>1. Present[ch] = Groups(channels, ch) /\ Listening[ch] = Audience(channels, ch)
  BY DEF Present, Listening, Audience, Groups, In, Open
<1>2. Present'[ch] = {e.group : e \in {f \in channels' : f.channel = ch}}
  BY DEF Present, Groups, In
<1>3. Groups(channels', ch) = {e.group : e \in {f \in channels' : f.channel = ch}}
  BY DEF Groups, In
<1>4. Listening'[ch] = Audience(channels, ch)'
  BY DEF Listening, Audience, In, Open
<1>. QED
  BY <1>1, <1>2, <1>3, <1>4

\* One step of channel ch's Announcer.
AnnouncerStep(ch) == A(ch)!Next \/ UNCHANGED A(ch)!vars

\* Nothing shows.
LEMMA StutterStep ==
    ASSUME NEW ch \in Channels, Present'[ch] = Present[ch], Listening'[ch] = Listening[ch],
           \A o \in Conns : told'[o][ch] = told[o][ch]
    PROVE  AnnouncerStep(ch)
<1>1. [o \in Conns |-> told'[o][ch]] = [o \in Conns |-> told[o][ch]]
  OBVIOUS
<1>. QED
  BY <1>1 DEF AnnouncerStep, A!vars

\* A listener comes or goes.
LEMMA AttachStep ==
    ASSUME NEW ch \in Channels, NEW c \in Conns, Present'[ch] = Present[ch],
           Listening'[ch] = Listening[ch] \cup {c},
           \A o \in Conns : told'[o][ch] = told[o][ch]
    PROVE  AnnouncerStep(ch)
<1>1. [o \in Conns |-> told'[o][ch]] = [o \in Conns |-> told[o][ch]]
  OBVIOUS
<1>. QED
  BY <1>1 DEF AnnouncerStep, A!Next, A!Attach

LEMMA DetachStep ==
    ASSUME NEW ch \in Channels, NEW c \in Conns, Present'[ch] = Present[ch],
           Listening'[ch] = Listening[ch] \ {c},
           \A o \in Conns : told'[o][ch] = IF o = c THEN NothingTold ELSE told[o][ch]
    PROVE  AnnouncerStep(ch)
<1>1. [o \in Conns |-> told'[o][ch]]
        = [[o \in Conns |-> told[o][ch]] EXCEPT ![c] = [s \in Aliases |-> "unheard"]]
  BY DEF NothingTold
<1>. QED
  BY <1>1 DEF AnnouncerStep, A!Next, A!Detach

\* A subject arrives, or is announced once more.
LEMMA ArriveStep ==
    ASSUME NEW ch \in Channels, NEW g \in Aliases, Present'[ch] = Present[ch] \cup {g},
           \/ Listening'[ch] = Listening[ch]
           \/ \E l \in Conns : Listening'[ch] = Listening[ch] \cup {l},
           \A o \in Conns : told'[o][ch] = IF o \in Listening'[ch]
                                           THEN [told[o][ch] EXCEPT ![g] = "on"] ELSE told[o][ch]
    PROVE  AnnouncerStep(ch)
<1>1. [o \in Conns |-> told'[o][ch]]
        = [l \in Conns |-> IF l \in Listening'[ch]
                           THEN [[o \in Conns |-> told[o][ch]][l] EXCEPT ![g] = "on"]
                           ELSE [o \in Conns |-> told[o][ch]][l]]
  OBVIOUS
<1>2. CASE g \notin Present[ch]
  BY <1>1, <1>2 DEF AnnouncerStep, A!Next, A!Arrive, A!Tell
<1>3. CASE g \in Present[ch]
  <2>1. Present'[ch] = Present[ch]
    BY <1>3
  <2>. QED
    BY <1>1, <1>3, <2>1 DEF AnnouncerStep, A!Next, A!Renew, A!Tell
<1>. QED
  BY <1>2, <1>3

\* A subject departs, and with it perhaps a listener.
LEMMA DepartStep ==
    ASSUME NEW ch \in Channels, NEW g \in Aliases, g \in Present[ch],
           Present'[ch] = Present[ch] \ {g}, NEW c \in Conns,
           Listening'[ch] \in {Listening[ch], Listening[ch] \ {c}},
           \A o \in Conns : /\ o \in Listening'[ch] =>
                                 told'[o][ch] = [told[o][ch] EXCEPT ![g] = "off"]
                            /\ o \notin Listening'[ch] => told'[o][ch] = NothingTold
                            /\ o \notin Listening[ch] => told[o][ch] = NothingTold
    PROVE  AnnouncerStep(ch)
<1>. DEFINE view == [o \in Conns |-> told[o][ch]]
<1>1. CASE Listening'[ch] = Listening[ch]
  <2>1. [o \in Conns |-> told'[o][ch]]
          = [l \in Conns |-> IF l \in Listening'[ch]
                             THEN [view[l] EXCEPT ![g] = "off"] ELSE view[l]]
    BY <1>1
  <2>. QED
    BY <1>1, <2>1 DEF AnnouncerStep, A!Next, A!Depart, A!Tell
<1>2. CASE Listening'[ch] # Listening[ch]
  <2>1. c \in Listening[ch] /\ Listening'[ch] = Listening[ch] \ {c}
    BY <1>2
  <2>2. [o \in Conns |-> told'[o][ch]]
          = [k \in Conns |->
               CASE k = c -> [t \in Aliases |-> "unheard"]
                 [] k \in Listening'[ch] -> [view[k] EXCEPT ![g] = "off"]
                 [] OTHER -> view[k]]
    <3>1. ASSUME NEW k \in Conns
          PROVE  told'[k][ch] =
                   CASE k = c -> [t \in Aliases |-> "unheard"]
                     [] k \in Listening'[ch] -> [view[k] EXCEPT ![g] = "off"]
                     [] OTHER -> view[k]
      <4>1. CASE k = c
        BY <2>1, <4>1 DEF NothingTold
      <4>2. CASE k # c /\ k \in Listening'[ch]
        BY <2>1, <4>2
      <4>3. CASE k # c /\ k \notin Listening'[ch]
        BY <2>1, <4>3
      <4>. QED
        BY <4>1, <4>2, <4>3
    <3>. QED
      BY <3>1
  <2>. QED
    BY <2>1, <2>2 DEF AnnouncerStep, A!Next, A!Depart
<1>. QED
  BY <1>1, <1>2

\* Subjects vanish by the prune of a chat message.
LEMMA VanishStep ==
    ASSUME NEW ch \in Channels, Present'[ch] \subseteq Present[ch],
           Listening'[ch] = Listening[ch],
           \A o \in Conns : told'[o][ch] = told[o][ch]
    PROVE  AnnouncerStep(ch)
<1>1. [o \in Conns |-> told'[o][ch]] = [o \in Conns |-> told[o][ch]]
  OBVIOUS
<1>. QED
  BY <1>1 DEF AnnouncerStep, A!Next, A!Vanish

LEMMA AnnouncesInit == Init => \A ch \in Channels : A(ch)!Init
<1>. SUFFICES ASSUME Init, NEW ch \in Channels PROVE A(ch)!Init
  OBVIOUS
<1>1. channels = {} /\ \A o \in Conns : told[o][ch] = [s \in Aliases |-> "unheard"]
  BY DEF Init, NothingTold
<1>2. Present[ch] = {} /\ Listening[ch] = {}
  <2>1. Groups(channels, ch) = {} /\ Audience(channels, ch) = {}
    BY <1>1 DEF Groups, Audience, In
  <2>. QED
    BY <2>1, Mapped
<1>. QED
  BY <1>1, <1>2 DEF A!Init

LEMMA AnnouncesJoin ==
    ASSUME Inv, Unheard, HandleJoin, NEW ch \in Channels
    PROVE  AnnouncerStep(ch)
<1>a. TypeInv /\ HubStep
  BY DEF Inv, HubStep
<1>1. PICK c \in Conns, k \in Channels, g \in Aliases : Joins(c, k, g)
  BY JoinSum
<1>2. Audience(channels, ch)' = Audience(channels', ch)
  BY <1>a, HubAudience
<1>3. CASE ch # k
  <2>1. \A o \in Conns : told'[o][ch] = told[o][ch]
    BY <1>a, <1>1, <1>3, JoinElsewhere
  <2>2. Groups(channels', ch) = Groups(channels, ch) /\ Audience(channels', ch) = Audience(channels, ch)
    BY <1>1, <1>3 DEF Joins
  <2>. QED
    BY <1>2, <2>1, <2>2, Mapped, StutterStep
<1>4. CASE ch = k
  <2>1. /\ Groups(channels', ch) = Groups(channels, ch) \cup {g}
        /\ \/ Audience(channels', ch) = Audience(channels, ch)
           \/ Audience(channels', ch) = Audience(channels, ch) \cup {c}
    <3>1. {o \in {c} : Open(o)} = {} \/ {o \in {c} : Open(o)} = {c}
      OBVIOUS
    <3>. QED
      BY <1>1, <1>4, <3>1 DEF Joins
  <2>2. CASE told' = told /\ g \in Groups(channels, k)
    <3>1. Groups(channels', ch) = Groups(channels, ch)
      BY <1>4, <2>1, <2>2
    <3>2. \A o \in Conns : told'[o][ch] = told[o][ch]
      BY <2>2
    <3>. QED
      BY <1>2, <2>1, <3>1, <3>2, Mapped, StutterStep, AttachStep
  <2>3. CASE told' = Announce(channels', {<<k, g>>}, "on")
    <3>1. \A h \in Aliases : <<ch, h>> \in {<<k, g>>} <=> h = g
      BY <1>4
    <3>2. \A o \in Conns : told'[o][ch] = IF o \in Audience(channels', ch)
                                          THEN [told[o][ch] EXCEPT ![g] = "on"]
                                          ELSE NothingTold
      BY <1>a, <2>3, <3>1, OneNews
    <3>3. \A o \in Conns : o \notin Audience(channels', ch) => told[o][ch] = NothingTold
      BY <2>1 DEF Unheard
    <3>. QED
      BY <1>2, <2>1, <3>2, <3>3, Mapped, ArriveStep
  <2>. QED
    BY <1>1, <2>2, <2>3 DEF Joins
<1>. QED
  BY <1>3, <1>4

LEMMA AnnouncesLeave ==
    ASSUME Inv, Unheard, HandleLeave \/ HandleLeaveAll, NEW ch \in Channels
    PROVE  AnnouncerStep(ch)
<1>a. TypeInv /\ HubStep /\ channels \subseteq Membership
  BY DEF Inv, HubStep, TypeInv, TypeOK
<1>1. PICK c \in Conns, L \in SUBSET Membership : Leaves(c, L)
  BY LeaveSum
<1>2. Audience(channels, ch)' = Audience(channels', ch)
  BY <1>a, HubAudience
<1>3. Audience(channels', ch) \in {Audience(channels, ch), Audience(channels, ch) \ {c}}
  BY <1>1 DEF Leaves
<1>4. \A o \in Conns : /\ o \notin Audience(channels', ch) => told'[o][ch] = NothingTold
                       /\ o \notin Audience(channels, ch) => told[o][ch] = NothingTold
  BY <1>a, <1>1, LeaveTold DEF Unheard
<1>5. CASE Groups(channels', ch) = Groups(channels, ch)
  <2>1. \A o \in Conns : o \in Audience(channels', ch) => told'[o][ch] = told[o][ch]
    BY <1>a, <1>1, <1>5, LeaveTold
  <2>2. CASE Audience(channels', ch) = Audience(channels, ch)
    <3>1. \A o \in Conns : told'[o][ch] = told[o][ch]
      BY <1>4, <2>1, <2>2
    <3>. QED
      BY <1>2, <1>5, <2>2, <3>1, Mapped, StutterStep
  <2>3. CASE Audience(channels', ch) = Audience(channels, ch) \ {c}
    <3>1. \A o \in Conns : told'[o][ch] = IF o = c THEN NothingTold ELSE told[o][ch]
      BY <1>4, <2>1, <2>3
    <3>. QED
      BY <1>2, <1>5, <2>3, <3>1, Mapped, DetachStep
  <2>. QED
    BY <1>3, <2>2, <2>3
<1>6. ASSUME NEW g \in Groups(channels, ch) \ Groups(channels', ch)
      PROVE  AnnouncerStep(ch)
  <2>1. g \in Aliases /\ Groups(channels', ch) = Groups(channels, ch) \ {g}
    BY <1>a, <1>1, LeaveTold
  <2>2. \A o \in Conns : o \in Audience(channels', ch) =>
           told'[o][ch] = [told[o][ch] EXCEPT ![g] = "off"]
    BY <1>a, <1>1, LeaveTold
  <2>. QED
    BY <1>2, <1>3, <1>4, <2>1, <2>2, Mapped, DepartStep
<1>7. Groups(channels', ch) \subseteq Groups(channels, ch)
  BY <1>1, OneGroupLost
<1>. QED
  BY <1>5, <1>6, <1>7

LEMMA AnnouncesStep ==
    Inv /\ Unheard /\ [Next]_vars => [\A ch \in Channels : A(ch)!Next \/ UNCHANGED A(ch)!vars]_vars
<1>. SUFFICES ASSUME Inv, Unheard, Next, NEW ch \in Channels PROVE AnnouncerStep(ch)
  BY DEF AnnouncerStep
<1>a. TypeInv /\ told \in [Conns -> [Channels -> [Aliases -> News]]]
  BY DEF Inv, TypeInv, TypeOK
<1>1. ASSUME NEW c \in Conns, ConnStep(c)
      PROVE  AnnouncerStep(ch)
  <2>1. CASE Stop(c)
    <3>1. /\ channels' = channels
          /\ Audience(channels, ch)' = Audience(channels, ch) \ {c}
          /\ told' = [told EXCEPT ![c] = [k \in Channels |-> NothingTold]]
      BY <2>1, StopSum
    <3>2. \A o \in Conns : told'[o][ch] = IF o = c THEN NothingTold ELSE told[o][ch]
      BY <1>a, <3>1
    <3>. QED
      BY <3>1, <3>2, Mapped, DetachStep
  <2>2. CASE ~Stop(c)
    <3>1. /\ channels' = channels /\ told' = told
          /\ Audience(channels, ch)' = Audience(channels, ch)
      BY <1>1, <2>2, QuietSum
    <3>. QED
      BY <3>1, Mapped, StutterStep
  <2>. QED
    BY <2>1, <2>2
<1>2. CASE HandleJoin
  BY <1>2, AnnouncesJoin
<1>3. CASE HandleLeave \/ HandleLeaveAll
  BY <1>3, AnnouncesLeave
<1>4. CASE HandleMessage
  <2>1. /\ told' = told /\ Audience(channels', ch) = Audience(channels, ch)
        /\ Groups(channels', ch) \subseteq Groups(channels, ch)
    BY <1>4, MessageSum
  <2>2. Audience(channels, ch)' = Audience(channels', ch)
    BY <1>a, <1>4, HubAudience DEF HubStep
  <2>. QED
    BY <2>1, <2>2, Mapped, VanishStep
<1>. QED
  BY <1>1, <1>2, <1>3, <1>4 DEF Next, HubStep

(***************************************************************************)
(* The hub implements one Announcer per channel: with any cap, any late    *)
(* join and any leave, each arrival and departure of a group reaches every *)
(* open member in the step that makes it, the chat prune's silent losses   *)
(* excepted.                                                               *)
(***************************************************************************)
THEOREM Refinement == Spec => Announces
<1>1. Init => \A ch \in Channels : A(ch)!Init
  BY AnnouncesInit
<1>2. Inv /\ Unheard /\ [Next]_vars =>
        [\A ch \in Channels : A(ch)!Next \/ UNCHANGED A(ch)!vars]_vars
  BY AnnouncesStep
<1>. QED
  BY <1>1, <1>2, NewsInvariance, PTL DEF Spec, Announces

=============================================================================
