------------------------------ MODULE ChannelHub ------------------------------
(***************************************************************************)
(* The ChannelHub actor (src/sockets/channels.rs) and the connections that *)
(* talk to it: channel membership, its announcements, and chat.            *)
(*                                                                         *)
(* A participant of a channel is a group: an alias's parent account when   *)
(* the upgrade resolved one, the alias itself otherwise.  As in            *)
(* PresenceHub, connections only append to the hub's FIFO mailbox and the  *)
(* hub runs one whole handler at a time; told and chat record what the hub *)
(* sends to the connections that can still process it.                     *)
(***************************************************************************)
EXTENDS WsConn

CONSTANTS
    Channels,           \* channel ids
    MaxConnsPerMember,  \* MAX_CONNS_PER_MEMBER, 256 in the code
    MaxMailbox,         \* bound of the model: no frame is sent beyond this backlog
    NoChat              \* no chat message went out in the last step

ASSUME ChannelAssumption ==
    /\ MaxConnsPerMember \in Nat
    /\ MaxMailbox \in Nat

VARIABLES
    mailbox,    \* the hub's mailbox
    channels,   \* ChannelHub.channels, as the set of its leaves; the code keeps
                \* no empty inner map
    connIndex,  \* ChannelHub.conn_channels, the reverse index, as a set of the
                \* same leaves
    wanted,     \* history: channels each open connection last asked to be in
    told,       \* history: per connection, channel and group, the last change
                \* sent to it since it was registered there
    chat        \* history: the message fanned out by the last step, with its
                \* sender and receivers, or NoChat

hubVars == <<mailbox, channels, connIndex, wanted, told, chat>>
vars == <<connVars, hubVars>>

Membership == [channel : Channels, group : Aliases, alias : Aliases, conn : Conns]
Message ==
    [type : {"JoinChannel", "LeaveChannel"}, channel : Channels, alias : Aliases,
     parent : Aliases \cup {NoParent}, conn : Conns]
    \cup [type : {"ChannelMessage"}, channel : Channels, alias : Aliases,
          group : Aliases, conn : Conns]
    \cup [type : {"LeaveAllChannels"}, conn : Conns]
News == {"unheard", "on", "off"}
Chat == [channel : Channels, to : SUBSET Conns]

TypeOK ==
    /\ ConnTypeOK
    /\ mailbox \in Seq(Message)
    /\ channels \subseteq Membership
    /\ connIndex \subseteq Membership
    /\ wanted \in [Conns -> SUBSET Channels]
    /\ told \in [Conns -> [Channels -> [Aliases -> News]]]
    /\ chat \in Chat \cup {NoChat}

NothingTold == [g \in Aliases |-> "unheard"]

Init ==
    /\ ConnInit
    /\ mailbox = <<>>
    /\ channels = {}
    /\ connIndex = {}
    /\ wanted = [c \in Conns |-> {}]
    /\ told = [c \in Conns |-> [ch \in Channels |-> NothingTold]]
    /\ chat = NoChat

-----------------------------------------------------------------------------
(***************************************************************************)
(* The connections' side.  A ChannelMessage carries no connection key in   *)
(* the code; conn is recorded here for the properties only.                *)
(***************************************************************************)
JoinChannel(c, ch) ==
    [type |-> "JoinChannel", channel |-> ch, alias |-> alias[c],
     parent |-> parent[c], conn |-> c]

LeaveChannel(c, ch) ==
    [type |-> "LeaveChannel", channel |-> ch, alias |-> alias[c],
     parent |-> parent[c], conn |-> c]

ChannelMessage(c, ch) ==
    [type |-> "ChannelMessage", channel |-> ch, alias |-> alias[c],
     group |-> GroupKey(alias[c], parent[c]), conn |-> c]

LeaveAllChannels(c) == [type |-> "LeaveAllChannels", conn |-> c]

Connect(c, a, p) ==
    /\ Started(c, a, p)
    /\ chat' = NoChat
    /\ UNCHANGED <<mailbox, channels, connIndex, wanted, told>>

Identify(c, claim) ==
    /\ PlayersIdentify(c, claim)
    /\ chat' = NoChat
    /\ UNCHANGED <<mailbox, channels, connIndex, wanted, told>>

\* An accepted channel frame: one message to the hub.
Send(c, m) ==
    /\ MayUseChannels(c)
    /\ Len(mailbox) < MaxMailbox
    /\ mailbox' = Append(mailbox, m)
    /\ chat' = NoChat
    /\ UNCHANGED <<connVars, channels, connIndex, told>>

ChannelsJoin(c, ch) ==
    /\ Send(c, JoinChannel(c, ch))
    /\ wanted' = [wanted EXCEPT ![c] = @ \cup {ch}]

ChannelsLeave(c, ch) ==
    /\ Send(c, LeaveChannel(c, ch))
    /\ wanted' = [wanted EXCEPT ![c] = @ \ {ch}]

ChannelsMessage(c, ch) ==
    /\ Send(c, ChannelMessage(c, ch))
    /\ UNCHANGED wanted

Stop(c) ==
    /\ Stopping(c)
    /\ mailbox' = IF LeavesHubs(c) THEN Append(mailbox, LeaveAllChannels(c)) ELSE mailbox
    /\ wanted' = [wanted EXCEPT ![c] = {}]
    /\ told' = [told EXCEPT ![c] = [ch \in Channels |-> NothingTold]]
    /\ chat' = NoChat
    /\ UNCHANGED <<channels, connIndex>>

Drop(c) ==
    /\ Dropped(c)
    /\ chat' = NoChat
    /\ UNCHANGED <<mailbox, channels, connIndex, wanted, told>>

-----------------------------------------------------------------------------
(***************************************************************************)
(* The hub's registry.                                                     *)
(***************************************************************************)
In(reg, ch) == {e \in reg : e.channel = ch}

InGroup(reg, ch, g) == {e \in reg : e.channel = ch /\ e.group = g}

Groups(reg, ch) == {e.group : e \in In(reg, ch)}

\* The leaf a join or a leave is about.
Leaf(m) == [channel |-> m.channel, group |-> GroupKey(m.alias, m.parent),
            alias |-> m.alias, conn |-> m.conn]

\* The open connections a fan-out to channel ch reaches.
Audience(reg, ch) == {o \in Conns : Open(o) /\ \E e \in In(reg, ch) : e.conn = o}

\* Mutations of Announce: only the group's own connections are told; a change
\* in one channel is told to the members of every channel.
AnnounceToGroup(reg, G, news) ==
    [o \in Conns |-> [ch \in Channels |->
        IF o \notin Audience(reg, ch) THEN NothingTold
        ELSE [g \in Aliases |->
                IF <<ch, g>> \in G /\ GroupKey(alias[o], parent[o]) = g
                THEN news ELSE told[o][ch][g]]]]
AnnounceEverywhere(reg, G, news) ==
    [o \in Conns |-> [ch \in Channels |->
        IF \A k \in Channels : o \notin Audience(reg, k) THEN NothingTold
        ELSE [g \in Aliases |-> IF <<ch, g>> \in G THEN news ELSE told[o][ch][g]]]]

\* broadcast_channel_change for every <<channel, group>> in G; a connection
\* that is in reg no more has nothing to keep about the channel.
Announce(reg, G, news) ==
    [o \in Conns |-> [ch \in Channels |->
        IF o \notin Audience(reg, ch) THEN NothingTold
        ELSE [g \in Aliases |-> IF <<ch, g>> \in G THEN news ELSE told[o][ch][g]]]]

\* Mutation of PruneDead: the whole group is dropped.
PruneGroup(reg, ch, g) == reg \ InGroup(reg, ch, g)

PruneDead(reg, ch, g) ==
    {e \in reg : e.channel = ch /\ e.group = g => Connected(e.conn)}

AtCap(reg, ch, g) == Cardinality(InGroup(reg, ch, g)) >= MaxConnsPerMember

\* The registry a join finds once the cap check has had its say.
Admitted(reg, ch, g) == IF AtCap(reg, ch, g) THEN PruneDead(reg, ch, g) ELSE reg

\* Mutation of WasAbsent: asked of the alias instead of its group.
AliasWasAbsent(reg, leaf) ==
    {e \in InGroup(reg, leaf.channel, leaf.group) : e.alias = leaf.alias} = {}

WasAbsent(reg, leaf) == InGroup(reg, leaf.channel, leaf.group) = {}

\* Mutation of HandleJoin: the reverse index is forgotten.
JoinWithoutIndex ==
    /\ mailbox # <<>>
    /\ LET m == Head(mailbox)
           leaf == Leaf(m)
           reg == Admitted(channels, leaf.channel, leaf.group)
       IN  /\ m.type = "JoinChannel"
           /\ channels' = reg \cup {leaf}
           /\ told' = IF WasAbsent(reg, leaf)
                      THEN Announce(channels', {<<leaf.channel, leaf.group>>}, "on")
                      ELSE told
    /\ mailbox' = Tail(mailbox)
    /\ chat' = NoChat
    /\ UNCHANGED <<connVars, connIndex, wanted>>

(***************************************************************************)
(* Handler<JoinChannel>: prune at the cap, decide whether the group was    *)
(* absent, register in both maps, announce the first connection.           *)
(***************************************************************************)
HandleJoin ==
    /\ mailbox # <<>>
    /\ LET m == Head(mailbox)
           leaf == Leaf(m)
           reg == Admitted(channels, leaf.channel, leaf.group)
       IN  /\ m.type = "JoinChannel"
           /\ channels' = reg \cup {leaf}
           /\ connIndex' = connIndex \cup {leaf}
           /\ told' = IF WasAbsent(reg, leaf)
                      THEN Announce(channels', {<<leaf.channel, leaf.group>>}, "on")
                      ELSE told
    /\ mailbox' = Tail(mailbox)
    /\ chat' = NoChat
    /\ UNCHANGED <<connVars, wanted>>

\* Mutation of Emptied: only the last group of a channel counts.
EmptiedChannel(reg, L) ==
    {<<e.channel, e.group>> : e \in
        {l \in L : In(reg, l.channel) # {} /\ In(reg, l.channel) \subseteq L}}

\* remove_conn of each leaf in L: the <<channel, group>>s left without a
\* connection, which are the ones whose player-left goes out.
Emptied(reg, L) ==
    {<<e.channel, e.group>> : e \in
        {l \in L : InGroup(reg, l.channel, l.group) # {}
                   /\ InGroup(reg, l.channel, l.group) \subseteq L}}

\* forget_conn: one membership less in the reverse index.
ForgetConn(index, leaf) == index \ {leaf}

\* Mutation of HandleLeave: forget_conn is forgotten.
LeaveKeepsIndex ==
    /\ mailbox # <<>>
    /\ LET m == Head(mailbox)
           leaf == Leaf(m)
       IN  /\ m.type = "LeaveChannel"
           /\ channels' = channels \ {leaf}
           /\ told' = Announce(channels', Emptied(channels, {leaf}), "off")
    /\ mailbox' = Tail(mailbox)
    /\ chat' = NoChat
    /\ UNCHANGED <<connVars, connIndex, wanted>>

(***************************************************************************)
(* Handler<LeaveChannel>: one leaf out of both maps.                       *)
(***************************************************************************)
HandleLeave ==
    /\ mailbox # <<>>
    /\ LET m == Head(mailbox)
           leaf == Leaf(m)
       IN  /\ m.type = "LeaveChannel"
           /\ channels' = channels \ {leaf}
           /\ connIndex' = ForgetConn(connIndex, leaf)
           /\ told' = Announce(channels', Emptied(channels, {leaf}), "off")
    /\ mailbox' = Tail(mailbox)
    /\ chat' = NoChat
    /\ UNCHANGED <<connVars, wanted>>

\* Mutation of HandleLeaveAll: the loop stops after one membership.
LeaveAllFirst ==
    /\ mailbox # <<>>
    /\ LET m == Head(mailbox)
           leaves == {e \in connIndex : e.conn = m.conn}
           first == IF leaves = {} THEN {} ELSE {CHOOSE e \in leaves : TRUE}
       IN  /\ m.type = "LeaveAllChannels"
           /\ channels' = channels \ first
           /\ connIndex' = connIndex \ leaves
           /\ told' = Announce(channels', Emptied(channels, first), "off")
    /\ mailbox' = Tail(mailbox)
    /\ chat' = NoChat
    /\ UNCHANGED <<connVars, wanted>>

(***************************************************************************)
(* Handler<LeaveAllChannels>: every leaf the index holds for the           *)
(* connection; each channel's player-left goes to that channel only, so    *)
(* the order in which the loop visits them does not show.                  *)
(***************************************************************************)
HandleLeaveAll ==
    /\ mailbox # <<>>
    /\ LET m == Head(mailbox)
           leaves == {e \in connIndex : e.conn = m.conn}
       IN  /\ m.type = "LeaveAllChannels"
           /\ channels' = channels \ leaves
           /\ connIndex' = connIndex \ leaves
           /\ told' = Announce(channels', Emptied(channels, leaves), "off")
    /\ mailbox' = Tail(mailbox)
    /\ chat' = NoChat
    /\ UNCHANGED <<connVars, wanted>>

\* The prune at the head of Handler<ChannelMessage>: every group of the channel.
PruneChannel(reg, ch) == {e \in reg : e.channel = ch => Connected(e.conn)}

\* Mutation of Recipients: chat stays within the sender's group.
GroupRecipients(reg, m) ==
    {o \in Audience(reg, m.channel) : GroupKey(alias[o], parent[o]) = m.group}

\* broadcast_channel_message: every member of the channel.
Recipients(reg, m) == Audience(reg, m.channel)

(***************************************************************************)
(* Handler<ChannelMessage>: drop the channel's dead recipients without a   *)
(* word, then fan the message out if the sender's group is a participant.  *)
(***************************************************************************)
HandleMessage ==
    /\ mailbox # <<>>
    /\ LET m == Head(mailbox)
       IN  /\ m.type = "ChannelMessage"
           /\ channels' = PruneChannel(channels, m.channel)
           /\ chat' = IF m.group \in Groups(channels', m.channel)
                      THEN [channel |-> m.channel, to |-> Recipients(channels', m)]
                      ELSE NoChat
    /\ mailbox' = Tail(mailbox)
    /\ UNCHANGED <<connVars, connIndex, wanted, told>>

-----------------------------------------------------------------------------
ConnStep(c) ==
    \/ \E a \in Aliases \cup {NoAlias} : \E p \in ResolvedParents(a) : Connect(c, a, p)
    \/ \E claim \in Aliases : Identify(c, claim)
    \/ \E ch \in Channels :
         ChannelsJoin(c, ch) \/ ChannelsLeave(c, ch) \/ ChannelsMessage(c, ch)
    \/ Stop(c)
    \/ Drop(c)

HubStep == HandleJoin \/ HandleLeave \/ HandleLeaveAll \/ HandleMessage

Next == HubStep \/ \E c \in Conns : ConnStep(c)

Spec == Init /\ [][Next]_vars

(***************************************************************************)
(* The hub's arbiter keeps polling its mailbox, and a connection whose     *)
(* stopping() has returned is dropped.  Clients owe nothing.               *)
(***************************************************************************)
Fairness == WF_vars(HubStep) /\ \A c \in Conns : WF_vars(Drop(c))

FairSpec == Spec /\ Fairness

-----------------------------------------------------------------------------
(***************************************************************************)
(* Properties.                                                             *)
(***************************************************************************)
Queued(m) == \E i \in 1..Len(mailbox) : mailbox[i] = m

LeafOf(c, ch) == Leaf(JoinChannel(c, ch))

(***************************************************************************)
(* The reverse index covers the registry, so LeaveAllChannels misses       *)
(* nothing; what it holds beyond the registry was pruned, and belongs to   *)
(* connections that are stopped.                                           *)
(***************************************************************************)
IndexCoversRegistry ==
    /\ channels \subseteq connIndex
    /\ \A e \in connIndex \ channels : ~Connected(e.conn)

(***************************************************************************)
(* Neither map can leak: a leaf whose connection is gone has that          *)
(* connection's LeaveAllChannels still waiting in the mailbox, even when   *)
(* its join was handled after it had stopped.                              *)
(***************************************************************************)
NoLeakedMembership ==
    \A e \in channels \cup connIndex :
        Gone(e.conn) => Queued(LeaveAllChannels(e.conn))

(***************************************************************************)
(* The hub does what each open connection asked: once its queued requests  *)
(* for a channel are counted in, the connection is a member exactly when   *)
(* its last request was a join.  No prune, no request of another           *)
(* connection of its group and no LeaveAllChannels disturbs that.          *)
(***************************************************************************)
Requests(c, ch) ==
    {i \in 1..Len(mailbox) : mailbox[i] \in {JoinChannel(c, ch), LeaveChannel(c, ch)}}

Outcome(c, ch) ==
    \/ /\ Requests(c, ch) = {}
       /\ LeafOf(c, ch) \in channels
    \/ \E i \in Requests(c, ch) :
         /\ \A j \in Requests(c, ch) : j <= i
         /\ mailbox[i] = JoinChannel(c, ch)

IntentHonoured ==
    \A c \in Conns, ch \in Channels : Open(c) => (Outcome(c, ch) <=> ch \in wanted[c])

(***************************************************************************)
(* A chat message goes to the open connections that are in the channel by  *)
(* their own account: to all whose last handled request was a join, and to *)
(* nobody who never asked or whose leave was handled.                      *)
(***************************************************************************)
ChatAudienceExact ==
    chat # NoChat =>
        \A o \in Conns :
            Open(o) /\ Requests(o, chat.channel) = {} =>
                (o \in chat.to <=> chat.channel \in wanted[o])

(***************************************************************************)
(* While a connection of a group stays open and a member, the comings and  *)
(* goings of the group's other connections, the parent's or a              *)
(* subaccount's, are announced to nobody.                                  *)
(***************************************************************************)
QuietWhileGroupStays ==
    [][\A ch \in Channels : \A e \in In(channels, ch) \cap In(channels', ch) :
          Open(e.conn) /\ Open(e.conn)' =>
            \A o \in Audience(channels, ch) :
                o \in Audience(channels, ch)' =>
                    told'[o][ch][e.group] = told[o][ch][e.group]]_vars

(***************************************************************************)
(* The only way a group leaves a channel unannounced is the prune of a     *)
(* chat message, and then every connection of the group is stopped.        *)
(***************************************************************************)
SilentLossIsPrunedByChat ==
    [][\A ch \in Channels : \A g \in Groups(channels, ch) \ Groups(channels', ch) :
          (\E o \in Audience(channels, ch)' : told'[o][ch][g] # "off") =>
              /\ Head(mailbox).type = "ChannelMessage"
              /\ \A e \in InGroup(channels, ch, g) : ~Connected(e.conn)]_vars

(***************************************************************************)
(* player-joined and player-left are paired: a member that was told a      *)
(* group joined, and was not told it left, sees a participant.             *)
(* TALO_API.md says player-left is fanned out when a group's last          *)
(* connection leaves; the prune of ChannelMessage loses it.                *)
(***************************************************************************)
NoGhostParticipant ==
    \A ch \in Channels, g \in Aliases : \A o \in Audience(channels, ch) :
        told[o][ch][g] = "on" => g \in Groups(channels, ch)

(***************************************************************************)
(* A connection that is gone ends up in neither map, and stays out.        *)
(***************************************************************************)
GoneIsForgotten ==
    \A c \in Conns : Gone(c) ~> [](\A e \in channels \cup connIndex : e.conn # c)

(***************************************************************************)
(* A request takes effect: an open connection that wants a channel becomes *)
(* a member, one that does not want it is none, unless it asks again or    *)
(* goes.                                                                   *)
(***************************************************************************)
IntentTakesEffect ==
    \A c \in Conns, ch \in Channels :
        /\ (Open(c) /\ ch \in wanted[c])
             ~> (LeafOf(c, ch) \in channels \/ ch \notin wanted[c])
        /\ (Open(c) /\ ch \notin wanted[c])
             ~> (LeafOf(c, ch) \notin channels \/ ch \in wanted[c])

(***************************************************************************)
(* Each channel implements Announcer over participant groups, with the     *)
(* silent losses of the chat prune allowed: \A ch : A(ch)!Spec, written out *)
(* in the form TLC can check.                                              *)
(***************************************************************************)
Present == [ch \in Channels |-> Groups(channels, ch)]
Listening == [ch \in Channels |-> Audience(channels, ch)]

A(ch) == INSTANCE Announcer WITH
            Listeners <- Conns, Subjects <- Aliases, Silent <- TRUE,
            present <- Present[ch], listening <- Listening[ch],
            view <- [o \in Conns |-> told[o][ch]]

Announces ==
    /\ \A ch \in Channels : A(ch)!Init
    /\ [][\A ch \in Channels : A(ch)!Next \/ UNCHANGED A(ch)!vars]_vars

=============================================================================
