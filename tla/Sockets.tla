------------------------------- MODULE Sockets -------------------------------
(***************************************************************************)
(* The socket subsystem as one system: tickets (src/sockets/tickets.rs,    *)
(* src/api/socket_ticket.rs), the upgrade with its parent lookup (ws_index *)
(* in src/sockets/ws.rs, src/sockets/groups.rs), the connections and both  *)
(* hubs.                                                                   *)
(*                                                                         *)
(* PresenceHub and ChannelHub each model one hub and take the rest as      *)
(* atomic.  Here the pieces have the grain of the code: an upgrade         *)
(* verifies its ticket and then waits for the database; stopping() first   *)
(* sends LeavePresence and then LeaveAllChannels, and either hub may run   *)
(* in between; the hubs have a mailbox and a thread each, so nothing       *)
(* orders what one does against what the other does.                       *)
(***************************************************************************)
EXTENDS WsConn

CONSTANTS
    Tickets,                \* ticket UUIDs
    NoTicket,               \* an upgrade without ?ticket=, or with an unknown one
    Channels, NoChat,       \* see ChannelHub
    MaxConnsPerAlias, MaxConnsPerMember,
    MaxPresenceMailbox, MaxChannelMailbox   \* bounds of the model

ASSUME TicketAssumption == NoTicket \notin Tickets

\* What PresenceHub and ChannelHub assume of theirs.
ASSUME HubAssumption ==
    /\ MaxConnsPerAlias \in Nat
    /\ MaxConnsPerMember \in Nat
    /\ MaxPresenceMailbox \in Nat
    /\ MaxChannelMailbox \in Nat

VARIABLES
    tickets,    \* TICKETS: the alias each issued ticket is bound to
    upgrading,  \* connections between verify_ticket and WsConn::started
    ticketOf,   \* history: the ticket a connection came with
    verified,   \* the alias ws_index holds across its await
    leaving,    \* connections between the two sends of leave_presence
    pMailbox, pConns, pTold,
    cMailbox, channels, connIndex, wanted, cTold, chat

upgradeVars == <<tickets, upgrading, ticketOf, verified>>
pVars == <<pMailbox, pConns, pTold>>
cVars == <<cMailbox, channels, connIndex, wanted, cTold, chat>>
vars == <<connVars, upgradeVars, leaving, pVars, cVars>>

\* For the channel hub a connection is open until its second leave is sent.
ChannelPhase == [c \in Conns |-> IF c \in leaving THEN "open" ELSE phase[c]]

P == INSTANCE PresenceHub WITH
        MaxMailbox <- MaxPresenceMailbox,
        mailbox <- pMailbox, conns <- pConns, told <- pTold

C == INSTANCE ChannelHub WITH
        MaxMailbox <- MaxChannelMailbox,
        mailbox <- cMailbox, told <- cTold, phase <- ChannelPhase

TypeOK ==
    /\ ConnTypeOK
    /\ tickets \in [Tickets -> Aliases \cup {NoAlias}]
    /\ upgrading \subseteq Conns
    /\ ticketOf \in [Conns -> Tickets \cup {NoTicket}]
    /\ verified \in [Conns -> Aliases \cup {NoAlias}]
    /\ leaving \subseteq Conns

Init ==
    /\ ConnInit
    /\ tickets = [t \in Tickets |-> NoAlias]
    /\ upgrading = {}
    /\ ticketOf = [c \in Conns |-> NoTicket]
    /\ verified = [c \in Conns |-> NoAlias]
    /\ leaving = {}
    /\ P!Init
    /\ C!Init

-----------------------------------------------------------------------------
\* POST /v1/socket-tickets: the caller names the alias; it is not looked up.
CreateTicket(t, a) ==
    /\ tickets[t] = NoAlias
    /\ tickets' = [tickets EXCEPT ![t] = a]
    /\ UNCHANGED <<connVars, upgrading, ticketOf, verified, leaving, pVars, cVars>>

-----------------------------------------------------------------------------
\* verify_ticket: the bound alias, if there is one; the ticket stays valid.
VerifyTicket(t) == IF t = NoTicket THEN NoAlias ELSE tickets[t]

\* ws_index up to its await.
Upgrade(c, t) ==
    /\ phase[c] = "idle" /\ c \notin upgrading
    /\ upgrading' = upgrading \cup {c}
    /\ ticketOf' = [ticketOf EXCEPT ![c] = t]
    /\ verified' = [verified EXCEPT ![c] = VerifyTicket(t)]
    /\ UNCHANGED <<connVars, tickets, leaving, pVars, cVars>>

\* ws_index after its await, and started().
Upgraded(c) ==
    /\ c \in upgrading
    /\ upgrading' = upgrading \ {c}
    /\ UNCHANGED <<tickets, ticketOf, verified, leaving>>
    /\ \E p \in ResolvedParents(verified[c]) :
         P!Connect(c, verified[c], p) /\ C!Connect(c, verified[c], p)

Identify(c) ==
    /\ UNCHANGED <<upgradeVars, leaving>>
    /\ P!Identify(c, alias[c])
    /\ C!Identify(c, alias[c])

\* Mutation of Gate: channel frames are taken before the client identifies.
GateOpen(c) == Open(c)

\* A channel frame is processed by an open connection that has identified.
Gate(c) == Open(c) /\ identified[c]

\* An accepted channel frame.
ChannelFrame(c) ==
    /\ Gate(c)
    /\ Len(cMailbox) < MaxChannelMailbox
    /\ UNCHANGED <<connVars, upgradeVars, leaving, pVars, channels, connIndex, cTold>>
    /\ chat' = NoChat
    /\ \E ch \in Channels :
         \/ /\ cMailbox' = Append(cMailbox, C!JoinChannel(c, ch))
            /\ wanted' = [wanted EXCEPT ![c] = @ \cup {ch}]
         \/ /\ cMailbox' = Append(cMailbox, C!LeaveChannel(c, ch))
            /\ wanted' = [wanted EXCEPT ![c] = @ \ {ch}]
         \/ /\ cMailbox' = Append(cMailbox, C!ChannelMessage(c, ch))
            /\ UNCHANGED wanted

\* Mutation of LeavePresence: stopping() returns after its first send.
LeaveOnlyPresence(c) ==
    /\ UNCHANGED <<upgradeVars, leaving, cVars>>
    /\ P!Stop(c)

\* Mutation of LeavePresence: the first send is missing.
LeaveSilently(c) ==
    /\ Stopping(c)
    /\ leaving' = leaving \cup {c}
    /\ pTold' = [pTold EXCEPT ![c] = P!NothingTold]
    /\ UNCHANGED <<upgradeVars, cVars, pMailbox, pConns>>

\* stopping(), its first send.
LeavePresence(c) ==
    /\ leaving' = leaving \cup {c}
    /\ UNCHANGED <<upgradeVars, cVars>>
    /\ P!Stop(c)

\* stopping(), its second send.
LeaveAllChannels(c) ==
    /\ c \in leaving
    /\ leaving' = leaving \ {c}
    /\ UNCHANGED <<connVars, upgradeVars, pVars>>
    /\ C!Stop(c)

Drop(c) ==
    /\ c \notin leaving
    /\ UNCHANGED <<upgradeVars, leaving>>
    /\ P!Drop(c)
    /\ C!Drop(c)

PresenceHubStep ==
    /\ UNCHANGED <<upgradeVars, leaving, cVars>>
    /\ P!HubStep

ChannelHubStep ==
    /\ UNCHANGED <<connVars, upgradeVars, leaving, pVars>>
    /\ C!HubStep

Next ==
    \/ PresenceHubStep
    \/ ChannelHubStep
    \/ \E t \in Tickets, a \in Aliases : CreateTicket(t, a)
    \/ \E c \in Conns :
         \/ \E t \in Tickets \cup {NoTicket} : Upgrade(c, t)
         \/ Upgraded(c) \/ Identify(c) \/ ChannelFrame(c)
         \/ LeavePresence(c) \/ LeaveAllChannels(c) \/ Drop(c)

Spec == Init /\ [][Next]_vars

-----------------------------------------------------------------------------
(***************************************************************************)
(* Properties.                                                             *)
(***************************************************************************)

(***************************************************************************)
(* Either hub, seen alone, behaves as its own module says: the grain of    *)
(* the upgrade and of stopping(), and the other hub, add nothing.          *)
(***************************************************************************)
ImplementsPresence == P!Spec
ImplementsChannels == C!Spec

\* The account that a connection's ticket is bound to.
AccountOf(c) == tickets[ticketOf[c]]

\* One account, an account and its subaccount, or two subaccounts of one account.
Related(a, b) ==
    \/ a = b
    \/ ParentOf[a] = b \/ ParentOf[b] = a
    \/ ParentOf[a] = ParentOf[b] /\ ParentOf[a] # NoParent

\* The account at the head of a's family.
HeadOf(a) == IF ParentOf[a] \in Aliases THEN ParentOf[a] ELSE a

\* The connection took its account for one without a parent: the lookup failed.
Degraded(c) == parent[c] # ParentOf[AccountOf(c)]

(***************************************************************************)
(* Who takes part in a channel as whom follows from the tickets alone,     *)
(* whatever a client sends, however often a ticket is used, and whichever  *)
(* lookups fail while an upgrade waits: strangers never share a            *)
(* participant group, and a family is split into several only by a lookup  *)
(* that failed for one of the connections.                                 *)
(***************************************************************************)
GroupsAreFamilies ==
    \A e, f \in channels :
        LET a == AccountOf(e.conn)
            b == AccountOf(f.conn)
        IN  /\ e.group = f.group => Related(a, b)
            /\ HeadOf(a) = HeadOf(b) =>
                 e.group = f.group \/ Degraded(e.conn) \/ Degraded(f.conn)

(***************************************************************************)
(* Across the hubs: an open connection that is a member of a channel is    *)
(* online in presence, or its JoinPresence is still to be handled.         *)
(***************************************************************************)
MemberIsOnline ==
    \A e \in channels : Open(e.conn) =>
        P!Registered(e.conn) \/ P!Queued(P!JoinPresence(e.conn))

(***************************************************************************)
(* A hub that has handled all it was sent holds what is alive and no more: *)
(* presence each open connection that identified, under its ticket's       *)
(* alias; the channel hub each connection that has not left it yet, in     *)
(* the channels it last asked for, in both maps alike.                     *)
(***************************************************************************)
SettledHubsAreExact ==
    /\ pMailbox = <<>> =>
         pConns = {[alias |-> tickets[ticketOf[c]], conn |-> c] :
                       c \in {d \in Conns : Open(d) /\ identified[d]}}
    /\ cMailbox = <<>> =>
         /\ connIndex = channels
         /\ channels = UNION {{C!LeafOf(c, ch) : ch \in wanted[c]} : c \in Conns}

=============================================================================
