----------------------------- MODULE PresenceHub -----------------------------
(***************************************************************************)
(* The PresenceHub actor (src/sockets/presence.rs) and the connections     *)
(* that talk to it: which aliases are connected, and who is told.          *)
(*                                                                         *)
(* Connections run on many worker threads and only do_send to the hub, so  *)
(* their messages meet in one unbounded FIFO mailbox, which the hub's      *)
(* single thread empties one handler at a time.  A change the hub fans out *)
(* goes to the mailbox of a connection, in order; told is written when the *)
(* hub sends, and only for a connection that is still open, because a      *)
(* stopping one processes nothing more.                                    *)
(***************************************************************************)
EXTENDS WsConn

CONSTANTS
    MaxConnsPerAlias,   \* MAX_CONNS_PER_ALIAS, 256 in the code
    MaxMailbox          \* bound of the model: no identify beyond this backlog

ASSUME PresenceAssumption ==
    /\ MaxConnsPerAlias \in Nat
    /\ MaxMailbox \in Nat

VARIABLES
    mailbox,    \* the hub's mailbox
    conns,      \* PresenceHub.conns, as a set of [alias, conn]: the code keeps
                \* no empty per-alias map
    told        \* per connection, the last presence sent to it for each alias

hubVars == <<mailbox, conns, told>>
vars == <<connVars, hubVars>>

Entry == [alias : Aliases, conn : Conns]
Message == [type : {"JoinPresence", "LeavePresence"}, alias : Aliases, conn : Conns]
News == {"unheard", "on", "off"}

TypeOK ==
    /\ ConnTypeOK
    /\ mailbox \in Seq(Message)
    /\ conns \subseteq Entry
    /\ told \in [Conns -> [Aliases -> News]]

NothingTold == [a \in Aliases |-> "unheard"]

Init ==
    /\ ConnInit
    /\ mailbox = <<>>
    /\ conns = {}
    /\ told = [c \in Conns |-> NothingTold]

-----------------------------------------------------------------------------
(***************************************************************************)
(* The connections' side.                                                  *)
(***************************************************************************)
JoinPresence(c) == [type |-> "JoinPresence", alias |-> alias[c], conn |-> c]
LeavePresence(c) == [type |-> "LeavePresence", alias |-> alias[c], conn |-> c]

Connect(c, a, p) ==
    /\ Started(c, a, p)
    /\ UNCHANGED hubVars

Identify(c, claim) ==
    /\ Len(mailbox) < MaxMailbox
    /\ PlayersIdentify(c, claim)
    /\ mailbox' = Append(mailbox, JoinPresence(c))
    /\ UNCHANGED <<conns, told>>

\* Mutation of Stop: the leave is forgotten.
StopWithoutLeave(c) ==
    /\ Stopping(c)
    /\ told' = [told EXCEPT ![c] = NothingTold]
    /\ UNCHANGED <<mailbox, conns>>

Stop(c) ==
    /\ Stopping(c)
    /\ mailbox' = IF LeavesHubs(c) THEN Append(mailbox, LeavePresence(c)) ELSE mailbox
    /\ told' = [told EXCEPT ![c] = NothingTold]
    /\ UNCHANGED conns

Drop(c) ==
    /\ Dropped(c)
    /\ UNCHANGED hubVars

-----------------------------------------------------------------------------
(***************************************************************************)
(* The hub's side.                                                         *)
(***************************************************************************)
ConnsOf(reg, a) == {e \in reg : e.alias = a}

\* The open connections a fan-out over the registry reg reaches.
Audience(reg) == {o \in Conns : Open(o) /\ \E e \in reg : e.conn = o}

\* Mutation of Broadcast: only the alias's own connections are told.
BroadcastToOwnAlias(reg, a, news) ==
    [o \in Conns |-> IF \E e \in ConnsOf(reg, a) : e.conn = o /\ Open(o)
                     THEN [told[o] EXCEPT ![a] = news] ELSE told[o]]

\* broadcast(): every registered connection, whatever its alias.
Broadcast(reg, a, news) ==
    [o \in Conns |-> IF o \in Audience(reg) THEN [told[o] EXCEPT ![a] = news]
                                            ELSE told[o]]

\* Mutation of PruneDead: the whole alias entry is dropped.
PruneAll(reg, a) == reg \ ConnsOf(reg, a)

PruneDead(reg, a) == {e \in reg : e.alias = a => Connected(e.conn)}

\* Mutation of AtCap: off by one.
AboveCap(reg, a) == Cardinality(ConnsOf(reg, a)) > MaxConnsPerAlias

AtCap(reg, a) == Cardinality(ConnsOf(reg, a)) >= MaxConnsPerAlias

\* The registry a join finds once the cap check has had its say.
Admitted(reg, a) == IF AtCap(reg, a) THEN PruneDead(reg, a) ELSE reg

(***************************************************************************)
(* Handler<JoinPresence>: prune at the cap, decide whether the alias was   *)
(* offline after the prune, register, announce.                            *)
(***************************************************************************)
HandleJoin ==
    /\ mailbox # <<>>
    /\ LET m == Head(mailbox)
           reg == Admitted(conns, m.alias)
       IN  /\ m.type = "JoinPresence"
           /\ conns' = reg \cup {[alias |-> m.alias, conn |-> m.conn]}
           /\ told' = IF ConnsOf(reg, m.alias) = {}
                      THEN Broadcast(conns', m.alias, "on")
                      ELSE told
    /\ mailbox' = Tail(mailbox)
    /\ UNCHANGED connVars

\* Mutations of WentOffline: every leave announces; emptiness is tested before
\* the connection is removed.
AnyLeave(reg, m) == ConnsOf(reg, m.alias) # {}
EmptyBeforeRemove(reg, m) == ConnsOf(reg, m.alias) = {}

\* A leave takes the alias offline: it had an entry and keeps no connection.
WentOffline(reg, m) ==
    /\ ConnsOf(reg, m.alias) # {}
    /\ ConnsOf(reg, m.alias) \subseteq {[alias |-> m.alias, conn |-> m.conn]}

\* Mutation of HandleLeave: returns early while the alias has other connections.
HandleLeaveOfLast ==
    /\ mailbox # <<>>
    /\ LET m == Head(mailbox)
       IN  /\ m.type = "LeavePresence"
           /\ conns' = IF WentOffline(conns, m)
                       THEN conns \ {[alias |-> m.alias, conn |-> m.conn]} ELSE conns
           /\ told' = IF WentOffline(conns, m)
                      THEN Broadcast(conns', m.alias, "off") ELSE told
    /\ mailbox' = Tail(mailbox)
    /\ UNCHANGED connVars

(***************************************************************************)
(* Handler<LeavePresence>: unregister, announce when it was the last one.  *)
(***************************************************************************)
HandleLeave ==
    /\ mailbox # <<>>
    /\ LET m == Head(mailbox)
       IN  /\ m.type = "LeavePresence"
           /\ conns' = conns \ {[alias |-> m.alias, conn |-> m.conn]}
           /\ told' = IF WentOffline(conns, m)
                      THEN Broadcast(conns', m.alias, "off")
                      ELSE told
    /\ mailbox' = Tail(mailbox)
    /\ UNCHANGED connVars

-----------------------------------------------------------------------------
ConnStep(c) ==
    \/ \E a \in Aliases \cup {NoAlias} : \E p \in ResolvedParents(a) : Connect(c, a, p)
    \/ \E claim \in Aliases : Identify(c, claim)
    \/ Stop(c)
    \/ Drop(c)

HubStep == HandleJoin \/ HandleLeave

Next == HubStep \/ \E c \in Conns : ConnStep(c)

Spec == Init /\ [][Next]_vars

(***************************************************************************)
(* The hub's arbiter keeps polling its mailbox, and a connection whose     *)
(* stopping() has returned is dropped.  Clients owe nothing: no fairness   *)
(* for their frames, nor for closing.                                      *)
(***************************************************************************)
Fairness == WF_vars(HubStep) /\ \A c \in Conns : WF_vars(Drop(c))

FairSpec == Spec /\ Fairness

-----------------------------------------------------------------------------
(***************************************************************************)
(* Properties.                                                             *)
(***************************************************************************)
Queued(m) == \E i \in 1..Len(mailbox) : mailbox[i] = m

Registered(c) == [alias |-> alias[c], conn |-> c] \in conns

(***************************************************************************)
(* The registry cannot leak: an entry whose connection is gone always has  *)
(* its leave still waiting in the mailbox, even when the join was handled  *)
(* after the connection had stopped.  This is what stopping() (ws.rs) owes *)
(* the hub; MAX_CONNS_PER_ALIAS guards against its failure.                *)
(***************************************************************************)
NoLeakedEntry ==
    \A e \in conns : Gone(e.conn) => Queued(LeavePresence(e.conn))

(***************************************************************************)
(* An open, identified connection is registered, or its join is still      *)
(* queued: neither another connection's leave nor the prune at the cap     *)
(* ever takes it out.                                                      *)
(***************************************************************************)
LiveStaysRegistered ==
    \A c \in Conns : Open(c) /\ identified[c] =>
        Registered(c) \/ Queued(JoinPresence(c))

(***************************************************************************)
(* What a registered, open connection was last told of an alias is what    *)
(* the registry holds: nobody believes in an alias that has no entry, or   *)
(* takes one for offline that has.                                         *)
(***************************************************************************)
ToldIsTrue ==
    \A o \in Audience(conns), a \in Aliases :
        /\ told[o][a] = "on" => ConnsOf(conns, a) # {}
        /\ told[o][a] = "off" => ConnsOf(conns, a) = {}

(***************************************************************************)
(* No flapping: while one connection of an alias stays open and            *)
(* registered, other connections of the alias coming and going announce    *)
(* nothing to anyone.                                                      *)
(***************************************************************************)
NoFlap ==
    [][\A c, o \in Conns :
          Open(c) /\ Registered(c) /\ Open(c)' /\ Registered(c)' /\ Open(o)'
            => told'[o][alias[c]] = told[o][alias[c]]]_vars

(***************************************************************************)
(* The cap bounds what dead connections can add: an alias grows beyond     *)
(* MAX_CONNS_PER_ALIAS only by a join, and whatever it then holds besides  *)
(* the joining connection is connected.                                    *)
(***************************************************************************)
GrowthBeyondCapIsLive ==
    [][\A a \in Aliases :
          (/\ Cardinality(ConnsOf(conns', a)) > MaxConnsPerAlias
           /\ ConnsOf(conns', a) \ ConnsOf(conns, a) # {})
          => \A e \in ConnsOf(conns', a) \cap ConnsOf(conns, a) : Connected(e.conn)]_vars

(***************************************************************************)
(* A connection that is gone ends up unregistered, and stays so.           *)
(***************************************************************************)
GoneIsForgotten ==
    \A c \in Conns : Gone(c) ~> [](\A e \in conns : e.conn # c)

(***************************************************************************)
(* Offline news arrives: a listener that was told an alias is online,      *)
(* while no connection of it is left, is told otherwise, unless the alias  *)
(* comes back or the listener goes.                                        *)
(***************************************************************************)
LiveConnOf(a) == \E c \in Conns : Open(c) /\ identified[c] /\ alias[c] = a

OfflineIsTold ==
    \A o \in Conns, a \in Aliases :
        (Open(o) /\ told[o][a] = "on" /\ ~LiveConnOf(a))
            ~> (told[o][a] # "on" \/ LiveConnOf(a) \/ ~Open(o))

(***************************************************************************)
(* The hub implements Announcer without silent losses: every appearance    *)
(* and disappearance of an alias reaches every open registered connection  *)
(* in the step that makes it.                                              *)
(***************************************************************************)
Present == {a \in Aliases : ConnsOf(conns, a) # {}}

A == INSTANCE Announcer WITH
        Listeners <- Conns, Subjects <- Aliases, Silent <- FALSE,
        present <- Present, listening <- Audience(conns), view <- told

Announces == A!Spec

=============================================================================
