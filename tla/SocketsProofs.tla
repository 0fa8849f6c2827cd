---------------------------- MODULE SocketsProofs ----------------------------
(***************************************************************************)
(* Theorems about Sockets, for any connections, accounts, tickets and      *)
(* channels.  An invariant of the upgrade says what a connection between   *)
(* its ticket and its database answer holds; with it every step of the     *)
(* whole maps to a step of either hub or leaves it alone.  What is proved  *)
(* of the hubs alone then holds of both, and their invariants together     *)
(* give the promise across them.                                           *)
(***************************************************************************)
EXTENDS Sockets, WsConnProofs

(***************************************************************************)
(* A connection in its upgrade is not open yet, and an alias it holds is   *)
(* the one its ticket is bound to.                                         *)
(***************************************************************************)
UpgradesSound ==
    \A c \in upgrading :
        /\ phase[c] = "idle"
        /\ verified[c] # NoAlias =>
             ticketOf[c] # NoTicket /\ verified[c] = tickets[ticketOf[c]]

\* Between the two leaves the actor is stopping.
LeavingSound == \A c \in leaving : phase[c] = "stopping"

\* started() lets nobody in without an account.
OpenHasAlias == \A c \in Conns : Open(c) => alias[c] \in Aliases

(***************************************************************************)
(* A connection that took up an account has been started, its account is   *)
(* the one its ticket is bound to, and its parent is that account's, or    *)
(* none when the lookup failed.                                            *)
(***************************************************************************)
IdentitySound ==
    \A c \in Conns : alias[c] # NoAlias =>
        /\ phase[c] # "idle"
        /\ ticketOf[c] # NoTicket /\ alias[c] = tickets[ticketOf[c]]
        /\ parent[c] \in {ParentOf[alias[c]], NoParent}

Inv == TypeOK /\ UpgradesSound /\ LeavingSound /\ OpenHasAlias /\ IdentitySound

-----------------------------------------------------------------------------
(***************************************************************************)
(* Type correctness, and what a ticket says.                               *)
(***************************************************************************)

\* What the steps of Sockets do to a connection's own state.
LEMMA OwnState ==
    /\ \A c, a, p : P!Connect(c, a, p) => Started(c, a, p)
    /\ \A c, claim : P!Identify(c, claim) => PlayersIdentify(c, claim)
    /\ \A c : P!Stop(c) => Stopping(c)
    /\ \A c : P!Drop(c) => Dropped(c)
    /\ P!HubStep => UNCHANGED connVars
<1>1. ASSUME NEW c, NEW a, NEW p, P!Connect(c, a, p) PROVE Started(c, a, p)
  BY <1>1 DEF P!Connect, P!Started, Started
<1>2. ASSUME NEW c, NEW claim, P!Identify(c, claim) PROVE PlayersIdentify(c, claim)
  BY <1>2 DEF P!Identify, P!PlayersIdentify, PlayersIdentify, P!Open, Open
<1>3. ASSUME NEW c, P!Stop(c) PROVE Stopping(c)
  BY <1>3 DEF P!Stop, P!Stopping, Stopping, P!Open, Open
<1>4. ASSUME NEW c, P!Drop(c) PROVE Dropped(c)
  BY <1>4 DEF P!Drop, P!Dropped, Dropped
<1>5. P!HubStep => UNCHANGED connVars
  BY DEF P!HubStep, P!HandleJoin, P!HandleLeave, P!connVars, connVars
<1>. QED
  BY <1>1, <1>2, <1>3, <1>4, <1>5

LEMMA InvInit == Init => Inv
  BY DEF Init, ConnInit, Inv, TypeOK, ConnTypeOK, Phases, UpgradesSound, LeavingSound,
     OpenHasAlias, IdentitySound, Open

LEMMA TypeStep == TypeOK /\ [Next]_vars => TypeOK'
<1>. SUFFICES ASSUME TypeOK, [Next]_vars PROVE TypeOK'
  OBVIOUS
<1>a. ConnTypeOK
  BY DEF TypeOK
<1>1. CASE PresenceHubStep
  BY <1>1, OwnState DEF PresenceHubStep, upgradeVars, connVars, TypeOK, ConnTypeOK
<1>2. CASE ChannelHubStep
  BY <1>2 DEF ChannelHubStep, upgradeVars, connVars, TypeOK, ConnTypeOK
<1>3. ASSUME NEW t \in Tickets, NEW a \in Aliases, CreateTicket(t, a)
      PROVE  TypeOK'
  BY <1>3 DEF CreateTicket, connVars, TypeOK, ConnTypeOK
<1>4. ASSUME NEW c \in Conns, NEW t \in Tickets \cup {NoTicket}, Upgrade(c, t)
      PROVE  TypeOK'
  <2>1. VerifyTicket(t) \in Aliases \cup {NoAlias}
    BY DEF VerifyTicket, TypeOK
  <2>. QED
    BY <1>4, <2>1 DEF Upgrade, connVars, TypeOK, ConnTypeOK
<1>5. ASSUME NEW c \in Conns, Upgraded(c)
      PROVE  TypeOK'
  <2>1. verified[c] \in Aliases \cup {NoAlias}
    BY DEF TypeOK
  <2>2. PICK p \in ResolvedParents(verified[c]) : Started(c, verified[c], p)
    BY <1>5, OwnState DEF Upgraded
  <2>3. ConnTypeOK'
    BY <1>a, <2>1, <2>2, ConnTyped
  <2>. QED
    BY <1>5, <2>3 DEF Upgraded, TypeOK
<1>6. ASSUME NEW c \in Conns, Identify(c)
      PROVE  TypeOK'
  <2>1. PlayersIdentify(c, alias[c])
    BY <1>6, OwnState DEF Identify
  <2>. QED
    BY <1>6, <2>1 DEF Identify, PlayersIdentify, upgradeVars, TypeOK, ConnTypeOK
<1>7. ASSUME NEW c \in Conns, ChannelFrame(c)
      PROVE  TypeOK'
  BY <1>7 DEF ChannelFrame, connVars, upgradeVars, TypeOK, ConnTypeOK
<1>8. ASSUME NEW c \in Conns, LeavePresence(c)
      PROVE  TypeOK'
  <2>1. ConnTypeOK'
    BY <1>a, <1>8, OwnState, ConnTyped DEF LeavePresence
  <2>. QED
    BY <1>8, <2>1 DEF LeavePresence, upgradeVars, TypeOK
<1>9. ASSUME NEW c \in Conns, LeaveAllChannels(c)
      PROVE  TypeOK'
  BY <1>9 DEF LeaveAllChannels, connVars, upgradeVars, TypeOK, ConnTypeOK
<1>10. ASSUME NEW c \in Conns, Drop(c)
       PROVE  TypeOK'
  <2>1. ConnTypeOK'
    BY <1>a, <1>10, OwnState, ConnTyped DEF Drop
  <2>. QED
    BY <1>10, <2>1 DEF Drop, upgradeVars, TypeOK
<1>11. CASE UNCHANGED vars
  BY <1>11 DEF vars, connVars, upgradeVars, TypeOK, ConnTypeOK
<1>. QED
  BY <1>1, <1>2, <1>3, <1>4, <1>5, <1>6, <1>7, <1>8, <1>9, <1>10, <1>11 DEF Next

(***************************************************************************)
(* Every variable of the whole keeps its type.                             *)
(***************************************************************************)
THEOREM TypeInvariance == Spec => []TypeOK
<1>1. Init => TypeOK
  BY InvInit DEF Inv
<1>. QED
  BY <1>1, TypeStep, PTL DEF Spec

\* What a step may leave alone, the invariant keeps.
LEMMA SameSockets ==
    ASSUME Inv, TypeOK', UNCHANGED <<connVars, upgradeVars, leaving>>
    PROVE  Inv'
  BY DEF Inv, connVars, upgradeVars, UpgradesSound, LeavingSound, OpenHasAlias,
     IdentitySound, Open

\* A ticket is bound once, so what was read from it stays true.
LEMMA InvCreateTicket ==
    ASSUME Inv, TypeOK', NEW t \in Tickets, NEW a \in Aliases, CreateTicket(t, a)
    PROVE  Inv'
<1>1. tickets \in [Tickets -> Aliases \cup {NoAlias}] /\ upgrading \subseteq Conns
      /\ ticketOf \in [Conns -> Tickets \cup {NoTicket}]
  BY DEF Inv, TypeOK
<1>2. \A s \in Tickets : tickets[s] # NoAlias => tickets'[s] = tickets[s]
  BY <1>1 DEF CreateTicket
<1>3. UpgradesSound'
  BY <1>1, <1>2 DEF CreateTicket, connVars, Inv, UpgradesSound
<1>4. IdentitySound'
  <2>. SUFFICES ASSUME NEW c \in Conns, alias[c] # NoAlias
                PROVE  alias[c] = tickets'[ticketOf[c]]
    BY DEF CreateTicket, connVars, Inv, IdentitySound
  <2>1. ticketOf[c] \in Tickets /\ alias[c] = tickets[ticketOf[c]]
    BY <1>1 DEF Inv, IdentitySound
  <2>. QED
    BY <1>2, <2>1
<1>. QED
  BY <1>3, <1>4 DEF CreateTicket, connVars, Inv, LeavingSound, OpenHasAlias, Open

LEMMA InvUpgrade ==
    ASSUME Inv, TypeOK', NEW c \in Conns, NEW t \in Tickets \cup {NoTicket}, Upgrade(c, t)
    PROVE  Inv'
<1>1. upgrading \subseteq Conns /\ ticketOf \in [Conns -> Tickets \cup {NoTicket}]
      /\ verified \in [Conns -> Aliases \cup {NoAlias}]
  BY DEF Inv, TypeOK
<1>2. /\ \A d \in Conns \ {c} : ticketOf'[d] = ticketOf[d] /\ verified'[d] = verified[d]
      /\ ticketOf'[c] = t /\ verified'[c] = VerifyTicket(t)
  BY <1>1 DEF Upgrade
<1>3. UpgradesSound'
  BY <1>1, <1>2 DEF Upgrade, VerifyTicket, connVars, Inv, UpgradesSound
<1>4. IdentitySound'
  BY <1>2 DEF Upgrade, connVars, Inv, IdentitySound, Open
<1>. QED
  BY <1>3, <1>4 DEF Upgrade, connVars, Inv, LeavingSound, OpenHasAlias, Open

\* The answer of the database changes nothing about whose ticket it was.
LEMMA InvUpgraded ==
    ASSUME Inv, TypeOK', NEW c \in Conns, Upgraded(c)
    PROVE  Inv'
<1>1. PICK p \in ResolvedParents(verified[c]) : Started(c, verified[c], p)
  BY OwnState DEF Upgraded
<1>2. /\ upgrading \subseteq Conns /\ leaving \subseteq Conns
      /\ verified[c] \in Aliases \cup {NoAlias}
      /\ phase \in [Conns -> Phases] /\ alias \in [Conns -> Aliases \cup {NoAlias}]
      /\ parent \in [Conns -> Aliases \cup {NoParent}]
  BY DEF Inv, TypeOK, ConnTypeOK
<1>3. /\ \A d \in Conns \ {c} :
           phase'[d] = phase[d] /\ alias'[d] = alias[d] /\ parent'[d] = parent[d]
      /\ alias'[c] = verified[c] /\ parent'[c] = p
      /\ phase'[c] = IF verified[c] = NoAlias THEN "stopping" ELSE "open"
      /\ phase[c] = "idle"
  BY <1>1, <1>2 DEF Started
<1>4. UNCHANGED <<tickets, ticketOf, verified, leaving>> /\ c \in upgrading
      /\ upgrading' = upgrading \ {c}
  BY DEF Upgraded
<1>5. UpgradesSound'
  BY <1>2, <1>3, <1>4 DEF Inv, UpgradesSound
<1>6. LeavingSound'
  BY <1>2, <1>3, <1>4 DEF Inv, LeavingSound
<1>7. OpenHasAlias'
  BY <1>2, <1>3 DEF Inv, OpenHasAlias, Open
<1>8. IdentitySound'
  BY <1>1, <1>3, <1>4 DEF Inv, UpgradesSound, IdentitySound, ResolvedParents
<1>. QED
  BY <1>5, <1>6, <1>7, <1>8 DEF Inv

LEMMA InvLeavePresence ==
    ASSUME Inv, TypeOK', NEW c \in Conns, LeavePresence(c)
    PROVE  Inv'
<1>1. Stopping(c)
  BY OwnState DEF LeavePresence
<1>2. phase \in [Conns -> Phases] /\ upgrading \subseteq Conns /\ leaving \subseteq Conns
  BY DEF Inv, TypeOK, ConnTypeOK
<1>3. /\ UNCHANGED <<alias, parent, tickets, ticketOf, verified, upgrading>>
      /\ leaving' = leaving \cup {c}
      /\ phase'[c] = "stopping" /\ phase[c] = "open"
      /\ \A d \in Conns \ {c} : phase'[d] = phase[d]
  BY <1>1, <1>2 DEF LeavePresence, upgradeVars, Stopping, Open
<1>4. UpgradesSound' /\ LeavingSound'
  BY <1>2, <1>3 DEF Inv, UpgradesSound, LeavingSound
<1>. QED
  BY <1>3, <1>4 DEF Inv, OpenHasAlias, IdentitySound, Open

LEMMA InvDrop ==
    ASSUME Inv, TypeOK', NEW c \in Conns, Drop(c)
    PROVE  Inv'
<1>1. Dropped(c)
  BY OwnState DEF Drop
<1>2. phase \in [Conns -> Phases] /\ upgrading \subseteq Conns /\ leaving \subseteq Conns
  BY DEF Inv, TypeOK, ConnTypeOK
<1>3. /\ UNCHANGED <<alias, parent, tickets, ticketOf, verified, upgrading, leaving>>
      /\ c \notin leaving
      /\ phase'[c] = "stopped" /\ phase[c] = "stopping"
      /\ \A d \in Conns \ {c} : phase'[d] = phase[d]
  BY <1>1, <1>2 DEF Drop, upgradeVars, Dropped
<1>4. UpgradesSound' /\ LeavingSound'
  BY <1>2, <1>3 DEF Inv, UpgradesSound, LeavingSound
<1>. QED
  BY <1>3, <1>4 DEF Inv, OpenHasAlias, IdentitySound, Open

LEMMA InvStep == Inv /\ [Next]_vars => Inv'
<1>. SUFFICES ASSUME Inv, [Next]_vars PROVE Inv'
  OBVIOUS
<1>0. TypeOK'
  BY TypeStep DEF Inv
<1>1. CASE PresenceHubStep
  BY <1>0, <1>1, OwnState, SameSockets DEF PresenceHubStep
<1>2. CASE ChannelHubStep
  BY <1>0, <1>2, SameSockets DEF ChannelHubStep
<1>3. ASSUME NEW c \in Conns, Identify(c)
      PROVE  Inv'
  <2>1. PlayersIdentify(c, alias[c])
    BY <1>3, OwnState DEF Identify
  <2>. QED
    BY <1>0, <1>3, <2>1 DEF Identify, PlayersIdentify, upgradeVars, Inv, UpgradesSound,
       LeavingSound, OpenHasAlias, IdentitySound, Open
<1>4. ASSUME NEW c \in Conns, ChannelFrame(c)
      PROVE  Inv'
  BY <1>0, <1>4, SameSockets DEF ChannelFrame
<1>5. ASSUME NEW c \in Conns, LeaveAllChannels(c)
      PROVE  Inv'
  BY <1>0, <1>5 DEF LeaveAllChannels, connVars, upgradeVars, Inv, UpgradesSound,
     LeavingSound, OpenHasAlias, IdentitySound, Open
<1>6. CASE UNCHANGED vars
  BY <1>0, <1>6, SameSockets DEF vars
<1>. QED
  BY <1>0, <1>1, <1>2, <1>3, <1>4, <1>5, <1>6, InvCreateTicket, InvUpgrade, InvUpgraded,
     InvLeavePresence, InvDrop DEF Next

THEOREM Invariance == Spec => []Inv
  BY InvInit, InvStep, PTL DEF Spec

-----------------------------------------------------------------------------
(***************************************************************************)
(* Either hub seen alone.  A step of the whole is a step of the hub's      *)
(* module, or changes nothing the hub's module has.                        *)
(***************************************************************************)

LEMMA PresenceStep == Inv /\ [Next]_vars => [P!Next]_P!vars
<1>. SUFFICES ASSUME Inv, [Next]_vars PROVE P!Next \/ UNCHANGED P!vars
  BY DEF P!vars
<1>1. CASE PresenceHubStep
  BY <1>1 DEF PresenceHubStep, P!Next
<1>2. ASSUME NEW c \in Conns, Upgraded(c)
      PROVE  P!Next
  <2>1. PICK p \in ResolvedParents(verified[c]) : P!Connect(c, verified[c], p)
    BY <1>2 DEF Upgraded
  <2>2. verified[c] \in Aliases \cup {NoAlias}
    BY DEF Inv, TypeOK
  <2>3. p \in P!ResolvedParents(verified[c])
    BY DEF ResolvedParents, P!ResolvedParents
  <2>. QED
    BY <2>1, <2>2, <2>3 DEF P!Next, P!ConnStep
<1>3. ASSUME NEW c \in Conns, Identify(c)
      PROVE  P!Next
  <2>1. P!Identify(c, alias[c]) /\ Open(c)
    BY <1>3, OwnState DEF Identify, PlayersIdentify
  <2>2. alias[c] \in Aliases
    BY <2>1 DEF Inv, OpenHasAlias
  <2>. QED
    BY <2>1, <2>2 DEF P!Next, P!ConnStep
<1>4. ASSUME NEW c \in Conns, LeavePresence(c) \/ Drop(c)
      PROVE  P!Next
  BY <1>4 DEF LeavePresence, Drop, P!Next, P!ConnStep
<1>5. ASSUME UNCHANGED <<connVars, pVars>>
      PROVE  UNCHANGED P!vars
  BY <1>5 DEF connVars, pVars, P!vars, P!connVars, P!hubVars
<1>6. \/ ChannelHubStep
      \/ \E t \in Tickets, a \in Aliases : CreateTicket(t, a)
      \/ \E c \in Conns : \/ \E t \in Tickets \cup {NoTicket} : Upgrade(c, t)
                          \/ ChannelFrame(c) \/ LeaveAllChannels(c)
      \/ UNCHANGED vars
      => UNCHANGED P!vars
  BY <1>5 DEF ChannelHubStep, CreateTicket, Upgrade, ChannelFrame, LeaveAllChannels, vars
<1>. QED
  BY <1>1, <1>2, <1>3, <1>4, <1>6 DEF Next

(***************************************************************************)
(* The presence hub and its connections, with tickets, upgrades, channel   *)
(* frames, the other hub and the gap between the two leaves around them,   *)
(* behave as PresenceHub says.                                             *)
(***************************************************************************)
THEOREM PresenceRefinement == Spec => ImplementsPresence
<1>1. Init => P!Init
  BY DEF Init
<1>. QED
  BY <1>1, PresenceStep, Invariance, PTL DEF Spec, ImplementsPresence, P!Spec

LEMMA ChannelStep == Inv /\ [Next]_vars => [C!Next]_C!vars
<1>. SUFFICES ASSUME Inv, [Next]_vars PROVE C!Next \/ UNCHANGED C!vars
  BY DEF C!vars
<1>1. CASE ChannelHubStep
  BY <1>1 DEF ChannelHubStep, C!Next
<1>2. ASSUME NEW c \in Conns, Upgraded(c)
      PROVE  C!Next
  <2>1. PICK p \in ResolvedParents(verified[c]) : C!Connect(c, verified[c], p)
    BY <1>2 DEF Upgraded
  <2>2. verified[c] \in Aliases \cup {NoAlias}
    BY DEF Inv, TypeOK
  <2>3. p \in C!ResolvedParents(verified[c])
    BY DEF ResolvedParents, C!ResolvedParents
  <2>. QED
    BY <2>1, <2>2, <2>3 DEF C!Next, C!ConnStep
<1>3. ASSUME NEW c \in Conns, Identify(c)
      PROVE  C!Next
  <2>1. C!Identify(c, alias[c]) /\ Open(c)
    BY <1>3, OwnState DEF Identify, PlayersIdentify
  <2>2. alias[c] \in Aliases
    BY <2>1 DEF Inv, OpenHasAlias
  <2>. QED
    BY <2>1, <2>2 DEF C!Next, C!ConnStep
<1>4. ASSUME NEW c \in Conns, LeaveAllChannels(c) \/ Drop(c)
      PROVE  C!Next
  BY <1>4 DEF LeaveAllChannels, Drop, C!Next, C!ConnStep
<1>5. ASSUME UNCHANGED <<connVars, leaving, cVars>>
      PROVE  UNCHANGED C!vars
  BY <1>5 DEF connVars, cVars, C!vars, C!connVars, C!hubVars, ChannelPhase
\* An accepted frame; the connection is open for the channel hub as well.
<1>6. ASSUME NEW c \in Conns, ChannelFrame(c)
      PROVE  C!Next
  <2>1. C!MayUseChannels(c)
    BY <1>6 DEF ChannelFrame, Gate, Open, C!MayUseChannels, C!Open, ChannelPhase
  <2>2. UNCHANGED C!connVars
    BY <1>6 DEF ChannelFrame, connVars, C!connVars, ChannelPhase
  <2>3. PICK ch \in Channels :
          \/ C!ChannelsJoin(c, ch) \/ C!ChannelsLeave(c, ch) \/ C!ChannelsMessage(c, ch)
    BY <1>6, <2>1, <2>2 DEF ChannelFrame, C!ChannelsJoin, C!ChannelsLeave,
       C!ChannelsMessage, C!Send
  <2>. QED
    BY <2>3 DEF C!Next, C!ConnStep
\* Its first leave does not stop the connection for the channel hub.
<1>7. ASSUME NEW c \in Conns, LeavePresence(c)
      PROVE  UNCHANGED C!vars
  <2>1. Stopping(c) /\ leaving' = leaving \cup {c} /\ UNCHANGED cVars
    BY <1>7, OwnState DEF LeavePresence
  <2>2. ChannelPhase' = ChannelPhase
    BY <2>1 DEF Stopping, Open, ChannelPhase, Inv, TypeOK, ConnTypeOK
  <2>. QED
    BY <2>1, <2>2 DEF Stopping, cVars, C!vars, C!connVars, C!hubVars
\* The presence hub's own steps leave the connections alone.
<1>8. CASE PresenceHubStep
  BY <1>5, <1>8, OwnState DEF PresenceHubStep
<1>9. \/ \E t \in Tickets, a \in Aliases : CreateTicket(t, a)
      \/ \E c \in Conns : \E t \in Tickets \cup {NoTicket} : Upgrade(c, t)
      \/ UNCHANGED vars
      => UNCHANGED C!vars
  BY <1>5 DEF CreateTicket, Upgrade, vars
<1>. QED
  BY <1>1, <1>2, <1>3, <1>4, <1>6, <1>7, <1>8, <1>9 DEF Next

(***************************************************************************)
(* The channel hub and its connections behave as ChannelHub says, a        *)
(* connection being open to it until its second leave is sent.             *)
(***************************************************************************)
THEOREM ChannelRefinement == Spec => ImplementsChannels
<1>1. Init => C!Init
  BY DEF Init
<1>. QED
  BY <1>1, ChannelStep, Invariance, PTL DEF Spec, ImplementsChannels, C!Spec

-----------------------------------------------------------------------------
(***************************************************************************)
(* What is proved of a hub alone, read in the whole.  PP and CP are P and  *)
(* C with their theorems; the lemmas below only say so, step by step.      *)
(***************************************************************************)
PP == INSTANCE PresenceHubProofs WITH
        MaxMailbox <- MaxPresenceMailbox,
        mailbox <- pMailbox, conns <- pConns, told <- pTold

CP == INSTANCE ChannelHubProofs WITH
        MaxMailbox <- MaxChannelMailbox,
        mailbox <- cMailbox, told <- cTold, phase <- ChannelPhase

LEMMA SameSize ==
    ASSUME NEW S
    PROVE  /\ P!Cardinality(S) = PP!Cardinality(S)
           /\ C!Cardinality(S) = CP!Cardinality(S)
<1>1. P!Cardinality(S) = PP!Cardinality(S)
  BY DEF P!Cardinality, PP!Cardinality
<1>2. C!Cardinality(S) = CP!Cardinality(S)
  BY DEF C!Cardinality, CP!Cardinality
<1>. QED
  BY <1>1, <1>2

LEMMA SamePresenceInit == P!Init <=> PP!Init
  BY DEF P!Init, PP!Init, P!ConnInit, PP!ConnInit, P!NothingTold, PP!NothingTold

LEMMA SamePresenceStep == [P!Next]_P!vars <=> [PP!Next]_PP!vars
<1>1. P!HandleLeave <=> PP!HandleLeave
  BY DEF P!HandleLeave, PP!HandleLeave, P!WentOffline, PP!WentOffline,
     P!ConnsOf, PP!ConnsOf, P!Broadcast, PP!Broadcast, P!Audience, PP!Audience,
     P!Open, PP!Open, P!connVars, PP!connVars
<1>2. ASSUME NEW reg, NEW a
      PROVE  P!Admitted(reg, a) = PP!Admitted(reg, a)
  BY SameSize DEF P!Admitted, PP!Admitted, P!AtCap, PP!AtCap, P!ConnsOf, PP!ConnsOf,
     P!PruneDead, PP!PruneDead, P!Connected, PP!Connected
<1>3. P!HandleJoin <=> PP!HandleJoin
  BY <1>2 DEF P!HandleJoin, PP!HandleJoin, P!ConnsOf, PP!ConnsOf,
     P!Broadcast, PP!Broadcast, P!Audience, PP!Audience, P!Open, PP!Open,
     P!connVars, PP!connVars
<1>4. ASSUME NEW c
      PROVE  P!ConnStep(c) <=> PP!ConnStep(c)
  BY DEF P!ConnStep, PP!ConnStep, P!Connect, PP!Connect, P!Started, PP!Started,
     P!hubVars, PP!hubVars, P!ResolvedParents, PP!ResolvedParents,
     P!Identify, PP!Identify, P!PlayersIdentify, PP!PlayersIdentify,
     P!JoinPresence, PP!JoinPresence, P!Stop, PP!Stop, P!Stopping, PP!Stopping,
     P!LeavePresence, PP!LeavePresence, P!LeavesHubs, PP!LeavesHubs,
     P!NothingTold, PP!NothingTold, P!Drop, PP!Drop, P!Dropped, PP!Dropped,
     P!Open, PP!Open
<1>5. P!vars = PP!vars /\ P!vars' = PP!vars'
  BY DEF P!vars, PP!vars, P!connVars, PP!connVars, P!hubVars, PP!hubVars
<1>. QED
  BY <1>1, <1>3, <1>4, <1>5 DEF P!Next, PP!Next, P!HubStep, PP!HubStep

LEMMA SameChannelInit == C!Init <=> CP!Init
  BY DEF C!Init, CP!Init, C!ConnInit, CP!ConnInit, C!NothingTold, CP!NothingTold

LEMMA SameHandlers == C!HubStep <=> CP!HubStep
<1>1. ASSUME NEW reg, NEW ch, NEW g
      PROVE  C!Admitted(reg, ch, g) = CP!Admitted(reg, ch, g)
  BY SameSize DEF C!Admitted, CP!Admitted, C!AtCap, CP!AtCap, C!InGroup, CP!InGroup,
     C!PruneDead, CP!PruneDead, C!Connected, CP!Connected
<1>2. C!HandleJoin <=> CP!HandleJoin
  BY <1>1 DEF C!HandleJoin, CP!HandleJoin, C!WasAbsent, CP!WasAbsent, C!InGroup, CP!InGroup,
     C!Leaf, CP!Leaf, C!GroupKey, CP!GroupKey, C!Announce, CP!Announce,
     C!NothingTold, CP!NothingTold, C!Audience, CP!Audience, C!In, CP!In, C!Open, CP!Open,
     C!connVars, CP!connVars
<1>3. C!HandleLeave <=> CP!HandleLeave
  BY DEF C!HandleLeave, CP!HandleLeave, C!Emptied, CP!Emptied, C!ForgetConn, CP!ForgetConn,
     C!InGroup, CP!InGroup, C!Leaf, CP!Leaf, C!GroupKey, CP!GroupKey, C!Announce, CP!Announce,
     C!NothingTold, CP!NothingTold, C!Audience, CP!Audience, C!In, CP!In, C!Open, CP!Open,
     C!connVars, CP!connVars
<1>4. C!HandleLeaveAll <=> CP!HandleLeaveAll
  BY DEF C!HandleLeaveAll, CP!HandleLeaveAll, C!Emptied, CP!Emptied, C!InGroup, CP!InGroup,
     C!Announce, CP!Announce, C!NothingTold, CP!NothingTold, C!Audience, CP!Audience,
     C!In, CP!In, C!Open, CP!Open, C!connVars, CP!connVars
<1>5. C!HandleMessage <=> CP!HandleMessage
  BY DEF C!HandleMessage, CP!HandleMessage, C!PruneChannel, CP!PruneChannel,
     C!Connected, CP!Connected, C!Groups, CP!Groups, C!Recipients, CP!Recipients,
     C!Audience, CP!Audience, C!In, CP!In, C!Open, CP!Open, C!connVars, CP!connVars
<1>. QED
  BY <1>2, <1>3, <1>4, <1>5 DEF C!HubStep, CP!HubStep

LEMMA SameChannelStep == [C!Next]_C!vars <=> [CP!Next]_CP!vars
<1>1. ASSUME NEW c
      PROVE  C!ConnStep(c) <=> CP!ConnStep(c)
  BY DEF C!ConnStep, CP!ConnStep, C!Connect, CP!Connect, C!Started, CP!Started,
     C!ResolvedParents, CP!ResolvedParents, C!Identify, CP!Identify,
     C!PlayersIdentify, CP!PlayersIdentify, C!ChannelsJoin, CP!ChannelsJoin,
     C!ChannelsLeave, CP!ChannelsLeave, C!ChannelsMessage, CP!ChannelsMessage,
     C!Send, CP!Send, C!MayUseChannels, CP!MayUseChannels, C!JoinChannel, CP!JoinChannel,
     C!LeaveChannel, CP!LeaveChannel, C!ChannelMessage, CP!ChannelMessage,
     C!GroupKey, CP!GroupKey, C!Stop, CP!Stop, C!Stopping, CP!Stopping,
     C!LeavesHubs, CP!LeavesHubs, C!LeaveAllChannels, CP!LeaveAllChannels,
     C!NothingTold, CP!NothingTold, C!Drop, CP!Drop, C!Dropped, CP!Dropped,
     C!Open, CP!Open, C!connVars, CP!connVars
<1>2. C!vars = CP!vars /\ C!vars' = CP!vars'
  BY DEF C!vars, CP!vars, C!connVars, CP!connVars, C!hubVars, CP!hubVars
<1>. QED
  BY <1>1, <1>2, SameHandlers DEF C!Next, CP!Next

\* The hubs' inductive invariants hold side by side.
LEMMA HubsInvariance == Spec => [](PP!Inv /\ CP!Inv)
<1>1. Init => PP!Inv
  BY SamePresenceInit, PP!InvInit, HubAssumption, AliasAssumption DEF Init
<1>2. Init => CP!Inv
  BY SameChannelInit, CP!InvInit, HubAssumption, AliasAssumption DEF Init
<1>3. Inv /\ PP!Inv /\ [Next]_vars => PP!Inv'
  BY PresenceStep, SamePresenceStep, PP!InvStep, HubAssumption, AliasAssumption
<1>4. Inv /\ CP!Inv /\ [Next]_vars => CP!Inv'
  BY ChannelStep, SameChannelStep, CP!InvStep, HubAssumption, AliasAssumption
<1>. QED
  BY <1>1, <1>2, <1>3, <1>4, Invariance, PTL DEF Spec

(***************************************************************************)
(* Across the hubs: a member of a channel that is open is online in        *)
(* presence, or about to be, although nothing orders what one hub does     *)
(* against what the other does.  A leaf is only ever that of a connection  *)
(* that identified, and identifying is what sent its JoinPresence.         *)
(***************************************************************************)
THEOREM MembersAreOnline == Spec => []MemberIsOnline
<1>1. PP!Inv /\ CP!Inv => MemberIsOnline
  <2>. SUFFICES ASSUME PP!Inv, CP!Inv, NEW e \in channels, Open(e.conn)
                PROVE  P!Registered(e.conn) \/ P!Queued(P!JoinPresence(e.conn))
    BY DEF MemberIsOnline
  <2>1. identified[e.conn]
    BY DEF CP!Inv, CP!MapInv, CP!LeavesSound
  <2>2. e.conn \in Conns
    BY DEF CP!Inv, CP!TypeInv, CP!TypeOK, CP!Membership
  <2>3. PP!Registered(e.conn) \/ PP!Queued(PP!JoinPresence(e.conn))
    BY <2>1, <2>2 DEF Open, PP!Inv, PP!LiveStaysRegistered, PP!Open
  <2>. QED
    BY <2>3 DEF P!Registered, PP!Registered, P!Queued, PP!Queued, P!JoinPresence,
       PP!JoinPresence
<1>. QED
  BY <1>1, HubsInvariance, PTL

(***************************************************************************)
(* Strangers never share a participant group, and only a failed lookup     *)
(* splits a family: a leaf carries the group its connection's ticket and   *)
(* lookup gave it, to the end of the connection and beyond, until the hub  *)
(* takes it out.                                                           *)
(***************************************************************************)
THEOREM Families == Spec => []GroupsAreFamilies
<1>1. ASSUME Inv, CP!Inv, NEW e \in channels
      PROVE  /\ AccountOf(e.conn) \in Aliases
             /\ parent[e.conn] \in {ParentOf[AccountOf(e.conn)], NoParent}
             /\ e.group = GroupKey(AccountOf(e.conn), parent[e.conn])
  <2>1. e.conn \in Conns /\ e.group = GroupKey(alias[e.conn], parent[e.conn])
        /\ alias[e.conn] \in Aliases
    BY <1>1 DEF CP!Inv, CP!MapInv, CP!LeavesSound, CP!TypeInv, CP!TypeOK, CP!Membership,
       CP!LeafOf, CP!Leaf, CP!JoinChannel, CP!GroupKey, GroupKey
  <2>2. alias[e.conn] = AccountOf(e.conn)
        /\ parent[e.conn] \in {ParentOf[alias[e.conn]], NoParent}
    BY <1>1, <2>1, AliasAssumption DEF Inv, IdentitySound, AccountOf
  <2>. QED
    BY <2>1, <2>2
<1>2. ASSUME NEW a \in Aliases, NEW p \in {ParentOf[a], NoParent},
             NEW b \in Aliases, NEW q \in {ParentOf[b], NoParent}
      PROVE  /\ GroupKey(a, p) = GroupKey(b, q) => Related(a, b)
             /\ HeadOf(a) = HeadOf(b) =>
                  GroupKey(a, p) = GroupKey(b, q) \/ p # ParentOf[a] \/ q # ParentOf[b]
  BY AliasAssumption DEF GroupKey, Related, HeadOf
<1>3. Inv /\ CP!Inv => GroupsAreFamilies
  BY <1>1, <1>2 DEF GroupsAreFamilies, Degraded
<1>. QED
  BY <1>3, Invariance, HubsInvariance, PTL

(***************************************************************************)
(* A hub that has handled all it was sent holds what is alive, no less and *)
(* no more, whatever the other hub still has to do, and whatever joins     *)
(* were handled after their connection had stopped.                        *)
(***************************************************************************)
THEOREM SettledHubs == Spec => []SettledHubsAreExact
<1>1. Inv /\ PP!Inv /\ CP!Inv => SettledHubsAreExact
  <2>. SUFFICES ASSUME Inv, PP!Inv, CP!Inv
                PROVE  SettledHubsAreExact
    OBVIOUS
  <2>1. ASSUME pMailbox = <<>>
        PROVE  pConns = {[alias |-> tickets[ticketOf[c]], conn |-> c] :
                             c \in {d \in Conns : Open(d) /\ identified[d]}}
    <3>1. pConns = {[alias |-> alias[c], conn |-> c] :
                        c \in {d \in Conns : PP!Open(d) /\ identified[d]}}
      BY <2>1, PP!Settled, HubAssumption, AliasAssumption
    <3>2. \A c \in Conns : PP!Open(c) <=> Open(c)
      BY DEF PP!Open, Open
    <3>3. \A c \in Conns : Open(c) => alias[c] = tickets[ticketOf[c]]
      BY AliasAssumption DEF Inv, IdentitySound, OpenHasAlias
    <3>. QED
      BY <3>1, <3>2, <3>3
  <2>2. ASSUME cMailbox = <<>>
        PROVE  /\ connIndex = channels
               /\ channels = UNION {{C!LeafOf(c, ch) : ch \in wanted[c]} : c \in Conns}
    <3>1. /\ connIndex = channels
          /\ channels = UNION {{CP!LeafOf(c, ch) : ch \in wanted[c]} : c \in Conns}
      BY <2>2, CP!Settled, HubAssumption, AliasAssumption
    <3>2. \A c, ch : CP!LeafOf(c, ch) = C!LeafOf(c, ch)
      BY DEF CP!LeafOf, C!LeafOf, CP!Leaf, C!Leaf, CP!JoinChannel, C!JoinChannel,
         CP!GroupKey, C!GroupKey
    <3>. QED
      BY <3>1, <3>2
  <2>. QED
    BY <2>1, <2>2 DEF SettledHubsAreExact
<1>. QED
  BY <1>1, Invariance, HubsInvariance, PTL

(***************************************************************************)
(* What either hub promises alone it keeps in the whole: neither leaks,    *)
(* neither loses what is alive, and presence neither lies nor flaps.       *)
(***************************************************************************)
THEOREM HubPromises ==
    Spec => /\ [](P!NoLeakedEntry /\ P!LiveStaysRegistered /\ P!ToldIsTrue)
            /\ P!NoFlap
            /\ [](C!IndexCoversRegistry /\ C!NoLeakedMembership /\ C!IntentHonoured)
<1>1. Spec => PP!Spec
  <2>1. P!Init => PP!Init
    BY SamePresenceInit
  <2>2. [P!Next]_P!vars => [PP!Next]_PP!vars
    BY SamePresenceStep
  <2>. QED
    BY <2>1, <2>2, PresenceRefinement, PTL DEF ImplementsPresence, P!Spec, PP!Spec
<1>2. Spec => [](PP!NoLeakedEntry /\ PP!LiveStaysRegistered /\ PP!ToldIsTrue) /\ PP!NoFlap
  <2>1. PP!Spec => []PP!NoLeakedEntry
    BY PP!NoLeak, HubAssumption, AliasAssumption
  <2>2. PP!Spec => []PP!LiveStaysRegistered
    BY PP!LiveRegistered, HubAssumption, AliasAssumption
  <2>3. PP!Spec => []PP!ToldIsTrue
    BY PP!NewsIsTrue, HubAssumption, AliasAssumption
  <2>4. PP!Spec => PP!NoFlap
    BY PP!Steady, HubAssumption, AliasAssumption
  <2>. QED
    BY <1>1, <2>1, <2>2, <2>3, <2>4, PTL
<1>3. PP!NoLeakedEntry => P!NoLeakedEntry
  BY DEF PP!NoLeakedEntry, P!NoLeakedEntry, PP!Gone, P!Gone, PP!Queued, P!Queued,
     PP!LeavePresence, P!LeavePresence
<1>4. PP!LiveStaysRegistered => P!LiveStaysRegistered
  BY DEF PP!LiveStaysRegistered, P!LiveStaysRegistered, PP!Open, P!Open,
     PP!Registered, P!Registered, PP!Queued, P!Queued, PP!JoinPresence, P!JoinPresence
<1>5. PP!ToldIsTrue => P!ToldIsTrue
  BY DEF PP!ToldIsTrue, P!ToldIsTrue, PP!Audience, P!Audience, PP!Open, P!Open,
     PP!ConnsOf, P!ConnsOf
<1>6. PP!NoFlap => P!NoFlap
  BY PTL DEF PP!NoFlap, P!NoFlap, PP!Open, P!Open, PP!Registered, P!Registered,
     PP!vars, P!vars, PP!connVars, P!connVars, PP!hubVars, P!hubVars
<1>7. CP!Inv => C!IndexCoversRegistry /\ C!NoLeakedMembership /\ C!IntentHonoured
  <2>1. CP!Inv => CP!IndexCoversRegistry /\ CP!NoLeakedMembership /\ CP!IntentHonoured
    BY DEF CP!Inv, CP!MapInv, CP!WantInv
  <2>2. CP!IndexCoversRegistry => C!IndexCoversRegistry
    BY DEF CP!IndexCoversRegistry, C!IndexCoversRegistry, CP!Connected, C!Connected
  <2>3. CP!NoLeakedMembership => C!NoLeakedMembership
    BY DEF CP!NoLeakedMembership, C!NoLeakedMembership, CP!Gone, C!Gone,
       CP!Queued, C!Queued, CP!LeaveAllChannels, C!LeaveAllChannels
  <2>4. CP!IntentHonoured => C!IntentHonoured
    BY DEF CP!IntentHonoured, C!IntentHonoured, CP!Open, C!Open, CP!Outcome, C!Outcome,
       CP!Requests, C!Requests, CP!LeafOf, C!LeafOf, CP!Leaf, C!Leaf,
       CP!JoinChannel, C!JoinChannel, CP!GroupKey, C!GroupKey,
       CP!LeaveChannel, C!LeaveChannel
  <2>. QED
    BY <2>1, <2>2, <2>3, <2>4
<1>. QED
  BY <1>2, <1>3, <1>4, <1>5, <1>6, <1>7, HubsInvariance, PTL

=============================================================================
