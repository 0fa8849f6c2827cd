------------------------------- MODULE WsConn -------------------------------
(***************************************************************************)
(* The WsConn actor (src/sockets/ws.rs): one WebSocket connection, from    *)
(* the upgrade to the moment its actor is gone.  The module holds what     *)
(* every part of the socket subsystem shares: the connections' own state   *)
(* and the guards their frame handlers put on the messages they send to    *)
(* the two hubs.  PresenceHub and ChannelHub extend it and conjoin each    *)
(* step below with the hub messages it sends.                              *)
(*                                                                         *)
(* A connection is its conn_key: the counter CONN_SEQ never hands a key    *)
(* out twice, so an element of Conns is used by one connection only, and a *)
(* client that reconnects is another element.                              *)
(*                                                                         *)
(* A frame that a handler answers with an error envelope, a heartbeat, a   *)
(* ping or a binary frame changes no state: there is no action for it.     *)
(***************************************************************************)
EXTENDS Naturals, Sequences, FiniteSets

CONSTANTS
    Conns,      \* connection keys
    Aliases,    \* players.id values
    NoAlias,    \* Option::None for the ticketed alias
    NoParent,   \* Option::None for parent_account_id
    ParentOf    \* players.parent_account_id, per alias

ASSUME AliasAssumption ==
    /\ NoAlias \notin Aliases
    /\ NoParent \notin Aliases
    /\ ParentOf \in [Aliases -> Aliases \cup {NoParent}]

VARIABLES
    phase,      \* where the actor is in its life (see Phases)
    alias,      \* WsConn.alias_id
    parent,     \* WsConn.parent_account_id
    identified  \* WsConn.identified

connVars == <<phase, alias, parent, identified>>

(***************************************************************************)
(* idle: not opened yet.  open: frames and mailbox are being processed.    *)
(* stopping: stopping() has run, nothing more is processed, but the        *)
(* context still exists and recipients report connected().  stopped: the   *)
(* context is dropped and connected() is false.                            *)
(***************************************************************************)
Phases == {"idle", "open", "stopping", "stopped"}

ConnTypeOK ==
    /\ phase \in [Conns -> Phases]
    /\ alias \in [Conns -> Aliases \cup {NoAlias}]
    /\ parent \in [Conns -> Aliases \cup {NoParent}]
    /\ identified \in [Conns -> BOOLEAN]

ConnInit ==
    /\ phase = [c \in Conns |-> "idle"]
    /\ alias = [c \in Conns |-> NoAlias]
    /\ parent = [c \in Conns |-> NoParent]
    /\ identified = [c \in Conns |-> FALSE]

-----------------------------------------------------------------------------
Open(c) == phase[c] = "open"

\* Its stopping() has run: it will send nothing more.
Gone(c) == phase[c] \in {"stopping", "stopped"}

\* Recipient::connected(), as the hubs' prunes see it.
Connected(c) == phase[c] # "stopped"

\* Mutation of GroupKey: without a parent, the default instead of the alias.
GroupOrDefault(a, p) == p

\* The participant group of an alias whose parent was resolved to p.
GroupKey(a, p) == IF p = NoParent THEN a ELSE p

\* What the parent lookup of an upgrade may yield: the stored parent, or None
\* when there is no pool, no live row of it, or the query failed.
ResolvedParents(a) == IF a = NoAlias THEN {NoParent} ELSE {ParentOf[a], NoParent}

-----------------------------------------------------------------------------
\* Mutation of Started: the two ids are swapped.
StartedSwapped(c, a, p) ==
    /\ phase[c] = "idle"
    /\ phase' = [phase EXCEPT ![c] = IF a = NoAlias THEN "stopping" ELSE "open"]
    /\ alias' = [alias EXCEPT ![c] = p]
    /\ parent' = [parent EXCEPT ![c] = a]
    /\ UNCHANGED identified

(***************************************************************************)
(* The end of the upgrade and started(): a connection without a valid      *)
(* ticket is sent an error, closed and stopped at once.                    *)
(***************************************************************************)
Started(c, a, p) ==
    /\ phase[c] = "idle"
    /\ phase' = [phase EXCEPT ![c] = IF a = NoAlias THEN "stopping" ELSE "open"]
    /\ alias' = [alias EXCEPT ![c] = a]
    /\ parent' = [parent EXCEPT ![c] = p]
    /\ UNCHANGED identified

(***************************************************************************)
(* v1.players.identify: accepted when the claimed id is the ticketed one.  *)
(* It may be repeated.                                                     *)
(***************************************************************************)
PlayersIdentify(c, claim) ==
    /\ Open(c)
    /\ claim = alias[c]
    /\ identified' = [identified EXCEPT ![c] = TRUE]
    /\ UNCHANGED <<phase, alias, parent>>

\* The gate of v1.channels.join, v1.channels.leave and v1.channels.message.
MayUseChannels(c) == Open(c) /\ identified[c]

(***************************************************************************)
(* The connection ends (close frame, end of stream, protocol error):       *)
(* stopping() runs.  LeavesHubs says whether it sends its two leaves.      *)
(***************************************************************************)
LeavesHubs(c) == alias[c] # NoAlias /\ identified[c]

Stopping(c) ==
    /\ Open(c)
    /\ phase' = [phase EXCEPT ![c] = "stopping"]
    /\ UNCHANGED <<alias, parent, identified>>

\* The actor's context is dropped once stopping() has returned.
Dropped(c) ==
    /\ phase[c] = "stopping"
    /\ phase' = [phase EXCEPT ![c] = "stopped"]
    /\ UNCHANGED <<alias, parent, identified>>

=============================================================================
