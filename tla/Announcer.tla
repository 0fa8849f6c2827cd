------------------------------ MODULE Announcer ------------------------------
(***************************************************************************)
(* What a hub promises to its listeners, with no mailbox, no connection    *)
(* table and no pruning: a set of subjects is present, and every arrival   *)
(* and departure reaches, in the same step, everyone who listens.          *)
(*                                                                         *)
(* PresenceHub implements it with aliases as the subjects; ChannelHub, one *)
(* instance per channel, with participant groups.  Silent says whether the *)
(* hub may also lose subjects without a word: FALSE for presence, TRUE for *)
(* channels, where a chat message's prune does that.                       *)
(***************************************************************************)
CONSTANTS
    Listeners,
    Subjects,
    Silent

VARIABLES
    present,    \* subjects that are there
    listening,  \* listeners that receive announcements
    view        \* what each listener was last told of each subject

vars == <<present, listening, view>>

News == {"unheard", "on", "off"}

TypeOK ==
    /\ present \subseteq Subjects
    /\ listening \subseteq Listeners
    /\ view \in [Listeners -> [Subjects -> News]]

Init ==
    /\ present = {}
    /\ listening = {}
    /\ view = [l \in Listeners |-> [s \in Subjects |-> "unheard"]]

-----------------------------------------------------------------------------
\* s has news: exactly the listeners in L hear it.
Tell(s, news, L) ==
    view' = [l \in Listeners |-> IF l \in L THEN [view[l] EXCEPT ![s] = news]
                                            ELSE view[l]]

\* A listener starts to listen; it is told nothing about who is there.
Attach(l) ==
    /\ listening' = listening \cup {l}
    /\ UNCHANGED <<present, view>>

\* A listener stops listening and forgets what it was told.
Detach(l) ==
    /\ listening' = listening \ {l}
    /\ view' = [view EXCEPT ![l] = [s \in Subjects |-> "unheard"]]
    /\ UNCHANGED present

\* s arrives, brought by a listener (or by one that is already gone).
Arrive(s) ==
    /\ s \notin present
    /\ present' = present \cup {s}
    /\ \/ listening' = listening
       \/ \E l \in Listeners : listening' = listening \cup {l}
    /\ Tell(s, "on", listening')

\* s was given up and is found again within one step: announced once more.
Renew(s) ==
    /\ s \in present
    /\ \/ listening' = listening
       \/ \E l \in Listeners : listening' = listening \cup {l}
    /\ Tell(s, "on", listening')
    /\ UNCHANGED present

\* s departs; a listener that leaves with it hears nothing any more.
Depart(s) ==
    /\ s \in present
    /\ present' = present \ {s}
    /\ \/ /\ listening' = listening
          /\ Tell(s, "off", listening')
       \/ \E l \in listening :
            /\ listening' = listening \ {l}
            /\ view' = [k \in Listeners |->
                          CASE k = l -> [t \in Subjects |-> "unheard"]
                            [] k \in listening' -> [view[k] EXCEPT ![s] = "off"]
                            [] OTHER -> view[k]]

\* Subjects vanish and nobody is told.
Vanish ==
    /\ Silent
    /\ present' \in SUBSET present
    /\ UNCHANGED <<listening, view>>

Next ==
    \/ \E l \in Listeners : Attach(l) \/ Detach(l)
    \/ \E s \in Subjects : Arrive(s) \/ Renew(s) \/ Depart(s)
    \/ Vanish

Spec == Init /\ [][Next]_vars

=============================================================================
