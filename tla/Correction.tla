----------------------------- MODULE Correction -----------------------------
(***************************************************************************)
(* What an SSH dialogue does to a node, in the small: settings it sends    *)
(* were different in the report it works with, which may have waited; each *)
(* becomes as stored in the node, or does not; and no setting the node has *)
(* as stored is taken away, except that a restart of the radios, which     *)
(* only a channel that differed brings about, puts every radio on the      *)
(* channel it is configured for.                                           *)
(***************************************************************************)
EXTENDS Sequences

CONSTANTS
    Reported,   \* the settings that are compared
    Pushed,     \* those there is a command for
    Causes,     \* for each of these: when one of them differs, it is sent
    Channels

VARIABLES
    have,   \* settings of the node that are as stored, as it reports them
    set,    \* channels that are as stored in its configuration
    inbox,  \* reports to be worked on: the settings that were as stored
    plan    \* what is being sent, {} when nothing is

corVars == <<have, set, inbox, plan>>

Init ==
    /\ have = Reported
    /\ set = Channels \cap Reported
    /\ inbox = <<>>
    /\ plan = {}

\* The stored settings are edited, or the node's own change.
Change ==
    /\ plan = {}
    /\ have' \in SUBSET Reported
    /\ set' \in SUBSET (Channels \cap Reported)
    /\ inbox' \in [DOMAIN inbox -> SUBSET Reported]
    /\ UNCHANGED plan

Report ==
    /\ inbox' = Append(inbox, have)
    /\ UNCHANGED <<have, set, plan>>

\* The next report is looked at.
Look ==
    /\ plan = {} /\ inbox # <<>>
    /\ plan' \in SUBSET {s \in Pushed : Causes[s] \ Head(inbox) # {}}
    /\ inbox' = Tail(inbox)
    /\ UNCHANGED <<have, set>>

Write(s) ==
    /\ s \in plan \ Channels
    /\ have' = have \cup {s}
    /\ UNCHANGED <<set, inbox, plan>>

\* A channel is configured, and not on the air yet.
Configure(c) ==
    /\ c \in plan \cap Channels
    /\ set' = set \cup {c}
    /\ UNCHANGED <<have, inbox, plan>>

Restart ==
    /\ plan \cap Channels # {}
    /\ have' = (have \ Channels) \cup set
    /\ plan' = {}
    /\ UNCHANGED <<set, inbox>>

Done ==
    /\ plan' = {}
    /\ UNCHANGED <<have, set, inbox>>

Next ==
    \/ Change
    \/ Report
    \/ Look
    \/ \E s \in Pushed : Write(s) \/ Configure(s)
    \/ Restart
    \/ Done

Spec == Init /\ [][Next]_corVars
=============================================================================
