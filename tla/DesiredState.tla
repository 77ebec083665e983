---------------------------- MODULE DesiredState ----------------------------
(***************************************************************************)
(* What the manager promises about the settings of the nodes, without      *)
(* table, queues, clock or blacklist: it keeps one wanted configuration    *)
(* per node, changes it only as users ask for, and carries to a node only  *)
(* values of a configuration that was wanted when it looked at the node.   *)
(***************************************************************************)
CONSTANTS Nodes, Fields, Values, Pushed, Nothing

Settings == [Fields -> Values]

VARIABLES
    want,   \* the configuration stored for a node, or Nothing
    have,   \* the configuration of the node itself
    ask,    \* the change being made: [id, settings], or Nothing
    plan    \* the copy of a wanted configuration being carried to its node

dsVars == <<want, have, ask, plan>>

Init ==
    /\ want = [n \in Nodes |-> Nothing]
    /\ have \in [Nodes -> Settings]
    /\ ask = Nothing
    /\ plan = Nothing

\* A user wants something for a node.
Ask(n, s) ==
    /\ ask = Nothing
    /\ ask' = [id |-> n, settings |-> s]
    /\ UNCHANGED <<want, have, plan>>

\* It is stored, or it is not.
Accept ==
    /\ ask # Nothing
    /\ want' = [want EXCEPT ![ask.id] = ask.settings]
    /\ ask' = Nothing
    /\ UNCHANGED <<have, plan>>

Reject ==
    /\ ask' = Nothing
    /\ UNCHANGED <<want, have, plan>>

\* A node nothing is wanted for is found: its configuration is adopted.
Adopt(n, s) ==
    /\ want[n] = Nothing
    /\ want' = [want EXCEPT ![n] = s]
    /\ UNCHANGED <<have, ask, plan>>

\* What is wanted for a node is read, to be compared with a report of it.
Look(n) ==
    /\ plan = Nothing
    /\ want[n] # Nothing
    /\ plan' = [id |-> n, settings |-> want[n]]
    /\ UNCHANGED <<want, have, ask>>

\* Some fields of the plan reach the node, and the plan is done with; with
\* lost, the change being made is lost too.
Push(written, lost) ==
    /\ plan # Nothing
    /\ have' = [have EXCEPT ![plan.id] =
                  [f \in Fields |-> IF f \in written THEN plan.settings[f] ELSE @[f]]]
    /\ plan' = Nothing
    /\ ask' = IF lost THEN Nothing ELSE ask
    /\ UNCHANGED want

\* The plan is dropped, and the change being made with it or not.
Drop(lost) ==
    /\ plan' = Nothing
    /\ ask' = IF lost THEN Nothing ELSE ask
    /\ UNCHANGED <<want, have>>

\* The node changes by itself.
Change(n, s) ==
    /\ have' = [have EXCEPT ![n] = s]
    /\ UNCHANGED <<want, ask, plan>>

Next ==
    \/ \E n \in Nodes, s \in Settings : Ask(n, s) \/ Adopt(n, s) \/ Change(n, s)
    \/ \E n \in Nodes : Look(n)
    \/ Accept
    \/ Reject
    \/ \E written \in SUBSET Pushed, lost \in BOOLEAN : Push(written, lost)
    \/ \E lost \in BOOLEAN : Drop(lost)

Spec == Init /\ [][Next]_dsVars
=============================================================================
