------------------------------ MODULE NodeSync ------------------------------
(***************************************************************************)
(* The manager process: the collector and the message handler on one table *)
(* of nodes, the nodes in the field, the clock, and restarts.              *)
(***************************************************************************)
EXTENDS Collector, NodeHandler

vars == <<db, shown, device, inbox, coll, requests, hand>>

TypeOK == StoreTypeOK /\ CollTypeOK /\ HandTypeOK

Init == StoreInit /\ CollInit /\ HandInit

-----------------------------------------------------------------------------
\* One unit of wall clock time: every stamp gets older, also in local copies.
Tick ==
    /\ db' = [n \in Nodes |-> IF Known(n) THEN OlderRow(db[n]) ELSE NoRow]
    /\ coll' = IF coll.pc \in {"touch", "ssh", "uptime"}
               THEN [coll EXCEPT !.row = OlderRow(@)] ELSE coll
    /\ hand' = IF hand.pc = "save"
               THEN [hand EXCEPT !.row = OlderRow(@)] ELSE hand
    /\ UNCHANGED <<shown, device, inbox, requests>>

\* Somebody changes a setting on the node itself.
Drift(n, f, v) ==
    /\ device' = [device EXCEPT ![n][f] = v]
    /\ UNCHANGED <<db, shown, inbox, coll, handVars>>

\* The process ends and is started again: the table is all that is left.
Restart ==
    /\ coll' = CollIdle
    /\ inbox' = <<>>
    /\ hand' = HandIdle
    /\ requests' = <<>>
    /\ UNCHANGED <<db, shown, device>>

\* A panic in the collector's goroutine ends the whole process.
Panic ==
    /\ \E written \in SUBSET Pushed : SSHPanic(written)
    /\ hand' = HandIdle
    /\ requests' = <<>>
    /\ UNCHANGED <<db, shown>>

\* What the parts do of their own accord.
Work ==
    \/ \E n \in Nodes : Report(n) /\ UNCHANGED handVars
    \/ CollStep /\ UNCHANGED handVars
    \/ HandStep /\ UNCHANGED collVars
    \/ Tick

\* What people do, and accidents.
Disturbance ==
    \/ /\ \/ \E n \in Nodes, f \in Fields, v \in Values : Edit(n, f, v)
          \/ \E store \in {shown, EmptyStore} : Connect(store)
       /\ UNCHANGED collVars
    \/ \E n \in Nodes, f \in Fields, v \in Values : Drift(n, f, v)
    \/ Panic
    \/ Restart

Next == Work \/ Disturbance

Spec == Init /\ [][Next]_vars

-----------------------------------------------------------------------------
\* The collector is at pc for node n.
At(pc, n) == coll.pc = pc /\ coll.id = n

\* Both goroutines keep running, and the clock does.  A node's answers are not
\* all lost on the way, a query is not every time so slow that the report is
\* older than blacklist_for when it is done, and an SSH dialogue that is tried
\* again and again is carried out completely some time.
Fairness ==
    /\ WF_vars(CollStep /\ UNCHANGED handVars)
    /\ WF_vars(HandStep /\ UNCHANGED collVars)
    /\ WF_vars(Tick)
    /\ \A n \in Nodes :
         /\ SF_vars(Report(n) /\ UNCHANGED handVars)
         /\ SF_vars(At("touch", n) /\ ~Offline(coll.row) /\ Touch /\ UNCHANGED handVars)
         /\ SF_vars(At("ssh", n) /\ SSHUpdate(Differing) /\ UNCHANGED handVars)
         /\ SF_vars(At("uptime", n) /\ CreateReachable /\ UNCHANGED handVars)

FairSpec == Spec /\ Fairness

-----------------------------------------------------------------------------
\* InsertNode talks to a node and broadcasts it only while the table has the
\* node off the blacklist - although it decided so on the row it read before,
\* and nodeHandler may have written the row since (TimeFilter, yanic.go).
ContactOnlyUnblocked ==
    coll.pc \in {"ssh", "send"} => Known(coll.id) /\ ~Blocked(db[coll.id])

\* Rows never vanish, and stored settings change only to those of an edit that
\* nodeHandler is saving: whatever InsertNode read before, its column updates
\* and its Create bring no old settings back.
SettingsOnlyByEdit ==
    [][\A n \in Nodes : Known(n) =>
         /\ Known(n)'
         /\ db'[n].settings # db[n].settings =>
              /\ hand.pc = "save" /\ hand.id = n
              /\ db'[n].settings = hand.row.settings]_vars

\* A stamp of a row gets fresher only by the collector: an edit saves the old
\* row and can neither let a silent node look online nor block one.
FresherOnlyByCollector ==
    [][\A n \in Nodes : Known(n) =>
         /\ db'[n].lastseen < db[n].lastseen => coll.pc = "touch" /\ coll.id = n
         /\ db'[n].blacklist < db[n].blacklist => coll.pc = "ssh" /\ coll.id = n]_vars

\* The node has every stored setting there is a command for, and browsers show
\* the stored settings.
Settled(n) ==
    /\ Known(n)
    /\ \A f \in Pushed : device[n][f] = db[n].settings[f]
    /\ shown[n] = db[n].settings

\* Once nobody interferes, every node ends up with what is stored for it and
\* is shown so: lost commands are sent again, blocks expire, stale broadcasts
\* are overwritten by later ones.
Converges == <>[][Work]_vars => \A n \in Nodes : <>[]Settled(n)

-----------------------------------------------------------------------------
(***************************************************************************)
(* Why the safety properties hold: what the local copies of the two        *)
(* goroutines have to do with the row they were read from.                 *)
(***************************************************************************)
\* A goroutine that found a row still has one.
CopiesHaveRows ==
    /\ coll.pc \in {"touch", "ssh", "send"} => Known(coll.id)
    /\ hand.pc = "save" /\ hand.found => Known(hand.id)

\* Saving nodeHandler's copy can only make the stamps of a row older.
HandCopyOlder ==
    hand.pc = "save" =>
      IF hand.found
      THEN /\ db[hand.id].lastseen <= hand.row.lastseen
           /\ db[hand.id].blacklist <= hand.row.blacklist
      ELSE hand.row.lastseen = Never /\ hand.row.blacklist = Never

\* A node that is not blocked in InsertNode's copy is not blocked in the table,
\* and no row has a stamp younger than the report InsertNode is working on.
CollCopyFresher ==
    /\ coll.pc \in {"touch", "ssh"} =>
         /\ coll.row.blacklist <= db[coll.id].blacklist
         /\ coll.row.lastseen <= db[coll.id].blacklist
         /\ coll.row.lastseen <= db[coll.id].lastseen
    /\ coll.pc = "ssh" => ~Blocked(coll.row)
    /\ coll.pc = "uptime" /\ Known(coll.id) => db[coll.id].blacklist = Never
    /\ coll.pc = "uptime" => coll.row.blacklist = Never

IInv ==
    /\ TypeOK
    /\ CopiesHaveRows
    /\ HandCopyOlder
    /\ CollCopyFresher
    /\ ContactOnlyUnblocked

-----------------------------------------------------------------------------
\* config_example.conf: "How long should a node remain on the blacklist".  A
\* node that has been blocked stays so until the time is over.
BlockLastsItsTime ==
    [][\A n \in Nodes : Known(n) /\ Blocked(db[n]) /\ ~Blocked(db'[n]) => Tick]_vars

\* README.md: "changes made in one tab will appear immediately in other tabs".
\* What is stored and has appeared does not disappear again while it is stored: no
\* broadcast of a copy read before takes it back on every screen.
ChangesStayShown ==
    [][\A n \in Nodes : Known(n) /\ shown[n] = db[n].settings /\ shown'[n] # shown[n] =>
         shown'[n] = Hidden]_vars

-----------------------------------------------------------------------------
\* The manager implements DesiredState.
Wanted == [n \in Nodes |-> IF Known(n) THEN db[n].settings ELSE NoRow]
Asked  == IF hand.pc = "save"
          THEN [id |-> hand.id, settings |-> hand.row.settings] ELSE NoRow
Plan   == IF coll.pc \in {"touch", "ssh"}
          THEN [id |-> coll.id, settings |-> coll.row.settings] ELSE NoRow

Desired == INSTANCE DesiredState
             WITH want <- Wanted, have <- device, ask <- Asked, plan <- Plan,
                  Nothing <- NoRow

\* Settings are stored only as asked for, or adopted from a node nothing was
\* stored for; what reaches a node was stored for it when InsertNode read the
\* row - through stale copies, refused writes, restarts and panics.
KeepsDesiredState == Desired!Spec
=============================================================================
