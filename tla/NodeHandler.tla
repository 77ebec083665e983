---------------------------- MODULE NodeHandler ----------------------------
(***************************************************************************)
(* The goroutine of the websocket library that runs the message handlers   *)
(* one after the other: nodeHandler for the edits of logged in users, and  *)
(* connectHandler.                                                         *)
(*                                                                         *)
(* A "node" message carries every setting of the node, copied from the     *)
(* browser's store with one field changed (view/list.js, view/node.js).    *)
(***************************************************************************)
EXTENDS NodeStore, Sequences

CONSTANT
    MaxRequests    \* bound: "node" messages on their way to the handler

ASSUME MaxRequestsAssumption == MaxRequests \in Nat \ {0}

VARIABLES
    requests,   \* "node" messages sent by browsers
    hand        \* where nodeHandler is, and its local variables

handVars == <<requests, hand>>

HandIdle == [pc |-> "idle"]

\* row is originNode with the settings of the message copied into it, found
\* says whether the First query had a result.
HandSave == [pc : {"save"}, id : Nodes, row : Rows, found : BOOLEAN]
HandTell == [pc : {"tell"}, id : Nodes, settings : Settings]

HandStates == {HandIdle} \cup HandSave \cup HandTell

HandTypeOK ==
    /\ requests \in Seq(NodeMessages)
    /\ hand \in HandStates

HandInit ==
    /\ requests = <<>>
    /\ hand = HandIdle

\* store.getNode: the stored node, or a new one with nothing set.
GetNode(n) == IF shown[n] = Hidden THEN [f \in Fields |-> Blank] ELSE shown[n]

\* A user changes one field of a node; the whole node is sent.
Edit(n, f, v) ==
    /\ Len(requests) < MaxRequests
    /\ requests' = Append(requests,
                     [id |-> n, settings |-> [GetNode(n) EXCEPT ![f] = v]])
    /\ UNCHANGED <<db, shown, hand>>

\* originNode when the query found nothing: both stamps are NULL.
NewRow(settings) == [settings |-> settings, lastseen |-> Never, blacklist |-> Never]

\* Mutant: the edited node is stamped as seen, as connectHandler stamps its.
NodeMessageStamped ==
    /\ hand = HandIdle
    /\ requests # <<>>
    /\ LET m == Head(requests) IN
         hand' = [pc |-> "save", id |-> m.id, found |-> Known(m.id),
                  row |-> IF Known(m.id)
                          THEN Seen(Changed(db[m.id], m.settings), 0)
                          ELSE NewRow(m.settings)]
    /\ requests' = Tail(requests)
    /\ UNCHANGED <<db, shown>>

\* nodeHandler up to the First query and the copying of the settings.
NodeMessage ==
    /\ hand = HandIdle
    /\ requests # <<>>
    /\ LET m == Head(requests) IN
         hand' = [pc |-> "save", id |-> m.id, found |-> Known(m.id),
                  row |-> IF Known(m.id)
                          THEN Changed(db[m.id], m.settings)
                          ELSE NewRow(m.settings)]
    /\ requests' = Tail(requests)
    /\ UNCHANGED <<db, shown>>

\* On to the answer and the broadcast of the message's node.
ToTell == [pc |-> "tell", id |-> hand.id, settings |-> hand.row.settings]

\* Save writes every column from originNode, the ones nobody edited too.
SaveNode ==
    /\ hand.pc = "save"
    /\ hand.found
    /\ db' = [db EXCEPT ![hand.id] = hand.row]
    /\ hand' = ToTell
    /\ UNCHANGED <<shown, requests>>

\* Create for a node that was not in the table.
CreateNode ==
    /\ hand.pc = "save"
    /\ ~hand.found
    /\ ~Known(hand.id)
    /\ db' = [db EXCEPT ![hand.id] = hand.row]
    /\ hand' = ToTell
    /\ UNCHANGED <<shown, requests>>

\* The write failed: the database refused it, or the collector created the row
\* in the meantime.  The answer is false and nothing is broadcast.
SaveFailed ==
    /\ hand.pc = "save"
    /\ hand' = HandIdle
    /\ UNCHANGED <<db, shown, requests>>

\* The broadcast, to the sender's browser as well.
Tell ==
    /\ hand.pc = "tell"
    /\ SendNode(hand.id, hand.settings)
    /\ hand' = HandIdle
    /\ UNCHANGED <<db, requests>>

\* connectHandler answers a browser that has just opened its websocket: with
\* an empty store after a page load, with the old one after a reconnect.
Connect(store) ==
    /\ hand = HandIdle
    /\ shown' = [n \in Nodes |->
                   IF Known(n) /\ ~TimeFilter(db[n]) THEN db[n].settings
                                                     ELSE store[n]]
    /\ UNCHANGED <<db, requests, hand>>

HandStep == NodeMessage \/ SaveNode \/ CreateNode \/ SaveFailed \/ Tell
=============================================================================
