----------------------------- MODULE Collector -----------------------------
(***************************************************************************)
(* The goroutine of the built-in yanic collector.  It hands one respondd   *)
(* report after the other to YanicDB.InsertNode, which compares it with    *)
(* the stored row and opens an SSH connection when they differ.            *)
(*                                                                         *)
(* InsertNode is split where another goroutine can act in between: after   *)
(* the First query, after the column update, and after the SSH dialogue,   *)
(* which may take a minute.  What it read from the table stays in coll.row *)
(* from the query to the broadcast.                                        *)
(***************************************************************************)
EXTENDS NodeStore, Sequences

CONSTANTS
    Pushed,     \* the fields Node.SSHUpdate has a command for
    MaxInbox    \* bound: respondd reports queued for the collector

ASSUME PushedAssumption   == Pushed \subseteq Fields
ASSUME MaxInboxAssumption == MaxInbox \in Nat \ {0}

VARIABLES
    device,   \* the configuration of the nodes themselves
    inbox,    \* respondd reports on their way to InsertNode
    coll      \* where InsertNode is, and its local variables

collVars == <<device, inbox, coll>>

CollIdle == [pc |-> "idle"]

\* id, row (lNode, or node when it is new) and report (n) are the locals of
\* InsertNode; its now is the row's lastseen.  Only id and the row's settings
\* are used after the SSH dialogue.
CollBusy == [pc : {"touch", "ssh", "uptime"},
             id : Nodes, row : Rows, report : Settings]
CollSend == [pc : {"send"}, id : Nodes, settings : Settings]

CollStates == {CollIdle} \cup CollBusy \cup CollSend

CollTypeOK ==
    /\ device \in [Nodes -> Settings]
    /\ inbox \in Seq(NodeMessages)
    /\ coll \in CollStates

CollInit ==
    /\ device \in [Nodes -> Settings]
    /\ inbox = <<>>
    /\ coll = CollIdle

\* A node answers a respondd request with the configuration it has now; an
\* answer that finds the queue full is lost.
Report(n) ==
    /\ Len(inbox) < MaxInbox
    /\ inbox' = Append(inbox, [id |-> n, settings |-> device[n]])
    /\ UNCHANGED <<db, shown, device, coll>>

\* runtime.NewNode: the row of a node seen for the first time.
NewNode(settings) == [settings |-> settings, lastseen |-> 0, blacklist |-> Never]

\* InsertNode up to the First query and Node.Update, which stamps the copy.
InsertNode ==
    /\ coll = CollIdle
    /\ inbox # <<>>
    /\ LET r == Head(inbox) IN
         coll' = IF Known(r.id)
                 THEN [pc |-> "touch", id |-> r.id,
                       row |-> Seen(db[r.id], 0),
                       report |-> r.settings]
                 ELSE [pc |-> "uptime", id |-> r.id,
                       row |-> NewNode(r.settings),
                       report |-> r.settings]
    /\ inbox' = Tail(inbox)
    /\ UNCHANGED <<db, shown, device>>

\* On to the SSH dialogue.
ToSSH == [coll EXCEPT !.pc = "ssh"]

\* On to the broadcast of the local copy.
ToSend == [pc |-> "send", id |-> coll.id, settings |-> coll.row.settings]

\* Mutants: no TimeFilter; Save of the local copy; no SSHUpdate.
TouchUnfiltered ==
    /\ coll.pc = "touch"
    /\ db' = [db EXCEPT ![coll.id] = Seen(@, coll.row.lastseen)]
    /\ coll' = IF coll.row.settings = coll.report THEN ToSend
               ELSE ToSSH
    /\ UNCHANGED <<shown, device, inbox>>

TouchBySave ==
    /\ coll.pc = "touch"
    /\ db' = [db EXCEPT ![coll.id] = coll.row]
    /\ coll' = IF TimeFilter(coll.row) THEN CollIdle
               ELSE IF coll.row.settings = coll.report THEN ToSend
               ELSE ToSSH
    /\ UNCHANGED <<shown, device, inbox>>

TouchWithoutPush ==
    /\ coll.pc = "touch"
    /\ db' = [db EXCEPT ![coll.id] = Seen(@, coll.row.lastseen)]
    /\ coll' = IF TimeFilter(coll.row) THEN CollIdle ELSE ToSend
    /\ UNCHANGED <<shown, device, inbox>>

\* The column update, then TimeFilter and CheckRespondd on the local copy.
Touch ==
    /\ coll.pc = "touch"
    /\ db' = [db EXCEPT ![coll.id] = Seen(@, coll.row.lastseen)]
    /\ coll' = IF TimeFilter(coll.row) THEN CollIdle
               ELSE IF coll.row.settings = coll.report THEN ToSend   \* CheckRespondd
               ELSE ToSSH
    /\ UNCHANGED <<shown, device, inbox>>

\* The fields SSHUpdate sends a command for: it compares with the report, not
\* with what the node has now.
Differing == {f \in Pushed : coll.row.settings[f] # coll.report[f]}

\* The commands for the fields in written have been carried out on the node.
Write(written) ==
    device' = [device EXCEPT ![coll.id] =
                 [f \in Fields |-> IF f \in written THEN coll.row.settings[f]
                                                    ELSE @[f]]]

\* SSHUpdate returned true: that says the connection came up, not that every
\* command did its work.
SSHUpdate(written) ==
    /\ coll.pc = "ssh"
    /\ written \subseteq Differing
    /\ Write(written)
    /\ coll' = ToSend
    /\ UNCHANGED <<db, shown, inbox>>

\* No connection: the row gets the time at which the report was taken up.
SSHFailed ==
    /\ coll.pc = "ssh"
    /\ db' = [db EXCEPT ![coll.id] = Block(@, coll.row.lastseen)]
    /\ coll' = CollIdle
    /\ UNCHANGED <<shown, device, inbox>>

\* Mutant: Save in the place of Create.
InsertOrReplace(n, row) == db' = [db EXCEPT ![n] = row]

\* The insert of a row; a row that is there already stays, and InsertNode does
\* not look at the error.
Insert(n, row) == db' = IF Known(n) THEN db ELSE [db EXCEPT ![n] = row]

\* A new node answered "uptime".
CreateReachable ==
    /\ coll.pc = "uptime"
    /\ Insert(coll.id, coll.row)
    /\ coll' = ToSend
    /\ UNCHANGED <<shown, device, inbox>>

\* A new node did not: it is created on the blacklist and not broadcast.
CreateUnreachable ==
    /\ coll.pc = "uptime"
    /\ Insert(coll.id, Block(coll.row, coll.row.lastseen))
    /\ coll' = CollIdle
    /\ UNCHANGED <<shown, device, inbox>>

\* The broadcast of the local copy.
Send ==
    /\ coll.pc = "send"
    /\ SendNode(coll.id, coll.settings)
    /\ coll' = CollIdle
    /\ UNCHANGED <<db, device, inbox>>

\* ssh.Execute and ssh.Run use the session NewSession did not return: the
\* process panics with the commands in written carried out.
SSHPanic(written) ==
    /\ \/ coll.pc = "ssh" /\ written \subseteq Differing /\ Write(written)
       \/ coll.pc = "uptime" /\ written = {} /\ UNCHANGED device
    /\ coll' = CollIdle
    /\ inbox' = <<>>

\* The steps of the goroutine that need no decision of a node.
CollStep ==
    \/ InsertNode
    \/ Touch
    \/ \E written \in SUBSET Pushed : SSHUpdate(written)
    \/ SSHFailed
    \/ CreateReachable
    \/ CreateUnreachable
    \/ Send
=============================================================================
