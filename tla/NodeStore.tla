----------------------------- MODULE NodeStore -----------------------------
(***************************************************************************)
(* The node table of the manager and the node store of a browser that      *)
(* stays connected.  Both goroutines that write nodes - the yanic          *)
(* collector (module Collector) and the websocket message handler (module  *)
(* NodeHandler) - work on these two variables.                             *)
(*                                                                         *)
(* Settings.  Hostname, owner, location and the four wireless values of a  *)
(* runtime.Node are the members of Fields.  What the properties tell       *)
(* apart is only whether two settings agree, field by field.               *)
(*                                                                         *)
(* Time.  A time stamp is represented by its age, capped at Never: the     *)
(* code compares stamps only with "now - blacklistFor" (TimeFilter), so    *)
(* every age beyond BlacklistFor behaves alike, and a NULL stamp behaves   *)
(* as one of that age: NULL lastseen filters, NULL blacklist does not.     *)
(* Time passes in the Tick action of NodeSync.                             *)
(***************************************************************************)
EXTENDS Integers

CONSTANTS
    Nodes,         \* node ids
    Fields,        \* the configurable attributes of a node
    Values,        \* what an attribute may be set to
    Blank,         \* the value of an attribute nobody has set
    BlacklistFor,  \* config blacklist_for, in ticks
    NoRow,         \* no row of that primary key
    Hidden         \* the browser does not know the node

Settings == [Fields -> Values]

Never == BlacklistFor + 1
Ages  == 0 .. Never

\* The columns of the table nodes; the respondd copies are not columns.
Rows == [settings : Settings, lastseen : Ages, blacklist : Ages]

\* Settings of a node on their way: from the node to the collector, or from a
\* browser to the message handler.
NodeMessages == [id : Nodes, settings : Settings]

ASSUME BlacklistForAssumption == BlacklistFor \in Nat \ {0}
ASSUME BlankAssumption        == Blank \in Values
ASSUME NoRowAssumption        == NoRow \notin Rows \cup Settings \cup NodeMessages
ASSUME HiddenAssumption       == Hidden \notin Settings

VARIABLES
    db,     \* the table nodes, by primary key
    shown   \* socket.js/store.js: the node settings in a browser's store

StoreTypeOK ==
    /\ db \in [Nodes -> Rows \cup {NoRow}]
    /\ shown \in [Nodes -> Settings \cup {Hidden}]

StoreInit ==
    /\ db = [n \in Nodes |-> NoRow]
    /\ shown = [n \in Nodes |-> Hidden]

Known(n) == db[n] # NoRow

\* The two halves of Node.TimeFilter.
Blocked(row) == row.blacklist < BlacklistFor
Offline(row) == row.lastseen > BlacklistFor

TimeFilter(row) == Offline(row) \/ Blocked(row)

\* A row with one column, or the columns of the settings, replaced.
Seen(row, age)       == [row EXCEPT !.lastseen = age]
Block(row, age)      == [row EXCEPT !.blacklist = age]
Changed(row, values) == [row EXCEPT !.settings = values]

\* A store that has just been loaded with the page.
EmptyStore == [n \in Nodes |-> Hidden]

\* SendAll of a "node" message: every browser replaces its copy.
SendNode(n, s) == shown' = [shown EXCEPT ![n] = s]

\* One tick of the wall clock, on a stamp and on a row.
OlderUncapped(age) == age + 1   \* mutant: no bound on the age

Older(age) == IF age < Never THEN age + 1 ELSE Never

OlderRow(row) ==
    [row EXCEPT !.lastseen = Older(@), !.blacklist = Older(@)]
=============================================================================
