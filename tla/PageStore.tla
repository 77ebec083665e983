----------------------------- MODULE PageStore -----------------------------
(***************************************************************************)
(* store.js in one page of the browser, and what passes between the page   *)
(* and the server about nodes: edits, their answers, and broadcasts.       *)
(*                                                                         *)
(* The nodes of the store are objects: a broadcast replaces the object,    *)
(* some edits change it in place, and event handlers of elements that were *)
(* drawn before, and callbacks of messages sent before, keep the object    *)
(* they were made with.  So the store maps nodes to references into heap.  *)
(*                                                                         *)
(* Edits reach the server, and answers and broadcasts the page, in order   *)
(* and some time later.  What the server has stored meanwhile, and which   *)
(* copy of it a broadcast tells, is in NodeSync: here broadcasts may tell  *)
(* anything, and told is what the page was told last.  An answer names its *)
(* message, by an id with which the page finds the callback: here the      *)
(* answer has the callback.  Edits that wait for a connection are in       *)
(* BrowserSocket.                                                          *)
(***************************************************************************)
EXTENDS Integers, Sequences, FiniteSets, Functions

CONSTANTS
    Nodes,     \* node ids, ordered as numbers
    Names,     \* hostnames
    Blank,     \* the empty hostname
    Places,    \* locations, other than none
    NoPlace,   \* no location
    Untold,    \* the page knows nothing of the node
    NewNames,  \* what others tell the page: bounds
    NewPlaces

ASSUME NodesAssumption == Nodes \subseteq Nat \ {0} /\ IsFiniteSet(Nodes)
ASSUME BlankAssumption == Blank \in Names
ASSUME NoPlaceAssumption == NoPlace \notin Places

\* Of what can be edited: owner is like hostname, and the wireless settings are
\* edited like a location on the map.
Settings == [hostname : Names, location : Places \cup {NoPlace}]
Fields == {"hostname", "location"}

\* Settings the server comes to tell without an edit of the page.
News == [hostname : NewNames, location : NewPlaces]

ASSUME UntoldAssumption == Untold \notin Settings
ASSUME NewsAssumption == NewNames \subseteq Names /\ NewPlaces \subseteq Places \cup {NoPlace}

VARIABLES
    heap,       \* the node objects of the page
    list,       \* the store: a reference per node, 0 for none
    channels,   \* store.channelsWifi24 and store.channelsWifi5 have been received
    up,         \* edits the server has not handled yet
    down,       \* messages the page has not received yet
    due,        \* the broadcast nodeHandler has still to send, after its answer
    broken,     \* the connection is dead, and the page has not noticed
    told        \* history: the settings the page was told last, per node

wireVars == <<up, down, due, broken>>
storeVars == <<heap, list, channels, wireVars, told>>

Refs == Nat \ {0}
Objects == [node : Nodes, is : Settings]

\* What an edit does when it is refused: obj gets back its old value, and so does
\* the input of the row, if the edit was made in one.  obj is 0 for an edit that
\* has nothing to take back.
Callbacks == [obj : Nat, field : {"hostname"}, old : Names, row : Nat]
               \cup [obj : Nat, field : {"location"}, old : Places \cup {NoPlace}, row : {0}]

Edits == [node : Nodes, is : Settings, callback : Callbacks]

NodeMessages == [subject : {"node"}, node : Nodes, is : Settings]

Messages == NodeMessages
              \cup [subject : {"answer"}, callback : Callbacks, ok : BOOLEAN]
              \cup [subject : {"channels"}]

\* The callbacks that will be called.
Callbacked ==
    {up[i].callback : i \in DOMAIN up}
      \cup {down[i].callback : i \in {j \in DOMAIN down : down[j].subject = "answer"}}

StoreTypeOK ==
    /\ heap \in [DOMAIN heap -> Objects]
    /\ DOMAIN heap \subseteq Refs /\ IsFiniteSet(DOMAIN heap)
    /\ list \in [Nodes -> DOMAIN heap \cup {0}]
    /\ \A n \in Nodes : list[n] # 0 => heap[list[n]].node = n
    /\ channels \in BOOLEAN
    /\ up \in Seq(Edits)
    /\ down \in Seq(Messages)
    /\ due \subseteq NodeMessages /\ \A m1, m2 \in due : m1 = m2
    /\ \A c \in Callbacked : c.obj \in DOMAIN heap \cup {0}
    /\ broken \in BOOLEAN
    /\ told \in [Nodes -> Settings \cup {Untold}]

\* The nodes the page was told of.
Known == {n \in Nodes : told[n] # Untold}

NodeMessage(n, is) == [subject |-> "node", node |-> n, is |-> is]
AnswerTo(c, ok)    == [subject |-> "answer", callback |-> c, ok |-> ok]
ChannelLists       == [subject |-> "channels"]

\* The orders the elements of S can be in.
Orders(S) == Surjection(1 .. Cardinality(S), S)

\* What connectHandler sends: nodes in the order of the database, then the channels.
\* A node that is silent or blocked TimeFilter leaves out, as one that is not there.
Connected(messages) ==
    \E nodes \in SUBSET Nodes :
      \E order \in Orders(nodes), is \in [nodes -> News] :
        messages = Append([i \in DOMAIN order |-> NodeMessage(order[i], is[order[i]])],
                          ChannelLists)

\* A page whose connection has just been made.
StoreInit ==
    /\ heap = <<>>
    /\ list = [n \in Nodes |-> 0]
    /\ channels = FALSE
    /\ up = <<>>
    /\ Connected(down)
    /\ due = {}
    /\ broken = FALSE
    /\ told = [n \in Nodes |-> Untold]

\* A message sent to all pages.
Tell(m) == down' = IF broken THEN down ELSE Append(down, m)

\* Mutant: the copy that is sent is always made of an empty node.
GetNodeCreated(h, l, n) == [node |-> n, is |-> [hostname |-> Blank, location |-> NoPlace]]

\* getNode, or createNode for a node that is not in the store.
GetNode(h, l, n) ==
    IF l[n] # 0 THEN h[l[n]]
    ELSE [node |-> n, is |-> [hostname |-> Blank, location |-> NoPlace]]

\* A reference for a new object.
New(h) == CHOOSE r \in 1 .. Cardinality(DOMAIN h) + 1 : r \notin DOMAIN h

With(h, r, o) == [x \in DOMAIN h \cup {r} |-> IF x = r THEN o ELSE h[x]]

Set(o, field, value) == [o EXCEPT !.is[field] = value]

\* sendnode.  An edit on a dead connection is lost.
SendNode(o, callback) ==
    /\ up' = IF broken THEN up
             ELSE Append(up, [node |-> o.node, is |-> o.is, callback |-> callback])
    /\ UNCHANGED <<down, due, broken, told>>

\* Mutant: an edit is told before it is answered.
HandleToldFirst ==
    /\ up # <<>> /\ due = {}
    /\ up' = Tail(up)
    /\ LET e == Head(up) IN
         \/ down' = Append(down, AnswerTo(e.callback, FALSE))
         \/ down' = down \o <<NodeMessage(e.node, e.is), AnswerTo(e.callback, TRUE)>>
    /\ UNCHANGED <<heap, list, channels, due, broken, told>>

\* nodeHandler takes the next edit.  It refuses it - nobody is logged in, or the
\* database failed - or it stores and answers it, and will tell all pages.
Handle ==
    /\ up # <<>> /\ due = {}
    /\ up' = Tail(up)
    /\ LET e == Head(up) IN
         \/ down' = Append(down, AnswerTo(e.callback, FALSE)) /\ UNCHANGED due
         \/ /\ down' = Append(down, AnswerTo(e.callback, TRUE))
            /\ due' = {NodeMessage(e.node, e.is)}
    /\ UNCHANGED <<heap, list, channels, broken, told>>

\* Its broadcast.  Others may have told something since its answer.
TellDue ==
    /\ due # {}
    /\ \E m \in due : Tell(m)
    /\ due' = {}
    /\ UNCHANGED <<heap, list, channels, up, broken, told>>

\* An edit of the node page has no callback of its own, only sendnode's.
NoCallback == [obj |-> 0, field |-> "hostname", old |-> Blank, row |-> 0]

\* Mutant: a refused edit is not taken back.
UndoneNever(h, callback, ok) == h

\* sendnode's callback: what the objects are after an answer.
Undone(h, callback, ok) ==
    IF ok \/ callback.obj = 0 THEN h
    ELSE With(h, callback.obj, Set(h[callback.obj], callback.field, callback.old))
=============================================================================
