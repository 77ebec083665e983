-------------------------------- MODULE Page --------------------------------
(***************************************************************************)
(* One page of the browser: gui.js and index.js with the list, the node    *)
(* page and the map, and the messages that reach the page while its user   *)
(* works.  What other users and the collector tell is any news.            *)
(***************************************************************************)
EXTENDS ListView, NodeView, MapView

CONSTANTS
    Views,        \* the views the user goes to
    MaxChanges    \* bound: changes by users, of the page, and of the connection

ASSUME ViewsAssumption == "list" \in Views /\ Views \subseteq {"list", "node", "map"}
ASSUME MaxChangesAssumption == MaxChanges \in Nat

VARIABLES
    view,      \* currentView
    gui,       \* the Debouncer of gui.js
    loose,     \* history: nodes the page may have otherwise than it was told, with
               \* nothing under way to mend it, until it is told of them again
    changes    \* of MaxChanges

viewVars == <<listVars, nodeVars, mapVars>>
vars == <<storeVars, viewVars, view, gui, loose, changes>>

TypeOK ==
    /\ StoreTypeOK /\ ListTypeOK /\ NodeTypeOK /\ MapTypeOK
    /\ view \in Views
    /\ gui \in Debouncers
    /\ loose \subseteq Nodes
    /\ changes \in 0 .. MaxChanges

\* window.onload: the router has set the view the address names, and it is drawn.
Init ==
    /\ view \in Views
    /\ StoreInit /\ ListInit(view = "list") /\ NodeInit(view = "node") /\ MapInit
    /\ gui = Ran(FALSE)
    /\ loose = {}
    /\ changes = 0

-----------------------------------------------------------------------------
\* What nothing refers to any more is gone.
InUse ==
    {list'[n] : n \in Nodes} \cup {data'[n] : n \in Nodes}
      \cup {rows'[i].obj : i \in DOMAIN rows'} \cup {markers'[n].obj : n \in Nodes}
      \cup {c.obj : c \in Callbacked'}

Collect(h) == heap' = [r \in DOMAIN h \cap InUse |-> h[r]]

\* currentView.render, with the objects h, the store l, the channels ch, and the
\* list's rows and focus.  A view that is not shown stays as it is.
DrawView(h, l, ch, kept, f) ==
    /\ IF view = "list" THEN ListRender(h, l, ch, kept, f)
       ELSE rows' = kept /\ focus' = f /\ UNCHANGED <<data, listTimer>>
    /\ IF view = "node" THEN NodeRender(h, l, currentNodeID, rendered) ELSE UNCHANGED pageDom
    /\ IF view = "map" THEN MapRender(h, l) ELSE UNCHANGED mapVars

\* gui.render.  Notifications and menu, which are drawn after the view, are left out.
Render(h, l, ch, kept, f) ==
    IF gui.timer
    THEN /\ gui' = Skipped(gui)
         /\ rows' = kept /\ focus' = f
         /\ UNCHANGED <<data, listTimer, pageDom, mapVars>>
    ELSE /\ gui' = Ran(view = "list" /\ ListThrows(l, ch))
         /\ DrawView(h, l, ch, kept, f)

\* What rendering has no part in.
Untouched == UNCHANGED <<choiceVars, typeVars, currentNodeID, editing, hand, following, gps, view>>

\* onmessage for a node: updateNode, then render.
ReceiveNode(m) ==
    LET r == New(heap)
        h == With(heap, r, [node |-> m.node, is |-> m.is])
    IN  /\ list' = [list EXCEPT ![m.node] = r]
        /\ Render(h, list', channels, rows, focus)
        /\ told' = [told EXCEPT ![m.node] = m.is]
        /\ loose' = loose \ {m.node}
        /\ UNCHANGED channels
        /\ Collect(h)

\* onmessage for the lists of channels, the two in one step.
ReceiveChannels ==
    /\ channels' = TRUE
    /\ Render(heap, list, TRUE, rows, focus)
    /\ UNCHANGED <<list, told, loose>>
    /\ Collect(heap)

\* onmessage for the answer to an edit: the callback, then render.
ReceiveAnswer(m) ==
    LET h == Undone(heap, m.callback, m.ok)
    IN  /\ Render(h, list, channels, RowsUndone(m.callback, m.ok), focus)
        /\ UNCHANGED <<list, channels, told, loose>>
        /\ Collect(h)

Receive ==
    /\ down # <<>>
    /\ down' = Tail(down)
    /\ UNCHANGED <<up, due, broken, changes>>
    /\ LET m == Head(down) IN
         CASE m.subject = "node" -> ReceiveNode(m)
           [] m.subject = "channels" -> ReceiveChannels
           [] m.subject = "answer" -> ReceiveAnswer(m)
    /\ Untouched

\* The timer of gui's Debouncer.
GuiTimeout ==
    /\ gui.timer
    /\ IF gui.skipped
       THEN /\ gui' = Ran(view = "list" /\ ListThrows(list, channels))
            /\ DrawView(heap, list, channels, rows, focus)
       ELSE gui' = Idle /\ UNCHANGED <<tableVars, pageDom, mapVars>>
    /\ Untouched
    /\ UNCHANGED <<list, channels, wireVars, told, loose, changes>>
    /\ Collect(heap)

ListTimer ==
    /\ ListTimeout
    /\ UNCHANGED <<list, channels, wireVars, told, nodeVars, mapVars,
                   view, gui, loose, changes>>
    /\ Collect(heap)

\* onclose, which renders, and onopen.  Callbacks of edits that were not answered
\* stay in eventMSGID for ever, and are as good as forgotten.
Reconnect ==
    /\ broken
    /\ broken' = FALSE
    /\ Connected(down')
    /\ Render(heap, list, channels, rows, focus)
    /\ Untouched
    /\ UNCHANGED <<list, channels, up, due, told, loose, changes>>
    /\ Collect(heap)

\* The server handles an edit, and tells it: nothing of that is seen on the page.
Serve ==
    /\ Handle \/ TellDue
    /\ UNCHANGED <<viewVars, view, gui, loose, changes>>

-----------------------------------------------------------------------------
\* An edit in place of the field of the object r, if that is the node's, is loose when
\* it is lost; and when an edit of the field is not answered, for a refused one takes
\* it back to the value another refused one had set.
Loosens(r, field) ==
    loose' = IF /\ list[heap[r].node] = r
                /\ broken \/ \E c \in Callbacked : c.obj = r /\ c.field = field
             THEN loose \cup {heap[r].node} ELSE loose

\* What the user does in the list ...
InList ==
    /\ view = "list"
    /\ UNCHANGED <<nodeVars, mapVars, view, gui>>
    /\ \/ /\ \/ \E i \in DOMAIN rows : FocusRow(i)
             \/ \E text \in Names : TypeInRow(text)
          /\ UNCHANGED <<storeVars, loose, changes>>
       \/ /\ changes < MaxChanges /\ changes' = changes + 1
          /\ \/ /\ LeaveRow
                /\ Loosens(rows[focus].obj, "hostname")
                /\ UNCHANGED <<list, channels>>
             \/ /\ \/ \E by \in Sorts : SortTable(by)
                   \/ \E nodes \in Filters : nodes # filter /\ Search(nodes)
                /\ UNCHANGED <<list, channels, wireVars, told, loose>>
                /\ Collect(heap)

\* ... on the page of a node ...
OnPage ==
    /\ view = "node"
    /\ \/ /\ FocusInput \/ DragMarker \/ \E text \in Names : TypeInput(text)
          /\ UNCHANGED <<storeVars, changes>>
       \/ /\ changes < MaxChanges /\ changes' = changes + 1
          /\ \/ LeaveInput
             \/ Follow /\ UNCHANGED <<heap, wireVars, told>>
             \/ \E place \in Places : DropMarker(place)
             \/ ResetLocation
             \/ StopFollowing
          /\ UNCHANGED <<list, channels>>
    /\ UNCHANGED <<listVars, mapVars, view, gui, loose>>

\* ... and on the map.
OnMap ==
    /\ view = "map"
    /\ \/ /\ \E n \in Nodes : DragNode(n)
          /\ UNCHANGED <<storeVars, loose, changes>>
       \/ /\ changes < MaxChanges /\ changes' = changes + 1
          /\ \E place \in Places : DropNode(place)
          /\ Loosens(markers[dragged].obj, "location")
          /\ UNCHANGED <<list, channels>>
    /\ UNCHANGED <<listVars, nodeVars, view, gui>>

\* The watch of the device's position goes on when the user leaves the page.
Watch ==
    /\ \E place \in Places : Position(place)
    /\ UNCHANGED <<storeVars, listVars, mapVars, view, gui, loose, changes>>

\* A link of the menu or of a row, and the router: setView, for the page of a node
\* setNodeID too.  What is not seen any more is not kept here, if it is drawn anew
\* before it is seen again.
SetView(v, n) ==
    /\ changes < MaxChanges /\ changes' = changes + 1
    /\ focus = 0 /\ hand = "none" /\ dragged = 0
    /\ v # view \/ n # currentNodeID
    /\ v = "node" => n # 0
    /\ view' = v
    /\ currentNodeID' = n
    /\ IF v = "list" THEN ListRender(heap, list, channels, rows, focus)
       ELSE UNCHANGED tableVars
    /\ IF v = "node" THEN NodeRender(heap, list, n, FALSE)
       ELSE input' = Blank /\ marker' = NoPlace /\ rendered' = FALSE
    /\ IF v = "map" THEN MapRender(heap, list) ELSE markers' = NoMarkers /\ dragged' = 0
    /\ UNCHANGED <<list, channels, wireVars, told, choiceVars, typeVars,
                   editing, hand, following, gps, gui, loose>>
    /\ Collect(heap)

\* All pages are told of a node: another user has edited it; or it has reported, and
\* the collector tells what it knows, read a while ago.
Other(n, is) ==
    /\ changes < MaxChanges /\ changes' = changes + 1
    /\ ~broken
    /\ Tell(NodeMessage(n, is))
    /\ UNCHANGED <<heap, list, channels, up, due, broken, told, viewVars, view, gui, loose>>

\* The connection dies, with what is on it; what the server still handles of that is
\* like another user's edit.  Edits in place that were not told lose their callback.
Break ==
    /\ changes < MaxChanges /\ changes' = changes + 1
    /\ ~broken
    /\ broken' = TRUE
    /\ up' = <<>>
    /\ down' = <<>>
    /\ loose' = loose \cup {n \in Nodes : list[n] # 0 /\ heap[list[n]].is # told[n]}
    /\ UNCHANGED <<heap, list, channels, due, told, viewVars, view, gui>>

Work == Receive \/ GuiTimeout \/ ListTimer \/ Reconnect \/ Serve

Disturbance ==
    \/ InList \/ OnPage \/ OnMap \/ Watch
    \/ \E v \in Views : SetView(v, currentNodeID)
    \/ \E n \in Nodes : "node" \in Views /\ SetView("node", n)
    \/ \E n \in Nodes, is \in News : Other(n, is)
    \/ Break

Next == Work \/ Disturbance

Spec == Init /\ [][Next]_vars

\* Edits are handled, messages arrive, timers fire, and connections are made again.
Fairness == WF_vars(Work)

FairSpec == Spec /\ Fairness

-----------------------------------------------------------------------------
Settled == up = <<>> /\ down = <<>> /\ due = {} /\ ~broken

\* A page at which nothing is under way has every node as it was told last, although it
\* changes nodes in place before an edit is stored, takes a refused one back on the
\* object of then, and is told of nodes by others between an edit and its answer.
\* Not so for nodes with overlapping edits, or with one that was lost or not told
\* when the connection died, if the node is left out when it is made again.
InSync ==
    Settled => \A n \in Known \ loose : list[n] # 0 /\ heap[list[n]].is = told[n]

\* What keeps a page in sync.  Nothing is on a dead connection.
LostIsSilent == broken => up = <<>> /\ down = <<>>

\* The page will be told of the node, if the connection lives.
Awaited(n) ==
    /\ ~broken
    /\ \/ \E i \in DOMAIN down : down[i].subject = "node" /\ down[i].node = n
       \/ \E m \in due : m.node = n

\* An edit in place that was stored is told after its answer.
StoredIsTold ==
    \A i \in DOMAIN down :
      down[i].subject = "answer" /\ down[i].ok /\ down[i].callback.obj # 0 =>
        LET n == heap[down[i].callback.obj].node IN
          \/ \E j \in DOMAIN down : j > i /\ down[j].subject = "node" /\ down[j].node = n
          \/ \E m \in due : m.node = n

TakesBack(r, field) == {c \in Callbacked : c.obj = r /\ c.field = field}

\* A node has what was told, but for edits that are not answered or were refused, and
\* those will be taken back to what was told.
UndoneIsTold(n) ==
    \A f \in Fields :
      LET undo == TakesBack(list[n], f) IN
        IF undo = {} THEN heap[list[n]].is[f] = told[n][f]
        ELSE \A c \in undo : c.old = told[n][f]

UpToDate ==
    \A n \in Nodes :
      IF list[n] = 0 THEN n \notin Known
      ELSE n \in Known /\ (n \notin loose /\ ~Awaited(n) => UndoneIsTold(n))

\* What the user holds is there.
HandsInv ==
    /\ view = "node" => currentNodeID # 0
    /\ editing <=> hand # "none"
    /\ following => gps \in Places \cup {NoPlace}
    /\ dragged # 0 => markers[dragged].obj # 0

\* A view is what drawing it now would make of it, but for what the user holds.
RowsDrawn ==
    /\ \A i \in DOMAIN rows : \E n \in Drawn(data) : rows[i].obj = data[n]
    /\ Cardinality(Drawn(data)) <= MaxRows =>
         \A n \in Drawn(data) : \E i \in DOMAIN rows : rows[i].obj = data[n]
    /\ typed = Blank /\ focus = 0 =>
         \A i \in DOMAIN rows : rows[i].text = heap[rows[i].obj].is.hostname

ListDrawn ==
    data = Found(list) /\ (~Throws(data, channels, sortIndex) => RowsDrawn)

PageDrawn ==
    ~editing =>
      /\ input = Current.is.hostname
      /\ Current.is.location # NoPlace /\ gps = Undefined => marker = Current.is.location

MapDrawn == markers = [n \in Nodes |-> AddNode(list, n, GetNode(heap, list, n).is)]

ViewDrawn ==
    /\ view = "list" => listTimer.skipped \/ ListDrawn
    /\ view = "node" => PageDrawn
    /\ view = "map" => MapDrawn

\* The view is drawn, or it will be: by what is received, the answer to an edit too,
\* when the connection is made again, or by a timer that made up its mind to.
DrawingComes == broken \/ up # <<>> \/ down # <<>> \/ gui.skipped

CaughtUp ==
    /\ gui.skipped => gui.timer
    /\ listTimer.skipped => listTimer.timer
    /\ DrawingComes \/ ViewDrawn

PageInv ==
    /\ LostIsSilent /\ StoredIsTold /\ UpToDate
    /\ HandsInv /\ CaughtUp

\* What the views show if they show what the page was told.  The list does not if
\* drawing it throws; the marker of the node page does not if a location is reset, or
\* came while the marker followed the device.
ListShows ==
    ~Throws(Found(list), channels, sortIndex) =>
      /\ Cardinality(Known \cap filter) <= MaxRows =>
           {heap[rows[i].obj].node : i \in DOMAIN rows} = Known \cap filter
      /\ typed = Blank /\ focus = 0 =>
           \A i \in DOMAIN rows : rows[i].text = told[heap[rows[i].obj].node].hostname

PageShows ==
    currentNodeID \in Known /\ ~editing =>
      /\ input = told[currentNodeID].hostname
      /\ told[currentNodeID].location # NoPlace /\ gps = Undefined =>
           marker = told[currentNodeID].location

MapShows ==
    \A n \in Known : markers[n].at = told[n].location

Shows ==
    /\ view = "list" => ListShows
    /\ view = "node" => PageShows
    /\ view = "map" /\ dragged = 0 => MapShows

\* README.md: "updated live".  A page at rest, with nothing under way and no timer set,
\* shows of each node what it was told last, whichever calls of render the two
\* Debouncers skipped.  (Whether that is what the table has is up to the broadcasts:
\* see NodeSync.)
RestShows ==
    Settled /\ ~gui.timer /\ ~listTimer.timer /\ loose = {} => Shows

\* view/node.js: "don't change input fields while user is editing".  On the node page
\* no message and no rendering changes what the user is typing.  In the list a drawing
\* leaves the row in which something is typed its text - but an input the user has
\* emptied gets the stored hostname back, for list.js takes the empty text for none -
\* and the answer to a refused edit in the row takes it back.
TypingStays ==
    [][/\ editing /\ hand' = hand /\ input' # input => hand = "input" /\ UNCHANGED storeVars
       /\ focus # 0 /\ focus' = focus =>
            \/ rows'[focus].text \in {rows[focus].text, typed'}
            \/ typed = Blank /\ rows'[focus].text = heap'[rows'[focus].obj].is.hostname
            \/ /\ down # <<>> /\ down' = Tail(down)
               /\ down[1].subject = "answer" /\ down[1].callback.row = focus]_vars

\* An edit sends the whole node.  Made when nothing is under way, of the node's object in
\* the store, it sends what the page was told last but for the one field: no other
\* setting is reverted, unless somebody else's edit was not told to the page yet.
EditsSetOneField ==
    [][Settled /\ up' # up =>
         LET e == up'[1] IN
           e.node \in Known \ loose /\ e.callback.obj \in {0, list[e.node]} =>
             \E f \in Fields : e.is = [told[e.node] EXCEPT ![f] = e.is[f]]]_vars


\* README.md: "to change just the hostname, double-click on hostname field in list
\* and make your change".  The text typed into a row is sent for the node it was typed
\* for.
EditsReachTheirNode ==
    [][typedNode # 0 /\ typedNode' = 0 /\ up' # up => up'[Len(up')].node = typedNode]_vars
=============================================================================
