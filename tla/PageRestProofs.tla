--------------------------- MODULE PageRestProofs ---------------------------
(***************************************************************************)
(* What a page shows: each view is drawn as the store is, or a message, a  *)
(* new connection or a timer will draw it.  With PageProofs, a page at     *)
(* rest shows what it was told.                                            *)
(***************************************************************************)
EXTENDS PageProofs

\* The objects that are left are those of h.
AsIn(h) == \A r \in DOMAIN heap' : heap'[r] = h[r]

-----------------------------------------------------------------------------
LEMMA DebouncerIs ==
    /\ Idle.skipped = FALSE /\ Idle.timer = FALSE
    /\ \A threw \in BOOLEAN : Ran(threw).skipped = FALSE
    /\ \A d \in Debouncers : Skipped(d).skipped /\ Skipped(d).timer = d.timer
  BY DEF Idle, Ran, Skipped, Debouncers

\* The rows of a table that was drawn without an exception.
LEMMA RowsCaughtUp ==
    ASSUME TInv', NEW h, AsIn(h), typed' = typed, NEW kept, NEW f,
           DrawTable(h, data', channels', sortIndex', kept, f),
           ~Throws(data', channels', sortIndex')
    PROVE  RowsDrawn'
  <1>1. PICK order \in Orders(Drawn(data')) :
          rows' = [i \in DOMAIN order \cap 1 .. MaxRows |-> RenderRow(h, data'[order[i]])]
    BY DEF DrawTable, Sorted
  <1>2. PICK k \in Nat : /\ k = Cardinality(Drawn(data'))
                         /\ order \in [1 .. k -> Drawn(data')]
                         /\ \A n \in Drawn(data') : \E i \in 1 .. k : order[i] = n
    <2>1. Cardinality(Drawn(data')) \in Nat
      BY NodesAssumption, FS_Subset, FS_CardinalityType DEF Drawn
    <2> QED
      BY <2>1 DEF Orders, Surjection
  <1>3. /\ DOMAIN rows' = 1 .. k \cap 1 .. MaxRows
        /\ \A i \in DOMAIN rows' : /\ order[i] \in Drawn(data')
                                   /\ rows'[i].obj = data'[order[i]]
                                   /\ rows'[i].text = Text(h[rows'[i].obj])
    BY <1>1, <1>2 DEF RenderRow
  <1>4. \A i \in DOMAIN rows' : rows'[i].obj \in DOMAIN heap'
    <2>1. rows' \in Seq(RowType(DOMAIN heap'))
      BY DEF TInv, TypeOK, ListTypeOK, RowType
    <2>2. \A i \in DOMAIN rows' : rows'[i] \in RowType(DOMAIN heap')
      BY <2>1, LenProperties, ElementOfSeq
    <2> QED
      BY <2>2 DEF RowType
  <1>5. ASSUME k <= MaxRows, NEW n \in Drawn(data')
        PROVE  \E i \in DOMAIN rows' : rows'[i].obj = data'[n]
    <2>1. PICK i \in 1 .. k : order[i] = n
      BY <1>2
    <2>2. i \in DOMAIN rows'
      BY <1>3, <1>5, <2>1, MaxRowsAssumption
    <2> QED
      BY <1>3, <2>1, <2>2
  <1>6. ASSUME typed' = Blank, NEW i \in DOMAIN rows'
        PROVE  rows'[i].text = heap'[rows'[i].obj].is.hostname
    BY <1>3, <1>4, <1>6 DEF Text, AsIn
  <1>7. Drawn(data)' = Drawn(data')
    BY DEF Drawn
  <1> QED
    BY <1>2, <1>3, <1>5, <1>6, <1>7 DEF RowsDrawn

\* The list is drawn, or the timer that is set will draw it.
LEMMA ListCaughtUp ==
    ASSUME TInv, TInv', NEW h, AsIn(h), typed' = typed, filter' = filter, sortIndex' = sortIndex,
           NEW kept, NEW f, ListRender(h, list', channels', kept, f)
    PROVE  /\ listTimer'.skipped => listTimer'.timer
           /\ listTimer'.skipped \/ ListDrawn'
  <1>1. listTimer \in Debouncers
    BY DEF TInv, TypeOK, ListTypeOK
  <1>2. CASE listTimer.timer
    BY <1>1, <1>2, DebouncerIs DEF ListRender
  <1>3. CASE ~listTimer.timer
    <2>1. /\ listTimer' = Ran(Throws(Found(list'), channels', sortIndex))
          /\ data' = Found(list')
          /\ DrawTable(h, data', channels', sortIndex', kept, f)
      BY <1>3 DEF ListRender
    <2>2. data' = Found(list)'
      BY <2>1 DEF Found
    <2>3. Throws(data, channels, sortIndex)' <=> Throws(data', channels', sortIndex')
      BY DEF Throws, Drawn
    <2>4. ~Throws(data', channels', sortIndex') => RowsDrawn'
      BY <2>1, RowsCaughtUp
    <2>5. ListDrawn'
      BY <2>2, <2>3, <2>4 DEF ListDrawn
    <2> QED
      BY <2>1, <2>5, DebouncerIs DEF Throws
  <1> QED
    BY <1>2, <1>3

\* What is drawn of a node is what there is of it afterwards.
LEMMA SameNode ==
    ASSUME TInv', NEW h, AsIn(h), NEW n \in Nodes
    PROVE  GetNode(h, list', n) = GetNode(heap', list', n)
  <1>1. list'[n] \in DOMAIN heap' \cup {0}
    BY DEF TInv, TypeOK, StoreTypeOK
  <1> QED
    BY <1>1 DEF GetNode, AsIn

LEMMA NodeCaughtUp ==
    ASSUME TInv, TInv', NEW h, AsIn(h), view' = "node",
           UNCHANGED <<editing, following, gps>>,
           NEW done, NodeRender(h, list', currentNodeID', done)
    PROVE  PageDrawn'
  <1>1. currentNodeID' \in Nodes
    BY DEF TInv, TypeOK, NodeTypeOK, HandsInv
  <1>2. GetNode(h, list', currentNodeID') = Current'
    BY <1>1, SameNode DEF Current
  <1>3. gps = Undefined => ~following
    BY UndefinedAssumption DEF TInv, HandsInv
  <1> QED
    BY <1>2, <1>3 DEF NodeRender, PageDrawn

LEMMA MapCaughtUp ==
    ASSUME TInv', NEW h, AsIn(h), MapRender(h, list')
    PROVE  MapDrawn'
  BY SameNode DEF MapRender, MapDrawn

LEMMA ViewCaughtUp ==
    ASSUME TInv, TInv', NEW h, AsIn(h), Untouched, NEW kept, NEW f,
           DrawView(h, list', channels', kept, f), listTimer.skipped => listTimer.timer
    PROVE  ViewDrawn' /\ (listTimer'.skipped => listTimer'.timer)
  <1>1. /\ view' = view /\ typed' = typed /\ filter' = filter /\ sortIndex' = sortIndex
        /\ UNCHANGED <<editing, following, gps>> /\ currentNodeID' = currentNodeID
    BY DEF Untouched, choiceVars, typeVars
  <1>2. CASE view = "list"
    BY <1>1, <1>2, ListCaughtUp DEF DrawView, ViewDrawn
  <1>3. CASE view # "list"
    <2>1. listTimer' = listTimer
      BY <1>3 DEF DrawView
    <2>2. view = "node" => PageDrawn'
      BY <1>1, NodeCaughtUp DEF DrawView
    <2>3. view = "map" => MapDrawn'
      BY MapCaughtUp DEF DrawView
    <2> QED
      BY <1>1, <1>3, <2>1, <2>2, <2>3 DEF ViewDrawn
  <1> QED
    BY <1>2, <1>3

LEMMA RenderCaughtUp ==
    ASSUME TInv, TInv', CaughtUp, NEW h, AsIn(h), Untouched, NEW kept, NEW f,
           Render(h, list', channels', kept, f)
    PROVE  CaughtUp'
  <1>1. gui \in Debouncers
    BY DEF TInv, TypeOK
  <1>2. CASE gui.timer
    <2>1. gui' = Skipped(gui) /\ listTimer' = listTimer
      BY <1>2 DEF Render
    <2> QED
      BY <1>1, <1>2, <2>1, DebouncerIs DEF CaughtUp, DrawingComes
  <1>3. CASE ~gui.timer
    <2>1. /\ gui' = Ran(view = "list" /\ ListThrows(list', channels'))
          /\ DrawView(h, list', channels', kept, f)
      BY <1>3 DEF Render
    <2>2. gui'.skipped = FALSE
      BY <2>1, DebouncerIs
    <2> QED
      BY <2>1, <2>2, ViewCaughtUp DEF CaughtUp
  <1> QED
    BY <1>2, <1>3

-----------------------------------------------------------------------------
\* A step that is no drawing and leaves what is drawn.
LEMMA ViewKept ==
    ASSUME TInv, TInv', AsIn(heap), ViewDrawn,
           UNCHANGED <<list, channels, data, rows, typed, focus, choiceVars, pageDom, editing,
                       currentNodeID, gps, markers, view>>,
           listTimer.skipped => listTimer'.skipped
    PROVE  ViewDrawn'
  <1>1. Found(list)' = Found(list) /\ Drawn(data)' = Drawn(data)
        /\ (Throws(data, channels, sortIndex)' <=> Throws(data, channels, sortIndex))
    BY DEF Found, Drawn, Throws, choiceVars
  <1>2. \A i \in DOMAIN rows : heap'[rows[i].obj] = heap[rows[i].obj]
    <2>1. rows' \in Seq(RowType(DOMAIN heap'))
      BY DEF TInv, TypeOK, ListTypeOK, RowType
    <2>2. \A i \in DOMAIN rows' : rows'[i] \in RowType(DOMAIN heap')
      BY <2>1, LenProperties, ElementOfSeq
    <2> QED
      BY <2>2 DEF RowType, AsIn
  <1>3. RowsDrawn => RowsDrawn'
    BY <1>1, <1>2 DEF RowsDrawn
  <1>4. ListDrawn => ListDrawn'
    BY <1>1, <1>3 DEF ListDrawn
  <1>5. \A n \in Nodes : GetNode(heap', list', n) = GetNode(heap, list, n)
    BY SameNode
  <1>6. view = "node" => (PageDrawn => PageDrawn')
    <2> SUFFICES ASSUME view = "node" PROVE PageDrawn => PageDrawn'
      OBVIOUS
    <2>1. currentNodeID \in Nodes
      BY DEF TInv, TypeOK, NodeTypeOK, HandsInv
    <2>2. Current' = Current
      BY <1>5, <2>1 DEF Current
    <2> QED
      BY <2>2 DEF PageDrawn, pageDom
  <1>7. MapDrawn => MapDrawn'
    BY <1>5 DEF MapDrawn
  <1> QED
    BY <1>4, <1>6, <1>7 DEF ViewDrawn

LEMMA CaughtUpKept ==
    ASSUME TInv, TInv', CaughtUp, AsIn(heap), UNCHANGED <<up, down, broken, gui, listTimer>>,
           UNCHANGED <<list, channels, data, rows, typed, focus, choiceVars, pageDom, editing,
                       currentNodeID, gps, markers, view>>
    PROVE  CaughtUp'
  <1>1. ViewDrawn => ViewDrawn'
    BY ViewKept
  <1> QED
    BY <1>1 DEF CaughtUp, DrawingComes

\* An edit or a message on its way will have the view drawn, and so will a new
\* connection.
LEMMA Coming ==
    ASSUME UNCHANGED <<gui, listTimer>>, CaughtUp, broken' \/ up' # <<>> \/ down' # <<>>
    PROVE  CaughtUp'
  BY DEF CaughtUp, DrawingComes

LEMMA NotEmpty ==
    ASSUME NEW S, NEW s \in Seq(S), NEW e
    PROVE  Append(s, e) # <<>>
  <1>1. Len(s) \in Nat /\ Len(Append(s, e)) = Len(s) + 1
    BY LenProperties
  <1> QED
    BY <1>1

LEMMA Sent ==
    ASSUME TInv, UNCHANGED <<gui, listTimer>>, CaughtUp, NEW o, NEW c, SendNode(o, c)
    PROVE  CaughtUp'
  <1>1. broken' = broken /\ (~broken => up' # <<>>)
    BY TInvParts, NotEmpty DEF SendNode
  <1> QED
    BY <1>1, Coming

LEMMA ToldCaughtUp ==
    ASSUME TInv, UNCHANGED <<broken, gui, listTimer>>, CaughtUp, NEW m, Tell(m)
    PROVE  CaughtUp'
  <1>1. ~broken => down' # <<>>
    BY TInvParts, NotEmpty DEF Tell
  <1> QED
    BY <1>1, Coming

LEMMA CaughtUpServe ==
    ASSUME TInv, CaughtUp, Serve
    PROVE  CaughtUp'
  <1>1. UNCHANGED <<broken, gui, listTimer>>
    BY DEF Serve, Handle, TellDue, viewVars, listVars, tableVars
  <1>2. CASE Handle
    <2>1. down' # <<>>
      BY <1>2, TInvParts, NotEmpty DEF Handle
    <2> QED
      BY <1>1, <2>1, Coming
  <1>3. CASE TellDue
    BY <1>1, <1>3, ToldCaughtUp DEF TellDue
  <1> QED
    BY <1>2, <1>3 DEF Serve

-----------------------------------------------------------------------------
LEMMA CollectedAsIn ==
    ASSUME NEW h, Collect(h)
    PROVE  AsIn(h)
  BY CollectedObjects DEF AsIn

LEMMA CaughtUpReceive ==
    ASSUME TInv, TInv', CaughtUp, Receive
    PROVE  CaughtUp'
  <1>1. /\ down # <<>> /\ Untouched /\ down[1] = Head(down)
        /\ down[1].subject \in {"node", "channels", "answer"}
    <2>1. down # <<>> /\ Untouched /\ 1 \in DOMAIN down /\ down[1] = Head(down)
      BY TInvParts, OneLess DEF Receive
    <2> QED
      BY <2>1, TInvParts, DownIs DEF Messages, NodeMessages
  <1>2. CASE down[1].subject = "node"
    <2>1. ReceiveNode(down[1])
      BY <1>1, <1>2 DEF Receive
    <2>2. PICK h : Collect(h) /\ Render(h, list', channels', rows, focus)
      BY <2>1 DEF ReceiveNode
    <2> QED
      BY <1>1, <2>2, CollectedAsIn, RenderCaughtUp
  <1>3. CASE down[1].subject = "channels"
    <2>1. Collect(heap) /\ Render(heap, list', channels', rows, focus)
      BY <1>1, <1>3 DEF Receive, ReceiveChannels
    <2> QED
      BY <1>1, <2>1, CollectedAsIn, RenderCaughtUp
  <1>4. CASE down[1].subject = "answer"
    <2>1. ReceiveAnswer(down[1])
      BY <1>1, <1>4 DEF Receive
    <2>2. PICK h, kept : Collect(h) /\ Render(h, list', channels', kept, focus)
      BY <2>1 DEF ReceiveAnswer
    <2> QED
      BY <1>1, <2>2, CollectedAsIn, RenderCaughtUp
  <1> QED
    BY <1>1, <1>2, <1>3, <1>4

LEMMA CaughtUpGuiTimeout ==
    ASSUME TInv, TInv', CaughtUp, GuiTimeout
    PROVE  CaughtUp'
  <1>1. /\ gui.timer /\ Untouched /\ AsIn(heap)
        /\ UNCHANGED <<list, channels, wireVars, loose, changes>>
    BY CollectedAsIn DEF GuiTimeout
  <1>2. CASE gui.skipped
    <2>1. /\ gui' = Ran(view = "list" /\ ListThrows(list, channels))
          /\ DrawView(heap, list', channels', rows, focus)
      BY <1>1, <1>2 DEF GuiTimeout
    <2>2. ViewDrawn' /\ (listTimer'.skipped => listTimer'.timer)
      BY <1>1, <2>1, ViewCaughtUp DEF CaughtUp
    <2> QED
      BY <2>1, <2>2, DebouncerIs DEF CaughtUp
  <1>3. CASE ~gui.skipped
    <2>1. gui' = Idle /\ UNCHANGED <<tableVars, pageDom, mapVars>>
      BY <1>3 DEF GuiTimeout
    <2>2. ViewDrawn => ViewDrawn'
      BY <1>1, <2>1, ViewKept DEF Untouched, typeVars, tableVars, mapVars
    <2> QED
      BY <1>1, <1>3, <2>1, <2>2, DebouncerIs DEF CaughtUp, DrawingComes, tableVars, wireVars
  <1> QED
    BY <1>2, <1>3

LEMMA CaughtUpListTimer ==
    ASSUME TInv, TInv', CaughtUp, ListTimer
    PROVE  CaughtUp'
  <1>1. /\ AsIn(heap) /\ listTimer.timer
        /\ UNCHANGED <<list, channels, up, down, broken, view, gui, choiceVars, typed, pageDom,
                       editing, currentNodeID, gps, markers>>
    BY CollectedAsIn DEF ListTimer, ListTimeout, nodeVars, mapVars, typeVars, wireVars
  <1>2. CASE ~listTimer.skipped
    <2>1. listTimer' = Idle /\ UNCHANGED <<data, rows, focus>>
      BY <1>2 DEF ListTimer, ListTimeout
    <2>2. ViewDrawn => ViewDrawn'
      BY <1>1, <1>2, <2>1, ViewKept
    <2> QED
      BY <1>1, <2>1, <2>2, DebouncerIs DEF CaughtUp, DrawingComes
  <1>3. CASE listTimer.skipped
    <2>1. /\ listTimer' = Ran(Throws(Found(list), channels, sortIndex))
          /\ data' = Found(list)
          /\ DrawTable(heap, data', channels', sortIndex', rows, focus)
      BY <1>1, <1>3 DEF ListTimer, ListTimeout, choiceVars
    <2>2. data' = Found(list)'
      BY <1>1, <2>1 DEF Found, choiceVars
    <2>3. Throws(data, channels, sortIndex)' <=> Throws(data', channels', sortIndex')
      BY DEF Throws, Drawn
    <2>4. ~Throws(data', channels', sortIndex') => RowsDrawn'
      BY <1>1, <2>1, RowsCaughtUp
    <2>5. ListDrawn'
      BY <2>2, <2>3, <2>4 DEF ListDrawn
    <2>6. \A n \in Nodes : GetNode(heap', list', n) = GetNode(heap, list, n)
      BY <1>1, SameNode
    <2>7. MapDrawn => MapDrawn'
      BY <1>1, <2>6 DEF MapDrawn
    <2>8. view = "node" => (PageDrawn => PageDrawn')
      BY <1>1, <2>6 DEF PageDrawn, pageDom, Current, TInv, TypeOK, NodeTypeOK, HandsInv
    <2>9. listTimer'.skipped = FALSE
      BY <2>1, DebouncerIs DEF Throws
    <2> QED
      BY <1>1, <2>5, <2>7, <2>8, <2>9 DEF CaughtUp, DrawingComes, ViewDrawn
  <1> QED
    BY <1>2, <1>3

LEMMA CaughtUpReconnect ==
    ASSUME TInv, TInv', CaughtUp, Reconnect
    PROVE  CaughtUp'
  <1>1. AsIn(heap) /\ Untouched /\ Render(heap, list', channels', rows, focus)
    BY CollectedAsIn DEF Reconnect
  <1> QED
    BY <1>1, RenderCaughtUp

\* The user in the list.
LEMMA CaughtUpInList ==
    ASSUME TInv, TInv', CaughtUp, InList
    PROVE  CaughtUp'
  <1>1. /\ view = "list" /\ view' = "list"
        /\ UNCHANGED <<nodeVars, mapVars, view, gui>>
    BY DEF InList
  <1>2. ASSUME UNCHANGED <<storeVars, filter, sortIndex, data, listTimer>>,
               focus' # 0,
               /\ DOMAIN rows' = DOMAIN rows
               /\ \A j \in DOMAIN rows : rows'[j].obj = rows[j].obj
        PROVE  CaughtUp'
    <2>1. Found(list)' = Found(list) /\ Drawn(data)' = Drawn(data)
          /\ (Throws(data, channels, sortIndex)' <=> Throws(data, channels, sortIndex))
      BY <1>2 DEF Found, Drawn, Throws, storeVars
    <2>2. RowsDrawn => RowsDrawn'
      BY <1>2, <2>1 DEF RowsDrawn
    <2>3. ListDrawn => ListDrawn'
      BY <1>2, <2>1, <2>2 DEF ListDrawn
    <2> QED
      BY <1>1, <1>2, <2>3 DEF CaughtUp, DrawingComes, ViewDrawn, storeVars, wireVars
  <1>3. ASSUME NEW j, FocusRow(j), UNCHANGED storeVars
        PROVE  CaughtUp'
    <2>1. j # 0
      BY <1>3, TInvParts, LenProperties DEF FocusRow
    <2> QED
      BY <1>2, <1>3, <2>1 DEF FocusRow, choiceVars, typeVars
  <1>4. ASSUME NEW text, TypeInRow(text), UNCHANGED storeVars
        PROVE  CaughtUp'
    <2>1. focus # 0 /\ rows' = [rows EXCEPT ![focus].text = text]
          /\ UNCHANGED <<data, focus, listTimer, choiceVars>>
      BY <1>4 DEF TypeInRow
    <2>2. \A j \in DOMAIN rows : rows[j] \in RowType(DOMAIN heap)
      BY TInvParts, LenProperties, ElementOfSeq
    <2>3. DOMAIN rows' = DOMAIN rows /\ \A j \in DOMAIN rows : rows'[j].obj = rows[j].obj
      BY <2>1, <2>2 DEF RowType
    <2> QED
      BY <1>2, <1>4, <2>1, <2>3 DEF choiceVars
  <1>5. CASE LeaveRow
    BY <1>1, <1>5, Sent DEF LeaveRow
  <1>6. ASSUME NEW by, SortTable(by), AsIn(heap),
               UNCHANGED <<list, channels, up, down, broken>>
        PROVE  CaughtUp'
    <2>1. /\ UNCHANGED <<data, listTimer, filter, typed>>
          /\ DrawTable(heap, data', channels', sortIndex', rows, focus)
      BY <1>6 DEF SortTable, typeVars
    <2>2. ~Throws(data', channels', sortIndex') => RowsDrawn'
      BY <1>6, <2>1, RowsCaughtUp
    <2>3. Throws(data, channels, sortIndex)' <=> Throws(data', channels', sortIndex')
      BY DEF Throws, Drawn
    <2>4. data = Found(list) => ListDrawn'
      BY <1>6, <2>1, <2>2, <2>3 DEF ListDrawn, Found
    <2> QED
      BY <1>1, <1>6, <2>1, <2>4 DEF CaughtUp, DrawingComes, ViewDrawn, ListDrawn
  <1>7. ASSUME NEW nodes, Search(nodes), AsIn(heap),
               UNCHANGED <<list, channels, up, down, broken>>
        PROVE  CaughtUp'
    <2>1. listTimer \in Debouncers
      BY DEF TInv, TypeOK, ListTypeOK
    <2>2. CASE listTimer.timer
      <3>1. listTimer' = Skipped(listTimer)
        BY <1>7, <2>2 DEF Search
      <3> QED
        BY <1>1, <1>7, <2>1, <2>2, <3>1, DebouncerIs DEF CaughtUp, DrawingComes, ViewDrawn
    <2>3. CASE ~listTimer.timer
      <3>1. /\ data' = Found(list)' /\ typed' = typed
            /\ listTimer' = Ran(Throws(data', channels, sortIndex))
            /\ DrawTable(heap, data', channels', sortIndex', rows, focus)
        BY <1>7, <2>3 DEF Search, Found, typeVars
      <3>2. ~Throws(data', channels', sortIndex') => RowsDrawn'
        BY <1>7, <3>1, RowsCaughtUp
      <3>3. Throws(data, channels, sortIndex)' <=> Throws(data', channels', sortIndex')
        BY DEF Throws, Drawn
      <3>4. ListDrawn'
        BY <3>1, <3>2, <3>3 DEF ListDrawn
      <3>5. listTimer'.skipped = FALSE
        BY <3>1, DebouncerIs DEF Throws
      <3> QED
        BY <1>1, <1>7, <3>4, <3>5 DEF CaughtUp, DrawingComes, ViewDrawn
    <2> QED
      BY <2>2, <2>3
  <1> QED
    BY <1>3, <1>4, <1>5, <1>6, <1>7, CollectedAsIn DEF InList, wireVars

\* The user on the page of a node.
LEMMA CaughtUpOnPage ==
    ASSUME TInv, TInv', CaughtUp, OnPage
    PROVE  CaughtUp'
  <1>1. /\ view = "node" /\ view' = "node"
        /\ UNCHANGED <<gui, list, channels, data, rows, listTimer, typed, focus, choiceVars,
                       markers>>
    BY DEF OnPage, listVars, tableVars, mapVars, typeVars, storeVars
  <1>2. ASSUME UNCHANGED <<heap, wireVars, input, currentNodeID>>,
               \/ editing' = TRUE
               \/ gps' # Undefined /\ editing' = editing
               \/ UNCHANGED <<marker, gps, editing>>
        PROVE  CaughtUp'
    <2>1. PageDrawn => PageDrawn'
      BY <1>1, <1>2 DEF PageDrawn, Current, GetNode
    <2> QED
      BY <1>1, <1>2, <2>1 DEF CaughtUp, DrawingComes, ViewDrawn, wireVars
  <1>3. CASE (FocusInput \/ DragMarker) /\ UNCHANGED storeVars
    BY <1>2, <1>3 DEF FocusInput, DragMarker, pageDom, storeVars
  <1>4. CASE Follow /\ UNCHANGED <<heap, wireVars, told>>
    <2>1. Undefined # NoPlace
      BY UndefinedAssumption
    <2> QED
      BY <1>2, <1>4, <2>1 DEF Follow, pageDom
  <1>5. ASSUME NEW text, TypeInput(text), UNCHANGED storeVars
        PROVE  CaughtUp'
    <2>1. editing'
      BY <1>5 DEF TypeInput, TInv, HandsInv
    <2>2. PageDrawn'
      BY <2>1 DEF PageDrawn
    <2> QED
      BY <1>1, <1>5, <2>2 DEF CaughtUp, DrawingComes, ViewDrawn, storeVars, wireVars
  <1>6. CASE StopFollowing /\ UNCHANGED wireVars
    BY <1>2, <1>6 DEF StopFollowing, pageDom
  <1>7. CASE \E o, c : SendNode(o, c)
    BY <1>1, <1>7, Sent
  <1>8. LeaveInput \/ ResetLocation \/ (\E place : DropMarker(place)) => \E o, c : SendNode(o, c)
    BY DEF LeaveInput, ResetLocation, DropMarker, UpdatePosition
  <1>9. StopFollowing => (\E o, c : SendNode(o, c)) \/ UNCHANGED wireVars
    BY DEF StopFollowing, UpdatePosition
  <1>10. CASE LeaveInput \/ ResetLocation \/ (\E place : DropMarker(place))
    BY <1>7, <1>8, <1>10
  <1>11. CASE StopFollowing
    BY <1>6, <1>7, <1>9, <1>11
  <1> QED
    BY <1>3, <1>4, <1>5, <1>10, <1>11 DEF OnPage

\* The user on the map.
LEMMA CaughtUpOnMap ==
    ASSUME TInv, TInv', CaughtUp, OnMap
    PROVE  CaughtUp'
  <1>1. ASSUME NEW n, DragNode(n), UNCHANGED <<storeVars, listVars, nodeVars, view, gui>>
        PROVE  CaughtUp'
    BY <1>1, CaughtUpKept
       DEF DragNode, storeVars, wireVars, listVars, tableVars, typeVars, nodeVars, AsIn
  <1>2. ASSUME NEW place, DropNode(place), UNCHANGED <<listVars, gui>>
        PROVE  CaughtUp'
    BY <1>2, Sent DEF DropNode, listVars, tableVars
  <1> QED
    BY <1>1, <1>2 DEF OnMap

LEMMA CaughtUpWatch ==
    ASSUME TInv, TInv', CaughtUp, Watch
    PROVE  CaughtUp'
  <1>1. /\ UNCHANGED <<heap, list, channels, up, down, broken, gui, listTimer, data, rows, typed,
                       focus, choiceVars, markers, view, input, currentNodeID, editing>>
        /\ gps' \in Places
    BY DEF Watch, Position, storeVars, wireVars, listVars, tableVars, typeVars, mapVars
  <1>2. PageDrawn => PageDrawn'
    BY <1>1, UndefinedAssumption DEF PageDrawn, Current, GetNode
  <1>3. ListDrawn => ListDrawn'
    BY <1>1 DEF ListDrawn, RowsDrawn, Found, Drawn, Throws, choiceVars
  <1>4. MapDrawn => MapDrawn'
    BY <1>1 DEF MapDrawn, AddNode, GetNode
  <1> QED
    BY <1>1, <1>2, <1>3, <1>4 DEF CaughtUp, DrawingComes, ViewDrawn

LEMMA CaughtUpSetView ==
    ASSUME TInv, TInv', CaughtUp, NEW v, NEW n, SetView(v, n)
    PROVE  CaughtUp'
  <1>1. /\ AsIn(heap) /\ view' = v /\ currentNodeID' = n
        /\ UNCHANGED <<list, channels, up, down, broken, gui, editing, following, gps, typed,
                       sortIndex, filter>>
    BY CollectedAsIn DEF SetView, choiceVars, typeVars, wireVars
  <1>2. CASE v = "list"
    <2>1. ListRender(heap, list', channels', rows, focus)
      BY <1>1, <1>2 DEF SetView
    <2>2. (listTimer'.skipped => listTimer'.timer) /\ (listTimer'.skipped \/ ListDrawn')
      BY <1>1, <2>1, ListCaughtUp
    <2> QED
      BY <1>1, <1>2, <2>2 DEF CaughtUp, DrawingComes, ViewDrawn
  <1>3. CASE v # "list"
    <2>1. listTimer' = listTimer
      BY <1>3 DEF SetView, tableVars
    <2>2. v = "node" => PageDrawn'
      <3>1. ASSUME v = "node"
            PROVE  NodeRender(heap, list', currentNodeID', FALSE)
        BY <1>1, <3>1 DEF SetView
      <3> QED
        BY <1>1, <3>1, NodeCaughtUp
    <2>3. v = "map" => MapDrawn'
      BY <1>1, MapCaughtUp DEF SetView
    <2> QED
      BY <1>1, <1>3, <2>1, <2>2, <2>3 DEF CaughtUp, DrawingComes, ViewDrawn
  <1> QED
    BY <1>2, <1>3

LEMMA StepCaughtUp == TInv /\ TInv' /\ CaughtUp /\ [Next]_vars => CaughtUp'
  <1> SUFFICES ASSUME TInv, TInv', CaughtUp, [Next]_vars PROVE CaughtUp'
    OBVIOUS
  <1>1. CASE Work
    BY <1>1, CaughtUpReceive, CaughtUpGuiTimeout, CaughtUpListTimer, CaughtUpReconnect,
       CaughtUpServe DEF Work
  <1>2. CASE InList \/ OnPage \/ OnMap \/ Watch
    BY <1>2, CaughtUpInList, CaughtUpOnPage, CaughtUpOnMap, CaughtUpWatch
  <1>3. ASSUME NEW v, NEW n, SetView(v, n)
        PROVE  CaughtUp'
    BY <1>3, CaughtUpSetView
  <1>4. ASSUME NEW n, NEW is, Other(n, is)
        PROVE  CaughtUp'
    BY <1>4, ToldCaughtUp DEF Other, viewVars, listVars, tableVars
  <1>5. CASE Break
    BY <1>5 DEF Break, CaughtUp, DrawingComes, viewVars, listVars, tableVars
  <1>6. CASE UNCHANGED vars
    <2>1. /\ AsIn(heap) /\ UNCHANGED <<up, down, broken, gui, listTimer>>
          /\ UNCHANGED <<list, channels, data, rows, typed, focus, choiceVars, pageDom, editing,
                         currentNodeID, gps, markers, view>>
      BY <1>6 DEF vars, storeVars, wireVars, viewVars, listVars, tableVars, typeVars, nodeVars, mapVars, AsIn
    <2> QED
      BY <2>1, CaughtUpKept
  <1> QED
    BY <1>1, <1>2, <1>3, <1>4, <1>5, <1>6 DEF Next, Disturbance

LEMMA InitCaughtUp == Init => CaughtUp
  <1> SUFFICES ASSUME Init PROVE CaughtUp
    OBVIOUS
  <1>1. down # <<>>
    <2>1. Connected(down)
      BY DEF Init, StoreInit
    <2> QED
      BY <2>1, ConnectedType
  <1>2. gui.skipped = FALSE /\ listTimer.skipped = FALSE
    BY DebouncerIs DEF Init, ListInit
  <1> QED
    BY <1>1, <1>2 DEF CaughtUp, DrawingComes

LEMMA CaughtUpHolds == Spec => [](TInv /\ Sync /\ CaughtUp)
  <1>1. Init => TInv /\ Sync /\ CaughtUp
    BY InitTInv, InitSync, InitCaughtUp
  <1>2. TInv /\ Sync /\ CaughtUp /\ [Next]_vars => TInv' /\ Sync' /\ CaughtUp'
    BY StepTInv, StepSync, StepCaughtUp
  <1> QED
    BY <1>1, <1>2, PTL DEF Spec

\* What the page has heard, what it is still told and what it draws, for any number of
\* nodes and changes.
THEOREM PageInvHolds == Spec => []PageInv
  <1>1. TInv /\ Sync /\ CaughtUp => PageInv
    BY DEF TInv, Sync, PageInv
  <1> QED
    BY <1>1, CaughtUpHolds, PTL

-----------------------------------------------------------------------------
\* A page in sync: the store has the nodes the page was told of, as it was told.
LEMMA AsTold ==
    ASSUME TInv, Sync, Settled, loose = {}, NEW n \in Nodes
    PROVE  /\ n \in Known <=> list[n] # 0
           /\ list[n] # 0 => /\ heap[list[n]].is = told[n]
                             /\ heap[list[n]].node = n
  BY SyncImpliesInSync, OwnObject DEF InSync, Sync, UpToDate

LEMMA ListRests ==
    ASSUME TInv, Sync, Settled, loose = {}, ListDrawn
    PROVE  ListShows
  <1> SUFFICES ASSUME ~Throws(data, channels, sortIndex)
               PROVE  /\ Cardinality(Known \cap filter) <= MaxRows =>
                           {heap[rows[i].obj].node : i \in DOMAIN rows} = Known \cap filter
                      /\ typed = Blank /\ focus = 0 =>
                           \A i \in DOMAIN rows :
                             rows[i].text = told[heap[rows[i].obj].node].hostname
    BY DEF ListShows, ListDrawn
  <1>1. RowsDrawn
    BY DEF ListDrawn
  <1>2. /\ Drawn(data) = Known \cap filter
        /\ \A n \in Drawn(data) : /\ data[n] = list[n]
                                  /\ heap[data[n]].node = n
                                  /\ heap[data[n]].is = told[n]
    <2>1. \A n \in Nodes : data[n] = IF n \in filter THEN list[n] ELSE 0
      BY DEF ListDrawn, Found
    <2> QED
      BY <2>1, AsTold DEF Drawn, Known
  <1>3. \A i \in DOMAIN rows : \E n \in Drawn(data) : rows[i].obj = data[n]
    BY <1>1 DEF RowsDrawn
  <1>4. ASSUME Cardinality(Known \cap filter) <= MaxRows
        PROVE  {heap[rows[i].obj].node : i \in DOMAIN rows} = Known \cap filter
    <2>1. \A n \in Drawn(data) : \E i \in DOMAIN rows : rows[i].obj = data[n]
      BY <1>1, <1>2, <1>4 DEF RowsDrawn
    <2> QED
      BY <1>2, <1>3, <2>1
  <1>5. ASSUME typed = Blank, focus = 0, NEW i \in DOMAIN rows
        PROVE  rows[i].text = told[heap[rows[i].obj].node].hostname
    BY <1>1, <1>2, <1>3, <1>5 DEF RowsDrawn
  <1> QED
    BY <1>4, <1>5

LEMMA NodeRests ==
    ASSUME TInv, Sync, Settled, loose = {}, PageDrawn
    PROVE  PageShows
  <1> SUFFICES ASSUME currentNodeID \in Known
               PROVE  Current.is = told[currentNodeID]
    BY DEF PageShows, PageDrawn
  <1>1. list[currentNodeID] # 0 /\ heap[list[currentNodeID]].is = told[currentNodeID]
    BY AsTold DEF Known
  <1> QED
    BY <1>1 DEF Current, GetNode

LEMMA MapRests ==
    ASSUME TInv, Sync, Settled, loose = {}, MapDrawn
    PROVE  MapShows
  <1> SUFFICES ASSUME NEW n \in Known PROVE markers[n].at = told[n].location
    BY DEF MapShows
  <1>1. n \in Nodes /\ list[n] # 0 /\ heap[list[n]].is = told[n]
    BY AsTold DEF Known
  <1>2. markers[n].at = GetNode(heap, list, n).is.location
    BY <1>1 DEF MapDrawn, AddNode
  <1> QED
    BY <1>1, <1>2 DEF GetNode

LEMMA Rests == TInv /\ Sync /\ CaughtUp => RestShows
  <1> SUFFICES ASSUME TInv, Sync, CaughtUp, Settled, ~gui.timer, ~listTimer.timer, loose = {}
               PROVE  Shows
    BY DEF RestShows
  <1>1. ~listTimer.skipped /\ ViewDrawn
    BY DEF CaughtUp, DrawingComes, Settled
  <1> QED
    BY <1>1, ListRests, NodeRests, MapRests DEF ViewDrawn, Shows

\* README.md: "updated live".  A page at which nothing is under way, and of which no timer
\* is set, shows what it was told last, whatever was skipped or taken back before.
THEOREM PageRestShows == Spec => []RestShows
  BY CaughtUpHolds, Rests, PTL
=============================================================================
