------------------------------ MODULE ListView ------------------------------
(***************************************************************************)
(* The list of nodes: view/list.js and table.js, with the hostname as the  *)
(* input that can be typed in.                                             *)
(*                                                                         *)
(* superfine (modelled from its use) has no keys here: it goes through the *)
(* rows by their position, so the elements stay where they are, with the   *)
(* focus, and get other nodes' values and handlers when rows move.         *)
(***************************************************************************)
EXTENDS PageStore, Debouncer

CONSTANTS
    Sorts,     \* the columns users sort by
    Filters,   \* the sets of nodes users search for
    MaxRows,   \* maxDisplayedRows, which localStorage keeps from an earlier visit
    No24       \* nodes whose statistics name no radio of 2.4 GHz

ASSUME SortsAssumption == "NodeID" \in Sorts
ASSUME FiltersAssumption == Nodes \in Filters
ASSUME MaxRowsAssumption == MaxRows \in Nat

VARIABLES
    data,        \* table.data: per node the object it was last given, or 0
    rows,        \* the rows of the table: the object of the handlers, the input's text
    typed,       \* this._hostname; Blank stands for undefined too, both are falsy
    typedNode,   \* this._node_id while something is being typed
    focus,       \* the row whose hostname has the focus, or 0
    sortIndex, filter,
    listTimer    \* the Debouncer of the list

tableVars == <<data, rows, focus, listTimer>>
choiceVars == <<sortIndex, filter>>
typeVars == <<typed, typedNode>>
listVars == <<tableVars, choiceVars, typeVars>>

ListTypeOK ==
    /\ data \in [Nodes -> DOMAIN heap \cup {0}]
    /\ rows \in Seq([obj : DOMAIN heap, text : Names])
    /\ typed \in Names
    /\ typedNode \in Nodes \cup {0}
    /\ focus \in 0 .. Len(rows)
    /\ sortIndex \in Sorts /\ filter \in Filters
    /\ listTimer \in Debouncers

\* The list as it is made: drawn, without nodes, if it is the first view.
ListInit(first) ==
    /\ data = [n \in Nodes |-> 0]
    /\ rows = <<>>
    /\ typed = Blank
    /\ typedNode = 0
    /\ focus = 0
    /\ sortIndex = "NodeID"
    /\ filter = Nodes
    /\ listTimer = IF first THEN Ran(FALSE) ELSE Idle

-----------------------------------------------------------------------------
Drawn(d) == {n \in Nodes : d[n] # 0}

\* Lastseen and ChanUtil are sorted by what is not in the model: any order.
Sorted(d, by) ==
    {order \in Orders(Drawn(d)) :
       by = "NodeID" => \A i, j \in DOMAIN order : i < j => order[i] < order[j]}

\* A row needs the lists of channels; the comparison by ChanUtil takes the first
\* radio of 2.4 GHz for granted.
Throws(d, ch, by) ==
    \/ Drawn(d) # {} /\ ~ch
    \/ Cardinality(Drawn(d)) > 1 /\ by = "ChanUtil" /\ Drawn(d) \cap No24 # {}

\* Mutant: the text being typed is not kept.
TextStored(o) == o.is.hostname

\* The value of an input: this._hostname || node.hostname.
Text(o) == IF typed # Blank THEN typed ELSE o.is.hostname

\* renderRow: the object its handlers keep, and the input.  The other cells are like
\* the input, or only looked at.
RenderRow(h, r) == [obj |-> r, text |-> Text(h[r])]

\* Table.render with the objects h, the data d, and the focus at f.  If it throws,
\* the rows stay as they are: kept.  A row with the focus may be removed, with no
\* focusout (there are browsers that fire one), and the text being typed remains.
DrawTable(h, d, ch, by, kept, f) ==
    IF Throws(d, ch, by)
    THEN rows' = kept /\ focus' = f
    ELSE /\ \E order \in Sorted(d, by) :
              rows' = [i \in DOMAIN order \cap 1 .. MaxRows |-> RenderRow(h, d[order[i]])]
         /\ focus' = IF f <= Len(rows') THEN f ELSE 0

\* What renderView of the list gives to the table.
Found(l) == [n \in Nodes |-> IF n \in filter THEN l[n] ELSE 0]

\* ListView.render.
ListRender(h, l, ch, kept, f) ==
    IF listTimer.timer
    THEN /\ listTimer' = Skipped(listTimer)
         /\ rows' = kept /\ focus' = f
         /\ UNCHANGED data
    ELSE /\ listTimer' = Ran(Throws(Found(l), ch, sortIndex))
         /\ data' = Found(l)
         /\ DrawTable(h, Found(l), ch, sortIndex, kept, f)

ListThrows(l, ch) == ~listTimer.timer /\ Throws(Found(l), ch, sortIndex)

\* The Debouncer's timer.
ListTimeout ==
    /\ listTimer.timer
    /\ IF listTimer.skipped
       THEN /\ listTimer' = Ran(Throws(Found(list), channels, sortIndex))
            /\ data' = Found(list)
            /\ DrawTable(heap, Found(list), channels, sortIndex, rows, focus)
       ELSE listTimer' = Idle /\ UNCHANGED <<data, rows, focus>>
    /\ UNCHANGED <<choiceVars, typeVars>>

\* The user goes into the input of a row ...
FocusRow(i) ==
    /\ focus = 0
    /\ i \in DOMAIN rows
    /\ focus' = i
    /\ UNCHANGED <<data, rows, listTimer, choiceVars, typeVars>>

\* ... types ...
TypeInRow(text) ==
    /\ focus # 0
    /\ text # rows[focus].text
    /\ rows' = [rows EXCEPT ![focus].text = text]
    /\ typed' = text
    /\ typedNode' = heap[rows[focus].obj].node
    /\ UNCHANGED <<data, focus, listTimer, choiceVars>>

\* ... and leaves it: the node is changed in place and sent, whether anything was
\* typed or not.  Nothing reads _node_id, so it need not be kept.
LeaveRow ==
    /\ focus # 0
    /\ LET r == rows[focus].obj
           o == Set(heap[r], "hostname", rows[focus].text)
       IN  /\ SendNode(o, [obj |-> r, field |-> "hostname",
                           old |-> heap[r].is.hostname, row |-> focus])
           /\ heap' = With(heap, r, o)
    /\ typed' = Blank
    /\ typedNode' = 0
    /\ focus' = 0
    /\ UNCHANGED <<data, rows, listTimer, choiceVars>>

\* sortTable draws the data the table has.
SortTable(by) ==
    /\ focus = 0
    /\ by # sortIndex
    /\ sortIndex' = by
    /\ DrawTable(heap, data, channels, by, rows, focus)
    /\ UNCHANGED <<data, listTimer, filter, typeVars>>

\* The search field.
Search(nodes) ==
    /\ focus = 0
    /\ filter' = nodes
    /\ IF listTimer.timer
       THEN listTimer' = Skipped(listTimer) /\ UNCHANGED <<data, rows, focus>>
       ELSE LET d == [n \in Nodes |-> IF n \in nodes THEN list[n] ELSE 0]
            IN  /\ listTimer' = Ran(Throws(d, channels, sortIndex))
                /\ data' = d
                /\ DrawTable(heap, d, channels, sortIndex, rows, focus)
    /\ UNCHANGED <<sortIndex, typeVars>>

\* What a refused edit does to the table: e.target is the element of a row.
RowsUndone(callback, ok) ==
    IF ok \/ callback.row \notin DOMAIN rows THEN rows
    ELSE [rows EXCEPT ![callback.row].text = callback.old]
=============================================================================
