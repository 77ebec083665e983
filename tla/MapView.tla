------------------------------- MODULE MapView -------------------------------
(***************************************************************************)
(* The map of nodes: view/map.js, as far as nodes are concerned.           *)
(***************************************************************************)
EXTENDS PageStore

VARIABLES
    markers,   \* per node the object its marker was made with, and where it is
    dragged    \* the node whose marker the user is dragging, or 0

mapVars == <<markers, dragged>>

MapTypeOK ==
    /\ markers \in [Nodes -> [obj : DOMAIN heap \cup {0}, at : Places \cup {NoPlace}]]
    /\ \A n \in Nodes : markers[n].obj = 0 <=> markers[n].at = NoPlace
    /\ dragged \in Nodes \cup {0}

NoMarkers == [n \in Nodes |-> [obj |-> 0, at |-> NoPlace]]

MapInit == markers = NoMarkers /\ dragged = 0

\* Mutant: a marker for every node.
AddNodeAlways(l, n, is) == [obj |-> l[n], at |-> is.location]

\* addNode: a marker for a node that has a location.
AddNode(l, n, is) ==
    [obj |-> IF is.location # NoPlace THEN l[n] ELSE 0, at |-> is.location]

\* render makes all markers anew.  One that is being dragged is gone, and its
\* listeners are (Leaflet, modelled from its use) before it could be dropped.
MapRender(h, l) ==
    /\ markers' = [n \in Nodes |-> AddNode(l, n, GetNode(h, l, n).is)]
    /\ dragged' = 0

DragNode(n) ==
    /\ dragged = 0
    /\ markers[n].obj # 0
    /\ dragged' = n
    /\ UNCHANGED markers

\* dragend: the node the marker was made with is changed in place and sent.
DropNode(place) ==
    /\ dragged # 0
    /\ LET r == markers[dragged].obj
           o == Set(heap[r], "location", place)
       IN  /\ SendNode(o, [obj |-> r, field |-> "location",
                           old |-> heap[r].is.location, row |-> 0])
           /\ heap' = With(heap, r, o)
    /\ markers' = [markers EXCEPT ![dragged].at = place]
    /\ dragged' = 0
=============================================================================
