------------------------------ MODULE NodeView ------------------------------
(***************************************************************************)
(* The page of one node: view/node.js, with the hostname for both of its   *)
(* inputs.  Edits are sent as copies of the node with one field changed.   *)
(***************************************************************************)
EXTENDS PageStore

VARIABLES
    currentNodeID,   \* 0 before the first
    input,       \* hostnameInput.value
    marker,      \* where the marker is, NoPlace for the default
    rendered,    \* currentNodeIsRendered
    editing,
    hand,        \* what the user holds: the focus of the input, or the marker
    following,   \* editLocationGPS is not null
    gps          \* gpsPosition, NoPlace for null, Undefined before the first use

Undefined == "undefined"

ASSUME UndefinedAssumption == Undefined \notin Places \cup {NoPlace}

pageDom == <<input, marker, rendered>>
nodeVars == <<currentNodeID, pageDom, editing, hand, following, gps>>

NodeTypeOK ==
    /\ currentNodeID \in Nodes \cup {0}
    /\ input \in Names
    /\ marker \in Places \cup {NoPlace}
    /\ gps \in Places \cup {NoPlace, Undefined}
    /\ {rendered, editing, following} \subseteq BOOLEAN
    /\ hand \in {"none", "input", "marker"}

\* The page as it is made: drawn, without what is not known yet, if it is the first
\* view.
NodeInit(first) ==
    /\ currentNodeID \in IF first THEN Nodes ELSE {0}
    /\ input = Blank
    /\ marker = NoPlace
    /\ rendered = first
    /\ editing = FALSE
    /\ hand = "none"
    /\ following = FALSE
    /\ gps = Undefined

-----------------------------------------------------------------------------
Current == GetNode(heap, list, currentNodeID)

\* Mutant: the inputs are set whether the user is editing or not.
NodeRenderAlways(h, l, id, done) ==
    LET is == GetNode(h, l, id).is IN
    /\ input' = is.hostname
    /\ marker' = IF ~following /\ is.location # NoPlace THEN is.location
                 ELSE IF done THEN marker ELSE NoPlace
    /\ rendered' = TRUE

\* render for the node id: the inputs are left alone while the user is editing,
\* the marker also while it follows the device.  A node without a location gets the
\* default only if nothing of it was drawn yet.
NodeRender(h, l, id, done) ==
    LET is == GetNode(h, l, id).is IN
    /\ input' = IF editing THEN input ELSE is.hostname
    /\ marker' = IF ~editing /\ ~following /\ is.location # NoPlace THEN is.location
                 ELSE IF done THEN marker ELSE NoPlace
    /\ rendered' = TRUE

\* focusin, typing and focusout of the input.
FocusInput ==
    /\ hand = "none"
    /\ hand' = "input"
    /\ editing' = TRUE
    /\ UNCHANGED <<currentNodeID, pageDom, following, gps>>

TypeInput(text) ==
    /\ hand = "input"
    /\ text # input
    /\ input' = text
    /\ UNCHANGED <<currentNodeID, marker, rendered, editing, hand, following, gps>>

LeaveInput ==
    /\ hand = "input"
    /\ hand' = "none"
    /\ editing' = FALSE
    /\ SendNode(Set(Current, "hostname", input), NoCallback)
    /\ UNCHANGED <<heap, currentNodeID, pageDom, following, gps>>

\* dragstart and dragend of the marker.
DragMarker ==
    /\ hand = "none"
    /\ hand' = "marker"
    /\ editing' = TRUE
    /\ UNCHANGED <<currentNodeID, pageDom, following, gps>>

UpdatePosition(place) == SendNode(Set(Current, "location", place), NoCallback)

DropMarker(place) ==
    /\ hand = "marker"
    /\ hand' = "none"
    /\ editing' = FALSE
    /\ marker' = place
    /\ UpdatePosition(place)
    /\ UNCHANGED <<heap, currentNodeID, input, rendered, following, gps>>

\* btnGPS, and what the watch of the device's position calls.
Follow ==
    /\ hand = "none"
    /\ ~following
    /\ following' = TRUE
    /\ gps' = NoPlace
    /\ UNCHANGED <<currentNodeID, pageDom, editing, hand>>

Position(place) ==
    /\ following
    /\ gps' = place
    /\ marker' = place
    /\ UNCHANGED <<currentNodeID, input, rendered, editing, hand, following>>

\* Nothing is drawn: a location that came while the marker followed is not seen yet.
StopFollowing ==
    /\ hand = "none"
    /\ following
    /\ following' = FALSE
    /\ IF gps # NoPlace THEN UpdatePosition(gps) ELSE UNCHANGED <<wireVars, told>>
    /\ UNCHANGED <<heap, currentNodeID, pageDom, editing, hand, gps>>

\* resetLocationBtn.  The next render draws the location the store has then.
ResetLocation ==
    /\ hand = "none"
    /\ SendNode(Set(Current, "location", NoPlace), NoCallback)
    /\ rendered' = FALSE
    /\ UNCHANGED <<heap, currentNodeID, input, marker, editing, hand, following, gps>>
=============================================================================
