--------------------------- MODULE PageTypeProofs ---------------------------
(***************************************************************************)
(* The type invariant of a page, for any nodes, names, places, views and   *)
(* any number of changes.                                                  *)
(***************************************************************************)
EXTENDS Page, FiniteSetTheorems, SequenceTheorems, TLAPS

Locations == Places \cup {NoPlace}
RowType(S) == [obj : S, text : Names]
MarkerType(S) == [obj : S \cup {0}, at : Locations]

\* The objects h and the store l go together.
Holds(h, l) ==
    /\ h \in [DOMAIN h -> Objects]
    /\ DOMAIN h \subseteq Refs /\ IsFiniteSet(DOMAIN h)
    /\ l \in [Nodes -> DOMAIN h \cup {0}]
    /\ \A n \in Nodes : l[n] # 0 => h[l[n]].node = n

\* The object o can be that of the reference r of the store l.
Belongs(l, r, o) == o \in Objects /\ \A n \in Nodes : l[n] = r => o.node = n

\* The objects w are the objects h but for the reference r, which is o.
Wrote(h, r, o, w) ==
    /\ DOMAIN w = DOMAIN h \cup {r}
    /\ w[r] = o
    /\ \A x \in DOMAIN h : x # r => w[x] = h[x]

\* A value of a field.
Fits(field, value) ==
    \/ field = "hostname" /\ value \in Names
    \/ field = "location" /\ value \in Locations

TInv == TypeOK /\ HandsInv

-----------------------------------------------------------------------------
\* A sequence is one of the set its elements are in.
LEMMA SeqOf ==
    ASSUME NEW S, NEW T, NEW s \in Seq(S), \A i \in 1 .. Len(s) : s[i] \in T
    PROVE  s \in Seq(T)
  <1>1. Len(s) \in Nat /\ DOMAIN s = 1 .. Len(s) /\ s \in [1 .. Len(s) -> S]
    BY LenProperties
  <1>2. s \in [1 .. Len(s) -> T]
    BY <1>1
  <1> QED
    BY <1>1, <1>2, SeqDef

LEMMA NewIsNew ==
    ASSUME NEW h, IsFiniteSet(DOMAIN h), DOMAIN h \subseteq Refs
    PROVE  New(h) \in Refs /\ New(h) \notin DOMAIN h
  <1> DEFINE k == Cardinality(DOMAIN h)
  <1>1. k \in Nat
    BY FS_CardinalityType
  <1>2. \E r \in 1 .. k + 1 : r \notin DOMAIN h
    <2>1. SUFFICES ASSUME 1 .. k + 1 \subseteq DOMAIN h
                   PROVE  FALSE
      OBVIOUS
    <2>2. Cardinality(1 .. k + 1) <= k
      BY <2>1, FS_Subset
    <2>3. Cardinality(1 .. k + 1) = k + 1
      BY <1>1, FS_Interval
    <2> QED
      BY <1>1, <2>2, <2>3
  <1>3. New(h) \in 1 .. k + 1 /\ New(h) \notin DOMAIN h
    BY <1>2 DEF New
  <1> QED
    BY <1>1, <1>3 DEF Refs

LEMMA WithType ==
    ASSUME NEW h, NEW l, Holds(h, l), NEW r \in Refs, NEW o, Belongs(l, r, o)
    PROVE  Holds(With(h, r, o), l) /\ Wrote(h, r, o, With(h, r, o))
  <1> DEFINE w == With(h, r, o)
  <1>1. /\ DOMAIN w = DOMAIN h \cup {r}
        /\ w[r] = o
        /\ \A x \in DOMAIN h : x # r => w[x] = h[x]
    BY DEF With
  <1>2. IsFiniteSet(DOMAIN w)
    BY <1>1, FS_AddElement DEF Holds
  <1>3. w \in [DOMAIN w -> Objects]
    BY <1>1 DEF Holds, With, Belongs
  <1>4. \A n \in Nodes : l[n] # 0 => w[l[n]].node = n
    BY <1>1 DEF Holds, Belongs
  <1> HIDE DEF w
  <1>5. Holds(w, l)
    BY <1>1, <1>2, <1>3, <1>4 DEF Holds
  <1> QED
    BY <1>1, <1>5 DEF w, Wrote

\* A field of an object is set.
LEMMA SetType ==
    ASSUME NEW o \in Objects, NEW field, NEW value, Fits(field, value)
    PROVE  /\ Set(o, field, value) \in Objects
           /\ Set(o, field, value).node = o.node
           /\ \A f \in Fields :
                Set(o, field, value).is[f] = IF f = field THEN value ELSE o.is[f]
  <1>1. CASE field = "hostname"
    BY <1>1 DEF Set, Objects, Settings, Fields, Fits
  <1>2. CASE field = "location"
    BY <1>2 DEF Set, Objects, Settings, Fields, Locations, Fits
  <1> QED
    BY <1>1, <1>2 DEF Fits

LEMMA GetNodeType ==
    ASSUME NEW h, NEW l, Holds(h, l), NEW n \in Nodes
    PROVE  GetNode(h, l, n) \in Objects /\ GetNode(h, l, n).node = n
  <1>1. CASE l[n] = 0
    BY <1>1, BlankAssumption DEF GetNode, Objects, Settings
  <1>2. CASE l[n] # 0
    BY <1>2 DEF GetNode, Holds
  <1> QED
    BY <1>1, <1>2

-----------------------------------------------------------------------------
\* What drawing leaves behind, when the references are S.
ListDrew(S) ==
    /\ data' \in [Nodes -> S \cup {0}]
    /\ rows' \in Seq(RowType(S))
    /\ focus' \in 0 .. Len(rows')
    /\ listTimer' \in Debouncers

PageDrew ==
    /\ input' \in Names
    /\ marker' \in Locations
    /\ rendered' \in BOOLEAN

MapDrew(S) ==
    /\ markers' \in [Nodes -> MarkerType(S)]
    /\ \A n \in Nodes : markers'[n].obj = 0 <=> markers'[n].at = NoPlace
    /\ dragged' \in Nodes \cup {0}
    /\ dragged' # 0 => markers'[dragged'].obj # 0

LEMMA DebouncerType ==
    /\ Idle \in Debouncers
    /\ \A threw \in BOOLEAN : Ran(threw) \in Debouncers
    /\ \A d \in Debouncers : Skipped(d) \in Debouncers
  BY DEF Idle, Ran, Skipped, Debouncers

LEMMA ThrowsType ==
    ASSUME NEW d, NEW ch \in BOOLEAN, NEW by
    PROVE  Throws(d, ch, by) \in BOOLEAN
  BY DEF Throws

\* A reference more does no harm.
LEMMA RowsGrow ==
    ASSUME NEW S, NEW T, S \subseteq T, NEW s \in Seq(RowType(S))
    PROVE  s \in Seq(RowType(T))
  <1>1. \A i \in 1 .. Len(s) : s[i] \in RowType(S)
    BY ElementOfSeq
  <1>2. \A i \in 1 .. Len(s) : s[i] \in RowType(T)
    BY <1>1 DEF RowType
  <1> QED
    BY <1>2, SeqOf

LEMMA RenderRowType ==
    ASSUME NEW h, h \in [DOMAIN h -> Objects], NEW r \in DOMAIN h, typed \in Names
    PROVE  RenderRow(h, r) \in RowType(DOMAIN h)
  <1>1. h[r].is.hostname \in Names
    BY DEF Objects, Settings
  <1> QED
    BY <1>1 DEF RenderRow, RowType, Text

LEMMA DrawTableType ==
    ASSUME NEW h, h \in [DOMAIN h -> Objects],
           NEW d \in [Nodes -> DOMAIN h \cup {0}], NEW ch, NEW by,
           NEW kept \in Seq(RowType(DOMAIN h)), NEW f \in 0 .. Len(kept),
           typed \in Names, DrawTable(h, d, ch, by, kept, f)
    PROVE  rows' \in Seq(RowType(DOMAIN h)) /\ focus' \in 0 .. Len(rows')
  <1>1. CASE Throws(d, ch, by)
    BY <1>1 DEF DrawTable
  <1>2. CASE ~Throws(d, ch, by)
    <2> DEFINE k == Cardinality(Drawn(d))
    <2>1. k \in Nat
      <3>1. IsFiniteSet(Drawn(d))
        BY NodesAssumption, FS_Subset DEF Drawn
      <3> QED
        BY <3>1, FS_CardinalityType
    <2>2. PICK order \in Sorted(d, by) :
             rows' = [i \in DOMAIN order \cap 1 .. MaxRows |-> RenderRow(h, d[order[i]])]
      BY <1>2 DEF DrawTable
    <2>3. order \in [1 .. k -> Drawn(d)]
      BY <2>2 DEF Sorted, Orders, Surjection
    <2> DEFINE m == IF k <= MaxRows THEN k ELSE MaxRows
    <2>4. m \in Nat /\ DOMAIN order \cap 1 .. MaxRows = 1 .. m
      BY <2>1, <2>3, MaxRowsAssumption
    <2>5. \A i \in 1 .. m : RenderRow(h, d[order[i]]) \in RowType(DOMAIN h)
      <3>1. TAKE i \in 1 .. m
      <3>2. order[i] \in Drawn(d)
        BY <2>3, <2>4
      <3>3. d[order[i]] \in DOMAIN h
        BY <3>2 DEF Drawn
      <3> QED
        BY <3>3, RenderRowType
    <2>6. rows' \in [1 .. m -> RowType(DOMAIN h)]
      BY <2>2, <2>4, <2>5
    <2> HIDE DEF m
    <2>7. rows' \in Seq(RowType(DOMAIN h))
      BY <2>4, <2>6, SeqDef
    <2>8. Len(rows') \in Nat /\ Len(kept) \in Nat
      BY <2>7, LenProperties
    <2>9. focus' = IF f <= Len(rows') THEN f ELSE 0
      BY <1>2 DEF DrawTable
    <2> QED
      BY <2>7, <2>8, <2>9
  <1> QED
    BY <1>1, <1>2

LEMMA ListRenderType ==
    ASSUME TInv, NEW h, NEW l, Holds(h, l), DOMAIN heap \subseteq DOMAIN h,
           NEW ch \in BOOLEAN, NEW kept \in Seq(RowType(DOMAIN h)),
           NEW f \in 0 .. Len(kept), ListRender(h, l, ch, kept, f)
    PROVE  ListDrew(DOMAIN h)
  <1>1. /\ typed \in Names /\ listTimer \in Debouncers
        /\ data \in [Nodes -> DOMAIN heap \cup {0}]
    BY DEF TInv, TypeOK, ListTypeOK
  <1>2. CASE listTimer.timer
    <2>1. data' \in [Nodes -> DOMAIN h \cup {0}]
      BY <1>1, <1>2 DEF ListRender
    <2>2. listTimer' \in Debouncers
      BY <1>1, <1>2, DebouncerType DEF ListRender
    <2> QED
      BY <1>2, <2>1, <2>2 DEF ListRender, ListDrew
  <1>3. CASE ~listTimer.timer
    <2>1. Found(l) \in [Nodes -> DOMAIN h \cup {0}]
      BY DEF Found, Holds
    <2>2. /\ listTimer' = Ran(Throws(Found(l), ch, sortIndex))
          /\ data' = Found(l)
          /\ DrawTable(h, Found(l), ch, sortIndex, kept, f)
      BY <1>3 DEF ListRender
    <2>3. h \in [DOMAIN h -> Objects]
      BY DEF Holds
    <2>4. rows' \in Seq(RowType(DOMAIN h)) /\ focus' \in 0 .. Len(rows')
      BY <1>1, <2>1, <2>2, <2>3, DrawTableType
    <2>5. listTimer' \in Debouncers
      BY <2>2, ThrowsType, DebouncerType
    <2> QED
      BY <2>1, <2>2, <2>4, <2>5 DEF ListDrew
  <1> QED
    BY <1>2, <1>3

LEMMA NodeRenderType ==
    ASSUME TInv, NEW h, NEW l, Holds(h, l), NEW id \in Nodes, NEW done,
           NodeRender(h, l, id, done)
    PROVE  PageDrew
  <1>1. GetNode(h, l, id).is \in Settings
    BY GetNodeType DEF Objects
  <1>2. GetNode(h, l, id).is.hostname \in Names /\ GetNode(h, l, id).is.location \in Locations
    BY <1>1 DEF Settings, Locations
  <1>3. input \in Names /\ marker \in Locations
    BY DEF TInv, TypeOK, NodeTypeOK, Locations
  <1>4. NoPlace \in Locations
    BY DEF Locations
  <1> QED
    BY <1>2, <1>3, <1>4 DEF NodeRender, PageDrew

LEMMA MapRenderType ==
    ASSUME NEW h, NEW l, Holds(h, l), MapRender(h, l)
    PROVE  MapDrew(DOMAIN h)
  <1>1. ASSUME NEW n \in Nodes
        PROVE  LET m == AddNode(l, n, GetNode(h, l, n).is) IN
               m \in MarkerType(DOMAIN h) /\ (m.obj = 0 <=> m.at = NoPlace)
    <2> DEFINE is == GetNode(h, l, n).is
    <2>1. is \in Settings
      BY GetNodeType DEF Objects
    <2>2. is.location \in Locations
      BY <2>1 DEF Settings, Locations
    <2>3. l[n] \in DOMAIN h \cup {0}
      BY DEF Holds
    <2>4. l[n] = 0 => is.location = NoPlace
      BY DEF GetNode
    <2> HIDE DEF is
    <2>5. /\ AddNode(l, n, is) \in MarkerType(DOMAIN h)
          /\ AddNode(l, n, is).obj = 0 <=> AddNode(l, n, is).at = NoPlace
      BY <2>2, <2>3, <2>4 DEF AddNode, MarkerType
    <2> QED
      BY <2>5 DEF is
  <1>2. markers' = [n \in Nodes |-> AddNode(l, n, GetNode(h, l, n).is)] /\ dragged' = 0
    BY DEF MapRender
  <1> QED
    BY <1>1, <1>2 DEF MapDrew

\* What is not drawn is as it was.
LEMMA ListKept ==
    ASSUME TInv, NEW h, DOMAIN heap \subseteq DOMAIN h,
           NEW kept \in Seq(RowType(DOMAIN h)), NEW f \in 0 .. Len(kept),
           rows' = kept, focus' = f, data' = data, listTimer' = listTimer
    PROVE  ListDrew(DOMAIN h)
  <1>1. data \in [Nodes -> DOMAIN heap \cup {0}] /\ listTimer \in Debouncers
    BY DEF TInv, TypeOK, ListTypeOK
  <1>2. data \in [Nodes -> DOMAIN h \cup {0}]
    BY <1>1
  <1> QED
    BY <1>1, <1>2 DEF ListDrew

LEMMA PageKept ==
    ASSUME TInv, UNCHANGED pageDom
    PROVE  PageDrew
  BY DEF TInv, TypeOK, NodeTypeOK, pageDom, PageDrew, Locations

LEMMA MapKept ==
    ASSUME TInv, NEW h, DOMAIN heap \subseteq DOMAIN h, UNCHANGED mapVars
    PROVE  MapDrew(DOMAIN h)
  <1>1. markers \in [Nodes -> MarkerType(DOMAIN heap)]
    BY DEF TInv, TypeOK, MapTypeOK, MarkerType, Locations
  <1>2. MarkerType(DOMAIN heap) \subseteq MarkerType(DOMAIN h)
    BY DEF MarkerType
  <1>3. markers \in [Nodes -> MarkerType(DOMAIN h)]
    BY <1>1, <1>2
  <1> QED
    BY <1>3 DEF MapDrew, TInv, TypeOK, MapTypeOK, HandsInv, mapVars

LEMMA DrawViewType ==
    ASSUME TInv, NEW h, NEW l, Holds(h, l), DOMAIN heap \subseteq DOMAIN h,
           NEW ch \in BOOLEAN, NEW kept \in Seq(RowType(DOMAIN h)),
           NEW f \in 0 .. Len(kept), DrawView(h, l, ch, kept, f)
    PROVE  ListDrew(DOMAIN h) /\ PageDrew /\ MapDrew(DOMAIN h)
  <1>1. ListDrew(DOMAIN h)
    <2>1. CASE view = "list"
      BY <2>1, ListRenderType DEF DrawView
    <2>2. CASE view # "list"
      BY <2>2, ListKept DEF DrawView
    <2> QED
      BY <2>1, <2>2
  <1>2. PageDrew
    <2>1. CASE view = "node"
      <3>1. currentNodeID \in Nodes
        BY <2>1 DEF TInv, TypeOK, NodeTypeOK, HandsInv
      <3> QED
        BY <2>1, <3>1, NodeRenderType DEF DrawView
    <2>2. CASE view # "node"
      BY <2>2, PageKept DEF DrawView
    <2> QED
      BY <2>1, <2>2
  <1>3. MapDrew(DOMAIN h)
    <2>1. CASE view = "map"
      BY <2>1, MapRenderType DEF DrawView
    <2>2. CASE view # "map"
      BY <2>2, MapKept DEF DrawView
    <2> QED
      BY <2>1, <2>2
  <1> QED
    BY <1>1, <1>2, <1>3

LEMMA RenderType ==
    ASSUME TInv, NEW h, NEW l, Holds(h, l), DOMAIN heap \subseteq DOMAIN h,
           NEW ch \in BOOLEAN, NEW kept \in Seq(RowType(DOMAIN h)),
           NEW f \in 0 .. Len(kept), Render(h, l, ch, kept, f)
    PROVE  ListDrew(DOMAIN h) /\ PageDrew /\ MapDrew(DOMAIN h) /\ gui' \in Debouncers
  <1>1. gui \in Debouncers
    BY DEF TInv, TypeOK
  <1>2. CASE gui.timer
    <2>1. ListDrew(DOMAIN h)
      BY <1>2, ListKept DEF Render
    <2>2. PageDrew
      BY <1>2, PageKept DEF Render
    <2>3. MapDrew(DOMAIN h)
      BY <1>2, MapKept DEF Render
    <2> QED
      BY <1>1, <1>2, <2>1, <2>2, <2>3, DebouncerType DEF Render
  <1>3. CASE ~gui.timer
    <2>1. DrawView(h, l, ch, kept, f) /\ gui' = Ran(view = "list" /\ ListThrows(l, ch))
      BY <1>3 DEF Render
    <2>2. (view = "list" /\ ListThrows(l, ch)) \in BOOLEAN
      OBVIOUS
    <2> QED
      BY <2>1, <2>2, DrawViewType, DebouncerType
  <1> QED
    BY <1>2, <1>3

-----------------------------------------------------------------------------
\* What is between the page and the server, and what the page was told.
WireTypes ==
    /\ up \in Seq(Edits)
    /\ down \in Seq(Messages)
    /\ due \subseteq NodeMessages /\ \A m1, m2 \in due : m1 = m2
    /\ broken \in BOOLEAN

ToldTypes == told \in [Nodes -> Settings \cup {Untold}]

\* The rest of the types after a step: of what comes from the server ...
Told ==
    /\ WireTypes' /\ ToldTypes' /\ channels' \in BOOLEAN
    /\ \A c \in Callbacked' : c.obj \in DOMAIN heap' \cup {0}

\* ... and of what the user does.
Went ==
    /\ typed' \in Names /\ typedNode' \in Nodes \cup {0}
    /\ sortIndex' \in Sorts /\ filter' \in Filters
    /\ currentNodeID' \in Nodes \cup {0}
    /\ editing' \in BOOLEAN /\ following' \in BOOLEAN
    /\ hand' \in {"none", "input", "marker"}
    /\ gps' \in Locations \cup {Undefined}
    /\ view' \in Views
    /\ loose' \subseteq Nodes
    /\ changes' \in 0 .. MaxChanges
    /\ view' = "node" => currentNodeID' # 0
    /\ editing' <=> hand' # "none"
    /\ following' => gps' \in Locations

LEMMA TInvParts ==
    ASSUME TInv
    PROVE  /\ Holds(heap, list)
           /\ data \in [Nodes -> DOMAIN heap \cup {0}]
           /\ rows \in Seq(RowType(DOMAIN heap))
           /\ focus \in 0 .. Len(rows)
           /\ markers \in [Nodes -> MarkerType(DOMAIN heap)]
           /\ channels \in BOOLEAN
           /\ WireTypes /\ up \in Seq(Edits) /\ down \in Seq(Messages) /\ broken \in BOOLEAN
           /\ ToldTypes /\ told \in [Nodes -> Settings \cup {Untold}]
           /\ \A c \in Callbacked : c.obj \in DOMAIN heap \cup {0}
  BY DEF TInv, TypeOK, StoreTypeOK, ListTypeOK, MapTypeOK, Holds, RowType, MarkerType, Locations,
         WireTypes, ToldTypes

LEMMA TInvJoined ==
    ASSUME Holds(heap', list'), ListDrew(DOMAIN heap'), PageDrew, MapDrew(DOMAIN heap'),
           gui' \in Debouncers, Told, Went
    PROVE  TInv'
  <1>1. StoreTypeOK'
    BY DEF StoreTypeOK, Holds, Told, WireTypes, ToldTypes
  <1>2. ListTypeOK'
    BY DEF ListTypeOK, ListDrew, Went, RowType
  <1>3. NodeTypeOK'
    BY DEF NodeTypeOK, PageDrew, Went, Locations
  <1>4. MapTypeOK'
    BY DEF MapTypeOK, MapDrew, MarkerType, Locations
  <1>5. TypeOK'
    BY <1>1, <1>2, <1>3, <1>4 DEF TypeOK, Went
  <1>6. HandsInv'
    BY DEF HandsInv, Went, MapDrew, Locations
  <1> QED
    BY <1>5, <1>6 DEF TInv

LEMMA UntouchedWent ==
    ASSUME TInv, Untouched, loose' \subseteq Nodes, changes' \in 0 .. MaxChanges
    PROVE  Went
  BY DEF TInv, TypeOK, ListTypeOK, NodeTypeOK, HandsInv, Untouched, Went, choiceVars, typeVars,
         Locations

\* Nothing that is used is lost.
LEMMA Collected ==
    ASSUME NEW h, Holds(h, list'), ListDrew(DOMAIN h), MapDrew(DOMAIN h),
           \A c \in Callbacked' : c.obj \in DOMAIN h \cup {0}, Collect(h)
    PROVE  /\ DOMAIN heap' \subseteq DOMAIN h
           /\ \A r \in DOMAIN heap' : heap'[r] = h[r]
           /\ Holds(heap', list') /\ ListDrew(DOMAIN heap') /\ MapDrew(DOMAIN heap')
           /\ \A c \in Callbacked' : c.obj \in DOMAIN heap' \cup {0}
  <1>1. heap' = [r \in DOMAIN h \cap InUse |-> h[r]]
    BY DEF Collect
  <1>2. /\ DOMAIN heap' = DOMAIN h \cap InUse
        /\ \A r \in DOMAIN heap' : heap'[r] = h[r]
    BY <1>1
  <1>3. /\ \A n \in Nodes : list'[n] \in InUse /\ data'[n] \in InUse /\ markers'[n].obj \in InUse
        /\ \A i \in DOMAIN rows' : rows'[i].obj \in InUse
        /\ \A c \in Callbacked' : c.obj \in InUse
    BY DEF InUse
  <1>4. Holds(heap', list')
    <2>1. heap' \in [DOMAIN heap' -> Objects]
      BY <1>1, <1>2 DEF Holds
    <2>2. DOMAIN heap' \subseteq Refs /\ IsFiniteSet(DOMAIN heap')
      BY <1>2, FS_Subset DEF Holds
    <2>3. list' \in [Nodes -> DOMAIN heap' \cup {0}]
      BY <1>2, <1>3 DEF Holds
    <2>4. \A n \in Nodes : list'[n] # 0 => heap'[list'[n]].node = n
      BY <1>2, <2>3 DEF Holds
    <2> QED
      BY <2>1, <2>2, <2>3, <2>4 DEF Holds
  <1>5. ListDrew(DOMAIN heap')
    <2>1. data' \in [Nodes -> DOMAIN heap' \cup {0}]
      BY <1>2, <1>3 DEF ListDrew
    <2>2. rows' \in Seq(RowType(DOMAIN h))
      BY DEF ListDrew
    <2>3. \A i \in 1 .. Len(rows') : rows'[i] \in RowType(DOMAIN heap')
      <3>1. TAKE i \in 1 .. Len(rows')
      <3>2. rows'[i] \in RowType(DOMAIN h)
        BY <2>2, ElementOfSeq
      <3>3. i \in DOMAIN rows'
        BY <2>2, LenProperties
      <3>4. rows'[i].obj \in DOMAIN heap'
        BY <1>2, <1>3, <3>2, <3>3 DEF RowType
      <3> QED
        BY <3>2, <3>4 DEF RowType
    <2>4. rows' \in Seq(RowType(DOMAIN heap'))
      BY <2>2, <2>3, SeqOf
    <2> QED
      BY <2>1, <2>4 DEF ListDrew
  <1>6. MapDrew(DOMAIN heap')
    <2>1. markers' \in [Nodes -> MarkerType(DOMAIN heap')]
      <3>1. \A n \in Nodes : markers'[n] \in MarkerType(DOMAIN h)
        BY DEF MapDrew
      <3>2. \A n \in Nodes : markers'[n] \in MarkerType(DOMAIN heap')
        BY <1>2, <1>3, <3>1 DEF MarkerType
      <3> QED
        BY <3>2 DEF MapDrew
    <2> QED
      BY <2>1 DEF MapDrew
  <1>7. \A c \in Callbacked' : c.obj \in DOMAIN heap' \cup {0}
    BY <1>2, <1>3
  <1> QED
    BY <1>2, <1>4, <1>5, <1>6, <1>7

-----------------------------------------------------------------------------
\* The messages on their way.
LEMMA MessageTypes ==
    /\ \A n \in Nodes, is \in Settings : NodeMessage(n, is) \in Messages
    /\ \A c \in Callbacks, ok \in BOOLEAN : AnswerTo(c, ok) \in Messages
    /\ ChannelLists \in Messages
  BY DEF NodeMessage, AnswerTo, ChannelLists, Messages, NodeMessages

LEMMA DownIs ==
    ASSUME down \in Seq(Messages), NEW i \in DOMAIN down
    PROVE  /\ down[i] \in Messages
           /\ down[i].subject = "answer" =>
                down[i].callback \in Callbacked /\ down[i].callback \in Callbacks
  <1>1. down[i] \in Messages
    BY LenProperties, ElementOfSeq
  <1>2. down[i].subject = "answer" => down[i].callback \in Callbacked
    BY DEF Callbacked
  <1>3. down[i].subject = "answer" => down[i].callback \in Callbacks
    BY <1>1 DEF Messages, NodeMessages
  <1> QED
    BY <1>1, <1>2, <1>3

LEMMA UpIs ==
    ASSUME up \in Seq(Edits), NEW i \in DOMAIN up
    PROVE  /\ up[i] \in Edits /\ up[i].node \in Nodes /\ up[i].is \in Settings
           /\ up[i].callback \in Callbacked /\ up[i].callback \in Callbacks
  <1>1. up[i] \in Edits
    BY LenProperties, ElementOfSeq
  <1>2. up[i].callback \in Callbacked
    BY DEF Callbacked
  <1> QED
    BY <1>1, <1>2 DEF Edits

\* A sequence with an element more.
LEMMA Longer ==
    ASSUME NEW S, NEW s \in Seq(S), NEW e \in S, NEW t, t = Append(s, e)
    PROVE  /\ t \in Seq(S) /\ Len(t) = Len(s) + 1 /\ t # <<>>
           /\ \A i \in DOMAIN s : i \in DOMAIN t /\ t[i] = s[i]
           /\ Len(t) \in DOMAIN t /\ t[Len(t)] = e
           /\ \A i \in DOMAIN s : i < Len(t)
           /\ \A i \in DOMAIN t : i \in DOMAIN s \/ i = Len(t)
  <1>1. /\ Len(s) \in Nat /\ DOMAIN s = 1 .. Len(s)
        /\ t \in Seq(S) /\ Len(t) = Len(s) + 1
        /\ DOMAIN t = 1 .. Len(s) + 1
        /\ \A i \in 1 .. Len(s) : t[i] = s[i]
        /\ t[Len(s) + 1] = e
    BY AppendProperties, LenProperties
  <1>2. t # <<>>
    BY <1>1
  <1> QED
    BY <1>1, <1>2

\* A sequence with an element less.
LEMMA Shorter ==
    ASSUME NEW S, NEW s \in Seq(S), s # <<>>, NEW t, t = Tail(s)
    PROVE  /\ t \in Seq(S) /\ Len(t) = Len(s) - 1
           /\ 1 \in DOMAIN s /\ Head(s) = s[1]
           /\ \A i \in DOMAIN t : i + 1 \in DOMAIN s /\ t[i] = s[i + 1]
           /\ \A i \in DOMAIN s : i # 1 => i - 1 \in DOMAIN t /\ t[i - 1] = s[i]
  <1>1. /\ Len(s) \in Nat /\ DOMAIN s = 1 .. Len(s) /\ Len(s) # 0
        /\ t \in Seq(S) /\ Len(t) = Len(s) - 1
        /\ DOMAIN t = 1 .. Len(s) - 1
        /\ \A i \in 1 .. Len(s) - 1 : t[i] = s[i + 1]
        /\ Head(s) = s[1]
    BY HeadTailProperties, LenProperties, EmptySeq
  <1> QED
    BY <1>1

\* The callbacks of edits, and those of answers.
Edited == {up[i].callback : i \in DOMAIN up}
Answered == {down[i].callback : i \in {j \in DOMAIN down : down[j].subject = "answer"}}

LEMMA CallbackedParts ==
    /\ Callbacked = Edited \cup Answered
    /\ Callbacked' = Edited' \cup Answered'
    /\ UNCHANGED up => UNCHANGED Edited
    /\ UNCHANGED down => UNCHANGED Answered
  BY DEF Callbacked, Edited, Answered

\* A message more.
LEMMA OneMore ==
    ASSUME down \in Seq(Messages), NEW m \in Messages, down' = Append(down, m)
    PROVE  /\ down' \in Seq(Messages) /\ Len(down') = Len(down) + 1
           /\ \A i \in DOMAIN down : i \in DOMAIN down' /\ down'[i] = down[i] /\ i < Len(down')
           /\ Len(down') \in DOMAIN down' /\ down'[Len(down')] = m
           /\ \A i \in DOMAIN down' : i \in DOMAIN down \/ i = Len(down')
           /\ m.subject # "answer" => Answered' = Answered
           /\ m.subject = "answer" => Answered' = Answered \cup {m.callback}
  <1>1. /\ down' \in Seq(Messages) /\ Len(down') = Len(down) + 1
        /\ \A i \in DOMAIN down : i \in DOMAIN down' /\ down'[i] = down[i] /\ i < Len(down')
        /\ Len(down') \in DOMAIN down' /\ down'[Len(down')] = m
        /\ \A i \in DOMAIN down' : i \in DOMAIN down \/ i = Len(down')
    BY Longer
  <1>2. m.subject # "answer" => Answered' = Answered
    BY <1>1 DEF Answered
  <1>3. m.subject = "answer" => Answered' = Answered \cup {m.callback}
    BY <1>1 DEF Answered
  <1> QED
    BY <1>1, <1>2, <1>3

\* A message less.
LEMMA OneLess ==
    ASSUME down \in Seq(Messages), down # <<>>, down' = Tail(down), UNCHANGED up
    PROVE  /\ down' \in Seq(Messages) /\ Len(down') = Len(down) - 1
           /\ 1 \in DOMAIN down /\ Head(down) = down[1]
           /\ \A i \in DOMAIN down' : i + 1 \in DOMAIN down /\ down'[i] = down[i + 1]
           /\ \A i \in DOMAIN down : i # 1 => i - 1 \in DOMAIN down' /\ down'[i - 1] = down[i]
           /\ Callbacked' \subseteq Callbacked
           /\ Callbacked \subseteq Callbacked' \cup {c \in Callbacks : c = down[1].callback}
           /\ down[1].subject # "answer" => Callbacked' = Callbacked
  <1>1. /\ down' \in Seq(Messages) /\ Len(down') = Len(down) - 1
        /\ 1 \in DOMAIN down /\ Head(down) = down[1]
        /\ \A i \in DOMAIN down' : i + 1 \in DOMAIN down /\ down'[i] = down[i + 1]
        /\ \A i \in DOMAIN down : i # 1 => i - 1 \in DOMAIN down' /\ down'[i - 1] = down[i]
    BY Shorter
  <1>2. Answered' \subseteq Answered
    BY <1>1 DEF Answered
  <1>3. ASSUME NEW c \in Answered, c \notin Answered'
        PROVE  down[1].subject = "answer" /\ c = down[1].callback /\ c \in Callbacks
    <2>1. PICK i \in DOMAIN down : down[i].subject = "answer" /\ c = down[i].callback
      BY DEF Answered
    <2>2. i = 1
      <3>1. SUFFICES ASSUME i # 1 PROVE FALSE
        OBVIOUS
      <3>2. i - 1 \in DOMAIN down' /\ down'[i - 1] = down[i]
        BY <1>1, <3>1
      <3>3. c \in Answered'
        BY <2>1, <3>2 DEF Answered
      <3> QED
        BY <1>3, <3>3
    <2> QED
      BY <2>1, <2>2, DownIs
  <1> QED
    BY <1>1, <1>2, <1>3, CallbackedParts

\* An edit is answered: its callback is still to be called.
LEMMA EditAnswered ==
    ASSUME up \in Seq(Edits), down \in Seq(Messages), up # <<>>, up' = Tail(up),
           NEW ok \in BOOLEAN, down' = Append(down, AnswerTo(Head(up).callback, ok))
    PROVE  /\ up' \in Seq(Edits) /\ down' \in Seq(Messages)
           /\ Head(up) = up[1] /\ 1 \in DOMAIN up /\ Head(up) \in Edits
           /\ Head(up).callback \in Callbacked /\ Callbacked' = Callbacked
  <1> DEFINE e == Head(up)
             m == AnswerTo(e.callback, ok)
  <1>1. /\ up' \in Seq(Edits) /\ 1 \in DOMAIN up /\ e = up[1]
        /\ \A i \in DOMAIN up' : i + 1 \in DOMAIN up /\ up'[i] = up[i + 1]
        /\ \A i \in DOMAIN up : i # 1 => i - 1 \in DOMAIN up' /\ up'[i - 1] = up[i]
    BY Shorter
  <1>2. e \in Edits /\ e.callback \in Callbacks /\ e.callback \in Edited
    BY <1>1, UpIs DEF Edited
  <1>3. m \in Messages /\ m.subject = "answer" /\ m.callback = e.callback
    BY <1>2, MessageTypes DEF AnswerTo
  <1> HIDE DEF m, e
  <1>4. down' = Append(down, m)
    BY DEF m, e
  <1>5. down' \in Seq(Messages) /\ Answered' = Answered \cup {e.callback}
    BY <1>3, <1>4, OneMore
  <1>6. Edited' \subseteq Edited
    BY <1>1 DEF Edited
  <1>7. ASSUME NEW c \in Edited, c # e.callback
        PROVE  c \in Edited'
    <2>1. PICK i \in DOMAIN up : c = up[i].callback
      BY DEF Edited
    <2>2. i - 1 \in DOMAIN up' /\ up'[i - 1] = up[i]
      BY <1>1, <1>7, <2>1
    <2> QED
      BY <2>1, <2>2 DEF Edited
  <1> QED
    BY <1>1, <1>2, <1>5, <1>6, <1>7, CallbackedParts DEF e

LEMMA NewsType == News \subseteq Settings
  BY NewsAssumption DEF News, Settings

\* What connectHandler sends has the types, and all of it is nodes, then the channels.
LEMMA ConnectedType ==
    ASSUME NEW d, Connected(d)
    PROVE  /\ d \in Seq(Messages) /\ d # <<>>
           /\ \A i \in DOMAIN d :
                \/ d[i] = ChannelLists
                \/ \E n \in Nodes, is \in Settings : d[i] = NodeMessage(n, is)
  <1>0. PICK nodes \in SUBSET Nodes :
          \E order \in Orders(nodes), is \in [nodes -> News] :
            d = Append([i \in DOMAIN order |-> NodeMessage(order[i], is[order[i]])], ChannelLists)
    BY DEF Connected
  <1>1. PICK order \in Orders(nodes), is \in [nodes -> News] :
          d = Append([i \in DOMAIN order |-> NodeMessage(order[i], is[order[i]])], ChannelLists)
    BY <1>0
  <1> DEFINE k == Cardinality(nodes)
  <1>2. k \in Nat
    BY NodesAssumption, FS_Subset, FS_CardinalityType
  <1>3. order \in [1 .. k -> nodes]
    BY <1>1 DEF Orders, Surjection
  <1> DEFINE e == [i \in DOMAIN order |-> NodeMessage(order[i], is[order[i]])]
  <1>4. \A i \in 1 .. k : order[i] \in Nodes /\ is[order[i]] \in Settings
    BY <1>3, NewsType
  <1>5. e \in [1 .. k -> Messages]
    BY <1>3, <1>4, MessageTypes
  <1>6. \A i \in 1 .. k : e[i] = NodeMessage(order[i], is[order[i]])
    BY <1>3
  <1> HIDE DEF k
  <1>7. e \in Seq(Messages)
    BY <1>2, <1>5, SeqDef
  <1>8. DOMAIN e = 1 .. k
    BY <1>5
  <1> HIDE DEF e
  <1>9. d = Append(e, ChannelLists)
    BY <1>1 DEF e
  <1>10. /\ d \in Seq(Messages) /\ d # <<>>
         /\ \A i \in DOMAIN e : d[i] = e[i]
         /\ d[Len(d)] = ChannelLists
         /\ \A i \in DOMAIN d : i \in DOMAIN e \/ i = Len(d)
    BY <1>7, <1>9, MessageTypes, Longer
  <1> QED
    BY <1>4, <1>6, <1>8, <1>10

\* An edit goes up, or it is lost.
LEMMA SendNodeType ==
    ASSUME TInv, NEW o \in Objects, NEW c \in Callbacks, SendNode(o, c)
    PROVE  /\ WireTypes' /\ ToldTypes' /\ UNCHANGED <<down, due, broken, told>>
           /\ \A i \in DOMAIN up' :
                \/ i \in DOMAIN up /\ up'[i] = up[i]
                \/ up'[i] = [node |-> o.node, is |-> o.is, callback |-> c]
           /\ broken => up' = up /\ Callbacked' = Callbacked
           /\ ~broken => /\ up' # <<>> /\ Callbacked' = Callbacked \cup {c}
                         /\ up'[Len(up')] = [node |-> o.node, is |-> o.is, callback |-> c]
                         /\ up = <<>> => up'[1] = [node |-> o.node, is |-> o.is, callback |-> c]
  <1> DEFINE e == [node |-> o.node, is |-> o.is, callback |-> c]
  <1>1. UNCHANGED <<down, due, broken, told>> /\ UNCHANGED Answered
    BY CallbackedParts DEF SendNode
  <1>2. e \in Edits
    BY DEF Objects, Edits
  <1>3. CASE broken
    <2>1. up' = up
      BY <1>3 DEF SendNode
    <2> QED
      BY <1>1, <1>3, <2>1, CallbackedParts, TInvParts DEF WireTypes, ToldTypes
  <1>4. CASE ~broken
    <2>1. up' = Append(up, e)
      BY <1>4 DEF SendNode
    <2> HIDE DEF e
    <2>2. /\ up' \in Seq(Edits) /\ up' # <<>> /\ Len(up') = Len(up) + 1
          /\ \A i \in DOMAIN up : i \in DOMAIN up' /\ up'[i] = up[i]
          /\ Len(up') \in DOMAIN up' /\ up'[Len(up')] = e
          /\ \A i \in DOMAIN up' : i \in DOMAIN up \/ i = Len(up')
      BY <1>2, <2>1, TInvParts, Longer
    <2>3. Edited' = Edited \cup {e.callback}
      BY <2>2 DEF Edited
    <2>4. up = <<>> => up'[1] = e
      BY <2>2
    <2> QED
      BY <1>1, <1>4, <2>2, <2>3, <2>4, CallbackedParts, TInvParts DEF WireTypes, ToldTypes, e
  <1> QED
    BY <1>3, <1>4

-----------------------------------------------------------------------------
\* A step that draws the objects h.
LEMMA DrawnJoined ==
    ASSUME NEW h, Holds(h, list'),
           ListDrew(DOMAIN h) /\ PageDrew /\ MapDrew(DOMAIN h) /\ gui' \in Debouncers,
           WireTypes', ToldTypes', channels' \in BOOLEAN,
           \A c \in Callbacked' : c.obj \in DOMAIN h \cup {0},
           Collect(h), Went
    PROVE  TInv'
  <1>1. /\ Holds(heap', list') /\ ListDrew(DOMAIN heap') /\ MapDrew(DOMAIN heap')
        /\ \A c \in Callbacked' : c.obj \in DOMAIN heap' \cup {0}
    BY Collected
  <1>2. Told
    BY <1>1 DEF Told
  <1> QED
    BY <1>1, <1>2, TInvJoined

\* updateNode: a new object r of the node n, in the objects h and the store l.
UpdateNode(n, is, r, h, l) ==
    /\ r = New(heap)
    /\ h = With(heap, r, [node |-> n, is |-> is])
    /\ l = [list EXCEPT ![n] = r]

LEMMA Updated ==
    ASSUME Holds(heap, list), NEW n \in Nodes, NEW is \in Settings, NEW r, NEW h, NEW l,
           UpdateNode(n, is, r, h, l)
    PROVE  /\ r \in Refs /\ r \notin DOMAIN heap
           /\ Holds(h, l)
           /\ DOMAIN heap \subseteq DOMAIN h
           /\ h[r] = [node |-> n, is |-> is]
           /\ \A x \in DOMAIN heap : h[x] = heap[x]
  <1> USE DEF UpdateNode
  <1>1. r \in Refs /\ r \notin DOMAIN heap
    BY NewIsNew DEF Holds
  <1>2. Belongs(list, r, [node |-> n, is |-> is])
    BY <1>1 DEF Belongs, Objects, Holds, Refs
  <1>3. /\ Holds(h, list)
        /\ DOMAIN h = DOMAIN heap \cup {r}
        /\ h[r] = [node |-> n, is |-> is]
        /\ \A x \in DOMAIN heap : x # r => h[x] = heap[x]
    BY <1>1, <1>2, WithType DEF Wrote
  <1>4. l \in [Nodes -> DOMAIN h \cup {0}] /\ l[n] = r
        /\ \A x \in Nodes : x # n => l[x] = list[x]
    BY <1>3 DEF Holds
  <1>5. \A x \in Nodes : l[x] # 0 => h[l[x]].node = x
    BY <1>3, <1>4 DEF Holds
  <1>6. Holds(h, l)
    BY <1>3, <1>4, <1>5 DEF Holds
  <1> QED
    BY <1>1, <1>3, <1>6

\* The callback of sendnode.
LEMMA UndoneType ==
    ASSUME Holds(heap, list), NEW c \in Callbacks, c.obj \in DOMAIN heap \cup {0},
           NEW ok \in BOOLEAN
    PROVE  /\ Holds(Undone(heap, c, ok), list)
           /\ DOMAIN Undone(heap, c, ok) = DOMAIN heap
           /\ \A x \in DOMAIN heap : x # c.obj => Undone(heap, c, ok)[x] = heap[x]
           /\ ok => Undone(heap, c, ok) = heap
           /\ \A x \in DOMAIN heap : Undone(heap, c, ok)[x].node = heap[x].node
           /\ ~ok /\ c.obj # 0 =>
                \A f \in Fields : Undone(heap, c, ok)[c.obj].is[f] =
                                    IF f = c.field THEN c.old ELSE heap[c.obj].is[f]
  <1>1. CASE ok \/ c.obj = 0
    BY <1>1 DEF Undone
  <1>2. CASE ~ok /\ c.obj # 0
    <2> DEFINE o == Set(heap[c.obj], c.field, c.old)
    <2>1. /\ c.obj \in DOMAIN heap /\ heap[c.obj] \in Objects /\ c.obj \in Refs
          /\ \A n \in Nodes : list[n] = c.obj => heap[c.obj].node = n
      BY <1>2 DEF Holds
    <2>2. Fits(c.field, c.old)
      BY DEF Callbacks, Fits, Locations
    <2>3. /\ o \in Objects /\ o.node = heap[c.obj].node
          /\ \A f \in Fields : o.is[f] = IF f = c.field THEN c.old ELSE heap[c.obj].is[f]
      BY <2>1, <2>2, SetType
    <2>4. Undone(heap, c, ok) = With(heap, c.obj, o)
      BY <1>2 DEF Undone
    <2> HIDE DEF o
    <2>5. /\ Holds(With(heap, c.obj, o), list)
          /\ DOMAIN With(heap, c.obj, o) = DOMAIN heap \cup {c.obj}
          /\ With(heap, c.obj, o)[c.obj] = o
          /\ \A x \in DOMAIN heap : x # c.obj => With(heap, c.obj, o)[x] = heap[x]
      <3>1. Belongs(list, c.obj, o)
        BY <2>1, <2>3 DEF Belongs
      <3> QED
        BY <2>1, <3>1, WithType DEF Wrote
    <2>6. \A x \in DOMAIN heap : With(heap, c.obj, o)[x].node = heap[x].node
      BY <2>3, <2>5
    <2> QED
      BY <1>2, <2>1, <2>3, <2>4, <2>5, <2>6
  <1> QED
    BY <1>1, <1>2

LEMMA RowsUndoneType ==
    ASSUME NEW S, rows \in Seq(RowType(S)), NEW c \in Callbacks, NEW ok
    PROVE  RowsUndone(c, ok) \in Seq(RowType(S)) /\ Len(RowsUndone(c, ok)) = Len(rows)
  <1>1. CASE ok \/ c.row \notin DOMAIN rows
    BY <1>1 DEF RowsUndone
  <1>2. CASE ~ok /\ c.row \in DOMAIN rows
    <2>1. c.row \in 1 .. Len(rows)
      BY <1>2, LenProperties
    <2>2. c.old \in Names
      BY <2>1 DEF Callbacks
    <2> DEFINE row == [rows[c.row] EXCEPT !.text = c.old]
    <2>3. rows[c.row] \in RowType(S)
      BY <2>1, ElementOfSeq
    <2>4. row \in RowType(S)
      BY <2>2, <2>3 DEF RowType
    <2>5. RowsUndone(c, ok) = [rows EXCEPT ![c.row] = row]
      BY <1>2 DEF RowsUndone
    <2> HIDE DEF row
    <2> QED
      BY <2>1, <2>4, <2>5, ExceptSeq
  <1> QED
    BY <1>1, <1>2

-----------------------------------------------------------------------------
\* Each action keeps the types.  Messages first.
LEMMA ReceiveNodeTypes ==
    ASSUME TInv, Receive, down[1].subject = "node"
    PROVE  TInv'
  <1> DEFINE m == down[1]
             r == New(heap)
             h == With(heap, r, [node |-> m.node, is |-> m.is])
  <1>1. /\ down # <<>> /\ down' = Tail(down) /\ Untouched /\ UNCHANGED <<up, due, broken, changes>>
        /\ 1 \in DOMAIN down /\ Head(down) = down[1] /\ down' \in Seq(Messages)
        /\ Callbacked' = Callbacked
    BY TInvParts, OneLess DEF Receive
  <1>2. ReceiveNode(m)
    BY <1>1 DEF Receive
  <1>3. m \in Messages
    BY <1>1, TInvParts, DownIs
  <1>4. m.node \in Nodes /\ m.is \in Settings
    BY <1>3 DEF Messages, NodeMessages
  <1>5. list' = [list EXCEPT ![m.node] = r] /\ Render(h, list', channels, rows, focus)
        /\ loose' = loose \ {m.node} /\ UNCHANGED channels /\ Collect(h)
        /\ told' = [told EXCEPT ![m.node] = m.is]
    BY <1>2 DEF ReceiveNode
  <1>6. Holds(h, list') /\ DOMAIN heap \subseteq DOMAIN h
    <2>1. UpdateNode(m.node, m.is, r, h, list')
      BY <1>5 DEF UpdateNode
    <2> HIDE DEF m, h, r
    <2> QED
      BY <1>4, <2>1, TInvParts, Updated
  <1> HIDE DEF h
  <1>7. rows \in Seq(RowType(DOMAIN h)) /\ focus \in 0 .. Len(rows) /\ channels \in BOOLEAN
    BY <1>6, TInvParts, RowsGrow
  <1>8. ListDrew(DOMAIN h) /\ PageDrew /\ MapDrew(DOMAIN h) /\ gui' \in Debouncers
    BY <1>5, <1>6, <1>7, RenderType
  <1>9. Went
    BY <1>1, <1>5, UntouchedWent DEF TInv, TypeOK
  <1>10. \A c \in Callbacked' : c.obj \in DOMAIN h \cup {0}
    BY <1>1, <1>6 DEF TInv, TypeOK, StoreTypeOK
  <1>11. WireTypes' /\ ToldTypes' /\ channels' \in BOOLEAN
    BY <1>1, <1>4, <1>5, <1>7, TInvParts DEF WireTypes, ToldTypes
  <1> QED
    BY <1>1, <1>5, <1>6, <1>8, <1>9, <1>10, <1>11, DrawnJoined

LEMMA ReceiveChannelsTypes ==
    ASSUME TInv, Receive, down[1].subject = "channels"
    PROVE  TInv'
  <1>1. /\ down # <<>> /\ down' = Tail(down) /\ Untouched /\ UNCHANGED <<up, due, broken, changes>>
        /\ Head(down) = down[1] /\ down' \in Seq(Messages) /\ Callbacked' \subseteq Callbacked
    BY TInvParts, OneLess DEF Receive
  <1>2. ReceiveChannels
    BY <1>1 DEF Receive
  <1>3. /\ channels' = TRUE /\ Render(heap, list, TRUE, rows, focus)
        /\ UNCHANGED <<list, told, loose>> /\ Collect(heap)
    BY <1>2 DEF ReceiveChannels
  <1>4. ListDrew(DOMAIN heap) /\ PageDrew /\ MapDrew(DOMAIN heap) /\ gui' \in Debouncers
    BY <1>3, TInvParts, RenderType
  <1>5. Went
    BY <1>1, <1>3, UntouchedWent DEF TInv, TypeOK
  <1>6. \A c \in Callbacked' : c.obj \in DOMAIN heap \cup {0}
    BY <1>1 DEF TInv, TypeOK, StoreTypeOK
  <1>7. WireTypes' /\ ToldTypes' /\ Holds(heap, list')
    BY <1>1, <1>3, TInvParts DEF WireTypes, ToldTypes
  <1> QED
    BY <1>1, <1>3, <1>4, <1>5, <1>6, <1>7, DrawnJoined

LEMMA ReceiveAnswerTypes ==
    ASSUME TInv, Receive, down[1].subject = "answer"
    PROVE  TInv'
  <1> DEFINE m == down[1]
             h == Undone(heap, m.callback, m.ok)
             kept == RowsUndone(m.callback, m.ok)
  <1>1. /\ down # <<>> /\ down' = Tail(down) /\ Untouched /\ UNCHANGED <<up, due, broken, changes>>
        /\ 1 \in DOMAIN down /\ Head(down) = down[1] /\ down' \in Seq(Messages)
        /\ Callbacked' \subseteq Callbacked
    BY TInvParts, OneLess DEF Receive
  <1>2. ReceiveAnswer(m)
    BY <1>1 DEF Receive
  <1>3. m \in Messages /\ m.callback \in Callbacked /\ m.callback \in Callbacks
    BY <1>1, TInvParts, DownIs
  <1>4. m.ok \in BOOLEAN /\ m.callback.obj \in DOMAIN heap \cup {0}
    BY <1>3 DEF Messages, NodeMessages, TInv, TypeOK, StoreTypeOK
  <1>5. Render(h, list, channels, kept, focus) /\ Collect(h)
        /\ UNCHANGED <<list, channels, told, loose>>
    BY <1>2 DEF ReceiveAnswer
  <1> HIDE DEF m
  <1>6. Holds(h, list) /\ DOMAIN h = DOMAIN heap
    BY <1>3, <1>4, TInvParts, UndoneType
  <1>7. /\ kept \in Seq(RowType(DOMAIN h)) /\ Len(kept) = Len(rows)
        /\ focus \in 0 .. Len(rows) /\ channels \in BOOLEAN
    BY <1>3, <1>6, TInvParts, RowsUndoneType
  <1> HIDE DEF h, kept
  <1>8. ListDrew(DOMAIN h) /\ PageDrew /\ MapDrew(DOMAIN h) /\ gui' \in Debouncers
    BY <1>5, <1>6, <1>7, RenderType
  <1>9. Went
    BY <1>1, <1>5, UntouchedWent DEF TInv, TypeOK
  <1>10. \A c \in Callbacked' : c.obj \in DOMAIN h \cup {0}
    BY <1>1, <1>6 DEF TInv, TypeOK, StoreTypeOK
  <1>11. WireTypes' /\ ToldTypes' /\ channels' \in BOOLEAN /\ Holds(h, list')
    BY <1>1, <1>5, <1>6, <1>7, TInvParts DEF WireTypes, ToldTypes
  <1> QED
    BY <1>1, <1>5, <1>8, <1>9, <1>10, <1>11, DrawnJoined

\* The timers, and a new connection.
LEMMA GuiTimeoutTypes ==
    ASSUME TInv, GuiTimeout
    PROVE  TInv'
  <1>1. /\ Untouched /\ UNCHANGED <<list, channels, wireVars, told, loose, changes>>
        /\ Collect(heap)
    BY DEF GuiTimeout
  <1>2. ListDrew(DOMAIN heap) /\ PageDrew /\ MapDrew(DOMAIN heap) /\ gui' \in Debouncers
    <2>1. CASE gui.skipped
      <3>1. /\ gui' = Ran(view = "list" /\ ListThrows(list, channels))
            /\ DrawView(heap, list, channels, rows, focus)
        BY <2>1 DEF GuiTimeout
      <3>2. (view = "list" /\ ListThrows(list, channels)) \in BOOLEAN
        OBVIOUS
      <3> QED
        BY <3>1, <3>2, TInvParts, DrawViewType, DebouncerType
    <2>2. CASE ~gui.skipped
      <3>1. gui' = Idle /\ UNCHANGED <<tableVars, pageDom, mapVars>>
        BY <2>2 DEF GuiTimeout
      <3>2. ListDrew(DOMAIN heap)
        BY <3>1, TInvParts, ListKept DEF tableVars
      <3>3. MapDrew(DOMAIN heap)
        BY <3>1, MapKept
      <3> QED
        BY <3>1, <3>2, <3>3, PageKept, DebouncerType
    <2> QED
      BY <2>1, <2>2
  <1>3. Went
    BY <1>1, UntouchedWent DEF TInv, TypeOK
  <1>4. \A c \in Callbacked' : c.obj \in DOMAIN heap \cup {0}
    BY <1>1, TInvParts DEF Callbacked, wireVars
  <1>5. WireTypes' /\ ToldTypes' /\ channels' \in BOOLEAN /\ Holds(heap, list')
    BY <1>1, TInvParts DEF WireTypes, ToldTypes, wireVars
  <1> QED
    BY <1>1, <1>2, <1>3, <1>4, <1>5, DrawnJoined

LEMMA ReconnectTypes ==
    ASSUME TInv, Reconnect
    PROVE  TInv'
  <1>1. /\ Untouched /\ UNCHANGED <<list, channels, up, due, told, loose, changes>>
        /\ Collect(heap) /\ Render(heap, list, channels, rows, focus)
        /\ broken' = FALSE /\ Connected(down')
    BY DEF Reconnect
  <1>2. ListDrew(DOMAIN heap) /\ PageDrew /\ MapDrew(DOMAIN heap) /\ gui' \in Debouncers
    BY <1>1, TInvParts, RenderType
  <1>3. Went
    BY <1>1, UntouchedWent DEF TInv, TypeOK
  <1>4. /\ down' \in Seq(Messages)
        /\ \A i \in DOMAIN down' : \/ down'[i] = ChannelLists
                                   \/ \E n \in Nodes, is \in Settings : down'[i] = NodeMessage(n, is)
    BY <1>1, ConnectedType
  <1>5. \A i \in DOMAIN down' : down'[i].subject # "answer"
    BY <1>4 DEF ChannelLists, NodeMessage
  <1>6. Callbacked' \subseteq Callbacked
    BY <1>1, <1>5 DEF Callbacked
  <1>7. WireTypes' /\ ToldTypes' /\ channels' \in BOOLEAN /\ Holds(heap, list')
    BY <1>1, <1>4, TInvParts DEF WireTypes, ToldTypes
  <1>8. \A c \in Callbacked' : c.obj \in DOMAIN heap \cup {0}
    BY <1>6, TInvParts
  <1> QED
    BY <1>1, <1>2, <1>3, <1>7, <1>8, DrawnJoined

LEMMA TableDrawn ==
    ASSUME TInv, NEW d \in [Nodes -> DOMAIN heap \cup {0}], NEW by,
           data' = d, listTimer' \in Debouncers, DrawTable(heap, d, channels, by, rows, focus)
    PROVE  ListDrew(DOMAIN heap)
  <1>1. /\ heap \in [DOMAIN heap -> Objects] /\ rows \in Seq(RowType(DOMAIN heap))
        /\ focus \in 0 .. Len(rows) /\ typed \in Names
    BY TInvParts DEF Holds, TInv, TypeOK, ListTypeOK
  <1>2. rows' \in Seq(RowType(DOMAIN heap)) /\ focus' \in 0 .. Len(rows')
    BY <1>1, DrawTableType
  <1> QED
    BY <1>2 DEF ListDrew

LEMMA ListTimerTypes ==
    ASSUME TInv, ListTimer
    PROVE  TInv'
  <1>1. /\ UNCHANGED <<list, channels, wireVars, told, nodeVars, mapVars,
                       view, gui, loose, changes>>
        /\ UNCHANGED <<choiceVars, typeVars>>
        /\ Collect(heap)
    BY DEF ListTimer, ListTimeout
  <1>2. ListDrew(DOMAIN heap)
    <2>1. CASE listTimer.skipped
      <3>1. /\ listTimer' = Ran(Throws(Found(list), channels, sortIndex))
            /\ data' = Found(list)
            /\ DrawTable(heap, Found(list), channels, sortIndex, rows, focus)
        BY <2>1 DEF ListTimer, ListTimeout
      <3>2. Found(list) \in [Nodes -> DOMAIN heap \cup {0}]
        BY TInvParts DEF Found, Holds
      <3>3. listTimer' \in Debouncers
        BY <3>1, TInvParts, ThrowsType, DebouncerType
      <3> QED
        BY <3>1, <3>2, <3>3, TableDrawn
    <2>2. CASE ~listTimer.skipped
      <3>1. listTimer' = Idle /\ UNCHANGED <<data, rows, focus>>
        BY <2>2 DEF ListTimer, ListTimeout
      <3> QED
        BY <3>1, TInvParts, DebouncerType DEF ListDrew
    <2> QED
      BY <2>1, <2>2
  <1>3. PageDrew /\ MapDrew(DOMAIN heap) /\ gui' \in Debouncers
    <2>1. PageDrew
      BY <1>1, PageKept DEF nodeVars
    <2>2. MapDrew(DOMAIN heap)
      BY <1>1, MapKept
    <2> QED
      BY <1>1, <2>1, <2>2 DEF TInv, TypeOK
  <1>4. Went
    <2>1. Untouched
      BY <1>1 DEF Untouched, nodeVars
    <2> QED
      BY <1>1, <2>1, UntouchedWent DEF TInv, TypeOK
  <1>5. \A c \in Callbacked' : c.obj \in DOMAIN heap \cup {0}
    BY <1>1, TInvParts DEF Callbacked, wireVars
  <1>6. WireTypes' /\ ToldTypes' /\ channels' \in BOOLEAN /\ Holds(heap, list')
    BY <1>1, TInvParts DEF WireTypes, ToldTypes, wireVars
  <1> QED
    BY <1>1, <1>2, <1>3, <1>4, <1>5, <1>6, DrawnJoined

-----------------------------------------------------------------------------
\* An edit of the object r, in place: LeaveRow and DropNode.
LEMMA EditInPlace ==
    ASSUME TInv, NEW r \in DOMAIN heap, NEW field, NEW value, Fits(field, value),
           NEW c \in Callbacks, c.obj = r,
           SendNode(Set(heap[r], field, value), c),
           heap' = With(heap, r, Set(heap[r], field, value)),
           UNCHANGED <<list, channels>>
    PROVE  /\ Told /\ Holds(heap', list') /\ DOMAIN heap' = DOMAIN heap
           /\ \A x \in DOMAIN heap : x # r => heap'[x] = heap[x]
           /\ heap'[r] = Set(heap[r], field, value)
           /\ \A x \in DOMAIN heap : heap'[x].node = heap[x].node
           /\ Set(heap[r], field, value) \in Objects
           /\ \A f \in Fields :
                heap'[r].is[f] = IF f = field THEN value ELSE heap[r].is[f]
  <1> DEFINE o == Set(heap[r], field, value)
  <1>1. /\ Holds(heap, list) /\ heap[r] \in Objects /\ r \in Refs
        /\ \A n \in Nodes : list[n] = r => heap[r].node = n
    BY TInvParts DEF Holds, Refs
  <1>2. /\ o \in Objects /\ o.node = heap[r].node
        /\ \A f \in Fields : o.is[f] = IF f = field THEN value ELSE heap[r].is[f]
    BY <1>1, SetType
  <1> HIDE DEF o
  <1>3. Belongs(list, r, o)
    BY <1>1, <1>2 DEF Belongs
  <1>4. heap' = With(heap, r, o) /\ SendNode(o, c)
    BY DEF o
  <1>5. /\ Holds(heap', list) /\ DOMAIN heap' = DOMAIN heap \cup {r}
        /\ heap'[r] = o /\ \A x \in DOMAIN heap : x # r => heap'[x] = heap[x]
    <2>1. Holds(With(heap, r, o), list) /\ Wrote(heap, r, o, With(heap, r, o))
      BY <1>1, <1>3, WithType
    <2> QED
      BY <1>4, <2>1 DEF Wrote
  <1>6. WireTypes' /\ ToldTypes' /\ Callbacked' \subseteq Callbacked \cup {c}
    BY <1>2, <1>4, SendNodeType
  <1>7. Told
    BY <1>5, <1>6, TInvParts DEF Told
  <1> QED
    BY <1>2, <1>5, <1>7 DEF o

LEMMA LoosensType ==
    ASSUME TInv, NEW r \in DOMAIN heap, NEW field, Loosens(r, field)
    PROVE  loose' \subseteq Nodes
  <1>1. heap[r].node \in Nodes /\ loose \subseteq Nodes
    BY TInvParts DEF Holds, Objects, TInv, TypeOK
  <1> QED
    BY <1>1 DEF Loosens

LEMMA MoreChanges ==
    ASSUME TInv, changes < MaxChanges, changes' = changes + 1
    PROVE  changes' \in 0 .. MaxChanges
  BY MaxChangesAssumption DEF TInv, TypeOK

\* The user in a row of the list.
LEMMA FocusRowTypes ==
    ASSUME TInv, UNCHANGED <<storeVars, nodeVars, mapVars, view, gui, loose, changes>>,
           NEW i \in DOMAIN rows, FocusRow(i)
    PROVE  TInv'
  <1>1. DOMAIN rows = 1 .. Len(rows)
    BY TInvParts, LenProperties
  <1>2. ListTypeOK'
    BY <1>1 DEF FocusRow, TInv, TypeOK, ListTypeOK, choiceVars, typeVars, storeVars
  <1> QED
    BY <1>2 DEF TInv, TypeOK, StoreTypeOK, NodeTypeOK, MapTypeOK, HandsInv, Callbacked,
                storeVars, wireVars, nodeVars, mapVars, pageDom

\* The row the user is in.
LEMMA RowInUse ==
    ASSUME TInv, focus # 0
    PROVE  /\ focus \in 1 .. Len(rows) /\ focus \in DOMAIN rows
           /\ rows[focus] \in RowType(DOMAIN heap)
           /\ rows[focus].obj \in DOMAIN heap /\ rows[focus].text \in Names
           /\ heap[rows[focus].obj] \in Objects
  <1>1. /\ rows \in Seq(RowType(DOMAIN heap)) /\ focus \in 1 .. Len(rows)
        /\ focus \in DOMAIN rows
    BY TInvParts, LenProperties
  <1>2. rows[focus] \in RowType(DOMAIN heap)
    BY <1>1, ElementOfSeq
  <1> QED
    BY <1>1, <1>2, TInvParts DEF RowType, Holds

LEMMA TypeInRowTypes ==
    ASSUME TInv, UNCHANGED <<storeVars, nodeVars, mapVars, view, gui, loose, changes>>,
           NEW text \in Names, TypeInRow(text)
    PROVE  TInv'
  <1> DEFINE row == [rows[focus] EXCEPT !.text = text]
  <1>1. /\ focus \in 1 .. Len(rows) /\ rows[focus] \in RowType(DOMAIN heap)
        /\ heap[rows[focus].obj] \in Objects
    BY RowInUse DEF TypeInRow
  <1>2. row \in RowType(DOMAIN heap)
    BY <1>1 DEF RowType
  <1>3. rows' = [rows EXCEPT ![focus] = row]
    BY DEF TypeInRow
  <1> HIDE DEF row
  <1>4. rows' \in Seq(RowType(DOMAIN heap)) /\ Len(rows') = Len(rows)
    BY <1>1, <1>2, <1>3, TInvParts, ExceptSeq
  <1>5. typedNode' \in Nodes /\ typed' \in Names
    BY <1>1 DEF TypeInRow, Objects
  <1>6. ListTypeOK'
    BY <1>4, <1>5 DEF TypeInRow, TInv, TypeOK, ListTypeOK, choiceVars, storeVars, RowType
  <1> QED
    BY <1>6 DEF TInv, TypeOK, StoreTypeOK, NodeTypeOK, MapTypeOK, HandsInv, Callbacked,
                storeVars, wireVars, nodeVars, mapVars, pageDom

LEMMA LeaveRowTypes ==
    ASSUME TInv, UNCHANGED <<nodeVars, mapVars, view, gui>>,
           changes < MaxChanges, changes' = changes + 1, LeaveRow,
           Loosens(rows[focus].obj, "hostname"), UNCHANGED <<list, channels>>
    PROVE  TInv'
  <1> DEFINE r == rows[focus].obj
             old == heap[r].is.hostname
             c == [obj |-> r, field |-> "hostname", old |-> old, row |-> focus]
  <1>1. /\ focus \in 1 .. Len(rows) /\ r \in DOMAIN heap /\ heap[r] \in Objects
        /\ rows[focus].text \in Names
    BY RowInUse DEF LeaveRow
  <1>2. Fits("hostname", rows[focus].text)
    BY <1>1 DEF Fits
  <1>3. c \in Callbacks
    <2>1. old \in Names
      BY <1>1 DEF Objects, Settings
    <2>2. focus \in Nat /\ r \in Nat
      BY <1>1, TInvParts, LenProperties DEF Holds, Refs
    <2> QED
      BY <2>1, <2>2 DEF Callbacks
  <1>4. /\ SendNode(Set(heap[r], "hostname", rows[focus].text), c)
        /\ heap' = With(heap, r, Set(heap[r], "hostname", rows[focus].text))
    BY DEF LeaveRow
  <1>5. c.obj = r
    OBVIOUS
  <1> HIDE DEF r, c
  <1>6. Told /\ Holds(heap', list') /\ DOMAIN heap' = DOMAIN heap
    BY <1>1, <1>2, <1>3, <1>4, <1>5, EditInPlace
  <1>7. ListDrew(DOMAIN heap')
    BY <1>6, TInvParts, LenProperties DEF LeaveRow, ListDrew, TInv, TypeOK, ListTypeOK
  <1>8. MapDrew(DOMAIN heap') /\ PageDrew
    BY <1>6, MapKept, PageKept DEF nodeVars
  <1>9. loose' \subseteq Nodes /\ changes' \in 0 .. MaxChanges
    BY <1>1, LoosensType, MoreChanges DEF r
  <1>10. Went
    BY <1>9, BlankAssumption DEF Went, TInv, TypeOK, ListTypeOK, NodeTypeOK, HandsInv, LeaveRow,
                choiceVars, nodeVars, Locations
  <1> QED
    BY <1>6, <1>7, <1>8, <1>10, TInvJoined DEF TInv, TypeOK

\* The table is drawn again: by another column, or with the nodes that were searched.
LEMMA ChoiceTypes ==
    ASSUME TInv, UNCHANGED <<nodeVars, mapVars, view, gui>>,
           changes < MaxChanges, changes' = changes + 1,
           UNCHANGED <<list, channels, wireVars, told, loose>>, Collect(heap),
           \/ \E by \in Sorts : SortTable(by)
           \/ \E nodes \in Filters : nodes # filter /\ Search(nodes)
    PROVE  TInv'
  <1>1. ListDrew(DOMAIN heap) /\ sortIndex' \in Sorts /\ filter' \in Filters
        /\ UNCHANGED typeVars
    <2>1. ASSUME NEW by \in Sorts, SortTable(by)
          PROVE  ListDrew(DOMAIN heap) /\ sortIndex' \in Sorts /\ filter' \in Filters
                 /\ UNCHANGED typeVars
      <3>1. /\ DrawTable(heap, data, channels, by, rows, focus)
            /\ data' = data /\ listTimer' = listTimer
            /\ sortIndex' = by /\ filter' = filter /\ UNCHANGED typeVars
        BY <2>1 DEF SortTable
      <3>2. listTimer' \in Debouncers /\ filter' \in Filters
        BY <3>1 DEF TInv, TypeOK, ListTypeOK
      <3> QED
        BY <3>1, <3>2, TInvParts, TableDrawn
    <2>2. ASSUME NEW nodes \in Filters, Search(nodes)
          PROVE  ListDrew(DOMAIN heap) /\ sortIndex' \in Sorts /\ filter' \in Filters
                 /\ UNCHANGED typeVars
      <3>1. filter' = nodes /\ sortIndex' = sortIndex /\ UNCHANGED typeVars
        BY <2>2 DEF Search
      <3>2. ListDrew(DOMAIN heap)
        <4>1. CASE listTimer.timer
          <5>1. listTimer' = Skipped(listTimer) /\ UNCHANGED <<data, rows, focus>>
            BY <2>2, <4>1 DEF Search
          <5>2. listTimer' \in Debouncers
            BY <5>1, DebouncerType DEF TInv, TypeOK, ListTypeOK
          <5> QED
            BY <5>1, <5>2, TInvParts DEF ListDrew
        <4>2. CASE ~listTimer.timer
          <5> DEFINE d == [n \in Nodes |-> IF n \in nodes THEN list[n] ELSE 0]
          <5>1. /\ listTimer' = Ran(Throws(d, channels, sortIndex)) /\ data' = d
                /\ DrawTable(heap, d, channels, sortIndex, rows, focus)
            BY <2>2, <4>2 DEF Search
          <5>2. d \in [Nodes -> DOMAIN heap \cup {0}]
            BY TInvParts DEF Holds
          <5> HIDE DEF d
          <5>3. listTimer' \in Debouncers
            BY <5>1, TInvParts, ThrowsType, DebouncerType
          <5> QED
            BY <5>1, <5>2, <5>3, TableDrawn
        <4> QED
          BY <4>1, <4>2
      <3> QED
        BY <3>1, <3>2 DEF TInv, TypeOK, ListTypeOK
    <2> QED
      BY <2>1, <2>2
  <1>2. PageDrew /\ MapDrew(DOMAIN heap)
    BY PageKept, MapKept DEF nodeVars
  <1>3. changes' \in 0 .. MaxChanges
    BY MoreChanges
  <1>4. Went
    BY <1>1, <1>3 DEF Went, TInv, TypeOK, ListTypeOK, NodeTypeOK, HandsInv, typeVars,
         nodeVars, Locations
  <1>5. \A c \in Callbacked' : c.obj \in DOMAIN heap \cup {0}
    BY TInvParts DEF Callbacked, wireVars
  <1>6. /\ WireTypes' /\ ToldTypes' /\ channels' \in BOOLEAN /\ Holds(heap, list')
        /\ gui' \in Debouncers
    BY TInvParts DEF WireTypes, ToldTypes, wireVars, TInv, TypeOK
  <1> QED
    BY <1>1, <1>2, <1>4, <1>5, <1>6, DrawnJoined

LEMMA InListTypes ==
    ASSUME TInv, InList
    PROVE  TInv'
  <1>1. UNCHANGED <<nodeVars, mapVars, view, gui>>
    BY DEF InList
  <1>2. CASE /\ \/ \E i \in DOMAIN rows : FocusRow(i)
                \/ \E text \in Names : TypeInRow(text)
             /\ UNCHANGED <<storeVars, loose, changes>>
    BY <1>1, <1>2, FocusRowTypes, TypeInRowTypes
  <1>3. CASE /\ changes < MaxChanges /\ changes' = changes + 1
             /\ LeaveRow
             /\ Loosens(rows[focus].obj, "hostname")
             /\ UNCHANGED <<list, channels>>
    BY <1>1, <1>3, LeaveRowTypes
  <1>4. CASE /\ changes < MaxChanges /\ changes' = changes + 1
             /\ \/ \E by \in Sorts : SortTable(by)
                \/ \E nodes \in Filters : nodes # filter /\ Search(nodes)
             /\ UNCHANGED <<list, channels, wireVars, told, loose>>
             /\ Collect(heap)
    BY <1>1, <1>4, ChoiceTypes
  <1> QED
    BY <1>2, <1>3, <1>4 DEF InList

-----------------------------------------------------------------------------
\* A step that draws nothing and changes no objects.
LEMMA NothingDrawn ==
    ASSUME TInv, UNCHANGED <<heap, list, data, rows, focus, listTimer>>
    PROVE  Holds(heap', list') /\ ListDrew(DOMAIN heap')
  BY TInvParts DEF TInv, TypeOK, ListTypeOK, ListDrew

LEMMA KeptTold ==
    ASSUME TInv, UNCHANGED <<heap, channels, wireVars, told>>
    PROVE  Told
  BY TInvParts DEF Told, wireVars, Callbacked, WireTypes, ToldTypes

\* The page of a node: what is sent is a copy of it.
LEMMA CopyType ==
    ASSUME TInv, view = "node", NEW field, NEW value, Fits(field, value),
           SendNode(Set(Current, field, value), NoCallback),
           UNCHANGED <<heap, list, channels>>
    PROVE  Told
  <1>1. Current \in Objects
    <2>1. currentNodeID \in Nodes
      BY DEF TInv, TypeOK, NodeTypeOK, HandsInv
    <2> QED
      BY <2>1, TInvParts, GetNodeType DEF Current
  <1>2. Set(Current, field, value) \in Objects
    BY <1>1, SetType
  <1>3. NoCallback \in Callbacks /\ NoCallback.obj = 0
    BY BlankAssumption DEF NoCallback, Callbacks
  <1>4. WireTypes' /\ ToldTypes' /\ Callbacked' \subseteq Callbacked \cup {NoCallback}
    BY <1>2, <1>3, SendNodeType
  <1> QED
    BY <1>3, <1>4, TInvParts DEF Told

LEMMA OnPageTypes ==
    ASSUME TInv, OnPage
    PROVE  TInv'
  <1>1. view = "node" /\ UNCHANGED <<listVars, mapVars, view, gui, loose>>
    BY DEF OnPage
  <1>2. ASSUME Told, UNCHANGED heap, UNCHANGED list, changes' \in 0 .. MaxChanges, PageDrew,
               UNCHANGED currentNodeID, editing' \in BOOLEAN, following' \in BOOLEAN,
               hand' \in {"none", "input", "marker"}, editing' <=> hand' # "none",
               gps' \in Locations \cup {Undefined}, following' => gps' \in Locations
        PROVE  TInv'
    <2>1. Holds(heap', list') /\ ListDrew(DOMAIN heap')
      BY <1>1, <1>2, NothingDrawn DEF listVars, tableVars
    <2>2. MapDrew(DOMAIN heap')
      BY <1>1, <1>2, MapKept
    <2>3. Went
      BY <1>1, <1>2 DEF Went, TInv, TypeOK, ListTypeOK, NodeTypeOK, HandsInv, listVars,
           choiceVars, typeVars, Locations
    <2> QED
      BY <1>1, <1>2, <2>1, <2>2, <2>3, TInvJoined DEF TInv, TypeOK
  <1>3. /\ input \in Names /\ marker \in Locations /\ rendered \in BOOLEAN
        /\ editing \in BOOLEAN /\ following \in BOOLEAN /\ hand \in {"none", "input", "marker"}
        /\ gps \in Locations \cup {Undefined} /\ (following => gps \in Locations)
        /\ (editing <=> hand # "none") /\ changes \in 0 .. MaxChanges
    BY DEF TInv, TypeOK, NodeTypeOK, HandsInv, Locations
  <1>4. CASE /\ FocusInput \/ DragMarker \/ \E text \in Names : TypeInput(text)
             /\ UNCHANGED <<storeVars, changes>>
    <2>1. Told
      BY <1>4, TInvParts DEF Told, storeVars, wireVars, Callbacked, WireTypes, ToldTypes
    <2>2. UNCHANGED heap /\ UNCHANGED list /\ changes' \in 0 .. MaxChanges
      BY <1>3, <1>4 DEF storeVars
    <2>3. CASE FocusInput \/ DragMarker
      BY <1>2, <1>3, <2>1, <2>2, <2>3 DEF FocusInput, DragMarker, pageDom, PageDrew
    <2>4. CASE \E text \in Names : TypeInput(text)
      BY <1>2, <1>3, <2>1, <2>2, <2>4 DEF TypeInput, PageDrew
    <2> QED
      BY <1>4, <2>3, <2>4
  <1>5. CASE /\ changes < MaxChanges /\ changes' = changes + 1
             /\ \/ LeaveInput
                \/ Follow /\ UNCHANGED <<heap, wireVars, told>>
                \/ \E place \in Places : DropMarker(place)
                \/ ResetLocation
                \/ StopFollowing
             /\ UNCHANGED <<list, channels>>
    <2>1. changes' \in 0 .. MaxChanges /\ UNCHANGED <<list, channels>>
      BY <1>5, MoreChanges
    <2>2. CASE LeaveInput
      <3>1. Told
        <4>1. Fits("hostname", input)
          BY <1>3 DEF Fits
        <4> QED
          BY <1>1, <2>1, <2>2, <4>1, CopyType DEF LeaveInput
      <3> QED
        BY <1>2, <1>3, <2>1, <2>2, <3>1 DEF LeaveInput, pageDom, PageDrew
    <2>3. ASSUME NEW place \in Places, DropMarker(place)
          PROVE  TInv'
      <3>1. Told
        <4>1. Fits("location", place)
          BY DEF Fits, Locations
        <4> QED
          BY <1>1, <2>1, <2>3, <4>1, CopyType DEF DropMarker, UpdatePosition
      <3> QED
        BY <1>2, <1>3, <2>1, <2>3, <3>1 DEF DropMarker, PageDrew, Locations
    <2>4. CASE ResetLocation
      <3>1. Told
        <4>1. Fits("location", NoPlace)
          BY DEF Fits, Locations
        <4> QED
          BY <1>1, <2>1, <2>4, <4>1, CopyType DEF ResetLocation
      <3> QED
        BY <1>2, <1>3, <2>1, <2>4, <3>1 DEF ResetLocation, PageDrew
    <2>5. CASE StopFollowing
      <3>1. Told
        <4>1. CASE gps # NoPlace
          <5>1. Fits("location", gps)
            BY <1>3, <2>5 DEF Fits, StopFollowing
          <5> QED
            BY <1>1, <2>1, <2>5, <4>1, <5>1, CopyType DEF StopFollowing, UpdatePosition
        <4>2. CASE gps = NoPlace
          <5>1. UNCHANGED <<wireVars, told, heap>>
            BY <2>5, <4>2 DEF StopFollowing
          <5> QED
            BY <2>1, <5>1, KeptTold
        <4> QED
          BY <4>1, <4>2
      <3> QED
        BY <1>2, <1>3, <2>1, <2>5, <3>1 DEF StopFollowing, pageDom, PageDrew
    <2>6. CASE Follow /\ UNCHANGED <<heap, wireVars, told>>
      <3>1. Told
        BY <2>1, <2>6, KeptTold
      <3> QED
        BY <1>2, <1>3, <2>1, <2>6, <3>1 DEF Follow, pageDom, PageDrew, Locations
    <2> QED
      BY <1>5, <2>2, <2>3, <2>4, <2>5, <2>6
  <1> QED
    BY <1>4, <1>5 DEF OnPage

\* The map.
LEMMA OnMapTypes ==
    ASSUME TInv, OnMap
    PROVE  TInv'
  <1>1. view = "map" /\ UNCHANGED <<listVars, nodeVars, view, gui>>
    BY DEF OnMap
  <1>2. CASE /\ \E n \in Nodes : DragNode(n)
             /\ UNCHANGED <<storeVars, loose, changes>>
    <2>1. PICK n \in Nodes : DragNode(n)
      BY <1>2
    <2>2. markers' = markers /\ dragged' = n /\ markers[n].obj # 0
      BY <2>1 DEF DragNode
    <2> QED
      BY <1>1, <1>2, <2>2 DEF TInv, TypeOK, StoreTypeOK, ListTypeOK, NodeTypeOK, MapTypeOK,
           HandsInv, Callbacked, storeVars, wireVars, listVars, tableVars, choiceVars, typeVars,
           nodeVars, pageDom
  <1>3. ASSUME changes < MaxChanges, changes' = changes + 1,
               NEW place \in Places, DropNode(place),
               Loosens(markers[dragged].obj, "location"),
               UNCHANGED <<list, channels>>
        PROVE  TInv'
    <2> DEFINE r == markers[dragged].obj
               old == heap[r].is.location
               c == [obj |-> r, field |-> "location", old |-> old, row |-> 0]
    <2>1. dragged \in Nodes /\ r \in DOMAIN heap /\ heap[r] \in Objects /\ r \in Nat
      BY <1>3, TInvParts DEF DropNode, TInv, TypeOK, MapTypeOK, HandsInv, Holds, Refs
    <2>2. Fits("location", place)
      BY DEF Fits, Locations
    <2>3. c \in Callbacks
      <3>1. old \in Places \cup {NoPlace}
        BY <2>1 DEF Objects, Settings
      <3> QED
        BY <2>1, <3>1 DEF Callbacks
    <2>4. /\ SendNode(Set(heap[r], "location", place), c)
          /\ heap' = With(heap, r, Set(heap[r], "location", place))
      BY <1>3 DEF DropNode
    <2>5. c.obj = r
      OBVIOUS
    <2> HIDE DEF r, c
    <2>6. Told /\ Holds(heap', list') /\ DOMAIN heap' = DOMAIN heap
      BY <1>3, <2>1, <2>2, <2>3, <2>4, <2>5, EditInPlace
    <2>7. ListDrew(DOMAIN heap')
      BY <1>1, <2>6, TInvParts DEF ListDrew, TInv, TypeOK, ListTypeOK, listVars, tableVars
    <2>8. PageDrew
      BY <1>1, PageKept DEF nodeVars
    <2>9. MapDrew(DOMAIN heap')
      <3>1. /\ markers \in [Nodes -> MarkerType(DOMAIN heap)]
            /\ \A n \in Nodes : markers[n].obj = 0 <=> markers[n].at = NoPlace
            /\ r # 0 /\ place # NoPlace /\ place \in Locations
        BY <1>3, TInvParts, NoPlaceAssumption DEF TInv, TypeOK, MapTypeOK, HandsInv, DropNode, r,
             Locations
      <3>2. markers' = [markers EXCEPT ![dragged].at = place] /\ dragged' = 0
        BY <1>3 DEF DropNode
      <3>3. \A n \in Nodes : markers'[n] = IF n = dragged THEN [obj |-> r, at |-> place]
                                           ELSE markers[n]
        BY <2>1, <3>1, <3>2 DEF MarkerType, r
      <3>4. [obj |-> r, at |-> place] \in MarkerType(DOMAIN heap)
        BY <2>1, <3>1 DEF MarkerType
      <3>5. markers' \in [Nodes -> MarkerType(DOMAIN heap)]
        BY <3>1, <3>2, <3>3, <3>4
      <3>6. \A n \in Nodes : markers'[n].obj = 0 <=> markers'[n].at = NoPlace
        BY <3>1, <3>3
      <3> QED
        BY <2>6, <3>2, <3>5, <3>6 DEF MapDrew
    <2>10. loose' \subseteq Nodes /\ changes' \in 0 .. MaxChanges
      BY <1>3, <2>1, LoosensType, MoreChanges DEF r
    <2>11. Went
      BY <1>1, <2>10 DEF Went, TInv, TypeOK, ListTypeOK, NodeTypeOK, HandsInv, listVars,
           choiceVars, typeVars, nodeVars, Locations
    <2> QED
      BY <1>1, <2>6, <2>7, <2>8, <2>9, <2>11, TInvJoined DEF TInv, TypeOK
  <1> QED
    BY <1>2, <1>3 DEF OnMap

LEMMA WatchTypes ==
    ASSUME TInv, Watch
    PROVE  TInv'
  BY DEF Watch, Position, TInv, TypeOK, StoreTypeOK, ListTypeOK, NodeTypeOK, MapTypeOK,
         HandsInv, Callbacked, storeVars, wireVars, listVars, tableVars, choiceVars, typeVars, mapVars

\* The router.
LEMMA SetViewTypes ==
    ASSUME TInv, NEW v \in Views, NEW n \in Nodes \cup {0}, SetView(v, n)
    PROVE  TInv'
  <1>1. /\ view' = v /\ currentNodeID' = n /\ (v = "node" => n # 0)
        /\ changes < MaxChanges /\ changes' = changes + 1
        /\ UNCHANGED <<list, channels, wireVars, told, choiceVars, typeVars,
                       editing, hand, following, gps, gui, loose>>
        /\ Collect(heap)
    BY DEF SetView
  <1>2. ListDrew(DOMAIN heap)
    <2>1. CASE v = "list"
      <3>1. ListRender(heap, list, channels, rows, focus)
        BY <2>1 DEF SetView
      <3> QED
        BY <3>1, TInvParts, ListRenderType
    <2>2. CASE v # "list"
      <3>1. UNCHANGED tableVars
        BY <2>2 DEF SetView
      <3> QED
        BY <3>1, TInvParts, ListKept DEF tableVars
    <2> QED
      BY <2>1, <2>2
  <1>3. PageDrew
    <2>1. CASE v = "node"
      <3>1. NodeRender(heap, list, n, FALSE) /\ n \in Nodes
        BY <1>1, <2>1 DEF SetView
      <3> QED
        BY <3>1, TInvParts, NodeRenderType
    <2>2. CASE v # "node"
      <3>1. input' = Blank /\ marker' = NoPlace /\ rendered' = FALSE
        BY <2>2 DEF SetView
      <3> QED
        BY <3>1, BlankAssumption DEF PageDrew, Locations
    <2> QED
      BY <2>1, <2>2
  <1>4. MapDrew(DOMAIN heap)
    <2>1. CASE v = "map"
      <3>1. MapRender(heap, list)
        BY <2>1 DEF SetView
      <3> QED
        BY <3>1, TInvParts, MapRenderType
    <2>2. CASE v # "map"
      <3>1. markers' = NoMarkers /\ dragged' = 0
        BY <2>2 DEF SetView
      <3> QED
        BY <3>1 DEF MapDrew, NoMarkers, MarkerType, Locations
    <2> QED
      BY <2>1, <2>2
  <1>5. changes' \in 0 .. MaxChanges
    BY <1>1, MoreChanges
  <1>6. Went
    BY <1>1, <1>5 DEF Went, TInv, TypeOK, ListTypeOK, NodeTypeOK, HandsInv, choiceVars, typeVars,
         Locations
  <1>7. \A c \in Callbacked' : c.obj \in DOMAIN heap \cup {0}
    BY <1>1, TInvParts DEF Callbacked, wireVars
  <1>8. /\ WireTypes' /\ ToldTypes' /\ channels' \in BOOLEAN /\ Holds(heap, list')
        /\ gui' \in Debouncers
    BY <1>1, TInvParts DEF WireTypes, ToldTypes, wireVars, TInv, TypeOK
  <1> QED
    BY <1>1, <1>2, <1>3, <1>4, <1>6, <1>7, <1>8, DrawnJoined

\* The server, other users, the nodes, and the connection.
LEMMA ElsewhereTypes ==
    ASSUME TInv, UNCHANGED <<heap, list, channels, told, viewVars, view, gui>>,
           loose' \subseteq Nodes, changes' \in 0 .. MaxChanges,
           WireTypes', Callbacked' \subseteq Callbacked
    PROVE  TInv'
  BY DEF TInv, TypeOK, StoreTypeOK, ListTypeOK, NodeTypeOK, MapTypeOK, HandsInv, WireTypes,
         viewVars, listVars, tableVars, choiceVars, typeVars, nodeVars, pageDom, mapVars

LEMMA TellType ==
    ASSUME TInv, NEW n \in Nodes, NEW is \in Settings, Tell(NodeMessage(n, is))
    PROVE  down' \in Seq(Messages) /\ Answered' = Answered
  <1>1. down \in Seq(Messages)
    BY TInvParts
  <1>2. NodeMessage(n, is) \in Messages /\ NodeMessage(n, is).subject # "answer"
    BY MessageTypes DEF NodeMessage
  <1>3. CASE broken
    BY <1>1, <1>3, CallbackedParts DEF Tell
  <1>4. CASE ~broken
    <2>1. down' = Append(down, NodeMessage(n, is))
      BY <1>4 DEF Tell
    <2> QED
      BY <1>1, <1>2, <2>1, OneMore
  <1> QED
    BY <1>3, <1>4

\* The broadcast that is due is one of a node.
LEMMA DueIs ==
    ASSUME TInv, NEW m \in due
    PROVE  /\ m.subject = "node" /\ m.node \in Nodes /\ m.is \in Settings
           /\ m = NodeMessage(m.node, m.is) /\ due = {m}
  <1>1. due \subseteq NodeMessages /\ \A x \in due : x = m
    BY TInvParts DEF WireTypes
  <1> QED
    BY <1>1 DEF NodeMessages, NodeMessage

LEMMA HandleTypes ==
    ASSUME TInv, Handle
    PROVE  WireTypes' /\ Callbacked' = Callbacked /\ UNCHANGED <<heap, list, channels, told>>
  <1> DEFINE e == Head(up)
  <1>1. /\ up # <<>> /\ up' = Tail(up) /\ UNCHANGED <<heap, list, channels, broken, told>>
        /\ \/ down' = Append(down, AnswerTo(e.callback, FALSE)) /\ UNCHANGED due
           \/ /\ down' = Append(down, AnswerTo(e.callback, TRUE))
              /\ due' = {NodeMessage(e.node, e.is)}
    BY DEF Handle
  <1>2. \E ok \in BOOLEAN : down' = Append(down, AnswerTo(e.callback, ok))
    BY <1>1
  <1>3. /\ up' \in Seq(Edits) /\ down' \in Seq(Messages) /\ e \in Edits
        /\ Callbacked' = Callbacked
    BY <1>1, <1>2, TInvParts, EditAnswered
  <1>4. due' \subseteq NodeMessages /\ \A m1, m2 \in due' : m1 = m2
    <2>1. NodeMessage(e.node, e.is) \in NodeMessages
      BY <1>3 DEF Edits, NodeMessages, NodeMessage
    <2> HIDE DEF e
    <2>2. CASE due' = due
      BY <2>2, TInvParts DEF WireTypes
    <2>3. CASE due' = {NodeMessage(e.node, e.is)}
      BY <2>1, <2>3
    <2> QED
      BY <1>1, <2>2, <2>3
  <1> QED
    BY <1>1, <1>3, <1>4, TInvParts DEF WireTypes

LEMMA TellDueTypes ==
    ASSUME TInv, TellDue
    PROVE  WireTypes' /\ Callbacked' = Callbacked /\ UNCHANGED <<heap, list, channels, told>>
  <1>1. PICK m \in due : Tell(m)
    BY DEF TellDue
  <1>2. due' = {} /\ UNCHANGED <<heap, list, channels, up, broken, told>>
    BY DEF TellDue
  <1>3. down' \in Seq(Messages) /\ Answered' = Answered
    <2>1. m.node \in Nodes /\ m.is \in Settings /\ Tell(NodeMessage(m.node, m.is))
      BY <1>1, DueIs
    <2> QED
      BY <2>1, TellType
  <1>4. Callbacked' = Callbacked
    BY <1>2, <1>3, CallbackedParts
  <1>5. WireTypes'
    BY <1>2, <1>3, TInvParts DEF WireTypes
  <1> QED
    BY <1>2, <1>4, <1>5

LEMMA ServeTypes ==
    ASSUME TInv, Serve
    PROVE  TInv'
  <1>1. UNCHANGED <<viewVars, view, gui, loose, changes>>
    BY DEF Serve
  <1>2. WireTypes' /\ Callbacked' = Callbacked /\ UNCHANGED <<heap, list, channels, told>>
    BY HandleTypes, TellDueTypes DEF Serve
  <1>3. loose' \subseteq Nodes /\ changes' \in 0 .. MaxChanges
    BY <1>1 DEF TInv, TypeOK
  <1> QED
    BY <1>1, <1>2, <1>3, ElsewhereTypes

LEMMA OtherTypes ==
    ASSUME TInv, NEW n \in Nodes, NEW is \in News, Other(n, is)
    PROVE  TInv'
  <1>1. /\ Tell(NodeMessage(n, is)) /\ changes < MaxChanges /\ changes' = changes + 1
        /\ UNCHANGED <<heap, list, channels, up, due, broken, told, viewVars, view, gui, loose>>
    BY DEF Other
  <1>2. down' \in Seq(Messages) /\ Answered' = Answered
    BY <1>1, NewsType, TellType
  <1>3. Callbacked' = Callbacked
    BY <1>1, <1>2, CallbackedParts
  <1>4. WireTypes'
    BY <1>1, <1>2, TInvParts DEF WireTypes
  <1>5. loose' \subseteq Nodes /\ changes' \in 0 .. MaxChanges
    BY <1>1, MoreChanges DEF TInv, TypeOK
  <1> QED
    BY <1>1, <1>3, <1>4, <1>5, ElsewhereTypes

LEMMA BreakTypes ==
    ASSUME TInv, Break
    PROVE  TInv'
  <1>1. /\ changes < MaxChanges /\ changes' = changes + 1
        /\ broken' = TRUE /\ up' = <<>> /\ down' = <<>>
        /\ loose' = loose \cup {n \in Nodes : list[n] # 0 /\ heap[list[n]].is # told[n]}
        /\ UNCHANGED <<heap, list, channels, due, told, viewVars, view, gui>>
    BY DEF Break
  <1>2. up' \in Seq(Edits) /\ down' \in Seq(Messages) /\ Callbacked' = {}
    BY <1>1 DEF Callbacked
  <1>3. WireTypes'
    BY <1>1, <1>2, TInvParts DEF WireTypes
  <1>4. loose' \subseteq Nodes /\ changes' \in 0 .. MaxChanges
    BY <1>1, MoreChanges DEF TInv, TypeOK
  <1> QED
    BY <1>1, <1>2, <1>3, <1>4, ElsewhereTypes

-----------------------------------------------------------------------------
LEMMA InitTInv == Init => TInv
  <1> SUFFICES ASSUME Init PROVE TInv
    OBVIOUS
  <1>1. up \in Seq(Edits) /\ up = <<>> /\ due = {}
    BY DEF Init, StoreInit
  <1>2. /\ down \in Seq(Messages)
        /\ \A i \in DOMAIN down : \/ down[i] = ChannelLists
                                  \/ \E n \in Nodes, is \in Settings : down[i] = NodeMessage(n, is)
    BY ConnectedType DEF Init, StoreInit
  <1>3. Callbacked = {}
    BY <1>1, <1>2 DEF Callbacked, ChannelLists, NodeMessage
  <1>4. DOMAIN heap = {} /\ heap \in [DOMAIN heap -> Objects]
    BY DEF Init, StoreInit
  <1>5. StoreTypeOK
    BY <1>1, <1>2, <1>3, <1>4, FS_EmptySet DEF Init, StoreInit, StoreTypeOK
  <1>6. ListTypeOK
    <2>1. rows = <<>> /\ focus = 0
      BY DEF Init, ListInit
    <2>2. rows \in Seq([obj : DOMAIN heap, text : Names]) /\ focus \in 0 .. Len(rows)
      BY <2>1
    <2> QED
      BY <2>2, SortsAssumption, FiltersAssumption, BlankAssumption, DebouncerType
         DEF Init, ListInit, ListTypeOK
  <1>7. NodeTypeOK /\ MapTypeOK
    BY BlankAssumption DEF Init, NodeInit, MapInit, NoMarkers, NodeTypeOK, MapTypeOK
  <1>8. TypeOK
    <2>1. gui \in Debouncers
      BY DEF Init, Ran, Debouncers
    <2>2. view \in Views /\ loose \subseteq Nodes /\ changes \in 0 .. MaxChanges
      BY MaxChangesAssumption DEF Init
    <2> QED
      BY <1>5, <1>6, <1>7, <2>1, <2>2 DEF TypeOK
  <1>9. HandsInv
    BY NodesAssumption DEF Init, NodeInit, MapInit, HandsInv
  <1> QED
    BY <1>8, <1>9 DEF TInv

LEMMA StepTInv == TInv /\ [Next]_vars => TInv'
  <1> SUFFICES ASSUME TInv, [Next]_vars PROVE TInv'
    OBVIOUS
  <1>1. CASE Receive
    <2>1. down \in Seq(Messages) /\ down # <<>>
      BY <1>1, TInvParts DEF Receive
    <2>2. 1 \in DOMAIN down
      BY <1>1, <2>1, OneLess DEF Receive
    <2>3. down[1].subject \in {"node", "channels", "answer"}
      BY <2>1, <2>2, DownIs DEF Messages, NodeMessages
    <2> QED
      BY <1>1, <2>3, ReceiveNodeTypes, ReceiveChannelsTypes, ReceiveAnswerTypes
  <1>2. CASE GuiTimeout \/ ListTimer \/ Reconnect
    BY <1>2, GuiTimeoutTypes, ListTimerTypes, ReconnectTypes
  <1>3. CASE InList \/ OnPage \/ OnMap \/ Watch
    BY <1>3, InListTypes, OnPageTypes, OnMapTypes, WatchTypes
  <1>4. CASE \/ \E v \in Views : SetView(v, currentNodeID)
             \/ \E n \in Nodes : "node" \in Views /\ SetView("node", n)
    <2>1. currentNodeID \in Nodes \cup {0}
      BY DEF TInv, TypeOK, NodeTypeOK
    <2> QED
      BY <1>4, <2>1, SetViewTypes
  <1>5. CASE Serve \/ \E n \in Nodes, is \in News : Other(n, is)
    BY <1>5, ServeTypes, OtherTypes
  <1>6. CASE Break
    BY <1>6, BreakTypes
  <1>7. CASE UNCHANGED vars
    BY <1>7 DEF vars, TInv, TypeOK, StoreTypeOK, ListTypeOK, NodeTypeOK, MapTypeOK, HandsInv,
         Callbacked, storeVars, wireVars, viewVars, listVars, tableVars, choiceVars, typeVars,
         nodeVars, pageDom, mapVars
  <1> QED
    BY <1>1, <1>2, <1>3, <1>4, <1>5, <1>6, <1>7 DEF Next, Work, Disturbance

\* A page's objects, rows, markers and callbacks refer to objects there are; a store
\* refers to a node's own object; what the user holds is there.
THEOREM TypeCorrect == Spec => []TInv
  <1>1. Init => TInv
    BY InitTInv
  <1>2. TInv /\ [Next]_vars => TInv'
    BY StepTInv
  <1> QED
    BY <1>1, <1>2, PTL DEF Spec

THEOREM TypesHold == Spec => []TypeOK
  <1>1. TInv => TypeOK
    BY DEF TInv
  <1> QED
    BY <1>1, TypeCorrect, PTL
=============================================================================
