----------------------------- MODULE PageProofs -----------------------------
(***************************************************************************)
(* A page and what it is told: what keeps them in sync, and what the user  *)
(* is doing.                                                               *)
(***************************************************************************)
EXTENDS PageTypeProofs

\* The object an edit has changed in place is of the node that is sent.
EditsOfNodes ==
    \A i \in DOMAIN up :
      up[i].callback.obj # 0 => heap[up[i].callback.obj].node = up[i].node

Sync == LostIsSilent /\ EditsOfNodes /\ StoredIsTold /\ UpToDate

\* The objects that are left are as they were.
SameObjects == \A r \in DOMAIN heap' : r \in DOMAIN heap /\ heap'[r] = heap[r]

\* The objects that are left are of the nodes they were of.
SameNodes == \A r \in DOMAIN heap' : r \in DOMAIN heap => heap'[r].node = heap[r].node

-----------------------------------------------------------------------------
LEMMA KnownIs ==
    ASSUME TInv, NEW n \in Nodes
    PROVE  n \in Known <=> told[n] \in Settings
  BY TInvParts, UntoldAssumption DEF Known

\* The reference of a node is no other node's.
LEMMA OwnObject ==
    ASSUME TInv, NEW n \in Nodes, list[n] # 0
    PROVE  /\ list[n] \in DOMAIN heap /\ heap[list[n]] \in Objects /\ heap[list[n]].node = n
           /\ list[n] \in Refs
  BY TInvParts DEF Holds

\* A callback that will be called is of an object there is.
LEMMA CallbackIs ==
    ASSUME TInv, NEW c \in Callbacked
    PROVE  c \in Callbacks /\ c.obj \in DOMAIN heap \cup {0}
  <1>1. CASE c \in Edited
    <2>1. PICK i \in DOMAIN up : c = up[i].callback
      BY <1>1 DEF Edited
    <2> QED
      BY <2>1, TInvParts, UpIs
  <1>2. CASE c \in Answered
    <2>1. PICK i \in DOMAIN down : down[i].subject = "answer" /\ c = down[i].callback
      BY <1>2 DEF Answered
    <2> QED
      BY <2>1, TInvParts, DownIs
  <1> QED
    BY <1>1, <1>2, CallbackedParts

\* A message about a node is about one of Nodes.
LEMMA ToldNode ==
    ASSUME TInv, NEW i \in DOMAIN down, down[i].subject = "node"
    PROVE  down[i].node \in Nodes /\ down[i].is \in Settings
  BY TInvParts, DownIs DEF Messages, NodeMessages

\* What Collect leaves has what was drawn.
LEMMA CollectedObjects ==
    ASSUME NEW h, Collect(h)
    PROVE  \A r \in DOMAIN heap' : r \in DOMAIN h /\ heap'[r] = h[r]
  BY DEF Collect

LEMMA DownDomain ==
    ASSUME TInv
    PROVE  Len(down) \in Nat /\ DOMAIN down = 1 .. Len(down)
  BY TInvParts, LenProperties

-----------------------------------------------------------------------------
\* The parts of Sync one by one.  Edits that were sent before are of their nodes.
LEMMA EditsKept ==
    ASSUME TInv, TInv', Sync, SameNodes,
           \A i \in DOMAIN up' : \E j \in DOMAIN up : up'[i] = up[j]
    PROVE  EditsOfNodes'
  <1>1. SUFFICES ASSUME NEW i \in DOMAIN up', up'[i].callback.obj # 0
                 PROVE  heap'[up'[i].callback.obj].node = up'[i].node
    BY DEF EditsOfNodes
  <1>2. PICK j \in DOMAIN up : up'[i] = up[j]
    OBVIOUS
  <1> DEFINE c == up[j].callback
  <1>3. c \in Callbacked /\ c \in Callbacked'
    BY <1>2 DEF Callbacked
  <1>4. c.obj \in DOMAIN heap /\ c.obj \in DOMAIN heap'
    BY <1>1, <1>2, <1>3 DEF TInv, TypeOK, StoreTypeOK
  <1> QED
    BY <1>1, <1>2, <1>4 DEF Sync, EditsOfNodes, SameNodes

\* What is awaited after an answer is awaited still, if what comes after the answer
\* comes after it still.
LEMMA StoredKept ==
    ASSUME TInv, TInv', Sync, SameNodes, NEW shift \in {0, 1},
           \A i \in DOMAIN down' : down'[i].subject = "answer" =>
             i + shift \in DOMAIN down /\ down'[i] = down[i + shift],
           \A i \in DOMAIN down : i > shift =>
             i - shift \in DOMAIN down' /\ down'[i - shift] = down[i],
           \A m \in due :
             \/ m \in due'
             \/ \E j \in DOMAIN down' : (\A i \in DOMAIN down : j > i - shift) /\ down'[j] = m
    PROVE  StoredIsTold'
  <1>1. SUFFICES ASSUME NEW i \in DOMAIN down', down'[i].subject = "answer", down'[i].ok,
                        down'[i].callback.obj # 0
                 PROVE  LET n == heap'[down'[i].callback.obj].node IN
                          \/ \E j \in DOMAIN down' : j > i /\ down'[j].subject = "node"
                                                     /\ down'[j].node = n
                          \/ \E m \in due' : m.node = n
    BY DEF StoredIsTold
  <1> DEFINE c == down'[i].callback
             n == heap[c.obj].node
             k == i + shift
  <1>2. k \in DOMAIN down /\ down'[i] = down[k] /\ i \in Nat /\ k \in Nat /\ k - shift = i /\ k > shift
    <2>1. i \in Nat /\ i >= 1
      <3>1. down' \in Seq(Messages)
        BY DEF TInv, TypeOK, StoreTypeOK
      <3> QED
        BY <3>1, LenProperties
    <2> QED
      BY <1>1, <2>1
  <1>3. c \in Callbacked /\ c \in Callbacked'
    BY <1>1, <1>2 DEF Callbacked
  <1>4. c.obj \in DOMAIN heap /\ c.obj \in DOMAIN heap'
    BY <1>1, <1>3 DEF TInv, TypeOK, StoreTypeOK
  <1>5. heap'[c.obj].node = n
    BY <1>4 DEF SameNodes
  <1>6. \/ \E j \in DOMAIN down : j > k /\ down[j].subject = "node" /\ down[j].node = n
        \/ \E m \in due : m.node = n
    BY <1>1, <1>2 DEF Sync, StoredIsTold
  <1> HIDE DEF c, n, k
  <1>7. ASSUME NEW j \in DOMAIN down, j > k, down[j].subject = "node", down[j].node = n
        PROVE  \E x \in DOMAIN down' : x > i /\ down'[x].subject = "node" /\ down'[x].node = n
    <2>1. j \in Nat /\ j > shift /\ j - shift > i
      BY <1>2, <1>7, DownDomain
    <2> QED
      BY <1>7, <2>1
  <1>8. ASSUME NEW m \in due, m.node = n
        PROVE  \/ \E x \in DOMAIN down' : x > i /\ down'[x].subject = "node" /\ down'[x].node = n
               \/ \E x \in due' : x.node = n
    <2>1. CASE m \in due'
      BY <1>8, <2>1
    <2>2. ASSUME NEW j \in DOMAIN down', \A x \in DOMAIN down : j > x - shift, down'[j] = m
          PROVE  \E x \in DOMAIN down' : x > i /\ down'[x].subject = "node" /\ down'[x].node = n
      <3>1. j > i
        BY <1>2, <2>2
      <3> QED
        BY <1>8, <2>2, <3>1, DueIs
    <2> QED
      BY <2>1, <2>2
  <1> QED
    BY <1>5, <1>6, <1>7, <1>8 DEF c

\* A node that is as far from what was told as it was.
LEMMA NodeKept ==
    ASSUME TInv, TInv', Sync, NEW n \in Nodes, list'[n] = list[n], told'[n] = told[n],
           list[n] # 0 => heap'[list[n]] = heap[list[n]],
           list[n] # 0 => \A f \in Fields : TakesBack(list[n], f)' = TakesBack(list[n], f),
           n \notin loose' /\ ~Awaited(n)' => n \notin loose /\ ~Awaited(n)
    PROVE  IF list'[n] = 0 THEN n \notin Known'
           ELSE n \in Known' /\ (n \notin loose' /\ ~Awaited(n)' => UndoneIsTold(n)')
  <1>1. n \in Known' <=> n \in Known
    BY DEF Known
  <1>2. CASE list[n] = 0
    BY <1>1, <1>2 DEF Sync, UpToDate
  <1>3. CASE list[n] # 0
    <2>2. heap'[list'[n]] = heap[list[n]]
      BY <1>3
    <2>3. UndoneIsTold(n)' <=> UndoneIsTold(n)
      BY <1>3, <2>2 DEF UndoneIsTold
    <2> QED
      BY <1>1, <1>3, <2>3 DEF Sync, UpToDate
  <1> QED
    BY <1>2, <1>3

-----------------------------------------------------------------------------
\* Drawing, typing and searching leave the page as far in sync as it was.
LEMMA SyncKept ==
    ASSUME TInv, TInv', Sync, SameObjects, UNCHANGED <<list, wireVars, told, loose>>
    PROVE  Sync'
  <1>1. /\ Callbacked' = Callbacked /\ UNCHANGED <<up, down, due, broken>> /\ SameNodes
    BY DEF Callbacked, wireVars, SameObjects, SameNodes
  <1>2. LostIsSilent'
    BY <1>1 DEF Sync, LostIsSilent
  <1>3. EditsOfNodes'
    BY <1>1, EditsKept
  <1>4. StoredIsTold'
    <2>1. \A i \in DOMAIN down : i \in Nat /\ i + 0 = i /\ i - 0 = i
      BY DownDomain
    <2> QED
      BY <1>1, <2>1, StoredKept
  <1>5. UpToDate'
    <2>1. SUFFICES ASSUME NEW n \in Nodes
                   PROVE  IF list'[n] = 0 THEN n \notin Known'
                          ELSE n \in Known' /\ (n \notin loose' /\ ~Awaited(n)' => UndoneIsTold(n)')
      BY DEF UpToDate
    <2>2. list[n] # 0 => heap'[list[n]] = heap[list[n]]
      BY DEF TInv, TypeOK, StoreTypeOK, SameObjects
    <2>3. \A f \in Fields : TakesBack(list[n], f)' = TakesBack(list[n], f)
      BY <1>1 DEF TakesBack
    <2>4. Awaited(n)' <=> Awaited(n)
      BY <1>1 DEF Awaited
    <2> QED
      BY <2>2, <2>3, <2>4, NodeKept
  <1> QED
    BY <1>2, <1>3, <1>4, <1>5 DEF Sync

\* The server, and others, let no less be awaited.
LEMMA UpToDateServed ==
    ASSUME TInv, TInv', Sync, UNCHANGED <<heap, list, told, loose>>, Callbacked' = Callbacked,
           \A n \in Nodes : Awaited(n) => Awaited(n)'
    PROVE  UpToDate'
  <1>1. SUFFICES ASSUME NEW n \in Nodes
                 PROVE  IF list'[n] = 0 THEN n \notin Known'
                        ELSE n \in Known' /\ (n \notin loose' /\ ~Awaited(n)' => UndoneIsTold(n)')
    BY DEF UpToDate
  <1>2. \A f \in Fields : TakesBack(list[n], f)' = TakesBack(list[n], f)
    BY DEF TakesBack
  <1> QED
    BY <1>2, NodeKept

\* A message more at the end: one of others, or the broadcast that was due.
LEMMA SyncTold ==
    ASSUME TInv, TInv', Sync, NEW n \in Nodes, NEW is \in Settings, Tell(NodeMessage(n, is)),
           due' = due \/ (due' = {} /\ due = {NodeMessage(n, is)}),
           UNCHANGED <<heap, list, up, broken, told, loose>>
    PROVE  Sync'
  <1> DEFINE m == NodeMessage(n, is)
  <1>1. m \in Messages /\ m.subject = "node" /\ m.node = n
    BY MessageTypes DEF NodeMessage
  <1>2. SameNodes
    BY DEF SameNodes
  <1>3. EditsOfNodes'
    BY <1>2, EditsKept
  <1>4. CASE broken
    <2>1. down = <<>> /\ down' = <<>> /\ broken'
      BY <1>4 DEF Tell, Sync, LostIsSilent
    <2>2. LostIsSilent' /\ StoredIsTold'
      BY <2>1 DEF Sync, LostIsSilent, StoredIsTold
    <2>3. \A x \in Nodes : ~Awaited(x)
      BY <1>4 DEF Awaited
    <2>4. Callbacked' = Callbacked
      BY <2>1, CallbackedParts
    <2> QED
      BY <1>3, <2>2, <2>3, <2>4, UpToDateServed DEF Sync
  <1>5. CASE ~broken
    <2>1. down' = Append(down, m)
      BY <1>5 DEF Tell
    <2> HIDE DEF m
    <2>2. /\ \A i \in DOMAIN down : i \in DOMAIN down' /\ down'[i] = down[i] /\ i < Len(down')
          /\ Len(down') \in DOMAIN down' /\ down'[Len(down')] = m
          /\ \A i \in DOMAIN down' : i \in DOMAIN down \/ i = Len(down')
          /\ Answered' = Answered
      BY <1>1, <2>1, TInvParts, OneMore
    <2>3. LostIsSilent'
      BY <1>5 DEF LostIsSilent
    <2>4. StoredIsTold'
      <3>1. \A i \in DOMAIN down : i \in Nat /\ i + 0 = i /\ i - 0 = i
        BY DownDomain
      <3>2. \A i \in DOMAIN down' : down'[i].subject = "answer" =>
              i + 0 \in DOMAIN down /\ down'[i] = down[i + 0]
        BY <1>1, <2>2, <3>1
      <3>3. Len(down') \in Nat
        BY <2>2, LenProperties DEF TInv, TypeOK, StoreTypeOK
      <3>4. \A i \in DOMAIN down : Len(down') > i - 0
        BY <2>2, <3>1, <3>3
      <3>5. \A x \in due : x \in due' \/ down'[Len(down')] = x
        BY <2>2 DEF m
      <3> QED
        BY <1>2, <2>2, <3>1, <3>2, <3>4, <3>5, StoredKept
    <2>5. \A x \in Nodes : Awaited(x) => Awaited(x)'
      <3>1. \A x \in due : x \in due' \/ x = m
        BY DEF m
      <3> QED
        BY <1>1, <1>5, <2>2, <3>1 DEF Awaited
    <2>6. UpToDate'
      BY <2>2, <2>5, CallbackedParts, UpToDateServed
    <2> QED
      BY <1>3, <2>3, <2>4, <2>6 DEF Sync
  <1> QED
    BY <1>4, <1>5

\* The broadcast about an edit in place is due when it is answered.
LEMMA SyncHandled ==
    ASSUME TInv, TInv', Sync, Handle, UNCHANGED loose
    PROVE  Sync'
  <1> DEFINE e == Head(up)
             c == e.callback
  <1>1. /\ up # <<>> /\ due = {} /\ up' = Tail(up) /\ UNCHANGED <<heap, list, broken, told>>
        /\ Callbacked' = Callbacked
    BY HandleTypes DEF Handle
  <1>2. PICK ok \in BOOLEAN : /\ down' = Append(down, AnswerTo(c, ok))
                              /\ ok => due' = {NodeMessage(e.node, e.is)}
    BY DEF Handle
  <1>3. /\ 1 \in DOMAIN up /\ e = up[1]
        /\ \A i \in DOMAIN up' : i + 1 \in DOMAIN up /\ up'[i] = up[i + 1]
    BY <1>1, TInvParts, Shorter
  <1>4. c \in Callbacks /\ c \in Callbacked
    BY <1>3, TInvParts, UpIs
  <1>5. c.obj # 0 => heap[c.obj].node = e.node
    BY <1>3 DEF Sync, EditsOfNodes
  <1>6. NodeMessage(e.node, e.is).node = e.node
    BY DEF NodeMessage
  <1> DEFINE m == AnswerTo(c, ok)
  <1>7. m \in Messages /\ m.subject = "answer" /\ m.callback = c /\ m.ok = ok
    BY <1>4, MessageTypes DEF AnswerTo
  <1> HIDE DEF m, c, e
  <1>8. /\ \A i \in DOMAIN down : i \in DOMAIN down' /\ down'[i] = down[i]
        /\ down'[Len(down')] = m
        /\ \A i \in DOMAIN down' : i \in DOMAIN down \/ i = Len(down')
    BY <1>2, <1>7, TInvParts, OneMore DEF m
  <1>9. LostIsSilent'
    BY <1>1 DEF Sync, LostIsSilent
  <1>10. EditsOfNodes'
    BY <1>1, <1>3, EditsKept DEF SameNodes
  <1>11. StoredIsTold'
    <2>1. SUFFICES ASSUME NEW i \in DOMAIN down', down'[i].subject = "answer", down'[i].ok,
                          down'[i].callback.obj # 0
                   PROVE  LET n == heap[down'[i].callback.obj].node IN
                            \/ \E j \in DOMAIN down' : j > i /\ down'[j].subject = "node"
                                                       /\ down'[j].node = n
                            \/ \E x \in due' : x.node = n
      BY <1>1 DEF StoredIsTold
    <2>2. CASE i \in DOMAIN down
      <3>1. \E j \in DOMAIN down : j > i /\ down[j].subject = "node"
                                   /\ down[j].node = heap[down[i].callback.obj].node
        BY <1>1, <1>8, <2>1, <2>2 DEF Sync, StoredIsTold
      <3> QED
        BY <1>8, <2>2, <3>1
    <2>3. CASE i = Len(down')
      BY <1>2, <1>5, <1>6, <1>7, <1>8, <2>1, <2>3
    <2> QED
      BY <1>8, <2>2, <2>3
  <1>12. \A n \in Nodes : Awaited(n) => Awaited(n)'
    BY <1>1, <1>8 DEF Awaited
  <1>13. UpToDate'
    BY <1>1, <1>12, UpToDateServed
  <1> QED
    BY <1>9, <1>10, <1>11, <1>13 DEF Sync

LEMMA SyncServed ==
    ASSUME TInv, TInv', Sync, Serve
    PROVE  Sync'
  <1>1. CASE Handle
    BY <1>1, SyncHandled DEF Serve
  <1>2. CASE TellDue
    <2>1. PICK m \in due : Tell(m)
      BY <1>2 DEF TellDue
    <2>2. /\ m.node \in Nodes /\ m.is \in Settings /\ m = NodeMessage(m.node, m.is) /\ due = {m}
      BY DueIs
    <2>3. due' = {} /\ UNCHANGED <<heap, list, up, broken, told, loose>>
      BY <1>2 DEF TellDue, Serve
    <2> QED
      BY <2>1, <2>2, <2>3, SyncTold
  <1> QED
    BY <1>1, <1>2 DEF Serve

\* What was not told is loose.
LEMMA SyncBroken ==
    ASSUME TInv, TInv', Sync, Break
    PROVE  Sync'
  <1>1. /\ broken' = TRUE /\ up' = <<>> /\ down' = <<>> /\ UNCHANGED <<heap, list, told>>
        /\ loose' = loose \cup {n \in Nodes : list[n] # 0 /\ heap[list[n]].is # told[n]}
    BY DEF Break
  <1>2. Callbacked' = {}
    BY <1>1 DEF Callbacked
  <1>3. LostIsSilent' /\ EditsOfNodes' /\ StoredIsTold'
    BY <1>1 DEF LostIsSilent, EditsOfNodes, StoredIsTold
  <1>4. UpToDate'
    <2>1. SUFFICES ASSUME NEW n \in Nodes
                   PROVE  IF list[n] = 0 THEN n \notin Known
                          ELSE n \in Known /\ (n \notin loose' => UndoneIsTold(n)')
      BY <1>1 DEF UpToDate, Known
    <2>2. list[n] # 0 /\ n \notin loose' => UndoneIsTold(n)'
      BY <1>1, <1>2 DEF UndoneIsTold, TakesBack
    <2> QED
      BY <2>2 DEF Sync, UpToDate
  <1> QED
    BY <1>3, <1>4 DEF Sync

\* Some nodes are sent again; the others are as they were.
LEMMA SyncReconnected ==
    ASSUME TInv, TInv', Sync, Reconnect
    PROVE  Sync'
  <1>1. /\ broken /\ broken' = FALSE /\ Connected(down') /\ UNCHANGED <<list, up, due, told, loose>>
        /\ Collect(heap)
    BY DEF Reconnect
  <1>2. \A i \in DOMAIN down' :
          \/ down'[i] = ChannelLists
          \/ \E n \in Nodes, is \in Settings : down'[i] = NodeMessage(n, is)
    BY <1>1, ConnectedType
  <1>3. \A i \in DOMAIN down' : down'[i].subject # "answer"
    BY <1>2 DEF ChannelLists, NodeMessage
  <1>4. up = <<>> /\ down = <<>> /\ up' = <<>>
    BY <1>1 DEF Sync, LostIsSilent
  <1>5. Callbacked = {} /\ Callbacked' = {}
    BY <1>3, <1>4 DEF Callbacked
  <1>6. LostIsSilent' /\ EditsOfNodes' /\ StoredIsTold'
    BY <1>1, <1>3, <1>4 DEF LostIsSilent, EditsOfNodes, StoredIsTold
  <1>7. UpToDate'
    <2>1. SUFFICES ASSUME NEW n \in Nodes
                   PROVE  IF list'[n] = 0 THEN n \notin Known'
                          ELSE n \in Known' /\ (n \notin loose' /\ ~Awaited(n)' => UndoneIsTold(n)')
      BY DEF UpToDate
    <2>2. list[n] # 0 => heap'[list[n]] = heap[list[n]]
      BY <1>1, CollectedObjects DEF TInv, TypeOK, StoreTypeOK
    <2>3. \A f \in Fields : TakesBack(list[n], f)' = TakesBack(list[n], f)
      BY <1>5 DEF TakesBack
    <2>4. ~Awaited(n)
      BY <1>1 DEF Awaited
    <2> QED
      BY <1>1, <2>2, <2>3, <2>4, NodeKept
  <1> QED
    BY <1>6, <1>7 DEF Sync

-----------------------------------------------------------------------------
\* What is left when the first message is taken.
LEMMA TailTold ==
    ASSUME TInv, TInv', Sync, down # <<>>, down' = Tail(down), UNCHANGED <<up, due, broken>>, SameNodes
    PROVE  /\ ~broken /\ LostIsSilent' /\ EditsOfNodes' /\ StoredIsTold'
           /\ \A n \in Nodes : Awaited(n) /\ ~Awaited(n)' =>
                down[1].subject = "node" /\ down[1].node = n
  <1>1. /\ \A i \in DOMAIN down' : i + 1 \in DOMAIN down /\ down'[i] = down[i + 1]
        /\ \A i \in DOMAIN down : i # 1 => i - 1 \in DOMAIN down' /\ down'[i - 1] = down[i]
    BY TInvParts, OneLess
  <1>2. ~broken /\ LostIsSilent'
    BY DEF Sync, LostIsSilent
  <1>3. EditsOfNodes'
    BY EditsKept
  <1>4. StoredIsTold'
    <2>1. \A i \in DOMAIN down : i > 1 => i # 1
      BY DownDomain
    <2> QED
      BY <1>1, <2>1, StoredKept
  <1>5. \A n \in Nodes : Awaited(n) /\ ~Awaited(n)' =>
          down[1].subject = "node" /\ down[1].node = n
    BY <1>1 DEF Awaited
  <1> QED
    BY <1>2, <1>3, <1>4, <1>5

LEMMA SyncReceiveNode ==
    ASSUME TInv, TInv', Sync, Receive, down[1].subject = "node"
    PROVE  Sync'
  <1> DEFINE m == down[1]
             r == New(heap)
             h == With(heap, r, [node |-> m.node, is |-> m.is])
  <1>1. /\ down # <<>> /\ down' = Tail(down) /\ UNCHANGED <<up, due, broken>>
        /\ 1 \in DOMAIN down /\ Head(down) = m
        /\ Callbacked' = Callbacked
    BY TInvParts, OneLess DEF Receive
  <1>2. ReceiveNode(m)
    BY <1>1 DEF Receive
  <1>3. m.node \in Nodes /\ m.is \in Settings
    BY <1>1, ToldNode
  <1>4. /\ list' = [list EXCEPT ![m.node] = r] /\ loose' = loose \ {m.node} /\ Collect(h)
        /\ told' = [told EXCEPT ![m.node] = m.is]
        /\ UpdateNode(m.node, m.is, r, h, list')
    BY <1>2 DEF ReceiveNode, UpdateNode
  <1> HIDE DEF m, r, h
  <1>5. /\ r \in Refs /\ r \notin DOMAIN heap
        /\ h[r] = [node |-> m.node, is |-> m.is]
        /\ \A x \in DOMAIN heap : h[x] = heap[x]
    BY <1>3, <1>4, TInvParts, Updated
  <1>6. /\ list'[m.node] = r /\ told'[m.node] = m.is
        /\ \A n \in Nodes : n # m.node => list'[n] = list[n] /\ told'[n] = told[n]
    BY <1>3, <1>4, TInvParts DEF Holds
  <1>7. \A x \in DOMAIN heap' : x \in DOMAIN h /\ heap'[x] = h[x]
    BY <1>4, CollectedObjects
  <1>8. SameNodes
    BY <1>5, <1>7 DEF SameNodes
  <1>9. /\ LostIsSilent' /\ EditsOfNodes' /\ StoredIsTold'
        /\ \A n \in Nodes : Awaited(n) /\ ~Awaited(n)' => m.node = n
    BY <1>1, <1>8, TailTold DEF m
  <1>10. UpToDate'
    <2>1. SUFFICES ASSUME NEW n \in Nodes
                   PROVE  IF list'[n] = 0 THEN n \notin Known'
                          ELSE n \in Known' /\ (n \notin loose' /\ ~Awaited(n)' => UndoneIsTold(n)')
      BY DEF UpToDate
    <2>2. CASE n = m.node
      <3>1. r \in DOMAIN heap' /\ heap'[r] = h[r] /\ r # 0
        BY <1>5, <1>6, <1>7, <2>2 DEF TInv, TypeOK, StoreTypeOK, Refs
      <3>2. \A f \in Fields : TakesBack(list[n], f)' = {}
        <4>1. \A c \in Callbacked' : c.obj # r
          BY <1>1, <1>5, <3>1, CallbackIs
        <4> QED
          BY <1>6, <2>2, <4>1 DEF TakesBack
      <3>3. heap'[list'[n]].is = told'[n]
        BY <1>5, <1>6, <2>2, <3>1
      <3>4. UndoneIsTold(n)'
        BY <3>2, <3>3 DEF UndoneIsTold
      <3>5. n \in Known'
        BY <1>3, <1>6, <2>2, UntoldAssumption DEF Known
      <3> QED
        BY <1>6, <2>2, <3>1, <3>4, <3>5
    <2>3. CASE n # m.node
      <3>1. list'[n] = list[n] /\ told'[n] = told[n]
        BY <1>6, <2>3
      <3>2. n \notin loose' /\ ~Awaited(n)' => n \notin loose /\ ~Awaited(n)
        BY <1>4, <1>9, <2>3
      <3>3. list[n] # 0 => heap'[list[n]] = heap[list[n]]
        <4>1. list[n] # 0 => list[n] \in DOMAIN heap /\ list[n] \in DOMAIN heap'
          BY <3>1 DEF TInv, TypeOK, StoreTypeOK
        <4> QED
          BY <1>5, <1>7, <4>1
      <3>4. \A f \in Fields : TakesBack(list[n], f)' = TakesBack(list[n], f)
        BY <1>1, <3>1 DEF TakesBack
      <3> QED
        BY <3>1, <3>2, <3>3, <3>4, NodeKept
    <2> QED
      BY <2>2, <2>3
  <1> QED
    BY <1>9, <1>10 DEF Sync

LEMMA SyncReceiveChannels ==
    ASSUME TInv, TInv', Sync, Receive, down[1].subject = "channels"
    PROVE  Sync'
  <1>1. /\ down # <<>> /\ down' = Tail(down) /\ UNCHANGED <<up, due, broken>>
        /\ Head(down) = down[1] /\ Callbacked' = Callbacked
    BY TInvParts, OneLess DEF Receive
  <1>2. UNCHANGED <<list, told, loose>> /\ Collect(heap)
    BY <1>1 DEF Receive, ReceiveChannels
  <1>3. \A x \in DOMAIN heap' : x \in DOMAIN heap /\ heap'[x] = heap[x]
    BY <1>2, CollectedObjects
  <1>4. SameNodes
    BY <1>3 DEF SameNodes
  <1>5. /\ LostIsSilent' /\ EditsOfNodes' /\ StoredIsTold'
        /\ \A n \in Nodes : ~Awaited(n)' => ~Awaited(n)
    BY <1>1, <1>4, TailTold
  <1>6. UpToDate'
    <2>1. SUFFICES ASSUME NEW n \in Nodes
                   PROVE  IF list'[n] = 0 THEN n \notin Known'
                          ELSE n \in Known' /\ (n \notin loose' /\ ~Awaited(n)' => UndoneIsTold(n)')
      BY DEF UpToDate
    <2>2. list[n] # 0 => heap'[list[n]] = heap[list[n]]
      BY <1>2, <1>3 DEF TInv, TypeOK, StoreTypeOK
    <2>3. \A f \in Fields : TakesBack(list[n], f)' = TakesBack(list[n], f)
      BY <1>1, <1>2 DEF TakesBack
    <2> QED
      BY <1>2, <1>5, <2>2, <2>3, NodeKept
  <1> QED
    BY <1>5, <1>6 DEF Sync

\* An edit that was stored is told later; one that was refused gets back what was told.
LEMMA SyncReceiveAnswer ==
    ASSUME TInv, TInv', Sync, Receive, down[1].subject = "answer"
    PROVE  Sync'
  <1> DEFINE c == down[1].callback
             ok == down[1].ok
             h == Undone(heap, c, ok)
  <1>1. /\ down # <<>> /\ down' = Tail(down) /\ UNCHANGED <<up, due, broken>>
        /\ 1 \in DOMAIN down /\ Head(down) = down[1]
        /\ \A i \in DOMAIN down : i # 1 => i - 1 \in DOMAIN down' /\ down'[i - 1] = down[i]
        /\ Callbacked' \subseteq Callbacked
        /\ Callbacked \subseteq Callbacked' \cup {c}
    BY TInvParts, OneLess DEF Receive
  <1>2. UNCHANGED <<list, told, loose>> /\ Collect(h)
    BY <1>1 DEF Receive, ReceiveAnswer
  <1>3. /\ c \in Callbacked /\ c \in Callbacks /\ c.obj \in DOMAIN heap \cup {0}
        /\ ok \in BOOLEAN
    <2>1. down[1] \in Messages /\ c \in Callbacked /\ c \in Callbacks
      BY <1>1, TInvParts, DownIs
    <2> QED
      BY <2>1, CallbackIs DEF Messages, NodeMessages
  <1>4. ASSUME NEW n \in Nodes, ok, c.obj # 0, heap[c.obj].node = n
        PROVE  Awaited(n)'
    <2>1. ok /\ c.obj # 0 /\ heap[c.obj].node = n
      BY <1>4
    <2>2. ~broken'
      BY <1>1 DEF Sync, LostIsSilent
    <2>3. \/ \E j \in DOMAIN down : j > 1 /\ down[j].subject = "node" /\ down[j].node = n
          \/ \E x \in due : x.node = n
      BY <1>1, <2>1 DEF Sync, StoredIsTold
    <2>4. \A j \in DOMAIN down : j > 1 => j # 1
      BY DownDomain
    <2> QED
      BY <1>1, <2>2, <2>3, <2>4 DEF Awaited
  <1> HIDE DEF c, ok
  <1>5. /\ DOMAIN h = DOMAIN heap
        /\ \A x \in DOMAIN heap : x # c.obj => h[x] = heap[x]
        /\ ok => h = heap
        /\ \A x \in DOMAIN heap : h[x].node = heap[x].node
        /\ ~ok /\ c.obj # 0 =>
             \A f \in Fields : h[c.obj].is[f] = IF f = c.field THEN c.old ELSE heap[c.obj].is[f]
    BY <1>3, TInvParts, UndoneType
  <1> HIDE DEF h
  <1>6. \A x \in DOMAIN heap' : x \in DOMAIN heap /\ heap'[x] = h[x]
    BY <1>2, <1>5, CollectedObjects
  <1>7. SameNodes
    BY <1>5, <1>6 DEF SameNodes
  <1>8. /\ LostIsSilent' /\ EditsOfNodes' /\ StoredIsTold'
        /\ \A n \in Nodes : ~Awaited(n)' => ~Awaited(n)
    BY <1>1, <1>7, TailTold
  <1>9. UpToDate'
    <2>1. SUFFICES ASSUME NEW n \in Nodes
                   PROVE  IF list[n] = 0 THEN n \notin Known
                          ELSE n \in Known /\ (n \notin loose /\ ~Awaited(n)' => UndoneIsTold(n)')
      BY <1>2 DEF UpToDate, Known
    <2>2. SUFFICES ASSUME list[n] # 0, n \notin loose, ~Awaited(n)'
                   PROVE  UndoneIsTold(n)'
      BY DEF Sync, UpToDate
    <2>3. UndoneIsTold(n)
      BY <1>8, <2>2 DEF Sync, UpToDate
    <2>4. heap'[list[n]] = h[list[n]] /\ list[n] \in DOMAIN heap /\ heap[list[n]].node = n
      BY <1>2, <1>6, <2>2, OwnObject DEF TInv, TypeOK, StoreTypeOK
    <2>5. SUFFICES ASSUME NEW f \in Fields
                   PROVE  LET undo == TakesBack(list[n], f)' IN
                            IF undo = {} THEN h[list[n]].is[f] = told[n][f]
                            ELSE \A d \in undo : d.old = told[n][f]
      BY <1>2, <2>4 DEF UndoneIsTold
    <2>6. /\ TakesBack(list[n], f)' \subseteq TakesBack(list[n], f)
          /\ TakesBack(list[n], f) \subseteq TakesBack(list[n], f)' \cup {c}
      BY <1>1, <1>2 DEF TakesBack
    <2>7. CASE c.obj # list[n] \/ c.field # f
      <3>1. TakesBack(list[n], f)' = TakesBack(list[n], f)
        BY <2>6, <2>7 DEF TakesBack
      <3>2. h[list[n]].is[f] = heap[list[n]].is[f]
        <4>1. CASE c.obj # list[n]
          BY <1>5, <2>4, <4>1
        <4>2. CASE c.obj = list[n] /\ c.field # f
          BY <1>3, <1>5, <2>2, <4>2
        <4> QED
          BY <2>7, <4>1, <4>2
      <3> QED
        BY <2>3, <3>1, <3>2 DEF UndoneIsTold
    <2>8. CASE c.obj = list[n] /\ c.field = f
      <3>1. ~ok
        BY <1>4, <2>2, <2>4, <2>8
      <3>2. h[list[n]].is[f] = c.old
        BY <1>5, <2>2, <2>8, <3>1
      <3>3. c \in TakesBack(list[n], f)
        BY <1>3, <2>8 DEF TakesBack
      <3>4. \A d \in TakesBack(list[n], f) : d.old = told[n][f]
        BY <2>3, <3>3 DEF UndoneIsTold
      <3> QED
        BY <2>6, <3>2, <3>3, <3>4
    <2> QED
      BY <2>7, <2>8
  <1> QED
    BY <1>8, <1>9 DEF Sync

-----------------------------------------------------------------------------
\* An edit by the user.  One in place leaves the old value with its callback, and
\* loosens the node if the edit is lost or another of the same field was not answered.
EditMade(o, c) ==
    \/ c.obj = 0 /\ UNCHANGED <<heap, loose>>
    \/ /\ c.obj \in DOMAIN heap /\ c.obj # 0 /\ heap[c.obj].node = o.node
       /\ DOMAIN heap' = DOMAIN heap
       /\ \A x \in DOMAIN heap : heap'[x].node = heap[x].node
       /\ \A x \in DOMAIN heap : x # c.obj => heap'[x] = heap[x]
       /\ \A f \in Fields : f # c.field => heap'[c.obj].is[f] = heap[c.obj].is[f]
       /\ c.field \in Fields /\ c.old = heap[c.obj].is[c.field]
       /\ Loosens(c.obj, c.field)

\* What it will take back is what was told, if no other edit of the field waits for its
\* answer.
LEMMA SyncEdited ==
    ASSUME TInv, TInv', Sync, NEW o \in Objects, NEW c \in Callbacks, EditMade(o, c),
           UNCHANGED list, SendNode(o, c)
    PROVE  Sync'
  <1>1. /\ UNCHANGED <<down, due, broken, told>>
        /\ \A i \in DOMAIN up' :
             \/ i \in DOMAIN up /\ up'[i] = up[i]
             \/ up'[i] = [node |-> o.node, is |-> o.is, callback |-> c]
        /\ broken => up' = up /\ Callbacked' = Callbacked
        /\ ~broken => Callbacked' = Callbacked \cup {c}
    BY SendNodeType
  <1>2. SameNodes /\ \A x \in DOMAIN heap : x \in DOMAIN heap' /\ heap'[x].node = heap[x].node
    BY DEF SameNodes, EditMade
  <1>3. LostIsSilent'
    BY <1>1 DEF Sync, LostIsSilent
  <1>4. EditsOfNodes'
    <2>1. SUFFICES ASSUME NEW i \in DOMAIN up', up'[i].callback.obj # 0
                   PROVE  heap'[up'[i].callback.obj].node = up'[i].node
      BY DEF EditsOfNodes
    <2>2. CASE i \in DOMAIN up /\ up'[i] = up[i]
      <3>1. up[i].callback \in Callbacked
        BY <2>2 DEF Callbacked
      <3>2. up[i].callback.obj \in DOMAIN heap
        BY <2>1, <2>2, <3>1, CallbackIs
      <3> QED
        BY <1>2, <2>1, <2>2, <3>2 DEF Sync, EditsOfNodes
    <2>3. CASE up'[i] = [node |-> o.node, is |-> o.is, callback |-> c]
      BY <2>1, <2>3 DEF EditMade
    <2> QED
      BY <1>1, <2>2, <2>3
  <1>5. StoredIsTold'
    <2>1. \A i \in DOMAIN down : i \in Nat /\ i + 0 = i /\ i - 0 = i
      BY DownDomain
    <2> QED
      BY <1>1, <1>2, <2>1, StoredKept
  <1>6. UpToDate'
    <2>1. SUFFICES ASSUME NEW n \in Nodes
                   PROVE  IF list[n] = 0 THEN n \notin Known
                          ELSE n \in Known /\ (n \notin loose' /\ ~Awaited(n)' => UndoneIsTold(n)')
      BY <1>1 DEF UpToDate, Known
    <2>2. SUFFICES ASSUME list[n] # 0, n \notin loose', ~Awaited(n)'
                   PROVE  UndoneIsTold(n)'
      BY DEF Sync, UpToDate
    <2>3. n \notin loose /\ ~Awaited(n)
      BY <1>1, <2>2 DEF EditMade, Loosens, Awaited
    <2>4. UndoneIsTold(n)
      BY <2>2, <2>3 DEF Sync, UpToDate
    <2>5. list[n] \in DOMAIN heap /\ heap[list[n]].node = n
      BY <2>2, OwnObject
    <2>6. SUFFICES ASSUME NEW f \in Fields
                   PROVE  LET undo == TakesBack(list[n], f)' IN
                            IF undo = {} THEN heap'[list[n]].is[f] = told[n][f]
                            ELSE \A d \in undo : d.old = told[n][f]
      BY <1>1 DEF UndoneIsTold
    <2>7. CASE c.obj # list[n] \/ c.field # f
      <3>1. TakesBack(list[n], f)' = TakesBack(list[n], f)
        BY <1>1, <2>7 DEF TakesBack
      <3>2. heap'[list[n]].is[f] = heap[list[n]].is[f]
        <4>1. CASE c.obj # list[n]
          BY <2>5, <4>1 DEF EditMade
        <4>2. CASE c.obj = list[n] /\ c.field # f
          BY <2>2, <4>2 DEF EditMade
        <4> QED
          BY <2>7, <4>1, <4>2
      <3> QED
        BY <2>4, <3>1, <3>2 DEF UndoneIsTold
    <2>8. CASE c.obj = list[n] /\ c.field = f
      <3>1. c.old = heap[list[n]].is[f] /\ Loosens(list[n], f)
        BY <2>2, <2>8 DEF EditMade
      <3>2. ~broken /\ TakesBack(list[n], f) = {}
        BY <2>2, <2>5, <3>1 DEF Loosens, TakesBack
      <3>3. c.old = told[n][f]
        BY <2>4, <3>1, <3>2 DEF UndoneIsTold
      <3>4. TakesBack(list[n], f)' = {c}
        <4>1. TakesBack(list[n], f)' = TakesBack(list[n], f) \cup {c}
          BY <1>1, <2>8, <3>2 DEF TakesBack
        <4> QED
          BY <3>2, <4>1
      <3> QED
        BY <3>3, <3>4
    <2> QED
      BY <2>7, <2>8
  <1> QED
    BY <1>3, <1>4, <1>5, <1>6 DEF Sync

\* The edits there are.
LEMMA SyncInPlace ==
    ASSUME TInv, TInv', Sync, NEW r \in DOMAIN heap, NEW field, NEW value, Fits(field, value),
           NEW c \in Callbacks, c.obj = r, c.field = field, c.old = heap[r].is[field],
           SendNode(Set(heap[r], field, value), c),
           heap' = With(heap, r, Set(heap[r], field, value)),
           UNCHANGED <<list, channels>>, Loosens(r, field)
    PROVE  Sync'
  <1> DEFINE o == Set(heap[r], field, value)
  <1>1. /\ DOMAIN heap' = DOMAIN heap
        /\ \A x \in DOMAIN heap : x # r => heap'[x] = heap[x]
        /\ heap'[r] = o
        /\ \A x \in DOMAIN heap : heap'[x].node = heap[x].node
        /\ o \in Objects
        /\ \A f \in Fields : heap'[r].is[f] = IF f = field THEN value ELSE heap[r].is[f]
    BY EditInPlace
  <1>2. r # 0 /\ field \in Fields
    BY TInvParts DEF Holds, Refs, Fits, Fields
  <1>3. o.node = heap[r].node
    BY <1>1
  <1>4. SendNode(o, c)
    OBVIOUS
  <1> HIDE DEF o
  <1>5. EditMade(o, c)
    BY <1>1, <1>2, <1>3 DEF EditMade
  <1> QED
    BY <1>1, <1>4, <1>5, SyncEdited

LEMMA SyncCopy ==
    ASSUME TInv, TInv', Sync, view = "node", NEW field, NEW value, Fits(field, value),
           SendNode(Set(Current, field, value), NoCallback),
           UNCHANGED <<heap, list, channels, loose>>
    PROVE  Sync'
  <1>1. Current \in Objects
    <2>1. currentNodeID \in Nodes
      BY DEF TInv, TypeOK, NodeTypeOK, HandsInv
    <2> QED
      BY <2>1, TInvParts, GetNodeType DEF Current
  <1>2. Set(Current, field, value) \in Objects
    BY <1>1, SetType
  <1>3. NoCallback \in Callbacks /\ NoCallback.obj = 0
    BY BlankAssumption DEF NoCallback, Callbacks
  <1>4. EditMade(Set(Current, field, value), NoCallback)
    BY <1>3 DEF EditMade
  <1> QED
    BY <1>2, <1>3, <1>4, SyncEdited

-----------------------------------------------------------------------------
LEMMA InitSync == Init => Sync
  <1> SUFFICES ASSUME Init PROVE Sync
    OBVIOUS
  <1>1. /\ broken = FALSE /\ Connected(down) /\ up = <<>> /\ due = {}
        /\ list = [n \in Nodes |-> 0] /\ told = [n \in Nodes |-> Untold]
    BY DEF Init, StoreInit
  <1>2. \A i \in DOMAIN down :
          \/ down[i] = ChannelLists
          \/ \E n \in Nodes, is \in Settings : down[i] = NodeMessage(n, is)
    BY <1>1, ConnectedType
  <1>3. \A i \in DOMAIN down : down[i].subject # "answer"
    BY <1>2 DEF ChannelLists, NodeMessage
  <1>4. LostIsSilent /\ EditsOfNodes /\ StoredIsTold /\ UpToDate
    BY <1>1, <1>3 DEF LostIsSilent, EditsOfNodes, StoredIsTold, UpToDate, Known
  <1> QED
    BY <1>4 DEF Sync

LEMMA SyncInList ==
    ASSUME TInv, TInv', Sync, InList
    PROVE  Sync'
  <1>1. CASE UNCHANGED <<storeVars, loose>>
    BY <1>1, SyncKept DEF storeVars, SameObjects
  <1>2. CASE /\ LeaveRow
             /\ Loosens(rows[focus].obj, "hostname")
             /\ UNCHANGED <<list, channels>>
    <2> DEFINE r == rows[focus].obj
               c == [obj |-> r, field |-> "hostname", old |-> heap[r].is.hostname, row |-> focus]
    <2>1. r \in DOMAIN heap /\ heap[r] \in Objects /\ Fits("hostname", rows[focus].text)
      BY <1>2, RowInUse DEF LeaveRow, Fits
    <2>2. c \in Callbacks
      <3>1. heap[r].is.hostname \in Names
        BY <2>1 DEF Objects, Settings
      <3>2. focus \in Nat /\ r \in Nat
        BY <2>1, TInvParts, LenProperties DEF Holds, Refs
      <3> QED
        BY <3>1, <3>2 DEF Callbacks
    <2>3. c.obj = r /\ c.field = "hostname" /\ c.old = heap[r].is["hostname"]
      OBVIOUS
    <2>4. /\ SendNode(Set(heap[r], "hostname", rows[focus].text), c)
          /\ heap' = With(heap, r, Set(heap[r], "hostname", rows[focus].text))
          /\ Loosens(r, "hostname") /\ UNCHANGED <<list, channels>>
      BY <1>2 DEF LeaveRow
    <2> HIDE DEF r, c
    <2> QED
      BY <2>1, <2>2, <2>3, <2>4, SyncInPlace
  <1>3. CASE UNCHANGED <<list, channels, wireVars, told, loose>> /\ Collect(heap)
    BY <1>3, CollectedObjects, SyncKept DEF SameObjects
  <1> QED
    BY <1>1, <1>2, <1>3 DEF InList

LEMMA SyncOnPage ==
    ASSUME TInv, TInv', Sync, OnPage
    PROVE  Sync'
  <1>1. view = "node" /\ UNCHANGED loose
    BY DEF OnPage
  <1>2. CASE UNCHANGED <<list, channels, heap, wireVars, told>>
    BY <1>1, <1>2, SyncKept DEF SameObjects
  <1>3. CASE UNCHANGED <<list, channels>> /\ LeaveInput
    <2>1. Fits("hostname", input)
      BY DEF TInv, TypeOK, NodeTypeOK, Fits
    <2> QED
      BY <1>1, <1>3, <2>1, SyncCopy DEF LeaveInput
  <1>4. CASE UNCHANGED <<list, channels>> /\ \E place \in Places : DropMarker(place)
    <2>1. PICK place \in Places : DropMarker(place)
      BY <1>4
    <2>2. Fits("location", place)
      BY DEF Fits, Locations
    <2> QED
      BY <1>1, <1>4, <2>1, <2>2, SyncCopy DEF DropMarker, UpdatePosition
  <1>5. CASE UNCHANGED <<list, channels>> /\ ResetLocation
    <2>1. Fits("location", NoPlace)
      BY DEF Fits, Locations
    <2> QED
      BY <1>1, <1>5, <2>1, SyncCopy DEF ResetLocation
  <1>6. CASE UNCHANGED <<list, channels>> /\ StopFollowing
    <2>1. CASE gps # NoPlace
      <3>1. Fits("location", gps)
        BY <1>6 DEF StopFollowing, Fits, TInv, HandsInv, Locations
      <3> QED
        BY <1>1, <1>6, <2>1, <3>1, SyncCopy DEF StopFollowing, UpdatePosition
    <2>2. CASE gps = NoPlace
      BY <1>1, <1>6, <2>2, SyncKept DEF StopFollowing, SameObjects
    <2> QED
      BY <2>1, <2>2
  <1> QED
    BY <1>2, <1>3, <1>4, <1>5, <1>6 DEF OnPage, storeVars

LEMMA SyncOnMap ==
    ASSUME TInv, TInv', Sync, OnMap
    PROVE  Sync'
  <1>1. CASE UNCHANGED <<storeVars, loose>>
    BY <1>1, SyncKept DEF storeVars, SameObjects
  <1>2. ASSUME NEW place \in Places, DropNode(place), Loosens(markers[dragged].obj, "location"),
               UNCHANGED <<list, channels>>
        PROVE  Sync'
    <2> DEFINE r == markers[dragged].obj
               c == [obj |-> r, field |-> "location", old |-> heap[r].is.location, row |-> 0]
    <2>1. /\ r \in DOMAIN heap /\ heap[r] \in Objects /\ r \in Nat
          /\ Fits("location", place)
      BY <1>2, TInvParts DEF DropNode, TInv, TypeOK, MapTypeOK, HandsInv, Holds, Refs, Fits, Locations
    <2>2. c \in Callbacks
      <3>1. heap[r].is.location \in Places \cup {NoPlace}
        BY <2>1 DEF Objects, Settings
      <3> QED
        BY <2>1, <3>1 DEF Callbacks
    <2>3. c.obj = r /\ c.field = "location" /\ c.old = heap[r].is["location"]
      OBVIOUS
    <2>4. /\ SendNode(Set(heap[r], "location", place), c)
          /\ heap' = With(heap, r, Set(heap[r], "location", place))
          /\ Loosens(r, "location") /\ UNCHANGED <<list, channels>>
      BY <1>2 DEF DropNode
    <2> HIDE DEF r, c
    <2> QED
      BY <2>1, <2>2, <2>3, <2>4, SyncInPlace
  <1> QED
    BY <1>1, <1>2 DEF OnMap

LEMMA StepSync == TInv /\ TInv' /\ Sync /\ [Next]_vars => Sync'
  <1> SUFFICES ASSUME TInv, TInv', Sync, [Next]_vars PROVE Sync'
    OBVIOUS
  <1>1. CASE Receive
    <2>1. 1 \in DOMAIN down
      BY <1>1, TInvParts, OneLess DEF Receive
    <2>2. down[1].subject \in {"node", "channels", "answer"}
      BY <2>1, TInvParts, DownIs DEF Messages, NodeMessages
    <2> QED
      BY <1>1, <2>2, SyncReceiveNode, SyncReceiveChannels, SyncReceiveAnswer
  <1>2. CASE GuiTimeout
    BY <1>2, CollectedObjects, SyncKept DEF GuiTimeout, SameObjects
  <1>3. CASE ListTimer
    BY <1>3, CollectedObjects, SyncKept DEF ListTimer, SameObjects
  <1>4. CASE Reconnect
    BY <1>4, SyncReconnected
  <1>5. CASE InList \/ OnPage \/ OnMap
    BY <1>5, SyncInList, SyncOnPage, SyncOnMap
  <1>6. CASE Watch
    BY <1>6, SyncKept DEF Watch, storeVars, SameObjects
  <1>7. ASSUME NEW v, NEW n, SetView(v, n)
        PROVE  Sync'
    BY <1>7, CollectedObjects, SyncKept DEF SetView, SameObjects
  <1>8. CASE Serve
    BY <1>8, SyncServed
  <1>9. ASSUME NEW n \in Nodes, NEW is \in News, Other(n, is)
        PROVE  Sync'
    BY <1>9, NewsType, SyncTold DEF Other
  <1>10. CASE Break
    BY <1>10, SyncBroken
  <1>11. CASE UNCHANGED vars
    BY <1>11, SyncKept DEF vars, storeVars, SameObjects
  <1> QED
    BY <1>1, <1>2, <1>3, <1>4, <1>5, <1>6, <1>7, <1>8, <1>9, <1>10, <1>11
       DEF Next, Work, Disturbance

LEMMA SyncHolds == Spec => [](TInv /\ Sync)
  <1>1. Init => TInv /\ Sync
    BY InitTInv, InitSync
  <1>2. TInv /\ Sync /\ [Next]_vars => TInv' /\ Sync'
    BY StepTInv, StepSync
  <1> QED
    BY <1>1, <1>2, PTL DEF Spec

\* A page at which nothing is under way has the nodes as it was told.
LEMMA SyncImpliesInSync == TInv /\ Sync => InSync
  <1> SUFFICES ASSUME TInv, Sync, up = <<>>, down = <<>>, due = {}, NEW n \in Known \ loose
               PROVE  list[n] # 0 /\ heap[list[n]].is = told[n]
    BY DEF InSync, Settled
  <1>1. n \in Nodes /\ n \in Known /\ n \notin loose /\ Callbacked = {} /\ ~Awaited(n)
    BY DEF Known, Callbacked, Awaited
  <1>2. list[n] # 0 /\ UndoneIsTold(n)
    BY <1>1 DEF Sync, UpToDate
  <1>3. \A f \in Fields : heap[list[n]].is[f] = told[n][f]
    BY <1>1, <1>2 DEF UndoneIsTold, TakesBack
  <1>4. heap[list[n]].is \in Settings /\ told[n] \in Settings
    BY <1>1, <1>2, OwnObject, KnownIs DEF Objects
  <1> QED
    BY <1>2, <1>3, <1>4 DEF Settings, Fields

\* A page at which nothing is under way has every node as it was told last, but for those
\* whose edits overlapped or were lost.
THEOREM PageInSync == Spec => []InSync
  BY SyncHolds, SyncImpliesInSync, PTL

-----------------------------------------------------------------------------
\* An edit of an object that is as told has what was told but for the field.
LEMMA OneField ==
    ASSUME NEW x \in Objects, NEW field, NEW value, Fits(field, value),
           NEW t \in Settings, x.is = t
    PROVE  LET o == Set(x, field, value) IN
             o.node = x.node /\ \E f \in Fields : o.is = [t EXCEPT ![f] = o.is[f]]
  <1> DEFINE o == Set(x, field, value)
  <1>1. /\ o \in Objects /\ o.node = x.node
        /\ \A f \in Fields : o.is[f] = IF f = field THEN value ELSE x.is[f]
    BY SetType
  <1> HIDE DEF o
  <1>2. o.is \in Settings /\ \A f \in Fields : f # field => o.is[f] = t[f]
    BY <1>1 DEF Objects
  <1>3. field \in Fields /\ o.is = [t EXCEPT ![field] = o.is[field]]
    <2>1. CASE field = "hostname"
      BY <1>2, <2>1 DEF Settings, Fields
    <2>2. CASE field = "location"
      BY <1>2, <2>2 DEF Settings, Fields
    <2> QED
      BY <2>1, <2>2 DEF Fits
  <1> QED
    BY <1>1, <1>3 DEF o

\* What is sent of the object x, when nothing is under way.
LEMMA SendsOneField ==
    ASSUME TInv, Sync, Settled, NEW x \in Objects, NEW field, NEW value, Fits(field, value),
           NEW c \in Callbacks, SendNode(Set(x, field, value), c),
           up'[1].node \in Known \ loose, up'[1].callback.obj \in {0, list[up'[1].node]},
           c.obj \in {0, list[x.node]} => x = heap[list[x.node]]
    PROVE  \E f \in Fields : up'[1].is = [told[up'[1].node] EXCEPT ![f] = up'[1].is[f]]
  <1> DEFINE o == Set(x, field, value)
  <1>1. o \in Objects /\ o.node = x.node
    BY SetType
  <1> HIDE DEF o
  <1>2. up'[1] = [node |-> o.node, is |-> o.is, callback |-> c]
    BY <1>1, SendNodeType DEF Settled, o
  <1> DEFINE n == x.node
  <1>3. n \in Known \ loose /\ n \in Nodes /\ x = heap[list[n]]
    BY <1>1, <1>2 DEF Known
  <1>4. list[n] # 0 /\ heap[list[n]].is = told[n] /\ told[n] \in Settings
    <2>1. InSync
      BY SyncImpliesInSync
    <2> QED
      BY <1>3, <2>1, KnownIs DEF InSync
  <1>5. \E f \in Fields : o.is = [told[n] EXCEPT ![f] = o.is[f]]
    BY <1>3, <1>4, OneField DEF o
  <1> QED
    BY <1>1, <1>2, <1>5

LEMMA StepOneField ==
    ASSUME TInv, Sync, Next, Settled, up' # up,
           up'[1].node \in Known \ loose, up'[1].callback.obj \in {0, list[up'[1].node]}
    PROVE  \E f \in Fields : up'[1].is = [told[up'[1].node] EXCEPT ![f] = up'[1].is[f]]
  <1> DEFINE Goal == \E f \in Fields : up'[1].is = [told[up'[1].node] EXCEPT ![f] = up'[1].is[f]]
  <1> SUFFICES Goal
    OBVIOUS
  <1>1. up = <<>> /\ down = <<>> /\ due = {} /\ ~broken
    BY DEF Settled
  <1>2. ASSUME NEW field, NEW value, Fits(field, value), view = "node",
               SendNode(Set(Current, field, value), NoCallback)
        PROVE  Goal
    <2>1. Current \in Objects /\ Current.node = currentNodeID /\ currentNodeID \in Nodes
      <3>1. currentNodeID \in Nodes
        BY <1>2 DEF TInv, TypeOK, NodeTypeOK, HandsInv
      <3> QED
        BY <3>1, TInvParts, GetNodeType DEF Current
    <2>2. NoCallback \in Callbacks
      BY BlankAssumption DEF NoCallback, Callbacks
    <2> DEFINE o == Set(Current, field, value)
    <2>3. o \in Objects /\ o.node = currentNodeID /\ SendNode(o, NoCallback)
      BY <1>2, <2>1, SetType
    <2>4. up'[1].node = currentNodeID
      <3> HIDE DEF o
      <3>1. up'[1] = [node |-> o.node, is |-> o.is, callback |-> NoCallback]
        BY <1>1, <2>2, <2>3, SendNodeType
      <3> QED
        BY <2>3, <3>1
    <2>5. currentNodeID \in Known /\ list[currentNodeID] # 0
      BY <2>1, <2>4 DEF Sync, UpToDate
    <2> HIDE DEF o
    <2>6. Current = heap[list[Current.node]]
      BY <2>1, <2>5 DEF Current, GetNode
    <2> QED
      BY <1>2, <2>1, <2>2, <2>6, SendsOneField
  <1>3. ASSUME NEW r \in DOMAIN heap, NEW field, NEW value, Fits(field, value),
               NEW c \in Callbacks, c.obj = r, SendNode(Set(heap[r], field, value), c)
        PROVE  Goal
    <2>1. heap[r] \in Objects /\ r # 0
      BY TInvParts DEF Holds, Refs
    <2>2. c.obj \in {0, list[heap[r].node]} => heap[r] = heap[list[heap[r].node]]
      BY <1>3, <2>1
    <2> QED
      BY <1>3, <2>1, <2>2, SendsOneField
  <1> HIDE DEF Goal
  <1>4. CASE Receive \/ GuiTimeout \/ ListTimer \/ Reconnect \/ Serve
    <2>1. ~Handle
      BY <1>1 DEF Handle
    <2> QED
      BY <1>1, <1>4, <2>1 DEF Receive, GuiTimeout, ListTimer, Reconnect, Serve, TellDue, wireVars
  <1>5. CASE Watch \/ Break
    BY <1>1, <1>5 DEF Watch, Break, storeVars, wireVars
  <1>6. CASE InList
    <2>1. LeaveRow
      BY <1>6 DEF InList, storeVars, wireVars
    <2> DEFINE r == rows[focus].obj
               c == [obj |-> r, field |-> "hostname", old |-> heap[r].is.hostname, row |-> focus]
    <2>2. r \in DOMAIN heap /\ heap[r] \in Objects /\ Fits("hostname", rows[focus].text)
      BY <2>1, RowInUse DEF LeaveRow, Fits
    <2>3. SendNode(Set(heap[r], "hostname", rows[focus].text), c) /\ c.obj = r
      BY <2>1 DEF LeaveRow
    <2>4. c \in Callbacks
      <3>1. heap[r].is.hostname \in Names
        BY <2>2 DEF Objects, Settings
      <3>2. focus \in Nat /\ r \in Nat
        BY <2>2, TInvParts, LenProperties DEF Holds, Refs
      <3> QED
        BY <3>1, <3>2 DEF Callbacks
    <2> HIDE DEF r, c
    <2> QED
      BY <1>3, <2>2, <2>3, <2>4
  <1>7. CASE OnPage
    <2>1. view = "node"
      BY <1>7 DEF OnPage
    <2>2. \/ LeaveInput \/ ResetLocation \/ StopFollowing
          \/ \E place \in Places : DropMarker(place)
      BY <1>7 DEF OnPage, storeVars, wireVars
    <2>3. CASE LeaveInput
      <3>1. Fits("hostname", input)
        BY DEF TInv, TypeOK, NodeTypeOK, Fits
      <3> QED
        BY <1>2, <2>1, <2>3, <3>1 DEF LeaveInput
    <2>4. ASSUME NEW place \in Places, DropMarker(place)
          PROVE  Goal
      <3>1. Fits("location", place)
        BY DEF Fits, Locations
      <3> QED
        BY <1>2, <2>1, <2>4, <3>1 DEF DropMarker, UpdatePosition
    <2>5. CASE ResetLocation
      <3>1. Fits("location", NoPlace)
        BY DEF Fits, Locations
      <3> QED
        BY <1>2, <2>1, <2>5, <3>1 DEF ResetLocation
    <2>6. CASE StopFollowing
      <3>1. Fits("location", gps) /\ UpdatePosition(gps)
        BY <2>6 DEF StopFollowing, Fits, TInv, HandsInv, Locations, wireVars
      <3> QED
        BY <1>2, <2>1, <3>1 DEF UpdatePosition
    <2> QED
      BY <2>2, <2>3, <2>4, <2>5, <2>6
  <1>8. CASE OnMap
    <2>1. PICK place \in Places : DropNode(place)
      BY <1>8 DEF OnMap, storeVars, wireVars
    <2> DEFINE r == markers[dragged].obj
               c == [obj |-> r, field |-> "location", old |-> heap[r].is.location, row |-> 0]
    <2>2. r \in DOMAIN heap /\ heap[r] \in Objects /\ r \in Nat /\ Fits("location", place)
      BY <2>1, TInvParts DEF DropNode, TInv, TypeOK, MapTypeOK, HandsInv, Holds, Refs, Fits, Locations
    <2>3. SendNode(Set(heap[r], "location", place), c) /\ c.obj = r
      BY <2>1 DEF DropNode
    <2>4. c \in Callbacks
      <3>1. heap[r].is.location \in Places \cup {NoPlace}
        BY <2>2 DEF Objects, Settings
      <3> QED
        BY <2>2, <3>1 DEF Callbacks
    <2> HIDE DEF r, c
    <2> QED
      BY <1>3, <2>2, <2>3, <2>4
  <1>9. ASSUME NEW v, NEW x, SetView(v, x)
        PROVE  FALSE
    BY <1>9 DEF SetView, wireVars
  <1>10. ASSUME NEW x, NEW is, Other(x, is)
         PROVE  FALSE
    BY <1>10 DEF Other
  <1> QED
    BY <1>4, <1>5, <1>6, <1>7, <1>8, <1>9, <1>10 DEF Next, Work, Disturbance, Goal

\* An edit made when nothing is under way sends what the page was told but for one field.
THEOREM PageEditsSetOneField == Spec => EditsSetOneField
  <1>1. TInv /\ Sync /\ [Next]_vars =>
          [Settled /\ up' # up =>
             LET e == up'[1] IN
               e.node \in Known \ loose /\ e.callback.obj \in {0, list[e.node]} =>
                 \E f \in Fields : e.is = [told[e.node] EXCEPT ![f] = e.is[f]]]_vars
    BY StepOneField
  <1> QED
    BY <1>1, SyncHolds, PTL DEF Spec, EditsSetOneField

-----------------------------------------------------------------------------
\* What the user types: a row that is drawn anew has the text that is being typed, or
\* the stored one if that is empty.
StoredText == typed = Blank /\ rows'[focus].text = heap'[rows'[focus].obj].is.hostname

TextStays(kept) ==
    focus # 0 /\ focus' = focus => rows'[focus].text \in {kept[focus].text, typed} \/ StoredText

LEMMA TableText ==
    ASSUME TInv, TInv', NEW h, NEW d, NEW ch, NEW by, NEW kept,
           DrawTable(h, d, ch, by, kept, focus), Collect(h)
    PROVE  TextStays(kept)
  <1> SUFFICES ASSUME focus # 0, focus' = focus
               PROVE  rows'[focus].text \in {kept[focus].text, typed} \/ StoredText
    BY DEF TextStays
  <1>1. CASE Throws(d, ch, by)
    BY <1>1 DEF DrawTable
  <1>2. CASE ~Throws(d, ch, by)
    <2>1. PICK order \in Sorted(d, by) :
            rows' = [i \in DOMAIN order \cap 1 .. MaxRows |-> RenderRow(h, d[order[i]])]
      BY <1>2 DEF DrawTable
    <2>2. focus \in DOMAIN rows' /\ rows'[focus].obj \in DOMAIN heap'
      <3>1. rows' \in Seq(RowType(DOMAIN heap')) /\ focus' \in 0 .. Len(rows')
        BY DEF TInv, TypeOK, ListTypeOK, RowType
      <3>2. DOMAIN rows' = 1 .. Len(rows') /\ Len(rows') \in Nat
        BY <3>1, LenProperties
      <3>3. focus \in DOMAIN rows'
        BY <3>1, <3>2
      <3>4. rows'[focus] \in RowType(DOMAIN heap')
        BY <3>1, <3>2, <3>3, ElementOfSeq
      <3> QED
        BY <3>3, <3>4 DEF RowType
    <2>3. rows'[focus] = RenderRow(h, d[order[focus]])
      BY <2>1, <2>2
    <2>4. rows'[focus].text = Text(h[rows'[focus].obj])
      BY <2>3 DEF RenderRow
    <2>5. heap'[rows'[focus].obj] = h[rows'[focus].obj]
      BY <2>2, CollectedObjects
    <2> QED
      BY <2>4, <2>5 DEF Text, StoredText
  <1> QED
    BY <1>1, <1>2

LEMMA ListText ==
    ASSUME TInv, TInv', NEW h, NEW l, NEW ch, NEW kept, ListRender(h, l, ch, kept, focus), Collect(h)
    PROVE  TextStays(kept)
  <1>1. CASE listTimer.timer
    BY <1>1 DEF ListRender, TextStays
  <1>2. CASE ~listTimer.timer
    BY <1>2, TableText DEF ListRender
  <1> QED
    BY <1>1, <1>2

LEMMA ViewText ==
    ASSUME TInv, TInv', NEW h, NEW l, NEW ch, NEW kept, DrawView(h, l, ch, kept, focus), Collect(h)
    PROVE  TextStays(kept)
  <1>1. CASE view = "list"
    BY <1>1, ListText DEF DrawView
  <1>2. CASE view # "list"
    BY <1>2 DEF DrawView, TextStays
  <1> QED
    BY <1>1, <1>2

LEMMA RenderText ==
    ASSUME TInv, TInv', NEW h, NEW l, NEW ch, NEW kept, Render(h, l, ch, kept, focus), Collect(h)
    PROVE  TextStays(kept)
  <1>1. CASE gui.timer
    BY <1>1 DEF Render, TextStays
  <1>2. CASE ~gui.timer
    BY <1>2, ViewText DEF Render
  <1> QED
    BY <1>1, <1>2

\* An input of the node page is left alone while the user is editing.
LEMMA RenderInput ==
    ASSUME NEW h, NEW l, NEW ch, NEW kept, NEW f,
           Render(h, l, ch, kept, f) \/ DrawView(h, l, ch, kept, f), editing
    PROVE  input' = input
  BY DEF Render, DrawView, NodeRender, pageDom

\* The step that takes back an edit of the row the user is in.
TakenBack ==
    /\ down # <<>> /\ down' = Tail(down)
    /\ down[1].subject = "answer" /\ down[1].callback.row = focus

InputStays ==
    editing /\ hand' = hand /\ input' # input => hand = "input" /\ UNCHANGED storeVars

RowStays ==
    focus # 0 /\ focus' = focus =>
      rows'[focus].text \in {rows[focus].text, typed'} \/ StoredText \/ TakenBack

LEMMA StepTyping ==
    ASSUME TInv, TInv', Next
    PROVE  InputStays /\ RowStays
  <1>1. CASE Receive
    <2>1. down # <<>> /\ down' = Tail(down) /\ Head(down) = down[1] /\ Untouched
      BY <1>1, TInvParts, OneLess DEF Receive
    <2>2. 1 \in DOMAIN down /\ down[1].subject \in {"node", "channels", "answer"}
      <3>1. 1 \in DOMAIN down
        BY <2>1, TInvParts, OneLess
      <3> QED
        BY <3>1, TInvParts, DownIs DEF Messages, NodeMessages
    <2>3. typed' = typed
      BY <2>1 DEF Untouched, typeVars
    <2>4. CASE ReceiveNode(down[1])
      <3>1. PICK h, l : Render(h, l, channels, rows, focus) /\ Collect(h)
        BY <2>4 DEF ReceiveNode
      <3> QED
        BY <2>3, <3>1, RenderText, RenderInput DEF TextStays, InputStays, RowStays
    <2>5. CASE ReceiveChannels
      <3>1. Render(heap, list, TRUE, rows, focus) /\ Collect(heap)
        BY <2>5 DEF ReceiveChannels
      <3> QED
        BY <2>3, <3>1, RenderText, RenderInput DEF TextStays, InputStays, RowStays
    <2>6. CASE ReceiveAnswer(down[1]) /\ down[1].subject = "answer"
      <3> DEFINE c == down[1].callback
                 kept == RowsUndone(c, down[1].ok)
      <3>1. PICK h, l : Render(h, l, channels, kept, focus) /\ Collect(h)
        BY <2>6 DEF ReceiveAnswer
      <3>2. TextStays(kept) /\ InputStays
        BY <3>1, RenderText, RenderInput DEF InputStays
      <3>3. c.row # focus => kept[focus] = rows[focus]
        BY DEF RowsUndone
      <3> HIDE DEF kept
      <3>4. CASE c.row = focus
        BY <2>1, <2>6, <3>2, <3>4 DEF RowStays, TakenBack
      <3>5. CASE c.row # focus
        BY <2>3, <3>2, <3>3, <3>5 DEF RowStays, TextStays
      <3> QED
        BY <3>2, <3>4, <3>5
    <2> QED
      BY <1>1, <2>1, <2>2, <2>4, <2>5, <2>6 DEF Receive
  <1>2. CASE GuiTimeout
    <2>1. typed' = typed
      BY <1>2 DEF GuiTimeout, Untouched, typeVars
    <2>2. CASE gui.skipped
      <3>1. DrawView(heap, list, channels, rows, focus) /\ Collect(heap)
        BY <1>2, <2>2 DEF GuiTimeout
      <3> QED
        BY <2>1, <3>1, ViewText, RenderInput DEF TextStays, InputStays, RowStays
    <2>3. CASE ~gui.skipped
      BY <1>2, <2>1, <2>3 DEF GuiTimeout, tableVars, pageDom, InputStays, RowStays
    <2> QED
      BY <2>2, <2>3
  <1>3. CASE ListTimer
    <2>1. typed' = typed /\ input' = input
      BY <1>3 DEF ListTimer, ListTimeout, typeVars, nodeVars, pageDom
    <2>2. TextStays(rows)
      <3>1. CASE listTimer.skipped
        BY <1>3, <3>1, TableText DEF ListTimer, ListTimeout
      <3>2. CASE ~listTimer.skipped
        BY <1>3, <3>2 DEF ListTimer, ListTimeout, TextStays
      <3> QED
        BY <3>1, <3>2
    <2> QED
      BY <2>1, <2>2 DEF TextStays, InputStays, RowStays
  <1>4. CASE Reconnect
    <2>1. typed' = typed /\ Render(heap, list, channels, rows, focus) /\ Collect(heap)
      BY <1>4 DEF Reconnect, Untouched, typeVars
    <2> QED
      BY <2>1, RenderText, RenderInput DEF TextStays, InputStays, RowStays
  <1>5. CASE InList
    <2>1. input' = input
      BY <1>5 DEF InList, nodeVars, pageDom
    <2>2. RowStays
      <3>1. ASSUME NEW text, TypeInRow(text)
            PROVE  RowStays
        <4>1. focus # 0 /\ typed' = text /\ rows' = [rows EXCEPT ![focus].text = text]
          BY <3>1 DEF TypeInRow
        <4>2. focus \in DOMAIN rows /\ rows[focus] \in RowType(DOMAIN heap)
          BY <4>1, RowInUse
        <4>3. rows'[focus].text = text
          BY <4>1, <4>2 DEF RowType
        <4> QED
          BY <4>1, <4>3 DEF RowStays
      <3>2. ASSUME NEW i, FocusRow(i)
            PROVE  RowStays
        BY <3>2 DEF FocusRow, RowStays
      <3>3. CASE LeaveRow
        BY <3>3 DEF LeaveRow, RowStays
      <3>4. ASSUME NEW x, SortTable(x) \/ Search(x)
            PROVE  RowStays
        BY <3>4 DEF SortTable, Search, RowStays
      <3> QED
        BY <1>5, <3>1, <3>2, <3>3, <3>4 DEF InList
    <2> QED
      BY <2>1, <2>2 DEF InputStays
  <1>6. CASE OnPage
    <2>1. rows' = rows
      BY <1>6 DEF OnPage, listVars, tableVars
    <2>2. InputStays
      BY <1>6 DEF OnPage, FocusInput, DragMarker, Follow, TypeInput, LeaveInput, DropMarker,
                  ResetLocation, StopFollowing, pageDom, storeVars, InputStays
    <2> QED
      BY <2>1, <2>2 DEF RowStays
  <1>7. CASE OnMap
    BY <1>7 DEF OnMap, listVars, tableVars, nodeVars, pageDom, InputStays, RowStays
  <1>8. CASE Watch
    BY <1>8 DEF Watch, Position, listVars, tableVars, InputStays, RowStays
  <1>9. ASSUME NEW v, NEW n, SetView(v, n)
        PROVE  InputStays /\ RowStays
    <2>1. ~editing
      BY <1>9 DEF SetView, TInv, HandsInv
    <2> QED
      BY <1>9, <2>1 DEF SetView, InputStays, RowStays
  <1>10. CASE UNCHANGED viewVars
    BY <1>10 DEF viewVars, listVars, tableVars, nodeVars, pageDom, InputStays, RowStays
  <1> QED
    BY <1>1, <1>2, <1>3, <1>4, <1>5, <1>6, <1>7, <1>8, <1>9, <1>10
       DEF Next, Work, Disturbance, Serve, Other, Break

\* No message and no rendering changes what the user is typing, but for drawing back the
\* stored hostname where the user has emptied the input, and for the answer that takes
\* back an earlier edit in the row.
THEOREM PageTypingStays == Spec => TypingStays
  <1>1. TInv /\ TInv' /\ [Next]_vars => [InputStays /\ RowStays]_vars
    BY StepTyping
  <1> QED
    BY <1>1, TypeCorrect, PTL DEF Spec, TypingStays, InputStays, RowStays, StoredText, TakenBack
=============================================================================
