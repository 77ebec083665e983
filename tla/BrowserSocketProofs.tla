------------------------ MODULE BrowserSocketProofs ------------------------
(***************************************************************************)
(* The safety properties of a page and the session it has on the server,   *)
(* for any number of messages and any length of the queues.                *)
(***************************************************************************)
EXTENDS BrowserSocket, FiniteSetTheorems, SequenceTheorems, TLAPS

\* Edits are messages of users, which are numbered from 1.
Numbered(s) == \A i \in 1 .. Len(s) : s[i].subject = "node" => s[i].n # 0

\* A queue has the number of a user's message once.
Once(s) == \A i, j \in 1 .. Len(s) : s[i].n = s[j].n /\ s[i].n # 0 => i = j

\* With the queue q, the unhandled messages u and the stored edits s, the numbers
\* given to users' messages up to m are in one place at most.
Placed(q, u, s, m) ==
    /\ \A i \in 1 .. Len(q) : q[i].n <= m
    /\ \A i \in 1 .. Len(u) : u[i].n <= m
    /\ \A i \in 1 .. Len(s) : s[i] <= m
    /\ Once(q)
    /\ Once(u)
    /\ \A i, j \in 1 .. Len(s) : s[i] = s[j] => i = j
    /\ \A i \in 1 .. Len(q), j \in 1 .. Len(u) : q[i].n = u[j].n => q[i].n = 0
    /\ \A i \in 1 .. Len(q), j \in 1 .. Len(s) : q[i].n # s[j]
    /\ \A i \in 1 .. Len(u), j \in 1 .. Len(s) : u[i].n # s[j]

IInv ==
    /\ TypeOK
    /\ Numbered(query) /\ Numbered(up)
    /\ Placed(query, up, stored, made)

-----------------------------------------------------------------------------
\* The messages ms as they are on the wire.
Wires(ms) == [i \in DOMAIN ms |-> Wire(ms[i])]

LEMMA WiresType ==
    ASSUME NEW ms \in Seq(Requests), introduced \in BOOLEAN
    PROVE  /\ Wires(ms) \in Seq(Wired)
           /\ Len(Wires(ms)) = Len(ms)
           /\ \A i \in 1 .. Len(ms) : /\ Wires(ms)[i].n = ms[i].n
                                      /\ Wires(ms)[i].subject = ms[i].subject
  <1>1. Len(ms) \in Nat /\ DOMAIN ms = 1 .. Len(ms)
    BY LenProperties
  <1>2. \A i \in 1 .. Len(ms) : ms[i] \in Requests
    BY ElementOfSeq
  <1>3. \A i \in 1 .. Len(ms) : Wire(ms[i]) \in Wired
    BY <1>2 DEF Wire, Wired, Requests
  <1>4. Wires(ms) = [i \in 1 .. Len(ms) |-> Wire(ms[i])]
    BY <1>1 DEF Wires
  <1>5. Wires(ms) \in Seq(Wired)
    BY <1>1, <1>3, <1>4, IsASeq
  <1>6. Len(Wires(ms)) = Len(ms)
    BY <1>1, <1>4, <1>5, LenProperties
  <1> QED
    BY <1>4, <1>5, <1>6 DEF Wire

\* Two sequences one after the other, without \o.
LEMMA Concatenation ==
    ASSUME NEW S, NEW s \in Seq(S), NEW t \in Seq(S)
    PROVE  /\ s \o t \in Seq(S)
           /\ Len(s \o t) = Len(s) + Len(t)
           /\ Len(s) \in Nat /\ Len(t) \in Nat
           /\ \A i \in 1 .. Len(s) : (s \o t)[i] = s[i]
           /\ \A i \in 1 .. Len(t) : (s \o t)[Len(s) + i] = t[i]
  <1>1. Len(s) \in Nat /\ Len(t) \in Nat
    BY LenProperties
  <1> QED
    BY <1>1, ConcatProperties

\* The end of a queue is sent: p is the queue before, q what remains of it, u is
\* what was on the wire and v what is.
Ended(p, q, u, v) ==
    LET b == Len(p) - Len(q) IN
      /\ Len(q) \in Nat /\ b \in Nat /\ Len(u) \in Nat
      /\ Len(v) = Len(u) + b
      /\ \A i \in 1 .. Len(q) : p[i] = q[i]
      /\ \A i \in 1 .. Len(u) : v[i] = u[i]
      /\ \A k \in 1 .. b : /\ v[Len(u) + k].n = p[Len(q) + k].n
                           /\ v[Len(u) + k].subject = p[Len(q) + k].subject

LEMMA Sent ==
    ASSUME NEW p, NEW q, NEW u, NEW v, NEW s, NEW m,
           Ended(p, q, u, v), Placed(p, u, s, m), Numbered(p), Numbered(u)
    PROVE  Placed(q, v, s, m) /\ Numbered(q) /\ Numbered(v)
  <1> DEFINE a == Len(q)
             b == Len(p) - Len(q)
             c == Len(u)
  <1>0. /\ a \in Nat /\ b \in Nat /\ c \in Nat
        /\ Len(q) = a /\ Len(p) = a + b /\ Len(u) = c /\ Len(v) = c + b
        /\ \A i \in 1 .. a : p[i] = q[i]
        /\ \A i \in 1 .. c : v[i] = u[i]
        /\ \A k \in 1 .. b : v[c + k].n = p[a + k].n /\ v[c + k].subject = p[a + k].subject
    BY DEF Ended
  <1> HIDE DEF a, b, c
  \* What is on the wire now was there, or at the end of the queue.
  <1>1. \A i \in 1 .. Len(v) :
          \/ i \in 1 .. Len(u) /\ v[i] = u[i]
          \/ /\ i - c \in 1 .. b
             /\ a + (i - c) \in 1 .. Len(p) /\ a + (i - c) \notin 1 .. Len(q)
             /\ v[i].n = p[a + (i - c)].n
             /\ v[i].subject = p[a + (i - c)].subject
    <2> TAKE i \in 1 .. Len(v)
    <2>1. CASE i <= c
      BY <1>0, <2>1
    <2>2. CASE i > c
      <3>1. i - c \in 1 .. b /\ c + (i - c) = i
        BY <1>0, <2>2
      <3>2. v[i].n = p[a + (i - c)].n /\ v[i].subject = p[a + (i - c)].subject
        BY <1>0, <3>1
      <3> QED
        BY <1>0, <3>1, <3>2
    <2> QED
      BY <1>0, <2>1, <2>2
  <1>2. \A i \in 1 .. Len(q) : i \in 1 .. Len(p) /\ p[i] = q[i]
    BY <1>0
  <1>3. Numbered(q) /\ Numbered(v)
    BY <1>1, <1>2 DEF Numbered
  <1>4. \A i \in 1 .. Len(q) : q[i].n <= m
    BY <1>2 DEF Placed
  <1>5. \A i \in 1 .. Len(v) : v[i].n <= m
    BY <1>1 DEF Placed
  <1>6. Once(q)
    BY <1>2 DEF Placed, Once
  <1>7. Once(v)
    <2> SUFFICES ASSUME NEW i \in 1 .. Len(v), NEW j \in 1 .. Len(v),
                        v[i].n = v[j].n, v[i].n # 0
                 PROVE  i = j
      BY DEF Once
    <2>1. CASE i \in 1 .. Len(u) /\ j \in 1 .. Len(u)
      BY <1>0, <2>1 DEF Placed, Once
    <2>2. CASE i \notin 1 .. Len(u) /\ j \notin 1 .. Len(u)
      <3>1. a + (i - c) = a + (j - c)
        BY <1>0, <1>1, <2>2 DEF Placed, Once
      <3> QED
        BY <1>0, <3>1
    <2>3. CASE i \in 1 .. Len(u) /\ j \notin 1 .. Len(u)
      <3>1. v[j].n = p[a + (j - c)].n /\ a + (j - c) \in 1 .. Len(p) /\ v[i] = u[i]
        BY <1>0, <1>1, <2>3
      <3> QED
        BY <2>3, <3>1 DEF Placed
    <2>4. CASE i \notin 1 .. Len(u) /\ j \in 1 .. Len(u)
      <3>1. v[i].n = p[a + (i - c)].n /\ a + (i - c) \in 1 .. Len(p) /\ v[j] = u[j]
        BY <1>0, <1>1, <2>4
      <3> QED
        BY <2>4, <3>1 DEF Placed
    <2> QED
      BY <2>1, <2>2, <2>3, <2>4
  <1>8. \A i \in 1 .. Len(q), j \in 1 .. Len(v) : q[i].n = v[j].n => q[i].n = 0
    <2> SUFFICES ASSUME NEW i \in 1 .. Len(q), NEW j \in 1 .. Len(v), q[i].n = v[j].n
                 PROVE  q[i].n = 0
      OBVIOUS
    <2>1. CASE j \in 1 .. Len(u)
      BY <1>0, <1>2, <2>1 DEF Placed
    <2>2. CASE j \notin 1 .. Len(u)
      <3>1. p[i].n = p[a + (j - c)].n /\ i # a + (j - c)
        BY <1>0, <1>1, <1>2, <2>2
      <3> QED
        BY <1>0, <1>1, <1>2, <2>2, <3>1 DEF Placed, Once
    <2> QED
      BY <2>1, <2>2
  <1>9. \A i \in 1 .. Len(q), j \in 1 .. Len(s) : q[i].n # s[j]
    BY <1>2 DEF Placed
  <1>10. ASSUME NEW i \in 1 .. Len(v), NEW j \in 1 .. Len(s)
         PROVE  v[i].n # s[j]
    <2>1. CASE i \in 1 .. Len(u)
      BY <1>0, <1>1, <2>1 DEF Placed
    <2>2. CASE i \notin 1 .. Len(u)
      <3>1. v[i].n = p[a + (i - c)].n /\ a + (i - c) \in 1 .. Len(p)
        BY <1>0, <1>1, <2>2
      <3> QED
        BY <3>1 DEF Placed
    <2> QED
      BY <2>1, <2>2
  <1> QED
    BY <1>3, <1>4, <1>5, <1>6, <1>7, <1>8, <1>9, <1>10 DEF Placed

\* Messages from the wire are handled or lost: v is a part of u.
LEMMA Fewer ==
    ASSUME NEW q, NEW u, NEW v, NEW s, NEW m, NEW k \in Nat,
           Len(q) \in Nat, Len(v) \in Nat,
           \A i \in 1 .. Len(v) : /\ i + k \in 1 .. Len(u)
                                  /\ v[i].n = u[i + k].n
                                  /\ v[i].subject = u[i + k].subject,
           Placed(q, u, s, m), Numbered(u)
    PROVE  Placed(q, v, s, m) /\ Numbered(v)
  <1>1. Numbered(v)
    BY DEF Numbered
  <1>2. Once(v)
    <2> SUFFICES ASSUME NEW i \in 1 .. Len(v), NEW j \in 1 .. Len(v),
                        v[i].n = v[j].n, v[i].n # 0
                 PROVE  i = j
      BY DEF Once
    <2>1. i + k = j + k
      BY DEF Placed, Once
    <2> QED
      BY <2>1
  <1>3. \A i \in 1 .. Len(v) : /\ v[i].n <= m
                               /\ \A j \in 1 .. Len(s) : v[i].n # s[j]
    BY DEF Placed
  <1>4. \A i \in 1 .. Len(q), j \in 1 .. Len(v) : q[i].n = v[j].n => q[i].n = 0
    BY DEF Placed
  <1> QED
    BY <1>1, <1>2, <1>3, <1>4 DEF Placed

\* An edit is stored: the first of the messages u, of which v remain.
LEMMA Stored ==
    ASSUME NEW q \in Seq(Requests), NEW u \in Seq(Wired), NEW s \in Seq(1 .. MaxSent),
           NEW m, u # <<>>, Head(u).subject = "node",
           Placed(q, u, s, m), Numbered(u)
    PROVE  /\ Append(s, Head(u).n) \in Seq(1 .. MaxSent)
           /\ Placed(q, Tail(u), Append(s, Head(u).n), m)
           /\ Numbered(Tail(u))
  <1> DEFINE n == Head(u).n
             t == Append(s, n)
             v == Tail(u)
  <1>1. /\ Len(u) \in Nat /\ Len(u) # 0
        /\ Len(v) = Len(u) - 1
        /\ \A i \in 1 .. Len(v) : v[i] = u[i + 1]
    BY HeadTailProperties, LenProperties, EmptySeq
  <1>2. 1 \in 1 .. Len(u) /\ u[1] = Head(u) /\ u[1].n = n /\ Head(u) \in Wired
    BY <1>1, ElementOfSeq
  <1>3. n # 0 /\ n \in 1 .. MaxSent
    BY <1>2, MaxSentAssumption DEF Numbered, Wired
  <1>4. /\ t \in Seq(1 .. MaxSent)
        /\ Len(s) \in Nat /\ Len(t) = Len(s) + 1
        /\ \A i \in 1 .. Len(s) : t[i] = s[i]
        /\ t[Len(s) + 1] = n
    BY <1>3, AppendProperties, LenProperties
  <1> HIDE DEF t, v, n
  <1>5. Placed(q, v, s, m) /\ Numbered(v)
    <2>1. \A i \in 1 .. Len(v) : i + 1 \in 1 .. Len(u)
      BY <1>1
    <2>2. Len(q) \in Nat /\ Len(v) \in Nat
      BY <1>1, LenProperties
    <2> QED
      BY <1>1, <2>1, <2>2, Fewer
  <1>6. \A i \in 1 .. Len(t) : \/ i \in 1 .. Len(s) /\ t[i] = s[i]
                               \/ i = Len(s) + 1 /\ t[i] = n
    BY <1>4
  <1>7. /\ n <= m
        /\ \A j \in 1 .. Len(s) : n # s[j]
        /\ \A j \in 1 .. Len(q) : q[j].n # n
    BY <1>2, <1>3 DEF Placed
  <1>8. \A j \in 1 .. Len(v) : v[j].n # n
    <2>1. \A j \in 1 .. Len(v) : j + 1 \in 1 .. Len(u) /\ j + 1 # 1
      BY <1>1
    <2> QED
      BY <1>1, <1>2, <1>3, <2>1 DEF Placed, Once
  <1>9. \A i, j \in 1 .. Len(t) : t[i] = t[j] => i = j
    BY <1>6, <1>7 DEF Placed
  <1>10. /\ \A i \in 1 .. Len(t) : t[i] <= m
         /\ \A i \in 1 .. Len(q), j \in 1 .. Len(t) : q[i].n # t[j]
         /\ \A i \in 1 .. Len(v), j \in 1 .. Len(t) : v[i].n # t[j]
    BY <1>5, <1>6, <1>7, <1>8 DEF Placed
  <1>11. Placed(q, v, t, m)
    BY <1>5, <1>9, <1>10 DEF Placed
  <1> QED
    BY <1>4, <1>5, <1>11 DEF t, v, n

-----------------------------------------------------------------------------
\* sendjson leaves every message in its one place.
LEMMA SendJSONInv ==
    ASSUME TypeOK, NEW ready \in BOOLEAN, NEW waiting \in Seq(Requests),
           NEW ms \in Seq(Requests), NEW m \in 0 .. MaxSent,
           Numbered(waiting \o ms), Numbered(up), Placed(waiting \o ms, up, stored, m),
           SendJSON(ready, waiting, ms)
    PROVE  /\ query' \in Seq(Requests)
           /\ up' \in Seq(Wired)
           /\ eventMSGID' \subseteq 1 .. MaxSent
           /\ Numbered(query') /\ Numbered(up')
           /\ Placed(query', up', stored, m)
  <1> DEFINE w == Wires(ms)
  <1>1. CASE ~ready
    BY <1>1, Concatenation DEF SendJSON, TypeOK, SessionsTypeOK
  <1>2. CASE ready
    <2>1. query' = waiting /\ up' = up \o w
      BY <1>2 DEF SendJSON, Wires
    <2>2. introduced \in BOOLEAN /\ up \in Seq(Wired) /\ stored \in Seq(1 .. MaxSent)
      BY DEF TypeOK, SessionsTypeOK
    <2>3. /\ w \in Seq(Wired) /\ Len(w) = Len(ms)
          /\ \A i \in 1 .. Len(ms) : w[i].n = ms[i].n /\ w[i].subject = ms[i].subject
      BY <2>2, WiresType
    <2> HIDE DEF w
    <2>4. /\ Len(waiting) \in Nat /\ Len(ms) \in Nat
          /\ Len(waiting \o ms) = Len(waiting) + Len(ms)
          /\ \A i \in 1 .. Len(waiting) : (waiting \o ms)[i] = waiting[i]
          /\ \A i \in 1 .. Len(ms) : (waiting \o ms)[Len(waiting) + i] = ms[i]
      BY Concatenation
    <2>5. /\ up \o w \in Seq(Wired)
          /\ Len(up) \in Nat
          /\ Len(up \o w) = Len(up) + Len(ms)
          /\ \A i \in 1 .. Len(up) : (up \o w)[i] = up[i]
          /\ \A i \in 1 .. Len(ms) : (up \o w)[Len(up) + i] = w[i]
      <3>1. /\ up \o w \in Seq(Wired)
            /\ Len(up) \in Nat
            /\ Len(up \o w) = Len(up) + Len(w)
            /\ \A i \in 1 .. Len(up) : (up \o w)[i] = up[i]
            /\ \A i \in 1 .. Len(w) : (up \o w)[Len(up) + i] = w[i]
        <4>1. up \in Seq(Wired) /\ w \in Seq(Wired)
          BY <2>2, <2>3
        <4> QED
          BY <4>1, Concatenation
      <3> QED
        BY <2>3, <3>1
    <2> DEFINE p == waiting \o ms
               v == up \o w
    <2>6. \A k \in 1 .. Len(ms) : /\ v[Len(up) + k].n = p[Len(waiting) + k].n
                                  /\ v[Len(up) + k].subject = p[Len(waiting) + k].subject
      BY <2>3, <2>4, <2>5
    <2> HIDE DEF p, v
    <2>7. Placed(waiting, v, stored, m) /\ Numbered(waiting) /\ Numbered(v)
      <3>1. Placed(p, up, stored, m) /\ Numbered(p) /\ Numbered(up)
        BY DEF p
      <3>2. /\ Len(p) = Len(waiting) + Len(ms)
            /\ Len(v) = Len(up) + Len(ms)
            /\ \A i \in 1 .. Len(waiting) : p[i] = waiting[i]
            /\ \A i \in 1 .. Len(up) : v[i] = up[i]
        BY <2>4, <2>5 DEF p, v
      <3>3. Len(p) - Len(waiting) = Len(ms)
        BY <2>4, <3>2
      <3>4. Ended(p, waiting, up, v)
        BY <2>4, <2>5, <2>6, <3>2, <3>3 DEF Ended
      <3> QED
        BY <3>1, <3>4, Sent
    <2>8. eventMSGID' \subseteq 1 .. MaxSent
      <3>1. \A i \in DOMAIN ms : ms[i] \in Requests
        BY LenProperties, ElementOfSeq
      <3>2. {ms[i].n : i \in DOMAIN ms} \ {0} \subseteq 1 .. MaxSent
        BY <3>1, MaxSentAssumption DEF Requests
      <3> QED
        BY <1>2, <3>2 DEF SendJSON, TypeOK
    <2> QED
      BY <2>1, <2>5, <2>7, <2>8 DEF v
  <1> QED
    BY <1>1, <1>2

\* The messages that are sent are such messages.
LEMMA RequestsType ==
    /\ \A subject \in Subjects, n \in 0 .. MaxSent, arg \in BOOLEAN :
         Request(subject, n, arg) \in Requests
    /\ Hello \in Seq(Requests)
  <1>1. \A subject \in Subjects, n \in 0 .. MaxSent, arg \in BOOLEAN :
          Request(subject, n, arg) \in Requests
    BY DEF Request, Requests
  <1>2. 0 \in 0 .. MaxSent /\ {"auth_status", "connect"} \subseteq Subjects
    BY MaxSentAssumption DEF Subjects
  <1>3. \A x, y \in Requests : <<x, y>> \in Seq(Requests)
    OBVIOUS
  <1> QED
    BY <1>1, <1>2, <1>3 DEF Hello

\* A message of a user gets a number that is nowhere yet.
LEMMA MakeIInv ==
    ASSUME IInv, NEW subject \in Subjects, NEW arg \in BOOLEAN, Make(subject, arg)
    PROVE  IInv'
  <1> DEFINE new == Request(subject, made + 1, arg)
             p == query \o <<new>>
  <1>1. made + 1 \in 1 .. MaxSent
    BY MaxSentAssumption DEF IInv, TypeOK, Make
  <1>2. new \in Requests /\ new.n = made + 1
    BY <1>1, RequestsType DEF Request
  <1>3. query \in Seq(Requests) /\ <<new>> \in Seq(Requests)
    BY <1>2 DEF IInv, TypeOK
  <1> HIDE DEF new
  <1>4. /\ Len(query) \in Nat
        /\ Len(p) = Len(query) + 1
        /\ \A i \in 1 .. Len(query) : p[i] = query[i]
        /\ p[Len(query) + 1] = new
    BY <1>3, Concatenation
  <1>5. \A i \in 1 .. Len(p) : \/ i \in 1 .. Len(query) /\ p[i] = query[i]
                               \/ i = Len(query) + 1 /\ p[i] = new
    BY <1>4
  <1> HIDE DEF p
  <1>6. Numbered(p)
    BY <1>1, <1>2, <1>5 DEF Numbered, IInv
  <1>7. made \in Nat /\ Placed(query, up, stored, made)
    BY MaxSentAssumption DEF IInv, TypeOK
  <1>8. /\ \A i \in 1 .. Len(query) : query[i].n <= made + 1 /\ query[i].n # made + 1
        /\ \A i \in 1 .. Len(up) : up[i].n <= made + 1 /\ up[i].n # made + 1
        /\ \A i \in 1 .. Len(stored) : stored[i] <= made + 1 /\ stored[i] # made + 1
    <2>1. /\ \A i \in 1 .. Len(query) : query[i] \in Requests
          /\ \A i \in 1 .. Len(up) : up[i] \in Wired
          /\ \A i \in 1 .. Len(stored) : stored[i] \in 1 .. MaxSent
      BY ElementOfSeq DEF IInv, TypeOK, SessionsTypeOK
    <2>2. /\ \A i \in 1 .. Len(query) : query[i].n \in Nat
          /\ \A i \in 1 .. Len(up) : up[i].n \in Nat
          /\ \A i \in 1 .. Len(stored) : stored[i] \in Nat
      BY <2>1, MaxSentAssumption DEF Requests, Wired
    <2> QED
      BY <1>7, <2>2 DEF Placed
  <1>9. Placed(p, up, stored, made + 1)
    <2>1. \A i \in 1 .. Len(p) : p[i].n <= made + 1
      BY <1>2, <1>5, <1>7, <1>8
    <2>2. Once(p)
      BY <1>2, <1>5, <1>7, <1>8 DEF Placed, Once
    <2>3. /\ \A i \in 1 .. Len(p), j \in 1 .. Len(up) : p[i].n = up[j].n => p[i].n = 0
          /\ \A i \in 1 .. Len(p), j \in 1 .. Len(stored) : p[i].n # stored[j]
      BY <1>2, <1>5, <1>7, <1>8 DEF Placed
    <2> QED
      BY <1>7, <1>8, <2>1, <2>2, <2>3 DEF Placed
  <1>10. /\ query' \in Seq(Requests)
         /\ up' \in Seq(Wired)
         /\ eventMSGID' \subseteq 1 .. MaxSent
         /\ Numbered(query') /\ Numbered(up')
         /\ Placed(query', up', stored, made + 1)
    <2>1. SendJSON(Ready, query, <<new>>)
      BY DEF Make, new
    <2>2. Ready \in BOOLEAN /\ made + 1 \in 0 .. MaxSent
      BY <1>1 DEF Ready, IInv, TypeOK
    <2> QED
      BY <1>3, <1>6, <1>9, <2>1, <2>2, SendJSONInv DEF IInv, p
  <1> QED
    BY <1>1, <1>10 DEF IInv, TypeOK, SessionsTypeOK, Make

\* The timer takes the last message of the queue and leaves the others.
LEMMA RetryIInv ==
    ASSUME IInv, Retry
    PROVE  IInv'
  <1> DEFINE rest == SubSeq(query, 1, Len(query) - 1)
             last == query[Len(query)]
  <1>1. query \in Seq(Requests) /\ Len(query) \in Nat /\ Len(query) # 0
    BY LenProperties, EmptySeq DEF IInv, TypeOK, Retry
  <1>2. Len(query) \in 1 .. Len(query) /\ last \in Requests
    BY <1>1, ElementOfSeq
  <1>3. rest \in Seq(Requests) /\ <<last>> \in Seq(Requests)
    BY <1>1, <1>2
  <1>4. rest \o <<last>> = query
    BY <1>1, <1>2
  <1> HIDE DEF rest, last
  <1>5. SendJSON(Ready, rest, <<last>>) /\ Ready \in BOOLEAN /\ made \in 0 .. MaxSent
    BY DEF Retry, Ready, rest, last, IInv, TypeOK
  <1>6. /\ query' \in Seq(Requests)
        /\ up' \in Seq(Wired)
        /\ eventMSGID' \subseteq 1 .. MaxSent
        /\ Numbered(query') /\ Numbered(up')
        /\ Placed(query', up', stored, made)
    BY <1>3, <1>4, <1>5, SendJSONInv DEF IInv
  <1> QED
    BY <1>6 DEF IInv, TypeOK, SessionsTypeOK, Retry

\* What onopen sends is not of users.
LEMMA OpenIInv ==
    ASSUME IInv, Open
    PROVE  IInv'
  <1> DEFINE p == query \o Hello
  <1>1. query \in Seq(Requests) /\ Hello \in Seq(Requests)
    BY RequestsType DEF IInv, TypeOK
  <1>2. Len(Hello) = 2 /\ \A i \in 1 .. 2 : Hello[i].n = 0 /\ Hello[i].subject # "node"
    BY DEF Hello, Request
  <1>3. /\ Len(query) \in Nat
        /\ Len(p) = Len(query) + 2
        /\ \A i \in 1 .. Len(query) : p[i] = query[i]
        /\ \A i \in 1 .. 2 : p[Len(query) + i] = Hello[i]
    BY <1>1, <1>2, Concatenation
  <1> HIDE DEF p
  <1>4. \A i \in 1 .. Len(p) : \/ i \in 1 .. Len(query) /\ p[i] = query[i]
                               \/ p[i].n = 0 /\ p[i].subject # "node"
    <2>1. \A i \in 1 .. Len(p) : \/ i \in 1 .. Len(query)
                                 \/ i - Len(query) \in 1 .. 2 /\ i = Len(query) + (i - Len(query))
      BY <1>3
    <2> QED
      BY <1>2, <1>3, <2>1
  <1>5. Numbered(p)
    BY <1>4 DEF Numbered, IInv
  <1>6. Placed(p, up, stored, made)
    <2>1. made \in Nat /\ Placed(query, up, stored, made)
      BY MaxSentAssumption DEF IInv, TypeOK
    <2>2. \A j \in 1 .. Len(stored) : stored[j] # 0
      <3>1. \A j \in 1 .. Len(stored) : stored[j] \in 1 .. MaxSent
        BY ElementOfSeq DEF IInv, TypeOK, SessionsTypeOK
      <3> QED
        BY <3>1
    <2>3. Once(p)
      BY <1>4, <2>1 DEF Placed, Once
    <2>4. \A i \in 1 .. Len(p) :
            /\ p[i].n <= made
            /\ \A j \in 1 .. Len(up) : p[i].n = up[j].n => p[i].n = 0
            /\ \A j \in 1 .. Len(stored) : p[i].n # stored[j]
      BY <1>4, <2>1, <2>2 DEF Placed
    <2> QED
      BY <2>1, <2>3, <2>4 DEF Placed
  <1>7. /\ query' \in Seq(Requests)
        /\ up' \in Seq(Wired)
        /\ eventMSGID' \subseteq 1 .. MaxSent
        /\ Numbered(query') /\ Numbered(up')
        /\ Placed(query', up', stored, made)
    <2>1. /\ SendJSON(sessionInit, query, Hello)
          /\ sessionInit \in BOOLEAN /\ made \in 0 .. MaxSent
      BY DEF Open, IInv, TypeOK
    <2> QED
      BY <1>1, <1>5, <1>6, <2>1, SendJSONInv DEF IInv, p
  <1>8. down' \in Seq(Answers)
    <2>1. [subject |-> "session_init", n |-> 0, ok |-> TRUE] \in Answers
      BY MaxSentAssumption DEF Answers
    <2> QED
      BY <2>1 DEF Open
  <1> QED
    BY <1>7, <1>8 DEF IInv, TypeOK, SessionsTypeOK, Open

\* A closed connection loses messages and no longer answers the others.
LEMMA CutInv ==
    ASSUME IInv, Cut
    PROVE  /\ up' \in Seq(Wired) /\ down' \in Seq(Answers)
           /\ Placed(query, up', stored, made) /\ Numbered(up')
           /\ introduced' \in BOOLEAN /\ fresh' \in BOOLEAN
  <1>1. PICK k \in 0 .. Len(up) : up' = [i \in 1 .. k |-> [up[i] EXCEPT !.live = FALSE]]
    BY DEF Cut
  <1>2. up \in Seq(Wired) /\ Len(up) \in Nat /\ k \in Nat
    BY LenProperties DEF IInv, TypeOK, SessionsTypeOK
  <1>3. \A i \in 1 .. k : i \in 1 .. Len(up) /\ up[i] \in Wired
    BY <1>2, ElementOfSeq
  <1>4. \A i \in 1 .. k : /\ up'[i] \in Wired
                          /\ up'[i].n = up[i].n /\ up'[i].subject = up[i].subject
    BY <1>1, <1>3 DEF Wired
  <1>5. up' \in Seq(Wired) /\ Len(up') = k
    <2>1. up' \in [1 .. k -> Wired]
      BY <1>1, <1>4
    <2>2. up' \in Seq(Wired)
      BY <1>2, <2>1, SeqDef
    <2>3. DOMAIN up' = 1 .. k /\ DOMAIN up' = 1 .. Len(up') /\ Len(up') \in Nat
      BY <2>1, <2>2, LenProperties
    <2> QED
      BY <1>2, <2>2, <2>3
  <1>6. Placed(query, up', stored, made) /\ Numbered(up')
    <2>1. \A i \in 1 .. Len(up') : /\ i + 0 \in 1 .. Len(up)
                                   /\ up'[i].n = up[i + 0].n
                                   /\ up'[i].subject = up[i + 0].subject
      BY <1>3, <1>4, <1>5
    <2>2. Len(query) \in Nat /\ Len(up') \in Nat
      BY <1>2, <1>5, LenProperties DEF IInv, TypeOK
    <2> QED
      BY <2>1, <2>2, Fewer DEF IInv
  <1>7. introduced' \in BOOLEAN /\ fresh' \in BOOLEAN
    BY DEF Cut
  <1>8. down' \in Seq(Answers)
    BY DEF Cut
  <1> QED
    BY <1>5, <1>6, <1>7, <1>8

LEMMA CloseIInv ==
    ASSUME IInv, Close
    PROVE  IInv'
  BY CutInv DEF IInv, TypeOK, SessionsTypeOK, Close

\* A new page has an empty queue.
LEMMA ReloadIInv ==
    ASSUME IInv, Reload
    PROVE  IInv'
  <1>1. /\ up' \in Seq(Wired) /\ down' \in Seq(Answers)
        /\ Placed(query, up', stored, made) /\ Numbered(up')
        /\ introduced' \in BOOLEAN /\ fresh' \in BOOLEAN
    BY CutInv DEF Reload
  <1>2. query' = <<>> /\ Len(query') = 0 /\ query' \in Seq(Requests)
    BY DEF Reload
  <1>3. Placed(query', up', stored, made) /\ Numbered(query')
    BY <1>1, <1>2 DEF Placed, Numbered, Once
  <1> QED
    BY <1>1, <1>2, <1>3 DEF IInv, TypeOK, SessionsTypeOK, Reload

\* The server takes the first message; an edit of a user who is logged in is stored.
LEMMA HandleIInv ==
    ASSUME IInv, Handle, UNCHANGED pageVars
    PROVE  IInv'
  <1> DEFINE h == Head(up)
  <1>1. up \in Seq(Wired) /\ up # <<>> /\ stored \in Seq(1 .. MaxSent) /\ query \in Seq(Requests)
    BY DEF IInv, TypeOK, SessionsTypeOK, Handle
  <1>2. /\ Len(up) \in Nat /\ Len(up) # 0 /\ h \in Wired
        /\ Tail(up) \in Seq(Wired) /\ Len(Tail(up)) = Len(up) - 1
        /\ \A i \in 1 .. Len(Tail(up)) : Tail(up)[i] = up[i + 1]
    BY <1>1, HeadTailProperties, LenProperties, EmptySeq
  <1>3. Placed(query, Tail(up), stored, made) /\ Numbered(Tail(up))
    <2> DEFINE v == Tail(up)
    <2>1. \A i \in 1 .. Len(v) : /\ i + 1 \in 1 .. Len(up)
                                 /\ v[i].n = up[i + 1].n
                                 /\ v[i].subject = up[i + 1].subject
      BY <1>2
    <2>2. Len(v) \in Nat /\ Len(query) \in Nat
      BY <1>1, <1>2, LenProperties
    <2> HIDE DEF v
    <2>3. Placed(query, v, stored, made) /\ Numbered(v)
      BY <2>1, <2>2, Fewer DEF IInv
    <2> QED
      BY <2>3 DEF v
  <1>4. \A ok \in BOOLEAN : Answer(h, ok) => down' \in Seq(Answers)
    <2> SUFFICES ASSUME NEW ok \in BOOLEAN, Answer(h, ok)
                 PROVE  down' \in Seq(Answers)
      OBVIOUS
    <2>1. down \in Seq(Answers)
      BY DEF IInv, TypeOK, SessionsTypeOK
    <2>2. [subject |-> h.subject, n |-> h.n, ok |-> ok] \in Answers
      BY <1>2 DEF Wired, Answers
    <2> QED
      BY <2>1, <2>2 DEF Answer
  <1>5. session' \in Rows /\ down' \in Seq(Answers)
    <2>1. h.session \in BOOLEAN /\ h.arg \in BOOLEAN /\ session \in Rows /\ down \in Seq(Answers)
      BY <1>2 DEF Wired, IInv, TypeOK, SessionsTypeOK
    <2>2. IsLoggedIn(h) \in BOOLEAN
      BY <2>1 DEF IsLoggedIn
    <2>3. CASE AuthStatus(h)
      BY <1>4, <2>1, <2>2, <2>3 DEF AuthStatus
    <2>4. CASE ConnectMessage(h)
      BY <1>4, <2>1, <2>4 DEF ConnectMessage
    <2>5. CASE Login(h)
      <3>1. (session # "none" \/ h.arg) \in BOOLEAN
        BY <2>1
      <3> QED
        BY <1>4, <2>1, <2>5, <3>1 DEF Login, Rows
    <2>6. CASE Logout(h)
      <3>1. (session # "none") \in BOOLEAN
        OBVIOUS
      <3> QED
        BY <1>4, <2>1, <2>6, <3>1 DEF Logout, Rows
    <2>7. CASE Settings(h)
      BY <1>4, <2>1, <2>2, <2>7 DEF Settings, Rows
    <2>8. CASE NodeMessage(h)
      BY <1>4, <2>1, <2>2, <2>8 DEF NodeMessage
    <2> QED
      BY <2>3, <2>4, <2>5, <2>6, <2>7, <2>8 DEF Handle
  <1>6. up' = Tail(up)
    BY DEF Handle
  <1>7. \/ stored' = stored
        \/ h.subject = "node" /\ stored' = Append(stored, h.n)
    BY DEF Handle, AuthStatus, ConnectMessage, Login, Logout, Settings, NodeMessage
  <1>8. /\ stored' \in Seq(1 .. MaxSent)
        /\ Placed(query, up', stored', made) /\ Numbered(up')
    <2>1. CASE stored' = stored
      BY <1>1, <1>3, <1>6, <2>1
    <2>2. CASE h.subject = "node" /\ stored' = Append(stored, h.n)
      <3>1. /\ Append(stored, h.n) \in Seq(1 .. MaxSent)
            /\ Placed(query, Tail(up), Append(stored, h.n), made)
            /\ Numbered(Tail(up))
        BY <1>1, <2>2, Stored DEF IInv
      <3> QED
        BY <1>6, <2>2, <3>1
    <2> QED
      BY <1>7, <2>1, <2>2
  <1> QED
    BY <1>2, <1>5, <1>6, <1>8 DEF IInv, TypeOK, SessionsTypeOK, pageVars

LEMMA OnMessageIInv ==
    ASSUME IInv, OnMessage
    PROVE  IInv'
  <1> DEFINE a == Head(down)
  <1>1. down \in Seq(Answers) /\ a \in Answers /\ Tail(down) \in Seq(Answers)
    BY HeadTailProperties DEF IInv, TypeOK, SessionsTypeOK, OnMessage
  <1>2. /\ a.ok \in BOOLEAN /\ isLogin \in BOOLEAN /\ fresh \in BOOLEAN
        /\ sessionInit \in BOOLEAN /\ introduced \in BOOLEAN /\ eventMSGID \subseteq 1 .. MaxSent
    BY <1>1 DEF Answers, IInv, TypeOK
  <1>3. /\ isLogin' \in BOOLEAN /\ fresh' \in BOOLEAN
        /\ sessionInit' \in BOOLEAN /\ introduced' \in BOOLEAN /\ eventMSGID' \subseteq 1 .. MaxSent
    <2>1. CASE Introduce
      BY <1>2, <2>1 DEF Introduce
    <2>2. CASE Callback(a)
      BY <1>2, <2>2 DEF Callback
    <2>3. CASE Event(a)
      <3>1. isLogin' \in BOOLEAN
        BY <1>2, <2>3 DEF Event
      <3>2. fresh' \in BOOLEAN
        BY <1>2, <2>3 DEF Event
      <3> QED
        BY <1>2, <2>3, <3>1, <3>2 DEF Event
    <2> QED
      BY <2>1, <2>2, <2>3 DEF OnMessage
  <1> QED
    BY <1>1, <1>3 DEF IInv, TypeOK, SessionsTypeOK, OnMessage

-----------------------------------------------------------------------------
LEMMA InitIInv == Init => IInv
  <1> SUFFICES ASSUME Init PROVE IInv
    OBVIOUS
  <1>1. query = <<>> /\ up = <<>> /\ stored = <<>> /\ down = <<>>
    BY DEF Init, SessionsInit
  <1>2. SessionsTypeOK
    BY <1>1 DEF Init, SessionsInit, SessionsTypeOK, Rows
  <1>3. TypeOK
    <2>1. /\ sessionInit \in BOOLEAN /\ introduced \in BOOLEAN
          /\ isLogin \in BOOLEAN /\ fresh \in BOOLEAN
      BY DEF Init
    <2>2. query \in Seq(Requests) /\ eventMSGID \subseteq 1 .. MaxSent /\ made \in 0 .. MaxSent
      BY <1>1, MaxSentAssumption DEF Init
    <2>3. link \in {"closed", "connecting", "open"}
      BY DEF Init
    <2> QED
      BY <1>2, <2>1, <2>2, <2>3 DEF TypeOK
  <1>4. Len(query) = 0 /\ Len(up) = 0 /\ Len(stored) = 0
    BY <1>1
  <1>5. Placed(query, up, stored, made) /\ Numbered(query) /\ Numbered(up)
    BY <1>4 DEF Placed, Once, Numbered
  <1> QED
    BY <1>3, <1>5 DEF IInv

LEMMA StepIInv == IInv /\ [Next]_vars => IInv'
  <1> SUFFICES ASSUME IInv, [Next]_vars PROVE IInv'
    OBVIOUS
  <1>1. CASE Handle /\ UNCHANGED pageVars
    BY <1>1, HandleIInv
  <1>2. CASE OnMessage
    BY <1>2, OnMessageIInv
  <1>3. CASE Retry
    BY <1>3, RetryIInv
  <1>4. CASE Open
    BY <1>4, OpenIInv
  <1>5. CASE Reconnect
    BY <1>5 DEF IInv, TypeOK, SessionsTypeOK, Reconnect, serverVars
  <1>6. CASE \E subject \in {"login", "logout", "settings", "node"}, arg \in BOOLEAN :
               Make(subject, arg)
    BY <1>6, MakeIInv DEF Subjects
  <1>7. CASE OtherTab /\ UNCHANGED pageVars
    BY <1>7 DEF IInv, TypeOK, SessionsTypeOK, OtherTab, Rows, pageVars
  <1>8. CASE Close
    BY <1>8, CloseIInv
  <1>9. CASE Reload
    BY <1>9, ReloadIInv
  <1>10. CASE UNCHANGED vars
    BY <1>10 DEF IInv, TypeOK, SessionsTypeOK, vars, serverVars, pageVars
  <1> QED
    BY <1>1, <1>2, <1>3, <1>4, <1>5, <1>6, <1>7, <1>8, <1>9, <1>10
       DEF Next, Work, Disturbance

LEMMA SpecIInv == Spec => []IInv
  BY InitIInv, StepIInv, PTL DEF Spec

\* The page and its session stay in their types however connections come and go: in
\* particular every edit that is stored has the number of a user's message.
THEOREM TypeCorrect == Spec => []TypeOK
  <1>1. IInv => TypeOK
    BY DEF IInv
  <1> QED
    BY <1>1, SpecIInv, PTL

\* A set with no two elements has at most one.
LEMMA AtMostOneElement ==
    ASSUME NEW S, \A x, y \in S : x = y
    PROVE  /\ Cardinality(S) \in 0 .. 1
           /\ S = {} => Cardinality(S) = 0
  <1>1. CASE S = {}
    BY <1>1, FS_EmptySet
  <1>2. CASE S # {}
    <2>1. PICK x \in S : S = {x}
      BY <1>2
    <2> QED
      BY <1>2, <2>1, FS_Singleton
  <1> QED
    BY <1>1, <1>2

\* Whatever becomes of connections and of the page, a message of a user is in one
\* place at most: retries send nothing twice and edits are not stored twice.
THEOREM StoredOnce == Spec => []AtMostOnce
  <1>1. IInv => AtMostOnce
    <2> SUFFICES ASSUME IInv, NEW n \in 1 .. MaxSent
                 PROVE  Occurs(n, query) + Occurs(n, up)
                          + Cardinality({i \in DOMAIN stored : stored[i] = n}) <= 1
      BY DEF AtMostOnce
    <2> DEFINE Q == {i \in DOMAIN query : query[i].n = n}
               U == {i \in DOMAIN up : up[i].n = n}
               S == {i \in DOMAIN stored : stored[i] = n}
    <2>1. /\ DOMAIN query = 1 .. Len(query)
          /\ DOMAIN up = 1 .. Len(up)
          /\ DOMAIN stored = 1 .. Len(stored)
      BY LenProperties DEF IInv, TypeOK, SessionsTypeOK
    <2>2. Placed(query, up, stored, made) /\ n # 0
      BY DEF IInv
    <2>3. /\ \A x, y \in Q : x = y
          /\ \A x, y \in U : x = y
          /\ \A x, y \in S : x = y
      BY <2>1, <2>2 DEF Placed, Once
    <2>4. /\ Q = {} \/ U = {}
          /\ Q = {} \/ S = {}
          /\ U = {} \/ S = {}
      BY <2>1, <2>2 DEF Placed
    <2> HIDE DEF Q, U, S
    <2>5. /\ Cardinality(Q) \in 0 .. 1 /\ (Q = {} => Cardinality(Q) = 0)
          /\ Cardinality(U) \in 0 .. 1 /\ (U = {} => Cardinality(U) = 0)
          /\ Cardinality(S) \in 0 .. 1 /\ (S = {} => Cardinality(S) = 0)
      BY <2>3, AtMostOneElement
    <2>6. Cardinality(Q) + Cardinality(U) + Cardinality(S) <= 1
      BY <2>4, <2>5
    <2> QED
      BY <2>6 DEF Occurs, Q, U, S
  <1> QED
    BY <1>1, SpecIInv, PTL

\* The row of a session appears only by a login with the right secret or by the
\* other tab, and nothing is stored while it is not there, however late the server
\* handles a message.
THEOREM LoginFirst == Spec => ChangesNeedLogin
  <1> DEFINE Allowed == /\ session = "none" /\ session' # "none" =>
                             OtherTab \/ (Head(up).subject = "login" /\ Head(up).arg)
                        /\ stored' # stored => session # "none"
  <1>1. [Next]_vars => [Allowed]_vars
    <2> SUFFICES ASSUME Next PROVE Allowed
      OBVIOUS
    <2>1. CASE Handle /\ UNCHANGED pageVars
      <3>1. CASE AuthStatus(Head(up)) \/ ConnectMessage(Head(up))
        BY <3>1 DEF AuthStatus, ConnectMessage
      <3>2. CASE Login(Head(up))
        BY <3>2 DEF Login
      <3>3. CASE Logout(Head(up))
        BY <3>3 DEF Logout
      <3>4. CASE Settings(Head(up))
        BY <3>4 DEF Settings, IsLoggedIn
      <3>5. CASE NodeMessage(Head(up))
        BY <3>5 DEF NodeMessage, IsLoggedIn
      <3> QED
        BY <2>1, <3>1, <3>2, <3>3, <3>4, <3>5 DEF Handle
    <2>2. CASE OtherTab /\ UNCHANGED pageVars
      BY <2>2 DEF OtherTab
    <2>3. CASE UNCHANGED <<session, stored>>
      BY <2>3
    <2>4. \/ Handle /\ UNCHANGED pageVars
          \/ OtherTab /\ UNCHANGED pageVars
          \/ UNCHANGED <<session, stored>>
      BY DEF Next, Work, Disturbance, OnMessage, Retry, Open, Reconnect, Make, Close, Reload,
             serverVars
    <2> QED
      BY <2>1, <2>2, <2>3, <2>4
  <1> QED
    BY <1>1, PTL DEF Spec, ChangesNeedLogin
=============================================================================
