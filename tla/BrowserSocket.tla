--------------------------- MODULE BrowserSocket ---------------------------
(***************************************************************************)
(* socket.js in one browser, and its server: what becomes of the messages  *)
(* of a page while connections are lost and made again.                    *)
(***************************************************************************)
EXTENDS Sessions, FiniteSets

CONSTANT MaxQuery   \* bound: messages queued or unhandled when a connection closes

ASSUME MaxQueryAssumption == MaxQuery \in Nat

VARIABLES
    link,          \* socket.readyState
    sessionInit,   \* the variable of socket.js
    introduced,    \* the server has been told the session of this connection
    query,         \* messages that could not be sent yet
    eventMSGID,    \* messages sent whose callback waits for the answer
    isLogin,       \* store.isLogin
    fresh,         \* the nodes were received on this connection
    made           \* messages made by users so far

pageVars == <<link, sessionInit, introduced, query, eventMSGID, isLogin, fresh, made>>
vars == <<serverVars, pageVars>>

TypeOK ==
    /\ SessionsTypeOK
    /\ link \in {"closed", "connecting", "open"}
    /\ {sessionInit, introduced, isLogin, fresh} \subseteq BOOLEAN
    /\ query \in Seq(Requests)
    /\ eventMSGID \subseteq 1 .. MaxSent
    /\ made \in 0 .. MaxSent

Init ==
    /\ SessionsInit
    /\ link = "connecting"
    /\ sessionInit = FALSE
    /\ introduced = FALSE
    /\ query = <<>>
    /\ eventMSGID = {}
    /\ isLogin = FALSE
    /\ fresh = FALSE
    /\ made = 0

-----------------------------------------------------------------------------
Request(subject, n, arg) == [subject |-> subject, n |-> n, arg |-> arg]

\* A message on the wire.
Wire(m) == [subject |-> m.subject, n |-> m.n, arg |-> m.arg,
            session |-> introduced, live |-> TRUE]

\* Mutant: callback is stored without a look whether there is one.
SendJSONUnchecked(ready, waiting, ms) ==
    IF ready
    THEN /\ up' = up \o [i \in DOMAIN ms |-> Wire(ms[i])]
         /\ query' = waiting
         /\ eventMSGID' = eventMSGID \cup {ms[i].n : i \in DOMAIN ms}
    ELSE /\ query' = waiting \o ms
         /\ UNCHANGED <<up, eventMSGID>>

\* sendjson for the messages ms one after the other, with the queue left at
\* waiting: they are sent, or join the queue at its end.  Only those of users
\* have callbacks.
SendJSON(ready, waiting, ms) ==
    IF ready
    THEN /\ up' = up \o [i \in DOMAIN ms |-> Wire(ms[i])]
         /\ query' = waiting
         /\ eventMSGID' = eventMSGID \cup ({ms[i].n : i \in DOMAIN ms} \ {0})
    ELSE /\ query' = waiting \o ms
         /\ UNCHANGED <<up, eventMSGID>>

Ready == link = "open" /\ sessionInit

\* A user logs in with the right or a wrong secret, logs out, sets whether to
\* get pings, or edits a node.
Make(subject, arg) ==
    /\ made < MaxSent
    /\ made' = made + 1
    /\ SendJSON(Ready, query, <<Request(subject, made + 1, arg)>>)
    /\ UNCHANGED <<session, stored, down, link, sessionInit, introduced, isLogin, fresh>>

\* Mutant: the message stays in the queue when it has been sent.
RetryKeep ==
    /\ query # <<>> /\ Ready
    /\ SendJSON(Ready, query, <<query[Len(query)]>>)
    /\ UNCHANGED <<session, stored, down, link, sessionInit, introduced, isLogin, fresh, made>>

\* The timer: the last message of the queue is tried again.
Retry ==
    /\ query # <<>> /\ Ready
    /\ SendJSON(Ready, SubSeq(query, 1, Len(query) - 1), <<query[Len(query)]>>)
    /\ UNCHANGED <<session, stored, down, link, sessionInit, introduced, isLogin, fresh, made>>

Hello == <<Request("auth_status", 0, FALSE), Request("connect", 0, FALSE)>>

\* onopen.  The library's first message to a connection asks for its session.
Open ==
    /\ link = "connecting"
    /\ link' = "open"
    /\ SendJSON(sessionInit, query, Hello)
    /\ down' = <<[subject |-> "session_init", n |-> 0, ok |-> TRUE]>>
    /\ UNCHANGED <<session, stored, sessionInit, introduced, isLogin, fresh, made>>

\* What the server has not read of a closed connection is lost, what it has is
\* handled later and cannot be answered.
Cut ==
    /\ \E k \in 0 .. Len(up) :
         up' = [i \in 1 .. k |-> [up[i] EXCEPT !.live = FALSE]]
    /\ down' = <<>>
    /\ introduced' = FALSE
    /\ fresh' = FALSE

\* onclose, or onerror and then onclose.
Close ==
    /\ link # "closed"
    /\ Len(query) <= MaxQuery /\ Len(up) <= MaxQuery
    /\ link' = "closed"
    /\ Cut
    /\ UNCHANGED <<session, stored, sessionInit, query, eventMSGID, isLogin, made>>

\* RECONNECT_AFTER has passed.
Reconnect ==
    /\ link = "closed"
    /\ link' = "connecting"
    /\ UNCHANGED <<serverVars, sessionInit, introduced, query, eventMSGID, isLogin, fresh, made>>

\* The user loads the page anew.  The session's id is kept in localStorage.
Reload ==
    /\ Len(up) <= MaxQuery
    /\ link' = "connecting"
    /\ Cut
    /\ sessionInit' = FALSE
    /\ query' = <<>>
    /\ eventMSGID' = {}
    /\ isLogin' = FALSE
    /\ UNCHANGED <<session, stored, made>>


\* onmessage for session_init: the answer is the session's id.
Introduce ==
    /\ introduced' = TRUE
    /\ sessionInit' = TRUE
    /\ UNCHANGED <<eventMSGID, isLogin, fresh>>

\* onmessage for an answer somebody waits for.
Callback(a) ==
    /\ eventMSGID' = eventMSGID \ {a.n}
    /\ isLogin' = CASE a.subject = "login"  /\ a.ok -> TRUE
                    [] a.subject = "logout" /\ a.ok -> FALSE
                    [] OTHER -> isLogin
    /\ UNCHANGED <<sessionInit, introduced, fresh>>

\* onmessage for everything else: the status, and the nodes.
Event(a) ==
    /\ isLogin' = IF a.subject = "auth_status" THEN a.ok ELSE isLogin
    /\ fresh' = (fresh \/ a.subject = "connect")
    /\ UNCHANGED <<sessionInit, introduced, eventMSGID>>

OnMessage ==
    /\ link = "open"
    /\ down # <<>>
    /\ down' = Tail(down)
    /\ LET a == Head(down) IN
         IF a.subject = "session_init" THEN Introduce
         ELSE IF a.n \in eventMSGID THEN Callback(a)
         ELSE Event(a)
    /\ UNCHANGED <<session, stored, up, link, query, made>>

Work ==
    \/ Handle /\ UNCHANGED pageVars
    \/ OnMessage
    \/ Retry
    \/ Open
    \/ Reconnect

Disturbance ==
    \/ \E arg \in BOOLEAN : Make("login", arg) \/ Make("settings", arg)
    \/ Make("logout", FALSE) \/ Make("node", FALSE)
    \/ OtherTab /\ UNCHANGED pageVars
    \/ Close
    \/ Reload

Next == Work \/ Disturbance

Spec == Init /\ [][Next]_vars

\* Timers and events of the browser, and the server's handlers, go on.
Fairness ==
    /\ WF_vars(Handle /\ UNCHANGED pageVars)
    /\ WF_vars(OnMessage)
    /\ WF_vars(Retry)
    /\ WF_vars(Open)
    /\ WF_vars(Reconnect)

FairSpec == Spec /\ Fairness

-----------------------------------------------------------------------------
Occurs(n, s) == Cardinality({i \in DOMAIN s : s[i].n = n})

\* A message of a user is in one place only: through queueing, retries and lost
\* connections none is sent, or stored, twice.
AtMostOnce ==
    \A n \in 1 .. MaxSent :
      Occurs(n, query) + Occurs(n, up)
        + Cardinality({i \in DOMAIN stored : stored[i] = n}) <= 1

\* README.md: to log in "is necessary to make any changes".  The row of a session
\* appears only by a login with the right secret, in this tab or another one, and
\* edits are stored only while it is there - however late a message is handled.
ChangesNeedLogin ==
    [][/\ session = "none" /\ session' # "none" =>
            OtherTab \/ (Head(up).subject = "login" /\ Head(up).arg)
       /\ stored' # stored => session # "none"]_vars


\* README.md: "changes made on the Edit page are saved immediately".  The edits
\* of a page reach the table in their order, and the last one is what remains.
EditsInOrder ==
    [][stored' # stored => \A i \in DOMAIN stored : stored[i] < stored'[Len(stored')]]_vars
=============================================================================
