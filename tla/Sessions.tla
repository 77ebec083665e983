------------------------------ MODULE Sessions ------------------------------
(***************************************************************************)
(* The session of one browser on the server: the message handlers of       *)
(* hd_auth.go, and nodeHandler as far as the session is concerned.  The    *)
(* websocket library calls them one after the other, each to its end.      *)
(*                                                                         *)
(* A message of the browser carries the session its connection was         *)
(* introduced with, if it was (session), and is answered if its connection *)
(* is still open then (live).  n tells the browser's messages apart.       *)
(***************************************************************************)
EXTENDS Integers, Sequences

CONSTANT MaxSent   \* bound: the messages users of the browser make

ASSUME MaxSentAssumption == MaxSent \in Nat

VARIABLES
    session,   \* the row of the session: its ping setting, or "none"
    stored,    \* the edits nodeHandler has stored, in order
    up,        \* messages from the browser that have not been handled
    down       \* messages to the browser that it has not received

serverVars == <<session, stored, up, down>>

Subjects == {"auth_status", "connect", "login", "logout", "settings", "node"}

\* arg is the setting to store, or whether the secret is right.
Requests == [subject : Subjects, n : 0 .. MaxSent, arg : BOOLEAN]
Wired    == [subject : Subjects, n : 0 .. MaxSent, arg : BOOLEAN,
             session : BOOLEAN, live : BOOLEAN]
Answers  == [subject : Subjects \cup {"session_init"}, n : 0 .. MaxSent, ok : BOOLEAN]

Rows == {"none", "ping", "noping"}

SessionsTypeOK ==
    /\ session \in Rows
    /\ stored \in Seq(1 .. MaxSent)
    /\ up \in Seq(Wired)
    /\ down \in Seq(Answers)

SessionsInit ==
    /\ session = "none"
    /\ stored = <<>>
    /\ up = <<>>
    /\ down = <<>>

\* msg.Answer: lost when the connection is gone.
Answer(m, ok) ==
    down' = IF m.live THEN Append(down, [subject |-> m.subject, n |-> m.n, ok |-> ok])
                      ELSE down

\* IsLoggedIn.  It saves the row it has read, with a new stamp.
IsLoggedIn(m) == m.session /\ session # "none"

AuthStatus(m) ==
    /\ m.subject = "auth_status"
    /\ Answer(m, IsLoggedIn(m))
    /\ UNCHANGED <<session, stored>>

\* connectHandler asks for no session.
ConnectMessage(m) ==
    /\ m.subject = "connect"
    /\ Answer(m, TRUE)
    /\ UNCHANGED <<session, stored>>

\* A login or logout without a session gets no answer at all.
Login(m) ==
    /\ m.subject = "login"
    /\ IF m.session
       THEN /\ session' = IF session = "none" /\ m.arg THEN "noping" ELSE session
            /\ Answer(m, session # "none" \/ m.arg)
       ELSE UNCHANGED <<session, down>>
    /\ UNCHANGED stored

Logout(m) ==
    /\ m.subject = "logout"
    /\ IF m.session
       THEN /\ session' = "none"
            /\ Answer(m, session # "none")
       ELSE UNCHANGED <<session, down>>
    /\ UNCHANGED stored

\* Mutant: Save of the settings without IsLoggedIn, which inserts the row.
SettingsUnguarded(m) ==
    /\ m.subject = "settings"
    /\ session' = IF m.arg THEN "ping" ELSE "noping"
    /\ Answer(m, TRUE)
    /\ UNCHANGED stored

Settings(m) ==
    /\ m.subject = "settings"
    /\ session' = IF ~IsLoggedIn(m) THEN session ELSE IF m.arg THEN "ping" ELSE "noping"
    /\ Answer(m, IsLoggedIn(m))
    /\ UNCHANGED stored

\* nodeHandler; how the write goes is in NodeHandler.
NodeMessage(m) ==
    /\ m.subject = "node"
    /\ stored' = IF IsLoggedIn(m) THEN Append(stored, m.n) ELSE stored
    /\ Answer(m, IsLoggedIn(m))
    /\ UNCHANGED session

Handle ==
    /\ up # <<>>
    /\ LET m == Head(up) IN
         \/ AuthStatus(m) \/ ConnectMessage(m) \/ Login(m) \/ Logout(m)
         \/ Settings(m) \/ NodeMessage(m)
    /\ up' = Tail(up)

\* Another tab of the browser logs the session in or out.
OtherTab ==
    /\ session' = IF session = "none" THEN "noping" ELSE "none"
    /\ UNCHANGED <<stored, up, down>>
=============================================================================
