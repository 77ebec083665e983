----------------------------- MODULE SSHUpdate -----------------------------
(***************************************************************************)
(* Node.SSHUpdate command by command: the dialogue the collector has with  *)
(* a node whose report differs from the stored row.                        *)
(*                                                                         *)
(* The dialogue compares values with the stored ones and sends the stored  *)
(* ones, so a setting of the node is either as stored or not: conf holds   *)
(* the settings that are as stored in the node's uci configuration, runs   *)
(* those of its radios' channels that are on the air as stored.            *)
(*                                                                         *)
(* Reports come at any time, and InsertNode takes one after the other: one *)
(* that came during a dialogue waits in inbox until the dialogue is over,  *)
(* and is compared then, although it says what the node had before.        *)
(*                                                                         *)
(* What other goroutines do to the row meanwhile is in NodeSync; the local *)
(* copy SSHUpdate works on does not change.                                *)
(***************************************************************************)
EXTENDS Naturals, Sequences

CONSTANTS
    Radios,    \* the bands the node has a radio for
    Editable,  \* the settings that come to differ: a bound
    MaxInbox   \* reports that wait for InsertNode: a bound

Bands == {"24", "5"}

ASSUME RadiosAssumption == Radios \subseteq Bands

TxPower == [b \in Bands |-> IF b = "24" THEN "txpower24" ELSE "txpower5"]
Channel == [b \in Bands |-> IF b = "24" THEN "channel24" ELSE "channel5"]
Ssid    == [b \in Bands |-> IF b = "24" THEN "ssid24" ELSE "ssid5"]
Ask     == [b \in Bands |-> IF b = "24" THEN "ask24" ELSE "ask5"]

Channels == {Channel[b] : b \in Bands}

\* What CheckRespondd compares; altitude is compared but has no command.
Reported == {"hostname", "owner", "position", "altitude"}
              \cup {TxPower[b] : b \in Radios} \cup {Channel[b] : b \in Radios}

\* The private network's name is derived from the hostname.  It is not in the
\* reports, so a command for it that failed is not repeated.
Settings == Reported \cup {Ssid[b] : b \in Radios}

\* The commands in the order of SSHUpdate, and the step after each.
After == [hostname  |-> "owner",     owner    |-> "position", position |-> "ask24",
          ask24     |-> "txpower24", txpower24 |-> "channel24",
          channel24 |-> "ssid24",    ssid24   |-> "ask5",
          ask5      |-> "txpower5",  txpower5 |-> "channel5",
          channel5  |-> "ssid5",     ssid5    |-> "wifi"]

Commands == DOMAIN After \ {"ask24", "ask5"}

ASSUME EditableAssumption == Editable \subseteq Reported
ASSUME MaxInboxAssumption == MaxInbox \in Nat \ {0}

\* A report: the settings that were as stored in it; and, for the properties,
\* whether the radios were restarted or the node changed since it was made.
Reports == [is : SUBSET Reported, old : BOOLEAN]
NoReport == [is |-> {}, old |-> FALSE]

VARIABLES
    conf,     \* settings that are as stored in the node's configuration
    runs,     \* channels that are as stored on the air
    known,    \* bands with a radio whose stored channel GetChannel finds
    inbox,    \* reports that wait until InsertNode is called with them
    report,   \* the report the dialogue works with
    pc,       \* where SSHUpdate is; "idle" between two reports
    runWifi   \* the local variable: the radios have to be restarted

vars == <<conf, runs, known, inbox, report, pc, runWifi>>

TypeOK ==
    /\ conf \subseteq Settings
    /\ runs \subseteq Channels
    /\ known \subseteq Radios
    /\ inbox \in Seq(Reports) /\ Len(inbox) <= MaxInbox
    /\ report \in Reports
    /\ pc \in DOMAIN After \cup {"idle", "connect", "wifi", "panic"}
    /\ runWifi \in BOOLEAN

Init ==
    /\ conf = Settings
    /\ runs = Channels \cap Reported
    /\ known = Radios
    /\ inbox = <<>>
    /\ report = NoReport
    /\ pc = "idle"
    /\ runWifi = FALSE

-----------------------------------------------------------------------------
\* Settings come to differ, or to be as stored: those touched are then as stored
\* in the configuration if they are in `same`, and on the air if they are in `air`.
\* It happens between two dialogues: during one it comes to the same as after it,
\* for commands set what is stored whatever the node has.
Touch(touched, same, air) ==
    /\ pc = "idle"
    /\ conf' = (conf \ touched) \cup same
    /\ runs' = (runs \ touched) \cup (air \cap Channels)
    /\ UNCHANGED <<report, pc, runWifi>>

\* Somebody edits a stored setting.  What a waiting report says of it is then as
\* stored or not, as the node's is where the report is not old (`keep`).  The names
\* of the private networks hang on the hostname, which is not edited back.  A stored
\* channel that GetChannel does not find is never configured; it is as reported
\* when both are missing.
Edit(touched, same, air, keep) ==
    /\ Touch(touched, same, air)
    /\ "hostname" \notin same
    /\ \A i \in DOMAIN inbox : inbox[i].old \/ keep[i] \cap Channels = air \cap Channels
    /\ inbox' = [i \in DOMAIN inbox |->
                   [inbox[i] EXCEPT !.is = (@ \ touched) \cup (keep[i] \cap Reported)]]
    /\ known' \in SUBSET Radios
    /\ \A b \in Radios : (b \in known) # (b \in known') => Channel[b] \in touched

\* The reports that were made before something happened to the radios.
Outdated(reports) == [i \in DOMAIN reports |-> [reports[i] EXCEPT !.old = TRUE]]

\* A setting of the node changes, by hand or because a radio evades a radar.  The
\* waiting reports do not know.
Drift(s, same, air) ==
    /\ Touch({s}, same, air)
    /\ inbox' = Outdated(inbox)
    /\ UNCHANGED known

\* The configured channels, as in the lines of GetWirelessSettings that are
\* commented out: a channel set without a restart would pass as applied.
ResponddConfigured == Reported \cap conf

\* What Update takes from a report: the configuration, except that a channel is
\* the one on the air and not the one configured.
Respondd == {s \in Reported : s \in (IF s \in Channels THEN runs ELSE conf)}

\* The node reports, also in the middle of a dialogue.
Report ==
    /\ Len(inbox) < MaxInbox
    /\ inbox' = Append(inbox, [is |-> Respondd, old |-> FALSE])
    /\ UNCHANGED <<conf, runs, known, report, pc, runWifi>>

\* InsertNode takes the next report; SSHUpdate is called if CheckRespondd finds a
\* difference, between what is stored now and what was reported then.
Compare ==
    /\ pc = "idle" /\ inbox # <<>>
    /\ inbox' = Tail(inbox)
    /\ IF Head(inbox).is = Reported
         THEN UNCHANGED <<report, pc>>
         ELSE report' = Head(inbox) /\ pc' = "connect"
    /\ UNCHANGED <<conf, runs, known, runWifi>>

\* The call returns, or its panic has ended the program.
Leave ==
    /\ pc' = "idle"
    /\ report' = NoReport
    /\ runWifi' = FALSE

Connect ==
    /\ pc = "connect"
    /\ pc' = "hostname"
    /\ UNCHANGED <<conf, runs, known, inbox, report, runWifi>>

Refused ==
    /\ pc = "connect"
    /\ Leave
    /\ UNCHANGED <<conf, runs, known, inbox>>

\* The conditions of the commands without the test for the radio's name.
NeededAnyRadio(c) ==
    \/ c \in {"hostname", "owner"} /\ c \notin report.is
    \/ c = "position" /\ ~({"position", "altitude"} \subseteq report.is)
    \/ \E b \in Bands : \/ c \in {TxPower[b], Channel[b]} /\ c \notin report.is
                        \/ c = Ssid[b] /\ "hostname" \notin report.is

\* The conditions of the commands.  locationEqual takes the altitude into
\* account, the command sets latitude and longitude.
Needed(c) ==
    \/ c \in {"hostname", "owner"} /\ c \notin report.is
    \/ c = "position" /\ ~({"position", "altitude"} \subseteq report.is)
    \/ \E b \in Radios :
         \/ c \in {TxPower[b], Channel[b]} /\ b \in known /\ c \notin report.is
         \/ c = Ssid[b] /\ "hostname" \notin report.is

\* The commands after which the radios are restarted, with the assignment to
\* runWifi that is commented out after the transmission power.
RestartsRadios(c) == c \in Channels \cup {TxPower[b] : b \in Bands}

\* Mutant: they are restarted after every command.
RestartsAlways(c) == TRUE

Restarts(c) == c \in Channels

\* ssh.Execute: done tells whether the node ran the command; nobody looks at it.
Execute(c, done) ==
    /\ pc = c
    /\ Needed(c)
    /\ conf' = IF done THEN conf \cup {c} ELSE conf
    /\ runWifi' = (runWifi \/ Restarts(c))
    /\ pc' = After[c]
    /\ UNCHANGED <<runs, known, inbox, report>>

Skip(c) ==
    /\ pc = c
    /\ ~Needed(c)
    /\ pc' = After[c]
    /\ UNCHANGED <<conf, runs, known, inbox, report, runWifi>>

\* ssh.Run asks which radio serves the band; when it fails SSHUpdate returns
\* true, and only the deferred function is left to be run.
Run(b, done) ==
    /\ pc = Ask[b]
    /\ pc' = IF done THEN After[pc] ELSE "wifi"
    /\ UNCHANGED <<conf, runs, known, inbox, report, runWifi>>

\* ssh.Execute and ssh.Run use the session that NewSession did not return.
NoSession ==
    /\ \/ pc \in Commands /\ Needed(pc)
       \/ pc \in {"ask24", "ask5"}
    /\ pc' = "panic"
    /\ UNCHANGED <<conf, runs, known, inbox, report, runWifi>>

\* The deferred function, at the end of SSHUpdate or while it panics: the
\* command wifi puts the configured channels on the air.
Wifi ==
    /\ pc \in {"wifi", "panic"} /\ runWifi
    /\ runs' = conf \cap Channels
    /\ inbox' = Outdated(inbox)
    /\ Leave
    /\ UNCHANGED <<conf, known>>

\* Nothing to restart, or wifi does not reach the node.
NoWifi ==
    /\ pc \in {"wifi", "panic"}
    /\ Leave
    /\ UNCHANGED <<conf, runs, known, inbox>>

Dialogue ==
    \/ Report
    \/ Compare
    \/ Connect
    \/ Refused
    \/ \E c \in Commands : Skip(c) \/ \E done \in BOOLEAN : Execute(c, done)
    \/ \E b \in Bands, done \in BOOLEAN : Run(b, done)
    \/ NoSession
    \/ Wifi
    \/ NoWifi

\* What changes at once.  The private networks are renamed with the node.
Touched(s) == {s} \cup (IF s = "hostname" THEN {Ssid[b] : b \in Radios} ELSE {})

Next ==
    \/ Dialogue
    \/ \E s \in Editable : \E same, air \in SUBSET {s} :
         \/ \E keep \in [DOMAIN inbox -> SUBSET {s}] : Edit(Touched(s), same, air, keep)
         \/ Drift(s, same, air)

Spec == Init /\ [][Next]_vars

\* Reports keep coming, and each is dealt with.  No command fails every time
\* it is tried, and not every attempt to connect does.
Fairness ==
    /\ WF_vars(Dialogue)
    /\ SF_vars(Connect)
    /\ \A c \in Commands \cap Settings : SF_vars(Execute(c, TRUE))
    /\ \A b \in Bands : SF_vars(Run(b, TRUE))
    /\ SF_vars(Wifi)

FairSpec == Spec /\ Fairness

-----------------------------------------------------------------------------
\* node_ssh.go: "wifi" kicks the clients off the node.  It is due only when a channel
\* in the list was not as stored in the report; and unless the radios were restarted
\* or the node changed while that report waited, the radio is not on that channel.
RestartOnlyForChannel ==
    runWifi => \E b \in known : /\ Channel[b] \notin report.is
                                /\ report.old \/ Channel[b] \notin runs

\* What SSHUpdate can bring about on this node.
Settable == {"hostname", "owner", "position"}
              \cup UNION {{TxPower[b], Channel[b]} : b \in known}

\* When nothing changes any more, the node gets every stored setting there is a
\* command for, however often commands fail, sessions cannot be opened or the
\* dialogue is left early: its radios are on the stored channels, and the other
\* settings are in its configuration.
Applied == <>[][Dialogue]_vars =>
             <>[](\A s \in Settable : s \in (IF s \in Channels THEN runs ELSE conf))

\* The clients are not kicked off for ever: when nothing changes any more, reports
\* from before a restart bring about another one only so often, and settings that
\* cannot be applied (the altitude, a channel that is not in the list) none.
RestartsEnd == <>[][Dialogue]_vars => <>[]~runWifi

\* README.md: when settings "are changed in the web interface, an SSH connection
\* is opened to the node to apply the new settings".  So when none are changed
\* any more, and all channels are in the list, there is an end to it.
Settles == <>[][Dialogue]_vars /\ [](known = Radios) => <>[](pc = "idle")

-----------------------------------------------------------------------------
\* The dialogue implements Correction.
Pushed == Reported \ {"altitude"}

\* A command is sent when one of these differs.
Causes == [s \in Pushed |-> IF s = "position" THEN {"position", "altitude"} ELSE {s}]

\* What a dialogue gets as far as a command for.
Plan == IF pc = "idle" THEN {} ELSE {s \in Settable \cap Reported : Causes[s] \ report.is # {}}

Corrections == INSTANCE Correction
                 WITH have <- Respondd, set <- conf \cap Channels \cap Reported,
                      inbox <- [i \in DOMAIN inbox |-> inbox[i].is], plan <- Plan

\* However commands, sessions and the connection fail in a dialogue, and however long
\* its report has waited: it sets only what differed in that report, and nothing
\* becomes different by it - but with a channel that differed, wifi puts every
\* radio on the channel it is configured for, as stored or not.
SetsWhatDiffers == Corrections!Spec
=============================================================================
