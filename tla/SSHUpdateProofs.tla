-------------------------- MODULE SSHUpdateProofs --------------------------
(***************************************************************************)
(* That SSHUpdate restarts the radios of a node only for a channel that    *)
(* was not the stored one, and still is not if nothing happened to the     *)
(* radios while the report waited; and that a dialogue implements          *)
(* Correction.  For any radios, any edits and any number of reports.       *)
(***************************************************************************)
EXTENDS SSHUpdate, SequenceTheorems, TLAPS

\* What a report says of the channels is what is on the air, if it is not old.
Current(r) == ~r.old => \A b \in Radios : Channel[b] \in r.is <=> Channel[b] \in runs

\* The radios are not restarted before the dialogue is left, and then every report
\* that waits is old.
CurrentIsOnAir ==
    /\ pc # "idle" => Current(report)
    /\ \A i \in DOMAIN inbox : Current(inbox[i])

\* runWifi is a local variable.
NoRestartPending == pc = "idle" => ~runWifi

IInv == TypeOK /\ CurrentIsOnAir /\ NoRestartPending /\ RestartOnlyForChannel

\* The names of the commands.
LEMMA Names ==
    /\ TxPower["24"] = "txpower24" /\ TxPower["5"] = "txpower5"
    /\ Channel["24"] = "channel24" /\ Channel["5"] = "channel5"
    /\ Ssid["24"] = "ssid24" /\ Ssid["5"] = "ssid5"
    /\ Ask["24"] = "ask24" /\ Ask["5"] = "ask5"
    /\ Channels = {"channel24", "channel5"}
  <1>1. /\ TxPower["24"] = "txpower24" /\ TxPower["5"] = "txpower5"
        /\ Channel["24"] = "channel24" /\ Channel["5"] = "channel5"
        /\ Ssid["24"] = "ssid24" /\ Ssid["5"] = "ssid5"
        /\ Ask["24"] = "ask24" /\ Ask["5"] = "ask5"
    BY DEF TxPower, Channel, Ssid, Ask, Bands
  <1>2. Channels = {"channel24", "channel5"}
    BY <1>1 DEF Channels, Bands
  <1> QED
    BY <1>1, <1>2

\* Every command is followed by one, or by the end.
LEMMA AfterType == \A c \in DOMAIN After : After[c] \in DOMAIN After \cup {"wifi"}
  <1>1. DOMAIN After = {"hostname", "owner", "position", "ask24", "txpower24", "channel24",
                        "ssid24", "ask5", "txpower5", "channel5", "ssid5"}
    BY DEF After
  <1>2. /\ After.hostname = "owner" /\ After.owner = "position" /\ After.position = "ask24"
        /\ After.ask24 = "txpower24" /\ After.txpower24 = "channel24"
        /\ After.channel24 = "ssid24" /\ After.ssid24 = "ask5" /\ After.ask5 = "txpower5"
        /\ After.txpower5 = "channel5" /\ After.channel5 = "ssid5" /\ After.ssid5 = "wifi"
    BY DEF After
  <1> QED
    BY <1>1, <1>2

\* What is needed is a setting of the node; a channel is needed when it is known
\* and was not as stored in the report.
LEMMA NeededSetting ==
    ASSUME NEW c, Needed(c)
    PROVE  /\ c \in Settings
           /\ c \in Channels => \E b \in known : b \in Radios /\ c = Channel[b] /\ c \notin report.is
  <1> USE RadiosAssumption
  <1>1. c \in Settings
    BY DEF Needed, Settings, Reported
  <1>2. ASSUME c \in Channels
        PROVE  \E b \in known : b \in Radios /\ c = Channel[b] /\ c \notin report.is
    <2>1. c \notin {"hostname", "owner", "position"}
      BY <1>2, Names
    <2>2. PICK b \in Radios : \/ c \in {TxPower[b], Channel[b]} /\ b \in known /\ c \notin report.is
                              \/ c = Ssid[b] /\ "hostname" \notin report.is
      BY <2>1 DEF Needed
    <2>3. b \in {"24", "5"}
      BY <2>2 DEF Bands
    <2>4. c # TxPower[b] /\ c # Ssid[b]
      BY <1>2, <2>3, Names
    <2> QED
      BY <2>2, <2>4
  <1> QED
    BY <1>1, <1>2

-----------------------------------------------------------------------------
LEMMA ReportType == \A r \in Reports : r.is \in SUBSET Reported /\ r.old \in BOOLEAN
  BY DEF Reports

\* The reports that wait keep their number when what they say or are changes.
LEMMA InboxKept ==
    ASSUME NEW q \in Seq(Reports), Len(q) <= MaxInbox, NEW r,
           r = [i \in DOMAIN q |-> r[i]], \A i \in DOMAIN q : r[i] \in Reports
    PROVE  /\ r \in Seq(Reports) /\ Len(r) <= MaxInbox
           /\ DOMAIN r = DOMAIN q
  <1>1. Len(q) \in Nat /\ DOMAIN q = 1..Len(q)
    OBVIOUS
  <1>2. r \in [1..Len(q) -> Reports]
    BY <1>1
  <1>3. r \in Seq(Reports) /\ Len(r) = Len(q)
    BY <1>1, <1>2
  <1> QED
    BY <1>1, <1>3

LEMMA OutdatedKept ==
    ASSUME NEW q \in Seq(Reports), Len(q) <= MaxInbox
    PROVE  /\ Outdated(q) \in Seq(Reports) /\ Len(Outdated(q)) <= MaxInbox
           /\ DOMAIN Outdated(q) = DOMAIN q
           /\ \A i \in DOMAIN q : Outdated(q)[i].old /\ Outdated(q)[i].is = q[i].is
  <1>1. \A i \in DOMAIN q : q[i] \in Reports
    OBVIOUS
  <1>2. \A i \in DOMAIN q : /\ Outdated(q)[i] \in Reports
                            /\ Outdated(q)[i].old /\ Outdated(q)[i].is = q[i].is
    BY <1>1 DEF Outdated, Reports
  <1>3. Outdated(q) = [i \in DOMAIN q |-> Outdated(q)[i]]
    BY DEF Outdated
  <1> HIDE DEF Outdated
  <1> QED
    BY <1>2, <1>3, InboxKept

LEMMA ResponddChannels ==
    /\ Respondd \subseteq Reported
    /\ \A b \in Radios : Channel[b] \in Respondd <=> Channel[b] \in runs
  <1>1. \A b \in Radios : Channel[b] \in Reported /\ Channel[b] \in Channels
    BY RadiosAssumption DEF Reported, Channels
  <1> QED
    BY <1>1 DEF Respondd

LEMMA InitIInv == Init => IInv
  <1> SUFFICES ASSUME Init PROVE IInv
    OBVIOUS
  <1>1. Len(<<>>) = 0 /\ 0 <= MaxInbox /\ <<>> \in Seq(Reports) /\ DOMAIN <<>> = {}
    BY MaxInboxAssumption
  <1>2. TypeOK
    BY <1>1, RadiosAssumption DEF Init, TypeOK, Settings, NoReport, Reports
  <1> QED
    BY <1>1, <1>2 DEF Init, IInv, CurrentIsOnAir, NoRestartPending, RestartOnlyForChannel

LEMMA LeaveIInv ==
    ASSUME IInv, Leave, runs' \in SUBSET Channels, UNCHANGED <<conf, known>>,
           \/ UNCHANGED <<runs, inbox>>
           \/ inbox' = Outdated(inbox)
    PROVE  IInv'
  <1> USE DEF IInv, TypeOK
  <1>1. /\ inbox' \in Seq(Reports) /\ Len(inbox') <= MaxInbox
        /\ (\A i \in DOMAIN inbox : Current(inbox[i]))'
    <2>1. CASE UNCHANGED <<runs, inbox>>
      BY <2>1 DEF CurrentIsOnAir, Current
    <2>2. CASE inbox' = Outdated(inbox)
      BY <2>2, OutdatedKept DEF Current
    <2> QED
      BY <2>1, <2>2
  <1>2. TypeOK'
    BY <1>1 DEF Leave, NoReport, Reports
  <1> QED
    BY <1>1, <1>2 DEF Leave, CurrentIsOnAir, NoRestartPending, RestartOnlyForChannel

\* A step within a dialogue, which leaves the radios and the reports alone.
LEMMA WithinIInv ==
    ASSUME IInv, TypeOK', pc # "idle", pc' # "idle", UNCHANGED <<runs, known, inbox, report>>,
           runWifi' => runWifi \/ \E b \in known : b \in Radios /\ Channel[b] \notin report.is
    PROVE  IInv'
  <1>1. CurrentIsOnAir'
    BY DEF IInv, CurrentIsOnAir, Current
  <1>2. ASSUME runWifi' PROVE RestartOnlyForChannel'
    <2>1. CASE runWifi
      BY <2>1 DEF IInv, RestartOnlyForChannel
    <2>2. CASE ~runWifi
      <3>1. PICK b \in known : b \in Radios /\ Channel[b] \notin report.is
        BY <1>2, <2>2
      <3>2. report.old \/ Channel[b] \notin runs
        BY <3>1 DEF IInv, CurrentIsOnAir, Current
      <3> QED
        BY <3>1, <3>2 DEF RestartOnlyForChannel
    <2> QED
      BY <2>1, <2>2
  <1> QED
    BY <1>1, <1>2 DEF IInv, NoRestartPending, RestartOnlyForChannel

\* What is edited, or drifts, leaves the dialogue alone: none is under way.
LEMMA TouchIInv ==
    ASSUME IInv, NEW touched, NEW same \in SUBSET Settings, NEW air,
           Touch(touched, same, air), known' \subseteq Radios,
           inbox' \in Seq(Reports), Len(inbox') <= MaxInbox,
           (\A i \in DOMAIN inbox : Current(inbox[i]))'
    PROVE  IInv'
  <1>1. TypeOK'
    BY DEF IInv, TypeOK, Touch
  <1>2. pc' = "idle" /\ ~runWifi'
    BY DEF IInv, NoRestartPending, Touch
  <1> QED
    BY <1>1, <1>2 DEF IInv, CurrentIsOnAir, NoRestartPending, RestartOnlyForChannel

LEMMA EditIInv ==
    ASSUME IInv, NEW touched, NEW same \in SUBSET Settings, NEW air \in SUBSET touched,
           NEW keep \in [DOMAIN inbox -> SUBSET touched], Edit(touched, same, air, keep)
    PROVE  IInv'
  <1> DEFINE is(i) == (inbox[i].is \ touched) \cup (keep[i] \cap Reported)
  <1>1. inbox \in Seq(Reports) /\ Len(inbox) <= MaxInbox
    BY DEF IInv, TypeOK
  <1>2. \A i \in DOMAIN inbox : inbox[i] \in Reports
    BY <1>1
  <1>3. inbox' = [i \in DOMAIN inbox |-> inbox'[i]]
    BY DEF Edit
  <1>4. \A i \in DOMAIN inbox : inbox'[i] = [inbox[i] EXCEPT !.is = is(i)]
    BY DEF Edit
  <1>5. \A i \in DOMAIN inbox : /\ inbox'[i] \in Reports
                                /\ inbox'[i].is = is(i) /\ inbox'[i].old = inbox[i].old
    <2>1. \A i \in DOMAIN inbox : is(i) \in SUBSET Reported
      BY <1>2, ReportType
    <2> HIDE DEF is
    <2> QED
      BY <1>2, <1>4, <2>1 DEF Reports
  <1>6. /\ inbox' \in Seq(Reports) /\ Len(inbox') <= MaxInbox
        /\ DOMAIN inbox' = DOMAIN inbox
    <2> HIDE DEF is
    <2> QED
      BY <1>1, <1>3, <1>5, InboxKept
  <1>7. ASSUME NEW i \in DOMAIN inbox, ~inbox[i].old, NEW b \in Radios
        PROVE  Channel[b] \in is(i) <=> Channel[b] \in runs'
    <2>1. Channel[b] \in Channels /\ Channel[b] \in Reported
      BY RadiosAssumption DEF Channels, Reported
    <2>2. Channel[b] \in inbox[i].is <=> Channel[b] \in runs
      BY <1>7 DEF IInv, CurrentIsOnAir, Current
    <2>3. Channel[b] \in keep[i] <=> Channel[b] \in air
      BY <1>7, <2>1 DEF Edit
    <2>4. runs' = (runs \ touched) \cup (air \cap Channels)
      BY DEF Edit, Touch
    <2> QED
      BY <2>1, <2>2, <2>3, <2>4
  <1>8. (\A i \in DOMAIN inbox : Current(inbox[i]))'
    BY <1>5, <1>6, <1>7 DEF Current
  <1>9. known' \subseteq Radios /\ Touch(touched, same, air)
    BY DEF Edit
  <1> QED
    BY <1>6, <1>8, <1>9, TouchIInv

LEMMA DriftIInv ==
    ASSUME IInv, NEW s, NEW same \in SUBSET Settings, NEW air, Drift(s, same, air)
    PROVE  IInv'
  <1>1. inbox \in Seq(Reports) /\ Len(inbox) <= MaxInbox
    BY DEF IInv, TypeOK
  <1>2. /\ inbox' \in Seq(Reports) /\ Len(inbox') <= MaxInbox
        /\ (\A i \in DOMAIN inbox : Current(inbox[i]))'
    BY <1>1, OutdatedKept DEF Drift, Current
  <1>3. Touch({s}, same, air) /\ known' \subseteq Radios
    BY DEF Drift, IInv, TypeOK
  <1> QED
    BY <1>2, <1>3, TouchIInv

LEMMA NextIInv ==
    ASSUME IInv, [Next]_vars
    PROVE  IInv'
  <1>0. TypeOK /\ inbox \in Seq(Reports) /\ Len(inbox) <= MaxInbox /\ Len(inbox) \in Nat
    BY DEF IInv, TypeOK
  <1>1. CASE Report
    <2> DEFINE r == [is |-> Respondd, old |-> FALSE]
    <2>1. r \in Reports /\ Current(r)
      BY ResponddChannels DEF Reports, Current
    <2>2. inbox' = Append(inbox, r)
      BY <1>1 DEF Report
    <2> HIDE DEF r
    <2>3. /\ inbox' \in Seq(Reports) /\ Len(inbox') = Len(inbox) + 1
          /\ \A i \in DOMAIN inbox' : inbox'[i] = r \/ (i \in DOMAIN inbox /\ inbox'[i] = inbox[i])
      BY <1>0, <2>1, <2>2, AppendProperties
    <2>4. TypeOK'
      BY <1>0, <1>1, <2>3, MaxInboxAssumption DEF Report, TypeOK
    <2>5. runs' = runs /\ \A i \in DOMAIN inbox' : Current(inbox'[i])
      BY <1>1, <2>1, <2>3 DEF Report, IInv, CurrentIsOnAir
    <2>6. CurrentIsOnAir'
      BY <1>1, <2>5 DEF Report, IInv, CurrentIsOnAir, Current
    <2> QED
      BY <1>1, <2>4, <2>6 DEF Report, IInv, NoRestartPending, RestartOnlyForChannel
  <1>2. CASE Compare
    <2>1. /\ inbox' = Tail(inbox) /\ inbox # <<>> /\ UNCHANGED <<conf, runs, known, runWifi>>
          /\ pc = "idle" /\ ~runWifi
      BY <1>2 DEF Compare, IInv, NoRestartPending
    <2>2. /\ inbox' \in Seq(Reports) /\ Len(inbox') = Len(inbox) - 1
          /\ \A i \in DOMAIN inbox' : i + 1 \in DOMAIN inbox /\ inbox'[i] = inbox[i + 1]
          /\ Head(inbox) = inbox[1] /\ 1 \in DOMAIN inbox /\ inbox[1] \in Reports
      BY <1>0, <2>1
    <2>3. \A i \in DOMAIN inbox' : Current(inbox'[i])
      BY <2>2 DEF IInv, CurrentIsOnAir
    <2>4. Current(Head(inbox))
      BY <2>2 DEF IInv, CurrentIsOnAir
    <2>5. TypeOK'
      BY <1>0, <1>2, <2>1, <2>2, MaxInboxAssumption DEF Compare, TypeOK
    <2>6. CurrentIsOnAir'
      BY <1>2, <2>1, <2>3, <2>4 DEF Compare, CurrentIsOnAir, Current
    <2> QED
      BY <2>1, <2>5, <2>6 DEF IInv, NoRestartPending, RestartOnlyForChannel
  <1>3. CASE Connect
    <2>1. TypeOK'
      BY <1>0, <1>3 DEF Connect, After, TypeOK
    <2> QED
      BY <1>3, <2>1, WithinIInv DEF Connect
  <1>4. CASE Refused
    BY <1>0, <1>4, LeaveIInv DEF Refused, TypeOK
  <1>5. ASSUME NEW c \in Commands, Skip(c)
        PROVE  IInv'
    <2>1. TypeOK'
      BY <1>0, <1>5, AfterType DEF Skip, Commands, TypeOK
    <2>2. pc # "idle" /\ pc' # "idle"
      BY <1>5, AfterType DEF Skip, Commands, After
    <2> QED
      BY <1>5, <2>1, <2>2, WithinIInv DEF Skip
  <1>6. ASSUME NEW c \in Commands, NEW done \in BOOLEAN, Execute(c, done)
        PROVE  IInv'
    <2>1. /\ c \in Settings
          /\ Restarts(c) => \E b \in known : b \in Radios /\ Channel[b] \notin report.is
      BY <1>6, NeededSetting DEF Execute, Restarts
    <2>2. TypeOK'
      BY <1>0, <1>6, <2>1, AfterType DEF Execute, Commands, TypeOK, Restarts
    <2>3. pc # "idle" /\ pc' # "idle"
      BY <1>6, AfterType DEF Execute, Commands, After
    <2> QED
      BY <1>6, <2>1, <2>2, <2>3, WithinIInv DEF Execute
  <1>7. ASSUME NEW b \in Bands, NEW done \in BOOLEAN, Run(b, done)
        PROVE  IInv'
    <2>1. pc \in {"ask24", "ask5"}
      BY <1>7, Names DEF Run, Bands
    <2>2. TypeOK'
      BY <1>0, <1>7, <2>1, AfterType DEF Run, After, TypeOK
    <2>3. pc # "idle" /\ pc' # "idle"
      BY <1>7, <2>1, AfterType DEF Run, After
    <2> QED
      BY <1>7, <2>2, <2>3, WithinIInv DEF Run
  <1>8. CASE NoSession
    <2>1. TypeOK'
      BY <1>0, <1>8 DEF NoSession, TypeOK
    <2>2. pc # "idle" /\ pc' # "idle"
      BY <1>8 DEF NoSession, Commands, After
    <2> QED
      BY <1>8, <2>1, <2>2, WithinIInv DEF NoSession
  <1>9. CASE Wifi
    BY <1>0, <1>9, LeaveIInv DEF Wifi
  <1>10. CASE NoWifi
    BY <1>0, <1>10, LeaveIInv DEF NoWifi, TypeOK
  <1>11. ASSUME NEW s \in Editable, NEW same \in SUBSET {s}, NEW air \in SUBSET {s},
                NEW keep \in [DOMAIN inbox -> SUBSET {s}],
                Edit(Touched(s), same, air, keep)
         PROVE  IInv'
    <2>1. same \subseteq Settings
      BY EditableAssumption DEF Settings
    <2>2. {s} \subseteq Touched(s)
      BY DEF Touched
    <2>3. air \in SUBSET Touched(s) /\ keep \in [DOMAIN inbox -> SUBSET Touched(s)]
      BY <2>2
    <2> HIDE DEF Touched
    <2> QED
      BY <1>11, <2>1, <2>3, EditIInv
  <1>12. ASSUME NEW s \in Editable, NEW same \in SUBSET {s}, NEW air \in SUBSET {s},
                Drift(s, same, air)
         PROVE  IInv'
    <2>1. same \subseteq Settings
      BY EditableAssumption DEF Settings
    <2> QED
      BY <1>12, <2>1, DriftIInv
  <1>13. CASE UNCHANGED vars
    BY <1>13 DEF vars, IInv, TypeOK, CurrentIsOnAir, Current, NoRestartPending,
       RestartOnlyForChannel
  <1> QED
    BY <1>1, <1>2, <1>3, <1>4, <1>5, <1>6, <1>7, <1>8, <1>9, <1>10, <1>11, <1>12, <1>13
       DEF Next, Dialogue

-----------------------------------------------------------------------------
LEMMA SpecIInv == Spec => []IInv
  BY InitIInv, NextIInv, PTL DEF Spec

\* Every variable of the dialogue stays in its type.
THEOREM TypeCorrect == Spec => []TypeOK
  BY SpecIInv, PTL DEF IInv

\* SSHUpdate kicks the clients off a node only for a channel there is a command for,
\* which was not as stored in the report it works with; and is not on the air, unless
\* that report waited while the radios were restarted or the node changed.
THEOREM RestartsAreDue == Spec => []RestartOnlyForChannel
  BY SpecIInv, PTL DEF IInv

-----------------------------------------------------------------------------
\* What a command sets, if it is reported, there is a command for; and it differed in
\* the report, or for the position the altitude did.
LEMMA NeededSettable ==
    ASSUME NEW c, Needed(c), c \in Reported
    PROVE  /\ c \in Settable
           /\ c # "altitude"
           /\ IF c = "position" THEN ~({"position", "altitude"} \subseteq report.is)
                               ELSE c \notin report.is
  <1> USE RadiosAssumption
  <1>1. \A b \in Radios : /\ TxPower[b] \in {"txpower24", "txpower5"}
                          /\ Channel[b] \in {"channel24", "channel5"}
                          /\ Ssid[b] \in {"ssid24", "ssid5"}
    <2>1. \A b \in Radios : b \in {"24", "5"}
      BY DEF Bands
    <2> QED
      BY <2>1, Names
  <1>2. CASE c \in {"hostname", "owner", "position"}
    <2>1. \A b \in Radios : c \notin {TxPower[b], Channel[b], Ssid[b]}
      BY <1>1, <1>2
    <2> QED
      BY <1>2, <2>1 DEF Settable, Needed
  <1>3. CASE c \notin {"hostname", "owner", "position"}
    <2>1. PICK b \in Radios : \/ c \in {TxPower[b], Channel[b]} /\ b \in known /\ c \notin report.is
                              \/ c = Ssid[b]
      BY <1>3 DEF Needed
    <2>2. c # Ssid[b]
      BY <1>1 DEF Reported
    <2>3. c # "altitude"
      BY <1>1, <2>1
    <2> QED
      BY <1>3, <2>1, <2>2, <2>3 DEF Settable
  <1> QED
    BY <1>2, <1>3

\* It is planned.
LEMMA NeededPlanned ==
    ASSUME NEW c, Needed(c), c \in Reported, pc # "idle"
    PROVE  c \in Plan /\ c \in Pushed
  <1>1. c \in Settable /\ c \in Pushed
    BY NeededSettable DEF Pushed
  <1>2. Causes[c] \ report.is # {}
    <2>1. CASE c = "position"
      <3>1. Causes[c] = {"position", "altitude"}
        BY <1>1, <2>1 DEF Causes
      <3> QED
        BY <2>1, <3>1, NeededSettable
    <2>2. CASE c # "position"
      <3>1. Causes[c] = {c}
        BY <1>1, <2>2 DEF Causes
      <3> QED
        BY <2>2, <3>1, NeededSettable
    <2> QED
      BY <2>1, <2>2
  <1> QED
    BY <1>1, <1>2 DEF Plan

\* The altitude has no command.
LEMMA SettablePushed == IInv => Settable \cap Reported \subseteq Pushed
  <1> SUFFICES ASSUME IInv PROVE "altitude" \notin Settable
    BY DEF Pushed
  <1>1. \A b \in known : b \in {"24", "5"}
    BY RadiosAssumption DEF IInv, TypeOK, Bands
  <1> QED
    BY <1>1, Names DEF Settable

-----------------------------------------------------------------------------
\* What Correction sees: the channels configured as stored, and what the reports say.
Configured == conf \cap Channels \cap Reported
Inbox == [i \in DOMAIN inbox |-> inbox[i].is]

\* A channel that differed is what the radios are restarted for.
LEMMA RestartIsPlanned ==
    ASSUME IInv, pc # "idle", runWifi
    PROVE  Plan \cap Channels # {}
  <1>1. PICK b \in known : Channel[b] \notin report.is
    BY DEF IInv, RestartOnlyForChannel
  <1>2. b \in Radios /\ b \in {"24", "5"}
    BY RadiosAssumption DEF IInv, TypeOK, Bands
  <1>3. Channel[b] \in Channels /\ Channel[b] \in Settable /\ Channel[b] \in Reported
    BY <1>2 DEF Channels, Settable, Reported, Bands
  <1>4. Causes[Channel[b]] = {Channel[b]}
    <2>1. Channel[b] \notin {"altitude", "position"}
      BY <1>2, Names
    <2> QED
      BY <1>3, <2>1 DEF Causes, Pushed
  <1> QED
    BY <1>1, <1>3, <1>4 DEF Plan

\* Within a dialogue nothing changes but what is executed.
LEMMA Unseen ==
    ASSUME pc # "idle", pc' # "idle", UNCHANGED <<conf, runs, known, inbox, report>>
    PROVE  UNCHANGED <<Respondd, Configured, Inbox, Plan>>
  BY DEF Respondd, Configured, Inbox, Plan, Settable

LEMMA ReportCorrects ==
    ASSUME IInv, Report
    PROVE  Corrections!Report
  <1> DEFINE r == [is |-> Respondd, old |-> FALSE]
  <1>1. inbox \in Seq(Reports) /\ r \in Reports
    BY ResponddChannels DEF IInv, TypeOK, Reports
  <1>2. inbox' = Append(inbox, r) /\ r.is = Respondd
    BY DEF Report
  <1>3. UNCHANGED <<Respondd, Configured, Plan>>
    BY DEF Report, Respondd, Configured, Plan, Settable
  <1> HIDE DEF r
  <1>4. /\ Len(inbox) \in Nat /\ DOMAIN inbox = 1..Len(inbox)
        /\ DOMAIN inbox' = 1..(Len(inbox) + 1)
        /\ \A i \in DOMAIN inbox : inbox'[i] = inbox[i]
        /\ inbox'[Len(inbox) + 1] = r
    BY <1>1, <1>2
  <1>5. Inbox \in Seq(SUBSET Reported) /\ Len(Inbox) = Len(inbox)
    <2>1. \A i \in DOMAIN inbox : inbox[i].is \in SUBSET Reported
      <3>1. \A i \in DOMAIN inbox : inbox[i] \in Reports
        BY <1>1
      <3> QED
        BY <3>1, ReportType
    <2>2. Inbox \in [1..Len(inbox) -> SUBSET Reported]
      BY <1>4, <2>1 DEF Inbox
    <2> QED
      BY <1>4, <2>2
  <1>6. Inbox' = [i \in 1..(Len(inbox) + 1) |->
                    IF i = Len(inbox) + 1 THEN Respondd ELSE Inbox[i]]
    BY <1>2, <1>4 DEF Inbox
  <1>7. Inbox' = Append(Inbox, Respondd)
    <2> HIDE DEF Inbox
    <2>1. Respondd \in SUBSET Reported
      BY ResponddChannels
    <2>2. /\ Append(Inbox, Respondd) \in Seq(SUBSET Reported)
          /\ Len(Append(Inbox, Respondd)) = Len(Inbox) + 1
          /\ \A i \in 1..Len(Inbox) : Append(Inbox, Respondd)[i] = Inbox[i]
          /\ Append(Inbox, Respondd)[Len(Inbox) + 1] = Respondd
      BY <1>5, <2>1, AppendProperties
    <2>3. \A i \in 1..Len(Inbox) : Inbox[i] \in SUBSET Reported
      BY <1>5
    <2>4. Inbox' \in [1..(Len(Inbox) + 1) -> SUBSET Reported]
      BY <1>4, <1>5, <1>6, <2>1, <2>3
    <2>5. Inbox' \in Seq(SUBSET Reported) /\ Len(Inbox') = Len(Inbox) + 1
      BY <1>4, <1>5, <2>4
    <2>6. \A i \in 1..(Len(Inbox) + 1) : Inbox'[i] = Append(Inbox, Respondd)[i]
      BY <1>4, <1>5, <1>6, <2>2
    <2> QED
      BY <2>2, <2>5, <2>6, SeqEqual
  <1> QED
    BY <1>3, <1>7 DEF Corrections!Report, Configured, Inbox

LEMMA CompareCorrects ==
    ASSUME IInv, Compare
    PROVE  Corrections!Look
  <1>1. /\ inbox \in Seq(Reports) /\ inbox # <<>> /\ inbox' = Tail(inbox)
        /\ pc = "idle" /\ UNCHANGED <<conf, runs, known>>
    BY DEF IInv, TypeOK, Compare
  <1>2. /\ Len(inbox) \in Nat \ {0} /\ DOMAIN inbox = 1..Len(inbox)
        /\ DOMAIN inbox' = 1..(Len(inbox) - 1)
        /\ \A i \in DOMAIN inbox' : i + 1 \in DOMAIN inbox /\ inbox'[i] = inbox[i + 1]
        /\ Head(inbox) = inbox[1] /\ 1 \in DOMAIN inbox
    BY <1>1
  <1>3. Inbox \in Seq(SUBSET Reported) /\ Len(Inbox) = Len(inbox)
    <2>1. \A i \in DOMAIN inbox : inbox[i].is \in SUBSET Reported
      <3>1. \A i \in DOMAIN inbox : inbox[i] \in Reports
        BY <1>1
      <3> QED
        BY <3>1, ReportType
    <2>2. Inbox \in [1..Len(inbox) -> SUBSET Reported]
      BY <1>2, <2>1 DEF Inbox
    <2> QED
      BY <1>2, <2>2
  <1>4. /\ Inbox[1] = Head(inbox).is
        /\ Inbox' = [i \in 1..(Len(inbox) - 1) |-> Inbox[i + 1]]
    BY <1>2 DEF Inbox
  <1>5. Inbox # <<>> /\ Head(Inbox) = Head(inbox).is /\ Inbox' = Tail(Inbox)
    <2> HIDE DEF Inbox
    <2>1. Inbox # <<>> /\ Head(Inbox) = Inbox[1]
      BY <1>2, <1>3
    <2>2. /\ Tail(Inbox) \in Seq(SUBSET Reported) /\ Len(Tail(Inbox)) = Len(Inbox) - 1
          /\ \A i \in 1..(Len(Inbox) - 1) : Tail(Inbox)[i] = Inbox[i + 1]
      BY <1>3, <2>1, HeadTailProperties
    <2>3. \A i \in 1..(Len(Inbox) - 1) : Inbox[i + 1] \in SUBSET Reported
      BY <1>2, <1>3
    <2>4. Inbox' \in [1..(Len(Inbox) - 1) -> SUBSET Reported]
      BY <1>3, <1>4, <2>3
    <2>5. Inbox' \in Seq(SUBSET Reported) /\ Len(Inbox') = Len(Inbox) - 1
      <3>1. Len(Inbox) - 1 \in Nat
        BY <1>2, <1>3
      <3> QED
        BY <2>4, <3>1
    <2>6. \A i \in 1..(Len(Inbox) - 1) : Inbox'[i] = Tail(Inbox)[i]
      BY <1>3, <1>4, <2>2
    <2>7. Inbox' = Tail(Inbox)
      BY <2>2, <2>5, <2>6, SeqEqual
    <2> QED
      BY <1>4, <2>1, <2>7
  <1>6. Plan = {} /\ UNCHANGED <<Respondd, Configured>>
    BY <1>1 DEF Plan, Respondd, Configured
  <1>7. Plan' \in SUBSET {s \in Pushed : Causes[s] \ Head(inbox).is # {}}
    <2>1. pc' = "idle" \/ report' = Head(inbox)
      BY <1>1 DEF Compare
    <2>2. Settable' = Settable
      BY <1>1 DEF Settable
    <2>3. Settable \cap Reported \subseteq Pushed
      BY SettablePushed
    <2> QED
      BY <2>1, <2>2, <2>3 DEF Plan
  <1> QED
    BY <1>5, <1>6, <1>7 DEF Corrections!Look, Configured, Inbox

LEMMA TouchCorrects ==
    ASSUME NEW touched, NEW same, NEW air, Touch(touched, same, air),
           DOMAIN inbox' = DOMAIN inbox,
           \A i \in DOMAIN inbox : inbox'[i].is \in SUBSET Reported
    PROVE  Corrections!Change
  <1>1. Plan = {} /\ Plan' = {}
    BY DEF Touch, Plan
  <1>2. Respondd' \in SUBSET Reported /\ Configured' \in SUBSET (Channels \cap Reported)
    BY DEF Respondd, Configured
  <1>3. Inbox' \in [DOMAIN Inbox -> SUBSET Reported]
    BY DEF Inbox
  <1> QED
    BY <1>1, <1>2, <1>3 DEF Corrections!Change, Configured, Inbox

\* A command that is done writes the setting, or configures the channel.
LEMMA ExecuteCorrects ==
    ASSUME IInv, NEW c \in Commands, NEW done \in BOOLEAN, Execute(c, done)
    PROVE  \/ \E s \in Pushed : Corrections!Write(s) \/ Corrections!Configure(s)
           \/ UNCHANGED <<Respondd, Configured, Inbox, Plan>>
  <1>1. pc # "idle" /\ pc' # "idle" /\ UNCHANGED <<runs, known, inbox, report>> /\ Needed(c)
    BY AfterType DEF Execute, Commands, After
  <1>2. UNCHANGED <<Inbox, Plan>>
    BY <1>1 DEF Inbox, Plan, Settable
  <1>3. CASE ~done \/ c \notin Reported
    <2>1. \A s \in Reported : s \in conf' <=> s \in conf
      BY <1>3 DEF Execute
    <2>2. UNCHANGED <<Respondd, Configured>>
      BY <1>1, <2>1 DEF Respondd, Configured
    <2> QED
      BY <1>2, <2>2
  <1>4. CASE done /\ c \in Reported
    <2>1. c \in Plan /\ c \in Pushed
      BY <1>1, <1>4, NeededPlanned
    <2>2. conf' = conf \cup {c}
      BY <1>4 DEF Execute
    <2>3. CASE c \in Channels
      <3>1. Configured' = Configured \cup {c} /\ Respondd' = Respondd
        BY <1>1, <1>4, <2>2, <2>3 DEF Configured, Respondd
      <3>2. Corrections!Configure(c)
        BY <1>2, <2>1, <2>3, <3>1 DEF Corrections!Configure, Configured, Inbox
      <3> QED
        BY <2>1, <3>2
    <2>4. CASE c \notin Channels
      <3>1. Configured' = Configured /\ Respondd' = Respondd \cup {c}
        BY <1>1, <1>4, <2>2, <2>4 DEF Configured, Respondd
      <3>2. Corrections!Write(c)
        BY <1>2, <2>1, <2>4, <3>1 DEF Corrections!Write, Configured, Inbox
      <3> QED
        BY <2>1, <3>2
    <2> QED
      BY <2>3, <2>4
  <1> QED
    BY <1>3, <1>4

LEMMA WifiCorrects ==
    ASSUME IInv, Wifi
    PROVE  Corrections!Restart
  <1>1. pc # "idle" /\ runWifi /\ UNCHANGED <<conf, known>> /\ runs' = conf \cap Channels
    BY DEF Wifi
  <1>2. Plan' = {} /\ Configured' = Configured
    BY <1>1 DEF Wifi, Leave, Plan, Configured
  <1>3. Respondd' = (Respondd \ Channels) \cup Configured
    BY <1>1 DEF Respondd, Configured
  <1>4. Inbox' = Inbox
    <2>1. inbox' = Outdated(inbox) /\ inbox \in Seq(Reports) /\ Len(inbox) <= MaxInbox
      BY DEF Wifi, IInv, TypeOK
    <2> QED
      BY <2>1, OutdatedKept DEF Inbox
  <1> QED
    BY <1>1, <1>2, <1>3, <1>4, RestartIsPlanned DEF Corrections!Restart, Configured, Inbox

LEMMA StepCorrects ==
    ASSUME IInv, [Next]_vars
    PROVE  [Corrections!Next]_<<Respondd, Configured, Inbox, Plan>>
  <1> DEFINE Same == UNCHANGED <<Respondd, Configured, Inbox, Plan>>
  <1>0. inbox \in Seq(Reports) /\ Len(inbox) <= MaxInbox
    BY DEF IInv, TypeOK
  <1>1. CASE Report
    BY <1>1, ReportCorrects DEF Corrections!Next
  <1>2. CASE Compare
    BY <1>2, CompareCorrects DEF Corrections!Next
  <1>3. CASE Connect \/ NoSession
    BY <1>3, Unseen DEF Connect, NoSession, Commands, After
  <1>4. CASE Refused \/ NoWifi
    <2>1. UNCHANGED <<conf, runs, known, inbox>> /\ pc' = "idle"
      BY <1>4 DEF Refused, NoWifi, Leave
    <2>2. UNCHANGED <<Respondd, Configured, Inbox>> /\ Plan' = {}
      BY <2>1 DEF Respondd, Configured, Inbox, Plan
    <2> QED
      BY <2>2 DEF Corrections!Next, Corrections!Done, Configured, Inbox
  <1>5. ASSUME NEW c \in Commands, Skip(c)
        PROVE  Same
    <2>1. pc # "idle" /\ pc' # "idle"
      BY <1>5, AfterType DEF Skip, Commands, After
    <2> QED
      BY <1>5, <2>1, Unseen DEF Skip
  <1>6. ASSUME NEW c \in Commands, NEW done \in BOOLEAN, Execute(c, done)
        PROVE  Corrections!Next \/ Same
    BY <1>6, ExecuteCorrects DEF Corrections!Next
  <1>7. ASSUME NEW b \in Bands, NEW done \in BOOLEAN, Run(b, done)
        PROVE  Same
    <2>1. pc \in {"ask24", "ask5"}
      BY <1>7, Names DEF Run, Bands
    <2>2. After[pc] # "idle"
      BY <2>1, AfterType DEF After
    <2>3. pc # "idle" /\ pc' # "idle"
      BY <1>7, <2>1, <2>2 DEF Run
    <2> QED
      BY <1>7, <2>3, Unseen DEF Run
  <1>8. CASE Wifi
    BY <1>8, WifiCorrects DEF Corrections!Next
  <1>9. ASSUME NEW s \in Editable, NEW same \in SUBSET {s}, NEW air \in SUBSET {s},
               NEW keep \in [DOMAIN inbox -> SUBSET {s}],
               Edit(Touched(s), same, air, keep)
        PROVE  Corrections!Next
    <2>1. /\ Touch(Touched(s), same, air) /\ DOMAIN inbox' = DOMAIN inbox
          /\ \A i \in DOMAIN inbox :
               inbox'[i] = [inbox[i] EXCEPT
                              !.is = (inbox[i].is \ Touched(s)) \cup (keep[i] \cap Reported)]
      BY <1>9 DEF Edit
    <2>2. \A i \in DOMAIN inbox : inbox[i] \in Reports
      BY <1>0
    <2>3. \A i \in DOMAIN inbox : inbox'[i].is \in SUBSET Reported
      BY <2>1, <2>2 DEF Reports
    <2> QED
      BY <2>1, <2>3, TouchCorrects DEF Corrections!Next
  <1>10. ASSUME NEW s \in Editable, NEW same \in SUBSET {s}, NEW air \in SUBSET {s},
                Drift(s, same, air)
         PROVE  Corrections!Next
    <2>1. Touch({s}, same, air) /\ inbox' = Outdated(inbox)
      BY <1>10 DEF Drift
    <2>2. \A i \in DOMAIN inbox : inbox[i] \in Reports
      BY <1>0
    <2>3. DOMAIN inbox' = DOMAIN inbox /\ \A i \in DOMAIN inbox : inbox'[i].is \in SUBSET Reported
      BY <1>0, <2>1, <2>2, OutdatedKept DEF Reports
    <2> QED
      BY <2>1, <2>3, TouchCorrects DEF Corrections!Next
  <1>11. CASE UNCHANGED vars
    BY <1>11 DEF vars, Respondd, Configured, Inbox, Plan, Settable
  <1> QED
    BY <1>1, <1>2, <1>3, <1>4, <1>5, <1>6, <1>7, <1>8, <1>9, <1>10, <1>11 DEF Next, Dialogue

LEMMA InitCorrects == Init => Corrections!Init
  BY DEF Init, Corrections!Init, Plan, Respondd, Settings

\* A dialogue, whatever of it fails and however long its report has waited, sets only
\* what differed in the report and takes nothing away, but for the channels when it
\* restarts the radios: for any radios, edits and number of waiting reports.
THEOREM DialogueCorrects == Spec => SetsWhatDiffers
  BY SpecIInv, InitCorrects, StepCorrects, PTL
     DEF Spec, SetsWhatDiffers, Corrections!Spec, Corrections!corVars, Configured, Inbox
=============================================================================
