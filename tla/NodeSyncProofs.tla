--------------------------- MODULE NodeSyncProofs ---------------------------
(***************************************************************************)
(* The safety properties of NodeSync, for any number of nodes, fields,     *)
(* values and queued messages and any blacklist time.                      *)
(***************************************************************************)
EXTENDS NodeSync, SequenceTheorems, TLAPS

\* The step relation by the goroutine that moves: the form the proofs split.
LEMMA NextCases ==
    ASSUME Next
    PROVE  \/ \E n \in Nodes : Report(n) /\ UNCHANGED handVars
           \/ InsertNode /\ UNCHANGED handVars
           \/ Touch /\ UNCHANGED handVars
           \/ \E written \in SUBSET Pushed : SSHUpdate(written) /\ UNCHANGED handVars
           \/ SSHFailed /\ UNCHANGED handVars
           \/ CreateReachable /\ UNCHANGED handVars
           \/ CreateUnreachable /\ UNCHANGED handVars
           \/ Send /\ UNCHANGED handVars
           \/ NodeMessage /\ UNCHANGED collVars
           \/ SaveNode /\ UNCHANGED collVars
           \/ CreateNode /\ UNCHANGED collVars
           \/ SaveFailed /\ UNCHANGED collVars
           \/ Tell /\ UNCHANGED collVars
           \/ Tick
           \/ \E n \in Nodes, f \in Fields, v \in Values :
                Edit(n, f, v) /\ UNCHANGED collVars
           \/ \E store \in {shown, EmptyStore} : Connect(store) /\ UNCHANGED collVars
           \/ \E n \in Nodes, f \in Fields, v \in Values : Drift(n, f, v)
           \/ Panic
           \/ Restart
BY DEF Next, Work, Disturbance, CollStep, HandStep

\* Ages are closed under the passing of time, and keep their order.
LEMMA OlderType ==
    ASSUME NEW age \in Ages
    PROVE  Older(age) \in Ages /\ age <= Older(age)
BY BlacklistForAssumption DEF Ages, Never, Older

LEMMA OlderMonotone ==
    ASSUME NEW x \in Ages, NEW y \in Ages, x <= y
    PROVE  Older(x) <= Older(y)
BY BlacklistForAssumption DEF Ages, Never, Older

\* The two ages the properties single out stay what they are.
LEMMA OlderNever == Older(Never) = Never
BY BlacklistForAssumption DEF Never, Older

LEMMA OlderUnblocks ==
    ASSUME NEW age \in Ages, ~(age < BlacklistFor)
    PROVE  ~(Older(age) < BlacklistFor)
BY BlacklistForAssumption DEF Ages, Never, Older

\* What a row is after a tick.
LEMMA OlderRowType ==
    ASSUME NEW row \in Rows
    PROVE  /\ OlderRow(row) \in Rows
           /\ OlderRow(row).settings = row.settings
           /\ OlderRow(row).lastseen = Older(row.lastseen)
           /\ OlderRow(row).blacklist = Older(row.blacklist)
BY OlderType DEF Rows, OlderRow

LEMMA StampTypes ==
    /\ 0 \in Ages
    /\ Never \in Ages
    /\ \A age \in Ages : 0 <= age /\ age <= Never
BY BlacklistForAssumption DEF Ages, Never

\* The states of the goroutines are told apart by their pc.
LEMMA CollCases ==
    ASSUME coll \in CollStates
    PROVE  /\ coll.pc \in {"idle", "touch", "ssh", "uptime", "send"}
           /\ coll.pc \in {"touch", "ssh", "uptime"} =>
                /\ coll \in CollBusy
                /\ coll.id \in Nodes /\ coll.row \in Rows /\ coll.report \in Settings
           /\ coll.pc = "send" =>
                coll \in CollSend /\ coll.id \in Nodes /\ coll.settings \in Settings
           /\ coll.pc = "idle" => coll = CollIdle
BY DEF CollStates, CollIdle, CollBusy, CollSend

LEMMA HandCases ==
    ASSUME hand \in HandStates
    PROVE  /\ hand.pc \in {"idle", "save", "tell"}
           /\ hand.pc = "save" =>
                /\ hand \in HandSave
                /\ hand.id \in Nodes /\ hand.row \in Rows /\ hand.found \in BOOLEAN
           /\ hand.pc = "tell" =>
                hand \in HandTell /\ hand.id \in Nodes /\ hand.settings \in Settings
           /\ hand.pc = "idle" => hand = HandIdle
BY DEF HandStates, HandIdle, HandSave, HandTell

\* A row of a known node.
LEMMA KnownRow ==
    ASSUME StoreTypeOK, NEW n \in Nodes, Known(n)
    PROVE  /\ db[n] \in Rows
           /\ db[n].settings \in Settings
           /\ db[n].lastseen \in Ages
           /\ db[n].blacklist \in Ages
BY DEF StoreTypeOK, Known, Rows

\* The idle states satisfy the type.
LEMMA IdleTypes ==
    /\ CollIdle \in CollStates /\ CollIdle.pc = "idle"
    /\ HandIdle \in HandStates /\ HandIdle.pc = "idle"
BY DEF CollStates, HandStates, CollIdle, HandIdle

\* What the column updates do to a row.
LEMMA UpdatedRow ==
    ASSUME NEW row \in Rows, NEW age \in Ages, NEW s \in Settings
    PROVE  /\ Seen(row, age) \in Rows
           /\ Seen(row, age).settings = row.settings
           /\ Seen(row, age).lastseen = age
           /\ Seen(row, age).blacklist = row.blacklist
           /\ Block(row, age) \in Rows
           /\ Block(row, age).settings = row.settings
           /\ Block(row, age).lastseen = row.lastseen
           /\ Block(row, age).blacklist = age
           /\ Changed(row, s) \in Rows
           /\ Changed(row, s).settings = s
           /\ Changed(row, s).lastseen = row.lastseen
           /\ Changed(row, s).blacklist = row.blacklist
BY DEF Rows, Seen, Block, Changed

LEMMA NewRowType ==
    ASSUME NEW s \in Settings
    PROVE  /\ NewNode(s) \in Rows /\ NewNode(s).settings = s
           /\ NewNode(s).lastseen = 0 /\ NewNode(s).blacklist = Never
           /\ NewRow(s) \in Rows /\ NewRow(s).settings = s
           /\ NewRow(s).lastseen = Never /\ NewRow(s).blacklist = Never
BY StampTypes DEF NewNode, NewRow, Rows

\* The parts of a row.
LEMMA RowParts ==
    ASSUME NEW row \in Rows
    PROVE  /\ row.settings \in Settings
           /\ row.lastseen \in Ages
           /\ row.blacklist \in Ages
           /\ row # NoRow
BY NoRowAssumption DEF Rows

\* The states the collector moves on to.
LEMMA NextStates ==
    ASSUME coll \in CollBusy
    PROVE  /\ ToSSH \in CollStates
           /\ ToSSH.pc = "ssh" /\ ToSSH.id = coll.id
           /\ ToSSH.row = coll.row /\ ToSSH.report = coll.report
           /\ ToSend \in CollStates
           /\ ToSend.pc = "send" /\ ToSend.id = coll.id
           /\ ToSend.settings = coll.row.settings
BY DEF ToSSH, ToSend, CollStates, CollBusy, CollSend, Rows

LEMMA TellState ==
    ASSUME hand \in HandSave
    PROVE  /\ ToTell \in HandStates
           /\ ToTell.pc = "tell" /\ ToTell.id = hand.id
           /\ ToTell.settings = hand.row.settings
BY DEF ToTell, HandStates, HandSave, HandTell, Rows

-----------------------------------------------------------------------------
\* The invariant holds initially.
LEMMA InitIInv == Init => IInv
<1> SUFFICES ASSUME Init PROVE IInv
    OBVIOUS
<1>1. coll.pc = "idle" /\ hand.pc = "idle" /\ coll \in CollStates /\ hand \in HandStates
    BY IdleTypes DEF Init, CollInit, HandInit
<1>2. TypeOK
    BY <1>1 DEF Init, StoreInit, CollInit, HandInit, TypeOK, StoreTypeOK,
                CollTypeOK, HandTypeOK
<1> QED
    BY <1>1, <1>2 DEF IInv, CopiesHaveRows, HandCopyOlder, CollCopyFresher,
                      ContactOnlyUnblocked

\* A report is queued.
LEMMA ReportIInv ==
    ASSUME IInv, NEW n \in Nodes, Report(n), UNCHANGED handVars
    PROVE  IInv'
<1>1. [id |-> n, settings |-> device[n]] \in NodeMessages /\ inbox \in Seq(NodeMessages)
    BY DEF IInv, TypeOK, CollTypeOK, NodeMessages
<1>2. inbox' \in Seq(NodeMessages)
    BY <1>1, AppendProperties DEF Report
<1>3. TypeOK'
    BY <1>2 DEF IInv, Report, handVars, TypeOK, StoreTypeOK, CollTypeOK, HandTypeOK
<1> QED
    BY <1>3 DEF IInv, Report, handVars, CopiesHaveRows, HandCopyOlder,
                CollCopyFresher, ContactOnlyUnblocked, Known, Blocked

\* A report is taken up: the copy is the row, stamped with the age 0.
LEMMA InsertNodeIInv ==
    ASSUME IInv, InsertNode, UNCHANGED handVars
    PROVE  IInv'
<1> DEFINE r == Head(inbox)
<1>1. r \in NodeMessages /\ Tail(inbox) \in Seq(NodeMessages)
    BY HeadTailProperties DEF InsertNode, IInv, TypeOK, CollTypeOK
<1>2. r.id \in Nodes /\ r.settings \in Settings
    BY <1>1 DEF NodeMessages
<1>t. StoreTypeOK /\ UNCHANGED <<db, shown, device, hand, requests>>
    BY DEF InsertNode, handVars, IInv, TypeOK
<1>3. CASE Known(r.id)
  <2>1. db[r.id] \in Rows
      BY <1>2, <1>3, <1>t, KnownRow
  <2> DEFINE row == Seen(db[r.id], 0)
  <2>2. row \in Rows /\ row.lastseen = 0 /\ row.blacklist = db[r.id].blacklist
      BY <2>1, <1>2, StampTypes, UpdatedRow
  <2> HIDE DEF row
  <2>3. coll' = [pc |-> "touch", id |-> r.id, row |-> row, report |-> r.settings]
      BY <1>3 DEF InsertNode, row
  <2>4. /\ coll' \in CollBusy /\ coll'.pc = "touch"
        /\ coll'.id = r.id /\ coll'.row = row
      BY <2>2, <2>3, <1>2 DEF CollBusy
  <2>5. TypeOK'
      BY <2>4, <1>1, <1>t DEF InsertNode, IInv, TypeOK, StoreTypeOK, CollTypeOK,
                              HandTypeOK, CollStates
  <2>6. CopiesHaveRows' /\ HandCopyOlder' /\ ContactOnlyUnblocked'
      BY <2>4, <1>3, <1>t DEF IInv, CopiesHaveRows, HandCopyOlder,
                              ContactOnlyUnblocked, Known
  <2>7. CollCopyFresher'
      BY <2>1, <2>2, <2>4, <1>t, RowParts, StampTypes DEF CollCopyFresher, Ages
  <2> QED
      BY <2>5, <2>6, <2>7 DEF IInv
<1>4. CASE ~Known(r.id)
  <2> DEFINE row == NewNode(r.settings)
  <2>2. row \in Rows /\ row.blacklist = Never
      BY <1>2, NewRowType
  <2> HIDE DEF row
  <2>3. coll' = [pc |-> "uptime", id |-> r.id, row |-> row, report |-> r.settings]
      BY <1>4 DEF InsertNode, row
  <2>4. /\ coll' \in CollBusy /\ coll'.pc = "uptime"
        /\ coll'.id = r.id /\ coll'.row = row
      BY <2>2, <2>3, <1>2 DEF CollBusy
  <2>5. TypeOK'
      BY <2>4, <1>1, <1>t DEF InsertNode, IInv, TypeOK, StoreTypeOK, CollTypeOK,
                              HandTypeOK, CollStates
  <2>6. CopiesHaveRows' /\ HandCopyOlder' /\ ContactOnlyUnblocked' /\ CollCopyFresher'
      BY <2>2, <2>4, <1>4, <1>t DEF IInv, CopiesHaveRows, HandCopyOlder,
                              ContactOnlyUnblocked, CollCopyFresher, Known
  <2> QED
      BY <2>5, <2>6 DEF IInv
<1> QED
    BY <1>3, <1>4

\* Where a goroutine is when it acts, and what it then knows.
LEMMA CollActs ==
    ASSUME IInv, coll.pc \in {"touch", "ssh", "uptime"}
    PROVE  /\ StoreTypeOK /\ coll \in CollBusy /\ hand \in HandStates
           /\ coll.id \in Nodes /\ coll.row \in Rows /\ coll.report \in Settings
           /\ coll.row.lastseen \in Ages /\ coll.row.blacklist \in Ages
           /\ coll.pc # "uptime" => Known(coll.id) /\ db[coll.id] \in Rows
BY CollCases, RowParts, KnownRow DEF IInv, TypeOK, CollTypeOK, HandTypeOK, CopiesHaveRows

LEMMA HandActs ==
    ASSUME IInv, hand.pc = "save"
    PROVE  /\ StoreTypeOK /\ hand \in HandSave /\ coll \in CollStates
           /\ hand.id \in Nodes /\ hand.row \in Rows /\ hand.found \in BOOLEAN
           /\ hand.row.lastseen \in Ages /\ hand.row.blacklist \in Ages
           /\ hand.found => Known(hand.id) /\ db[hand.id] \in Rows
BY HandCases, RowParts, KnownRow DEF IInv, TypeOK, CollTypeOK, HandTypeOK, CopiesHaveRows

\* The column update.  The row's lastseen becomes that of the report, which is
\* not younger than nodeHandler's copy believes.
LEMMA TouchIInv ==
    ASSUME IInv, Touch, UNCHANGED handVars
    PROVE  IInv'
<1> DEFINE n == coll.id
           new == Seen(db[n], coll.row.lastseen)
<1>1. /\ coll.pc = "touch"
      /\ UNCHANGED <<shown, device, inbox, hand, requests>>
      /\ db' = [db EXCEPT ![n] = new]
    BY DEF Touch, handVars
<1>2. /\ StoreTypeOK /\ coll \in CollBusy /\ hand \in HandStates
      /\ n \in Nodes /\ coll.row \in Rows /\ Known(n) /\ db[n] \in Rows
      /\ coll.row.lastseen \in Ages
    BY <1>1, CollActs
<1>3. /\ new \in Rows /\ new.settings = db[n].settings
      /\ new.lastseen = coll.row.lastseen /\ new.blacklist = db[n].blacklist
    BY <1>2, UpdatedRow, RowParts
<1>4. /\ db' \in [Nodes -> Rows \cup {NoRow}] /\ db'[n] = new
      /\ \A m \in Nodes : m # n => db'[m] = db[m]
      /\ \A m \in Nodes : Known(m) => Known(m)'
      /\ db'[n] # NoRow
  <2> HIDE DEF n, new
  <2> QED
      BY <1>1, <1>2, <1>3, RowParts DEF StoreTypeOK, Known
<1> HIDE DEF new
<1>5. /\ coll' \in CollStates
      /\ \/ coll'.pc = "idle"
         \/ coll'.pc = "send" /\ coll'.id = n /\ ~Blocked(coll.row)
         \/ /\ coll'.pc = "ssh" /\ coll'.id = n /\ coll'.row = coll.row
            /\ ~Blocked(coll.row)
    BY <1>1, <1>2, NextStates, IdleTypes DEF Touch, TimeFilter
<1>6. TypeOK'
    BY <1>1, <1>4, <1>5 DEF IInv, TypeOK, StoreTypeOK, CollTypeOK, HandTypeOK
<1>7. CopiesHaveRows'
    BY <1>1, <1>2, <1>4, <1>5, HandCases DEF IInv, CopiesHaveRows, Known
<1>8. /\ coll.row.lastseen <= db[n].lastseen
      /\ coll.row.lastseen <= db[n].blacklist
      /\ coll.row.blacklist <= db[n].blacklist
    BY <1>1 DEF IInv, CollCopyFresher
<1>9. HandCopyOlder'
  <2>1. CASE hand.pc = "save" /\ hand.found /\ hand.id = n
    <3>1. /\ db[n].lastseen <= hand.row.lastseen
          /\ db[n].blacklist <= hand.row.blacklist
        BY <2>1 DEF IInv, HandCopyOlder
    <3>2. /\ db[n].lastseen \in Ages /\ hand.row.lastseen \in Ages
        BY <2>1, <1>2, RowParts, HandActs
    <3>3. coll.row.lastseen <= hand.row.lastseen
        BY <3>1, <3>2, <1>2, <1>8 DEF Ages
    <3> QED
        BY <3>1, <3>3, <2>1, <1>1, <1>3, <1>4 DEF HandCopyOlder
  <2>2. CASE hand.pc = "save" /\ hand.found /\ hand.id # n
      BY <2>2, <1>1, <1>4, HandActs DEF IInv, HandCopyOlder
  <2>3. CASE ~(hand.pc = "save" /\ hand.found)
      BY <2>3, <1>1 DEF IInv, HandCopyOlder
  <2> QED
      BY <2>1, <2>2, <2>3
<1>10. CollCopyFresher'
    BY <1>1, <1>2, <1>3, <1>4, <1>5, <1>8 DEF CollCopyFresher, Blocked, Ages
<1>11. ContactOnlyUnblocked'
    BY <1>2, <1>3, <1>4, <1>5, <1>8, RowParts, BlacklistForAssumption
       DEF ContactOnlyUnblocked, Blocked, Ages, Never
<1> QED
    BY <1>6, <1>7, <1>9, <1>10, <1>11 DEF IInv

\* An SSH dialogue leaves the table alone.
LEMMA SSHUpdateIInv ==
    ASSUME IInv, NEW written \in SUBSET Pushed, SSHUpdate(written), UNCHANGED handVars
    PROVE  IInv'
<1>1. /\ coll.pc = "ssh" /\ coll' = ToSend
      /\ UNCHANGED <<db, shown, inbox, hand, requests>>
    BY DEF SSHUpdate, handVars
<1>2. /\ coll \in CollBusy /\ coll.row \in Rows /\ coll.id \in Nodes
      /\ coll' \in CollStates /\ coll'.pc = "send" /\ coll'.id = coll.id
    BY <1>1, CollActs, NextStates
<1>3. device' \in [Nodes -> Settings]
  <2>1. device \in [Nodes -> Settings] /\ coll.row.settings \in Settings
      BY <1>2, RowParts DEF IInv, TypeOK, CollTypeOK
  <2> QED
      BY <2>1, <1>2 DEF SSHUpdate, Write, Settings
<1>4. TypeOK'
    BY <1>1, <1>2, <1>3 DEF IInv, TypeOK, StoreTypeOK, CollTypeOK, HandTypeOK
<1> QED
    BY <1>1, <1>2, <1>4 DEF IInv, CopiesHaveRows, HandCopyOlder, CollCopyFresher,
                            ContactOnlyUnblocked, Known, Blocked

\* The block of a row becomes that of the report, which is not younger than
\* nodeHandler's copy believes either.
LEMMA SSHFailedIInv ==
    ASSUME IInv, SSHFailed, UNCHANGED handVars
    PROVE  IInv'
<1> DEFINE n == coll.id
           new == Block(db[n], coll.row.lastseen)
<1>1. /\ coll.pc = "ssh" /\ coll' = CollIdle
      /\ UNCHANGED <<shown, device, inbox, hand, requests>>
      /\ db' = [db EXCEPT ![n] = new]
    BY DEF SSHFailed, handVars
<1>2. /\ StoreTypeOK /\ hand \in HandStates
      /\ n \in Nodes /\ Known(n) /\ db[n] \in Rows /\ coll.row.lastseen \in Ages
    BY <1>1, CollActs
<1>3. /\ new \in Rows /\ new.settings = db[n].settings
      /\ new.lastseen = db[n].lastseen /\ new.blacklist = coll.row.lastseen
    BY <1>2, UpdatedRow, RowParts
<1>4. /\ db' \in [Nodes -> Rows \cup {NoRow}] /\ db'[n] = new
      /\ \A m \in Nodes : m # n => db'[m] = db[m]
      /\ \A m \in Nodes : Known(m) => Known(m)'
  <2> HIDE DEF n, new
  <2> QED
      BY <1>1, <1>2, <1>3, RowParts DEF StoreTypeOK, Known
<1> HIDE DEF new
<1>5. coll' \in CollStates /\ coll'.pc = "idle"
    BY <1>1, IdleTypes
<1>6. TypeOK'
    BY <1>1, <1>4, <1>5 DEF IInv, TypeOK, StoreTypeOK, CollTypeOK, HandTypeOK
<1>7. CopiesHaveRows'
    BY <1>1, <1>2, <1>4, <1>5, HandCases DEF IInv, CopiesHaveRows, Known
<1>8. HandCopyOlder'
  <2>1. CASE hand.pc = "save" /\ hand.found /\ hand.id = n
    <3>1. /\ db[n].lastseen <= hand.row.lastseen
          /\ db[n].blacklist <= hand.row.blacklist
          /\ coll.row.lastseen <= db[n].blacklist
        BY <2>1, <1>1 DEF IInv, HandCopyOlder, CollCopyFresher
    <3>2. /\ db[n].blacklist \in Ages /\ hand.row.blacklist \in Ages
        BY <2>1, <1>2, RowParts, HandActs
    <3>3. coll.row.lastseen <= hand.row.blacklist
        BY <3>1, <3>2, <1>2 DEF Ages
    <3> QED
        BY <3>1, <3>3, <2>1, <1>1, <1>3, <1>4 DEF HandCopyOlder
  <2>2. CASE hand.pc = "save" /\ hand.found /\ hand.id # n
      BY <2>2, <1>1, <1>4, HandActs DEF IInv, HandCopyOlder
  <2>3. CASE ~(hand.pc = "save" /\ hand.found)
      BY <2>3, <1>1 DEF IInv, HandCopyOlder
  <2> QED
      BY <2>1, <2>2, <2>3
<1> QED
    BY <1>5, <1>6, <1>7, <1>8 DEF IInv, CollCopyFresher, ContactOnlyUnblocked

\* A new row, by InsertNode: nodeHandler may have created one before it, and
\* cannot have found one when there is none.
LEMMA InsertIInv ==
    ASSUME IInv, NEW row \in Rows, coll.pc = "uptime",
           Insert(coll.id, row), coll' \in CollStates,
           UNCHANGED <<shown, device, inbox, handVars>>
    PROVE  /\ TypeOK'
           /\ \A n \in Nodes : Known(n) => db'[n] = db[n]
           /\ db'[coll.id] = IF Known(coll.id) THEN db[coll.id] ELSE row
           /\ hand.pc = "save" /\ hand.found => Known(hand.id)'
           /\ HandCopyOlder'
<1> DEFINE n == coll.id
<1>1. StoreTypeOK /\ n \in Nodes /\ UNCHANGED hand
    BY CollActs DEF handVars
<1>2. /\ db' \in [Nodes -> Rows \cup {NoRow}]
      /\ \A m \in Nodes : Known(m) => db'[m] = db[m]
      /\ db'[n] = IF Known(n) THEN db[n] ELSE row
  <2> HIDE DEF n
  <2>1. Insert(n, row)
      BY DEF n
  <2> QED
      BY <1>1, <2>1 DEF Insert, StoreTypeOK, Known
<1>3. TypeOK'
    BY <1>2 DEF IInv, TypeOK, StoreTypeOK, CollTypeOK, HandTypeOK, handVars
<1>4. hand.pc = "save" /\ hand.found =>
        Known(hand.id) /\ hand.id \in Nodes /\ db'[hand.id] = db[hand.id]
    BY <1>2, HandActs
<1>5. HandCopyOlder'
    BY <1>1, <1>4 DEF IInv, HandCopyOlder
<1> QED
    BY <1>1, <1>2, <1>3, <1>4, <1>5 DEF Known

LEMMA CreateReachableIInv ==
    ASSUME IInv, CreateReachable, UNCHANGED handVars
    PROVE  IInv'
<1>1. /\ coll.pc = "uptime" /\ Insert(coll.id, coll.row) /\ coll' = ToSend
      /\ UNCHANGED <<shown, device, inbox, handVars, hand>>
    BY DEF CreateReachable, handVars
<1>2. coll \in CollBusy /\ coll.row \in Rows /\ coll.id \in Nodes
    BY <1>1, CollActs
<1>3. coll' \in CollStates /\ coll'.pc = "send" /\ coll'.id = coll.id
    BY <1>1, <1>2, NextStates
<1>4. /\ TypeOK' /\ HandCopyOlder'
      /\ db'[coll.id] = IF Known(coll.id) THEN db[coll.id] ELSE coll.row
      /\ hand.pc = "save" /\ hand.found => Known(hand.id)'
    BY <1>1, <1>2, <1>3, InsertIInv
<1>5. db'[coll.id] # NoRow /\ db'[coll.id].blacklist = Never
    BY <1>1, <1>2, <1>4, RowParts DEF IInv, CollCopyFresher, Known
<1>6. CopiesHaveRows' /\ ContactOnlyUnblocked'
    BY <1>1, <1>3, <1>4, <1>5, BlacklistForAssumption
       DEF CopiesHaveRows, ContactOnlyUnblocked, Known, Blocked, Never
<1> QED
    BY <1>3, <1>4, <1>6 DEF IInv, CollCopyFresher

LEMMA CreateUnreachableIInv ==
    ASSUME IInv, CreateUnreachable, UNCHANGED handVars
    PROVE  IInv'
<1> DEFINE row == Block(coll.row, coll.row.lastseen)
<1>1. /\ coll.pc = "uptime" /\ Insert(coll.id, row) /\ coll' = CollIdle
      /\ UNCHANGED <<shown, device, inbox, handVars, hand>>
    BY DEF CreateUnreachable, handVars
<1>2. row \in Rows
    BY <1>1, CollActs, UpdatedRow, RowParts
<1>3. coll' \in CollStates /\ coll'.pc = "idle"
    BY <1>1, IdleTypes
<1> HIDE DEF row
<1>4. /\ TypeOK' /\ HandCopyOlder'
      /\ hand.pc = "save" /\ hand.found => Known(hand.id)'
    BY <1>1, <1>2, <1>3, InsertIInv
<1> QED
    BY <1>1, <1>3, <1>4 DEF IInv, CopiesHaveRows, CollCopyFresher, ContactOnlyUnblocked

LEMMA SendIInv ==
    ASSUME IInv, Send, UNCHANGED handVars
    PROVE  IInv'
<1>1. /\ coll.pc = "send" /\ coll' = CollIdle
      /\ UNCHANGED <<db, device, inbox, hand, requests>>
    BY DEF Send, handVars
<1>2. coll \in CollStates
    BY DEF IInv, TypeOK, CollTypeOK
<1>3. coll.id \in Nodes /\ coll.settings \in Settings
    BY <1>1, <1>2, CollCases
<1>4. coll' \in CollStates /\ coll'.pc = "idle"
    BY <1>1, IdleTypes
<1>5. TypeOK'
    BY <1>1, <1>3, <1>4 DEF Send, SendNode, IInv, TypeOK, StoreTypeOK, CollTypeOK,
                            HandTypeOK
<1> QED
    BY <1>1, <1>4, <1>5 DEF IInv, CopiesHaveRows, HandCopyOlder, CollCopyFresher,
                            ContactOnlyUnblocked, Known

-----------------------------------------------------------------------------
\* nodeHandler reads the row: its copy has exactly the row's stamps.
LEMMA NodeMessageIInv ==
    ASSUME IInv, NodeMessage, UNCHANGED collVars
    PROVE  IInv'
<1> DEFINE m == Head(requests)
           row == IF Known(m.id) THEN Changed(db[m.id], m.settings)
                                 ELSE NewRow(m.settings)
<1>1. m \in NodeMessages /\ Tail(requests) \in Seq(NodeMessages)
    BY HeadTailProperties DEF NodeMessage, IInv, TypeOK, HandTypeOK
<1>2. m.id \in Nodes /\ m.settings \in Settings
    BY <1>1 DEF NodeMessages
<1>3. /\ StoreTypeOK
      /\ UNCHANGED <<db, shown, device, inbox, coll>>
    BY DEF NodeMessage, collVars, IInv, TypeOK
<1>4. CASE Known(m.id)
  <2>1. db[m.id] \in Rows
      BY <1>2, <1>3, <1>4, KnownRow
  <2>2. /\ row \in Rows
        /\ row.lastseen = db[m.id].lastseen /\ row.blacklist = db[m.id].blacklist
      BY <2>1, <1>2, <1>4, UpdatedRow, StampTypes
  <2> QED
    <3>1. hand' = [pc |-> "save", id |-> m.id, found |-> TRUE, row |-> row]
        BY <1>4 DEF NodeMessage, Known
    <3> HIDE DEF row
    <3>2. /\ hand' \in HandSave /\ hand'.pc = "save" /\ hand'.id = m.id
          /\ hand'.row = row /\ hand'.found
        BY <3>1, <2>2, <1>2 DEF HandSave
    <3>3. TypeOK'
        BY <3>2, <1>1, <1>3 DEF NodeMessage, IInv, TypeOK, StoreTypeOK, CollTypeOK,
                                HandTypeOK, HandStates
    <3>4. CopiesHaveRows' /\ CollCopyFresher' /\ ContactOnlyUnblocked'
        BY <3>2, <1>3, <1>4 DEF IInv, CopiesHaveRows, CollCopyFresher,
                                ContactOnlyUnblocked, Known, Blocked
    <3>5. HandCopyOlder'
        BY <3>2, <2>1, <2>2, <1>3, RowParts DEF HandCopyOlder, Ages
    <3> QED
        BY <3>3, <3>4, <3>5 DEF IInv
<1>5. CASE ~Known(m.id)
  <2>1. row \in Rows /\ row.lastseen = Never /\ row.blacklist = Never
      BY <1>2, <1>5, NewRowType
  <2>2. hand' = [pc |-> "save", id |-> m.id, found |-> FALSE, row |-> row]
      BY <1>5 DEF NodeMessage, Known
  <2> HIDE DEF row
  <2>3. /\ hand' \in HandSave /\ hand'.pc = "save"
        /\ hand'.row = row /\ ~hand'.found
      BY <2>1, <2>2, <1>2 DEF HandSave
  <2>4. TypeOK'
      BY <2>3, <1>1, <1>3 DEF NodeMessage, IInv, TypeOK, StoreTypeOK, CollTypeOK,
                              HandTypeOK, HandStates
  <2> QED
      BY <2>1, <2>3, <2>4, <1>3 DEF IInv, CopiesHaveRows, HandCopyOlder,
                              CollCopyFresher, ContactOnlyUnblocked, Known, Blocked
<1> QED
    BY <1>4, <1>5

\* The row becomes nodeHandler's copy; what the collector concluded from its
\* own copy still holds, because the stamps only got older.
LEMMA SaveNodeIInv ==
    ASSUME IInv, SaveNode, UNCHANGED collVars
    PROVE  IInv'
<1> DEFINE n == hand.id
           new == hand.row
<1>1. /\ hand.pc = "save" /\ hand.found /\ hand' = ToTell
      /\ UNCHANGED <<shown, requests, device, inbox, coll>>
      /\ db' = [db EXCEPT ![n] = new]
    BY DEF SaveNode, collVars
<1>2. /\ StoreTypeOK /\ hand \in HandSave /\ coll \in CollStates
      /\ n \in Nodes /\ new \in Rows /\ Known(n) /\ db[n] \in Rows
      /\ new.lastseen \in Ages /\ new.blacklist \in Ages
    BY <1>1, HandActs
<1>3. db[n].lastseen <= new.lastseen /\ db[n].blacklist <= new.blacklist
    BY <1>1 DEF IInv, HandCopyOlder
<1>4. /\ db' \in [Nodes -> Rows \cup {NoRow}] /\ db'[n] = new
      /\ \A m \in Nodes : m # n => db'[m] = db[m]
      /\ \A m \in Nodes : Known(m) => Known(m)'
  <2> HIDE DEF n, new
  <2> QED
      BY <1>1, <1>2, RowParts DEF StoreTypeOK, Known
<1> HIDE DEF new
<1>5. hand' \in HandStates /\ hand'.pc = "tell"
    BY <1>1, <1>2, TellState
<1>6. TypeOK'
    BY <1>1, <1>4, <1>5 DEF IInv, TypeOK, StoreTypeOK, CollTypeOK, HandTypeOK
<1>7. CopiesHaveRows' /\ HandCopyOlder'
    BY <1>1, <1>2, <1>4, <1>5, CollCases DEF IInv, CopiesHaveRows, HandCopyOlder, Known
<1>8. db[n].lastseen \in Ages /\ db[n].blacklist \in Ages
    BY <1>2, RowParts
<1>9. CollCopyFresher'
  <2>1. CASE coll.id # n
      BY <2>1, <1>1, <1>2, <1>4, CollCases
         DEF IInv, CollCopyFresher, Known
  <2>2. CASE coll.id = n
    <3>1. ASSUME coll.pc \in {"touch", "ssh", "uptime"}
          PROVE  coll.row.lastseen \in Ages /\ coll.row.blacklist \in Ages
        BY <3>1, CollActs
    <3>2. ASSUME coll.pc \in {"touch", "ssh"}
          PROVE  /\ coll.row.blacklist <= new.blacklist
                 /\ coll.row.lastseen <= new.blacklist
                 /\ coll.row.lastseen <= new.lastseen
        BY <3>1, <3>2, <2>2, <1>2, <1>3, <1>8 DEF IInv, CollCopyFresher, Ages
    <3>3. ASSUME coll.pc = "uptime"
          PROVE  new.blacklist = Never
        BY <3>3, <2>2, <1>2, <1>3, BlacklistForAssumption
           DEF IInv, CollCopyFresher, Ages, Never
    <3> QED
        BY <3>2, <3>3, <2>2, <1>1, <1>4 DEF IInv, CollCopyFresher
  <2> QED
      BY <2>1, <2>2
<1>10. ContactOnlyUnblocked'
  <2>1. CASE coll.id # n
      BY <2>1, <1>1, <1>2, <1>4, CollCases, CollActs
         DEF IInv, ContactOnlyUnblocked, Known
  <2>2. CASE coll.id = n
      BY <2>2, <1>1, <1>2, <1>3, <1>4, <1>8, RowParts, BlacklistForAssumption
         DEF IInv, ContactOnlyUnblocked, Known, Blocked, Ages, Never
  <2> QED
      BY <2>1, <2>2
<1> QED
    BY <1>6, <1>7, <1>9, <1>10 DEF IInv

\* A row created by nodeHandler has no stamps, so nothing is wrong with it when
\* InsertNode is about to create the same one.
LEMMA CreateNodeIInv ==
    ASSUME IInv, CreateNode, UNCHANGED collVars
    PROVE  IInv'
<1> DEFINE n == hand.id
           new == hand.row
<1>1. /\ hand.pc = "save" /\ ~hand.found /\ ~Known(n) /\ hand' = ToTell
      /\ UNCHANGED <<shown, requests, device, inbox, coll>>
      /\ db' = [db EXCEPT ![n] = new]
    BY DEF CreateNode, collVars
<1>2. /\ StoreTypeOK /\ hand \in HandSave /\ coll \in CollStates
      /\ n \in Nodes /\ new \in Rows
    BY <1>1, HandActs
<1>3. new.blacklist = Never
    BY <1>1 DEF IInv, HandCopyOlder
<1>4. /\ db' \in [Nodes -> Rows \cup {NoRow}] /\ db'[n] = new
      /\ \A m \in Nodes : m # n => db'[m] = db[m]
      /\ \A m \in Nodes : Known(m) => db'[m] = db[m]
  <2> HIDE DEF new
  <2> QED
      BY <1>1, <1>2 DEF StoreTypeOK
<1> HIDE DEF new
<1>5. hand' \in HandStates /\ hand'.pc = "tell"
    BY <1>1, <1>2, TellState
<1>6. TypeOK'
    BY <1>1, <1>4, <1>5 DEF IInv, TypeOK, StoreTypeOK, CollTypeOK, HandTypeOK
<1>7. CopiesHaveRows' /\ HandCopyOlder' /\ ContactOnlyUnblocked'
    BY <1>1, <1>2, <1>4, <1>5, CollCases
       DEF IInv, CopiesHaveRows, HandCopyOlder, ContactOnlyUnblocked, Known
<1>8. CollCopyFresher'
    BY <1>1, <1>2, <1>3, <1>4, CollCases
       DEF IInv, CopiesHaveRows, CollCopyFresher, Known
<1> QED
    BY <1>6, <1>7, <1>8 DEF IInv

LEMMA SaveFailedIInv ==
    ASSUME IInv, SaveFailed, UNCHANGED collVars
    PROVE  IInv'
<1>1. hand' \in HandStates /\ hand'.pc = "idle" /\ UNCHANGED <<db, shown, requests, collVars>>
    BY IdleTypes DEF SaveFailed
<1>2. TypeOK'
    BY <1>1 DEF collVars, IInv, TypeOK, StoreTypeOK, CollTypeOK, HandTypeOK
<1> QED
    BY <1>1, <1>2 DEF collVars, IInv, CopiesHaveRows, HandCopyOlder, CollCopyFresher,
                      ContactOnlyUnblocked, Known

LEMMA TellIInv ==
    ASSUME IInv, Tell, UNCHANGED collVars
    PROVE  IInv'
<1>1. /\ hand.pc = "tell" /\ hand \in HandStates
      /\ hand' \in HandStates /\ hand'.pc = "idle"
      /\ UNCHANGED <<db, requests, collVars>>
    BY IdleTypes DEF Tell, IInv, TypeOK, HandTypeOK
<1>2. hand.id \in Nodes /\ hand.settings \in Settings
    BY <1>1, HandCases
<1>3. TypeOK'
    BY <1>1, <1>2 DEF Tell, SendNode, collVars, IInv, TypeOK, StoreTypeOK, CollTypeOK,
                      HandTypeOK
<1> QED
    BY <1>1, <1>3 DEF collVars, IInv, CopiesHaveRows, HandCopyOlder, CollCopyFresher,
                      ContactOnlyUnblocked, Known

LEMMA EditIInv ==
    ASSUME IInv, NEW n \in Nodes, NEW f \in Fields, NEW v \in Values,
           Edit(n, f, v), UNCHANGED collVars
    PROVE  IInv'
<1>1. GetNode(n) \in Settings
    BY BlankAssumption DEF GetNode, Settings, IInv, TypeOK, StoreTypeOK
<1>2. [id |-> n, settings |-> [GetNode(n) EXCEPT ![f] = v]] \in NodeMessages
    BY <1>1 DEF NodeMessages, Settings
<1>3. requests' \in Seq(NodeMessages)
    BY <1>2, AppendProperties DEF Edit, IInv, TypeOK, HandTypeOK
<1>4. TypeOK'
    BY <1>3 DEF Edit, collVars, IInv, TypeOK, StoreTypeOK, CollTypeOK, HandTypeOK
<1> QED
    BY <1>4 DEF Edit, collVars, IInv, CopiesHaveRows, HandCopyOlder, CollCopyFresher,
                ContactOnlyUnblocked, Known

LEMMA ConnectIInv ==
    ASSUME IInv, NEW store \in {shown, EmptyStore}, Connect(store), UNCHANGED collVars
    PROVE  IInv'
<1>1. store \in [Nodes -> Settings \cup {Hidden}]
    BY DEF EmptyStore, IInv, TypeOK, StoreTypeOK
<1>2. \A n \in Nodes : Known(n) => db[n].settings \in Settings
    BY KnownRow DEF IInv, TypeOK
<1>3. shown' \in [Nodes -> Settings \cup {Hidden}]
    BY <1>1, <1>2 DEF Connect
<1>4. TypeOK'
    BY <1>3 DEF Connect, collVars, IInv, TypeOK, StoreTypeOK, CollTypeOK, HandTypeOK
<1> QED
    BY <1>4 DEF Connect, collVars, IInv, CopiesHaveRows, HandCopyOlder, CollCopyFresher,
                ContactOnlyUnblocked, Known

LEMMA DriftIInv ==
    ASSUME IInv, NEW n \in Nodes, NEW f \in Fields, NEW v \in Values, Drift(n, f, v)
    PROVE  IInv'
<1>1. device' \in [Nodes -> Settings]
    BY DEF Drift, IInv, TypeOK, CollTypeOK, Settings
<1>2. TypeOK'
    BY <1>1 DEF Drift, handVars, IInv, TypeOK, StoreTypeOK, CollTypeOK, HandTypeOK
<1> QED
    BY <1>2 DEF Drift, handVars, IInv, CopiesHaveRows, HandCopyOlder, CollCopyFresher,
                ContactOnlyUnblocked, Known

\* Every process state is lost; the table is as the last write left it.
LEMMA RestartIInv ==
    ASSUME IInv, Restart \/ Panic
    PROVE  IInv'
<1>1. /\ coll' = CollIdle /\ inbox' = <<>> /\ hand' = HandIdle /\ requests' = <<>>
      /\ UNCHANGED <<db, shown>>
    BY DEF Restart, Panic, SSHPanic
<1>2. device' \in [Nodes -> Settings]
  <2>1. CASE UNCHANGED device
      BY <2>1 DEF IInv, TypeOK, CollTypeOK
  <2>2. ASSUME NEW written \in SUBSET Pushed, coll.pc = "ssh", Write(written)
        PROVE  device' \in [Nodes -> Settings]
    <3>1. device \in [Nodes -> Settings] /\ coll.row.settings \in Settings
        BY <2>2, CollActs, RowParts DEF IInv, TypeOK, CollTypeOK
    <3> QED
        BY <2>2, <3>1 DEF Write, Settings
  <2> QED
      BY <2>1, <2>2 DEF Restart, Panic, SSHPanic
<1>3. /\ coll' \in CollStates /\ coll'.pc = "idle"
      /\ hand' \in HandStates /\ hand'.pc = "idle"
    BY <1>1, IdleTypes
<1>4. TypeOK'
    BY <1>1, <1>2, <1>3 DEF IInv, TypeOK, StoreTypeOK, CollTypeOK, HandTypeOK
<1> QED
    BY <1>1, <1>3, <1>4 DEF IInv, CopiesHaveRows, HandCopyOlder, CollCopyFresher,
                            ContactOnlyUnblocked

\* A tick makes rows and copies older alike, so their order stays.
LEMMA TickIInv ==
    ASSUME IInv, Tick
    PROVE  IInv'
<1>t. /\ StoreTypeOK /\ coll \in CollStates /\ hand \in HandStates
      /\ UNCHANGED <<shown, device, inbox, requests>>
    BY DEF Tick, IInv, TypeOK, CollTypeOK, HandTypeOK
<1>1. \A n \in Nodes :
        /\ Known(n) => /\ db[n] \in Rows /\ db'[n] \in Rows /\ db'[n] # NoRow
                       /\ db[n].lastseen \in Ages /\ db[n].blacklist \in Ages
                       /\ db'[n].lastseen = Older(db[n].lastseen)
                       /\ db'[n].blacklist = Older(db[n].blacklist)
        /\ ~Known(n) => db'[n] = NoRow
  <2> SUFFICES ASSUME NEW n \in Nodes
               PROVE  /\ Known(n) => /\ db[n] \in Rows /\ db'[n] \in Rows
                                     /\ db'[n] # NoRow
                                     /\ db[n].lastseen \in Ages
                                     /\ db[n].blacklist \in Ages
                                     /\ db'[n].lastseen = Older(db[n].lastseen)
                                     /\ db'[n].blacklist = Older(db[n].blacklist)
                      /\ ~Known(n) => db'[n] = NoRow
      OBVIOUS
  <2>1. db'[n] = IF Known(n) THEN OlderRow(db[n]) ELSE NoRow
      BY DEF Tick
  <2>2. CASE Known(n)
      BY <2>1, <2>2, <1>t, KnownRow, OlderRowType, RowParts
  <2> QED
      BY <2>1, <2>2
<1>2. db' \in [Nodes -> Rows \cup {NoRow}]
  <2>1. db' = [n \in Nodes |-> db'[n]]
      BY DEF Tick
  <2> QED
      BY <2>1, <1>1
<1>3. \A n \in Nodes : Known(n)' <=> Known(n)
    BY <1>1 DEF Known
<1>c. /\ coll' \in CollStates /\ coll'.pc = coll.pc
      /\ coll.pc # "idle" => coll'.id = coll.id /\ coll.id \in Nodes
      /\ coll.pc \in {"touch", "ssh", "uptime"} =>
           /\ coll.row.lastseen \in Ages /\ coll.row.blacklist \in Ages
           /\ coll'.row.lastseen = Older(coll.row.lastseen)
           /\ coll'.row.blacklist = Older(coll.row.blacklist)
  <2>1. CASE coll.pc \in {"touch", "ssh", "uptime"}
    <3>1. coll \in CollBusy /\ coll.row \in Rows /\ coll.id \in Nodes
        BY <2>1, CollActs
    <3>2. coll' = [coll EXCEPT !.row = OlderRow(coll.row)]
        BY <2>1 DEF Tick
    <3>3. /\ coll' \in CollBusy /\ coll'.pc = coll.pc /\ coll'.id = coll.id
          /\ coll'.row = OlderRow(coll.row)
        BY <3>1, <3>2, OlderRowType DEF CollBusy
    <3> QED
        BY <3>1, <3>3, OlderRowType, RowParts DEF CollStates
  <2>2. CASE coll.pc \notin {"touch", "ssh", "uptime"}
      BY <2>2, <1>t, CollCases DEF Tick
  <2> QED
      BY <2>1, <2>2
<1>h. /\ hand' \in HandStates /\ hand'.pc = hand.pc
      /\ hand.pc = "save" =>
           /\ hand'.id = hand.id /\ hand.id \in Nodes /\ hand'.found = hand.found
           /\ hand.row.lastseen \in Ages /\ hand.row.blacklist \in Ages
           /\ hand'.row.lastseen = Older(hand.row.lastseen)
           /\ hand'.row.blacklist = Older(hand.row.blacklist)
  <2>1. CASE hand.pc = "save"
    <3>1. hand \in HandSave /\ hand.row \in Rows /\ hand.id \in Nodes
        BY <2>1, HandActs
    <3>2. hand' = [hand EXCEPT !.row = OlderRow(hand.row)]
        BY <2>1 DEF Tick
    <3>3. /\ hand' \in HandSave /\ hand'.pc = hand.pc /\ hand'.id = hand.id
          /\ hand'.found = hand.found /\ hand'.row = OlderRow(hand.row)
        BY <3>1, <3>2, OlderRowType DEF HandSave
    <3> QED
        BY <3>1, <3>3, OlderRowType, RowParts DEF HandStates
  <2>2. CASE hand.pc # "save"
      BY <2>2, <1>t DEF Tick
  <2> QED
      BY <2>1, <2>2
<1>4. TypeOK'
    BY <1>t, <1>2, <1>c, <1>h DEF IInv, TypeOK, StoreTypeOK, CollTypeOK, HandTypeOK
<1>5. CopiesHaveRows'
    BY <1>3, <1>c, <1>h DEF IInv, CopiesHaveRows, Known
<1>6. HandCopyOlder'
  <2>1. CASE hand.pc = "save" /\ hand.found
    <3>1. Known(hand.id)
        BY <2>1 DEF IInv, CopiesHaveRows
    <3>2. /\ db[hand.id].lastseen <= hand.row.lastseen
          /\ db[hand.id].blacklist <= hand.row.blacklist
        BY <2>1 DEF IInv, HandCopyOlder
    <3>3. /\ db'[hand.id].lastseen <= hand'.row.lastseen
          /\ db'[hand.id].blacklist <= hand'.row.blacklist
        BY <2>1, <3>1, <3>2, <1>1, <1>h, OlderMonotone
    <3> QED
        BY <2>1, <3>3, <1>h DEF HandCopyOlder
  <2>2. CASE hand.pc = "save" /\ ~hand.found
      BY <2>2, <1>h, OlderNever DEF IInv, HandCopyOlder
  <2>3. CASE hand.pc # "save"
      BY <2>3, <1>h DEF HandCopyOlder
  <2> QED
      BY <2>1, <2>2, <2>3
<1>7. CollCopyFresher'
  <2>1. ASSUME coll.pc \in {"touch", "ssh"}
        PROVE  /\ coll'.row.blacklist <= db'[coll.id].blacklist
               /\ coll'.row.lastseen <= db'[coll.id].blacklist
               /\ coll'.row.lastseen <= db'[coll.id].lastseen
    <3>1. Known(coll.id) /\ coll.id \in Nodes
        BY <2>1, <1>c DEF IInv, CopiesHaveRows
    <3>2. /\ coll.row.blacklist <= db[coll.id].blacklist
          /\ coll.row.lastseen <= db[coll.id].blacklist
          /\ coll.row.lastseen <= db[coll.id].lastseen
        BY <2>1 DEF IInv, CollCopyFresher
    <3> QED
        BY <2>1, <3>1, <3>2, <1>1, <1>c, OlderMonotone
  <2>2. coll.pc = "ssh" => ~Blocked(coll.row)'
      BY <1>c, OlderUnblocks DEF IInv, CollCopyFresher, Blocked
  <2>3. coll.pc = "uptime" => coll'.row.blacklist = Never
      BY <1>c, OlderNever DEF IInv, CollCopyFresher
  <2>4. coll.pc = "uptime" /\ Known(coll.id)' => db'[coll.id].blacklist = Never
      BY <1>c, <1>1, <1>3, OlderNever DEF IInv, CollCopyFresher, Known
  <2> QED
      BY <2>1, <2>2, <2>3, <2>4, <1>c DEF CollCopyFresher, Known
<1>8. ContactOnlyUnblocked'
    BY <1>c, <1>1, <1>3, OlderUnblocks DEF IInv, ContactOnlyUnblocked, Known, Blocked
<1> QED
    BY <1>4, <1>5, <1>6, <1>7, <1>8 DEF IInv

-----------------------------------------------------------------------------
\* The invariant is inductive.
LEMMA StepIInv == IInv /\ [Next]_vars => IInv'
<1> SUFFICES ASSUME IInv, [Next]_vars PROVE IInv'
    OBVIOUS
<1>1. CASE UNCHANGED vars
    BY <1>1 DEF vars, IInv, TypeOK, StoreTypeOK, CollTypeOK, HandTypeOK, CopiesHaveRows,
                HandCopyOlder, CollCopyFresher, ContactOnlyUnblocked, Known, Blocked
<1>2. CASE Next
    BY <1>2, NextCases, ReportIInv, InsertNodeIInv, TouchIInv, SSHUpdateIInv,
       SSHFailedIInv, CreateReachableIInv, CreateUnreachableIInv, SendIInv,
       NodeMessageIInv, SaveNodeIInv, CreateNodeIInv, SaveFailedIInv, TellIInv,
       TickIInv, EditIInv, ConnectIInv, DriftIInv, RestartIInv
<1> QED
    BY <1>1, <1>2

\* The copies the two goroutines hold stay tied to the rows they were read from,
\* whatever is saved over them meanwhile.
THEOREM SpecIInv == Spec => []IInv
BY InitIInv, StepIInv, PTL DEF Spec

\* Every variable stays in its type, whatever the two goroutines, the clock and
\* restarts do.
THEOREM TypeCorrect == Spec => []TypeOK
<1>1. IInv => TypeOK
    BY DEF IInv
<1> QED
    BY <1>1, SpecIInv, PTL

\* A node is contacted by InsertNode and broadcast only while it is not blocked
\* in the table: TimeFilter on the copy is as good as on the row.
THEOREM OnlyUnblockedContacted == Spec => []ContactOnlyUnblocked
<1>1. IInv => ContactOnlyUnblocked
    BY DEF IInv
<1> QED
    BY <1>1, SpecIInv, PTL

-----------------------------------------------------------------------------
\* All that can happen to a row.
RowSame(n)    == db'[n] = db[n]
RowAges(n)    == /\ db'[n].settings = db[n].settings
                 /\ ~(db'[n].lastseen < db[n].lastseen)
                 /\ ~(db'[n].blacklist < db[n].blacklist)
RowTouched(n) == /\ coll.pc = "touch" /\ coll.id = n
                 /\ db'[n].settings = db[n].settings
                 /\ db'[n].blacklist = db[n].blacklist
RowBlocked(n) == /\ coll.pc = "ssh" /\ coll.id = n
                 /\ db'[n].settings = db[n].settings
                 /\ db'[n].lastseen = db[n].lastseen
RowSaved(n)   == /\ hand.pc = "save" /\ hand.id = n
                 /\ db'[n] = hand.row
                 /\ ~(db'[n].lastseen < db[n].lastseen)
                 /\ ~(db'[n].blacklist < db[n].blacklist)

LEMMA RowSteps ==
    ASSUME IInv, [Next]_vars, NEW n \in Nodes, Known(n)
    PROVE  /\ Known(n)'
           /\ RowSame(n) \/ RowAges(n) \/ RowTouched(n) \/ RowBlocked(n) \/ RowSaved(n)
<1>t. StoreTypeOK /\ db[n] \in Rows
    BY KnownRow DEF IInv, TypeOK
<1>0. CASE UNCHANGED db
    BY <1>0 DEF Known, RowSame
<1>1. CASE Touch
  <2>1. coll.pc = "touch" /\ db' = [db EXCEPT ![coll.id] = Seen(@, coll.row.lastseen)]
      BY <1>1 DEF Touch
  <2>2. coll.id \in Nodes /\ coll.row.lastseen \in Ages
      BY <2>1, CollActs
  <2>3. db'[n] = IF n = coll.id THEN Seen(db[n], coll.row.lastseen) ELSE db[n]
      BY <2>1, <2>2, <1>t DEF StoreTypeOK
  <2> QED
      BY <2>1, <2>2, <2>3, <1>t, UpdatedRow, RowParts DEF Known, RowSame, RowTouched
<1>2. CASE SSHFailed
  <2>1. coll.pc = "ssh" /\ db' = [db EXCEPT ![coll.id] = Block(@, coll.row.lastseen)]
      BY <1>2 DEF SSHFailed
  <2>2. coll.id \in Nodes /\ coll.row.lastseen \in Ages
      BY <2>1, CollActs
  <2>3. db'[n] = IF n = coll.id THEN Block(db[n], coll.row.lastseen) ELSE db[n]
      BY <2>1, <2>2, <1>t DEF StoreTypeOK
  <2> QED
      BY <2>1, <2>2, <2>3, <1>t, UpdatedRow, RowParts DEF Known, RowSame, RowBlocked
<1>3. CASE CreateReachable \/ CreateUnreachable
  <2>1. db'[n] = db[n]
      BY <1>3, <1>t DEF CreateReachable, CreateUnreachable, Insert, StoreTypeOK, Known
  <2> QED
      BY <2>1 DEF Known, RowSame
<1>4. CASE SaveNode
  <2>1. /\ hand.pc = "save" /\ hand.found /\ hand.id \in Nodes /\ hand.row \in Rows
        /\ db' = [db EXCEPT ![hand.id] = hand.row]
      BY <1>4, HandActs DEF SaveNode
  <2>2. db'[n] = IF n = hand.id THEN hand.row ELSE db[n]
      BY <2>1, <1>t DEF StoreTypeOK
  <2>3. n = hand.id => /\ ~(hand.row.lastseen < db[n].lastseen)
                       /\ ~(hand.row.blacklist < db[n].blacklist)
    <3>1. n = hand.id => /\ db[n].lastseen <= hand.row.lastseen
                         /\ db[n].blacklist <= hand.row.blacklist
        BY <2>1 DEF IInv, HandCopyOlder
    <3>2. /\ db[n].lastseen \in Ages /\ db[n].blacklist \in Ages
          /\ hand.row.lastseen \in Ages /\ hand.row.blacklist \in Ages
        BY <2>1, <1>t, RowParts
    <3> QED
        BY <3>1, <3>2 DEF Ages
  <2> QED
      BY <2>1, <2>2, <2>3, RowParts DEF Known, RowSame, RowSaved
<1>5. CASE CreateNode
  <2>1. hand.id \in Nodes /\ ~Known(hand.id) /\ db' = [db EXCEPT ![hand.id] = hand.row]
      BY <1>5, HandActs DEF CreateNode
  <2>2. db'[n] = db[n]
      BY <2>1, <1>t DEF StoreTypeOK, Known
  <2> QED
      BY <2>2 DEF Known, RowSame
<1>6. CASE Tick
  <2>1. db'[n] = OlderRow(db[n])
      BY <1>6 DEF Tick
  <2>2. /\ db'[n].settings = db[n].settings
        /\ db'[n].lastseen = Older(db[n].lastseen)
        /\ db'[n].blacklist = Older(db[n].blacklist)
        /\ db'[n] # NoRow
      BY <2>1, <1>t, OlderRowType, RowParts
  <2>3. /\ db[n].lastseen \in Ages /\ Older(db[n].lastseen) \in Ages
        /\ db[n].lastseen <= Older(db[n].lastseen)
        /\ db[n].blacklist \in Ages /\ Older(db[n].blacklist) \in Ages
        /\ db[n].blacklist <= Older(db[n].blacklist)
      BY <1>t, RowParts, OlderType
  <2> QED
      BY <2>2, <2>3 DEF Known, RowAges, Ages
<1>7. \/ UNCHANGED db \/ Touch \/ SSHFailed \/ CreateReachable \/ CreateUnreachable
      \/ SaveNode \/ CreateNode \/ Tick
  <2>1. CASE UNCHANGED vars
      BY <2>1 DEF vars
  <2>2. CASE Next
      BY <2>2, NextCases DEF Report, InsertNode, SSHUpdate, Send, NodeMessage,
         SaveFailed, Tell, Edit, Connect, Drift, Panic, Restart
  <2> QED
      BY <2>1, <2>2
<1> QED
    BY <1>0, <1>1, <1>2, <1>3, <1>4, <1>5, <1>6, <1>7

\* Stored settings are those of the last edit that was saved: nothing InsertNode
\* does with its old copy of a row changes them, and no row is lost.
THEOREM OnlyEditsChangeSettings == Spec => SettingsOnlyByEdit
<1>1. ASSUME IInv, [Next]_vars, NEW n \in Nodes, Known(n)
      PROVE  /\ Known(n)'
             /\ db'[n].settings # db[n].settings =>
                  /\ hand.pc = "save" /\ hand.id = n
                  /\ db'[n].settings = hand.row.settings
    BY <1>1, RowSteps DEF RowSame, RowAges, RowTouched, RowBlocked, RowSaved
<1>2. IInv /\ [Next]_vars =>
        [\A n \in Nodes : Known(n) =>
           /\ Known(n)'
           /\ db'[n].settings # db[n].settings =>
                /\ hand.pc = "save" /\ hand.id = n
                /\ db'[n].settings = hand.row.settings]_vars
    BY <1>1
<1> QED
    BY <1>2, SpecIInv, PTL DEF Spec, SettingsOnlyByEdit

\* An edit never refreshes a stamp, although it writes both from an old copy.
THEOREM OnlyCollectorFreshens == Spec => FresherOnlyByCollector
<1>1. ASSUME IInv, [Next]_vars, NEW n \in Nodes, Known(n)
      PROVE  /\ db'[n].lastseen < db[n].lastseen => coll.pc = "touch" /\ coll.id = n
             /\ db'[n].blacklist < db[n].blacklist => coll.pc = "ssh" /\ coll.id = n
  <2>1. ~(db[n].lastseen < db[n].lastseen) /\ ~(db[n].blacklist < db[n].blacklist)
      BY <1>1, KnownRow DEF IInv, TypeOK, Ages
  <2> QED
      BY <1>1, <2>1, RowSteps DEF RowSame, RowAges, RowTouched, RowBlocked, RowSaved
<1>2. IInv /\ [Next]_vars =>
        [\A n \in Nodes : Known(n) =>
           /\ db'[n].lastseen < db[n].lastseen => coll.pc = "touch" /\ coll.id = n
           /\ db'[n].blacklist < db[n].blacklist => coll.pc = "ssh" /\ coll.id = n]_vars
    BY <1>1
<1> QED
    BY <1>2, SpecIInv, PTL DEF Spec, FresherOnlyByCollector
=============================================================================
