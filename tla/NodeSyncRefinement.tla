------------------------- MODULE NodeSyncRefinement -------------------------
(***************************************************************************)
(* NodeSync implements DesiredState: every step of the manager is a step   *)
(* on wanted and actual configurations, or none.                           *)
(***************************************************************************)
EXTENDS NodeSyncProofs

dsVars == <<Wanted, device, Asked, Plan>>

\* A value that is there is not NoRow.
LEMMA Something ==
    /\ \A row \in Rows : row.settings # NoRow
    /\ \A n \in Nodes, s \in Settings : [id |-> n, settings |-> s] # NoRow
BY RowParts, NoRowAssumption DEF NodeMessages

\* Wanted depends on the rows' settings only.
LEMMA WantedSame ==
    ASSUME \A n \in Nodes : Known(n)' <=> Known(n),
           \A n \in Nodes : Known(n) => db'[n].settings = db[n].settings
    PROVE  Wanted' = Wanted
BY DEF Wanted, Known

\* One more node has a row, or one row has other settings.
LEMMA WantedNew ==
    ASSUME StoreTypeOK, NEW n \in Nodes, NEW new \in Rows, db' = [db EXCEPT ![n] = new]
    PROVE  Wanted' = [Wanted EXCEPT ![n] = new.settings]
<1>1. \A m \in Nodes : db'[m] = IF m = n THEN new ELSE db[m]
    BY DEF StoreTypeOK
<1>2. new # NoRow
    BY RowParts
<1>3. \A m \in Nodes : Wanted'[m] = IF m = n THEN new.settings ELSE Wanted[m]
    BY <1>1, <1>2 DEF Wanted, Known
<1>4. Wanted' = [m \in Nodes |-> Wanted'[m]] /\ Wanted = [m \in Nodes |-> Wanted[m]]
    BY DEF Wanted
<1> QED
    BY <1>3, <1>4

LEMMA InitRefines == Init => Desired!Init
<1> SUFFICES ASSUME Init PROVE Desired!Init
    OBVIOUS
<1>1. Wanted = [n \in Nodes |-> NoRow]
    BY DEF Init, StoreInit, Wanted, Known
<1>2. Asked = NoRow /\ Plan = NoRow
    BY IdleTypes DEF Init, CollInit, HandInit, Asked, Plan
<1> QED
    BY <1>1, <1>2 DEF Init, CollInit, Desired!Init, Desired!Settings, Settings

\* The collector's steps on a row it has a copy of.
LEMMA TouchRefines ==
    ASSUME IInv, Touch, UNCHANGED handVars
    PROVE  Desired!Drop(FALSE) \/ UNCHANGED dsVars
<1>1. /\ coll.pc = "touch" /\ coll \in CollBusy /\ coll.id \in Nodes
      /\ coll.row \in Rows /\ db[coll.id] \in Rows /\ coll.row.lastseen \in Ages
      /\ StoreTypeOK /\ Known(coll.id)
    BY CollActs DEF Touch
<1>2. \A n \in Nodes :
        db'[n] = IF n = coll.id THEN Seen(db[coll.id], coll.row.lastseen) ELSE db[n]
    BY <1>1 DEF Touch, StoreTypeOK
<1>n. /\ Seen(db[coll.id], coll.row.lastseen) # NoRow
      /\ Seen(db[coll.id], coll.row.lastseen).settings = db[coll.id].settings
    BY <1>1, UpdatedRow, RowParts
<1>3. \A n \in Nodes : /\ (db'[n] # NoRow) <=> Known(n)
                       /\ Known(n) => db'[n].settings = db[n].settings
    BY <1>1, <1>2, <1>n DEF Known
<1>4. Wanted' = Wanted
    BY <1>3, WantedSame DEF Known
<1>5. Asked' = Asked /\ device' = device
    BY DEF Touch, handVars, Asked
<1>6. \/ coll'.pc \in {"idle", "send"}
      \/ coll'.pc = "ssh" /\ coll'.id = coll.id /\ coll'.row = coll.row
    BY <1>1, NextStates, IdleTypes DEF Touch
<1>7. Plan' = NoRow \/ Plan' = Plan
    BY <1>1, <1>6 DEF Plan
<1> QED
    BY <1>4, <1>5, <1>7 DEF dsVars, Desired!Drop

LEMMA SSHUpdateRefines ==
    ASSUME IInv, NEW written \in SUBSET Pushed, SSHUpdate(written), UNCHANGED handVars
    PROVE  Desired!Push(written, FALSE)
<1>1. /\ coll.pc = "ssh" /\ coll \in CollBusy /\ coll.id \in Nodes /\ coll.row \in Rows
    BY CollActs DEF SSHUpdate
<1>2. Plan = [id |-> coll.id, settings |-> coll.row.settings] /\ Plan # NoRow
    BY <1>1, Something, RowParts DEF Plan
<1>3. coll'.pc = "send"
    BY <1>1, NextStates DEF SSHUpdate
<1>4. Plan' = NoRow /\ Wanted' = Wanted /\ Asked' = Asked
    BY <1>3 DEF Plan, Wanted, Known, Asked, SSHUpdate, handVars
<1> QED
    BY <1>2, <1>4 DEF SSHUpdate, Write, Desired!Push

LEMMA SSHFailedRefines ==
    ASSUME IInv, SSHFailed, UNCHANGED handVars
    PROVE  Desired!Drop(FALSE)
<1>1. /\ coll.pc = "ssh" /\ coll.id \in Nodes /\ db[coll.id] \in Rows
      /\ coll.row.lastseen \in Ages /\ StoreTypeOK /\ Known(coll.id)
    BY CollActs DEF SSHFailed
<1>2. \A n \in Nodes :
        db'[n] = IF n = coll.id THEN Block(db[coll.id], coll.row.lastseen) ELSE db[n]
    BY <1>1 DEF SSHFailed, StoreTypeOK
<1>n. /\ Block(db[coll.id], coll.row.lastseen) # NoRow
      /\ Block(db[coll.id], coll.row.lastseen).settings = db[coll.id].settings
    BY <1>1, UpdatedRow, RowParts
<1>3. \A n \in Nodes : /\ (db'[n] # NoRow) <=> Known(n)
                       /\ Known(n) => db'[n].settings = db[n].settings
    BY <1>1, <1>2, <1>n DEF Known
<1>4. Wanted' = Wanted
    BY <1>3, WantedSame DEF Known
<1>5. Asked' = Asked /\ device' = device /\ Plan' = NoRow
    BY IdleTypes DEF SSHFailed, handVars, Asked, Plan
<1> QED
    BY <1>4, <1>5 DEF Desired!Drop

\* A found node is adopted, unless nodeHandler was faster.
LEMMA CreateRefines ==
    ASSUME IInv, CreateReachable \/ CreateUnreachable, UNCHANGED handVars
    PROVE  UNCHANGED dsVars \/ \E n \in Nodes, s \in Settings : Desired!Adopt(n, s)
<1> DEFINE n == coll.id
           s == coll.row.settings
<1>1. /\ coll.pc = "uptime" /\ coll \in CollBusy /\ n \in Nodes
      /\ coll.row \in Rows /\ s \in Settings /\ coll.row.lastseen \in Ages /\ StoreTypeOK
    BY CollActs, RowParts DEF CreateReachable, CreateUnreachable
<1>2. /\ coll'.pc \in {"idle", "send"} /\ UNCHANGED <<device, hand>>
    BY <1>1, NextStates, IdleTypes DEF CreateReachable, CreateUnreachable, handVars
<1>3. Plan' = Plan /\ Asked' = Asked
    BY <1>1, <1>2 DEF Plan, Asked
<1>4. CASE Known(n)
    BY <1>2, <1>3, <1>4 DEF CreateReachable, CreateUnreachable, Insert, dsVars, Wanted,
                            Known
<1>5. CASE ~Known(n)
  <2>1. PICK new \in Rows : new.settings = s /\ db' = [db EXCEPT ![n] = new]
      BY <1>1, <1>5, UpdatedRow DEF CreateReachable, CreateUnreachable, Insert
  <2>2. Wanted' = [Wanted EXCEPT ![n] = s]
      BY <2>1, <1>1, WantedNew
  <2>3. Wanted[n] = NoRow
      BY <1>1, <1>5 DEF Wanted
  <2>4. Desired!Adopt(n, s)
      BY <2>2, <2>3, <1>2, <1>3 DEF Desired!Adopt
  <2> QED
      BY <2>4, <1>1
<1> QED
    BY <1>4, <1>5

LEMMA InsertNodeRefines ==
    ASSUME IInv, InsertNode, UNCHANGED handVars
    PROVE  UNCHANGED dsVars \/ \E n \in Nodes : Desired!Look(n)
<1> DEFINE r == Head(inbox)
<1>0. r \in NodeMessages
    BY HeadTailProperties DEF InsertNode, IInv, TypeOK, CollTypeOK
<1>1. r.id \in Nodes /\ StoreTypeOK
    BY <1>0 DEF NodeMessages, IInv, TypeOK
<1>2. Wanted' = Wanted /\ device' = device /\ Asked' = Asked /\ Plan = NoRow
    BY IdleTypes DEF InsertNode, handVars, Wanted, Known, Asked, Plan
<1>3. CASE Known(r.id)
  <2>1. db[r.id] \in Rows /\ Wanted[r.id] = db[r.id].settings
      BY <1>1, <1>3, KnownRow DEF Wanted
  <2>2. /\ coll'.pc = "touch" /\ coll'.id = r.id
        /\ coll'.row = Seen(db[r.id], 0)
      BY <1>3 DEF InsertNode
  <2>3. Plan' = [id |-> r.id, settings |-> Wanted[r.id]]
      BY <2>1, <2>2, UpdatedRow, StampTypes, RowParts DEF Plan
  <2>4. Desired!Look(r.id)
      BY <2>1, <2>3, <1>2, Something DEF Desired!Look
  <2> QED
      BY <2>4, <1>1
<1>4. CASE ~Known(r.id)
  <2>1. coll'.pc = "uptime"
      BY <1>4 DEF InsertNode
  <2> QED
      BY <2>1, <1>2 DEF dsVars, Plan
<1> QED
    BY <1>3, <1>4

\* The handler's steps.
LEMMA NodeMessageRefines ==
    ASSUME IInv, NodeMessage, UNCHANGED collVars
    PROVE  \E n \in Nodes, s \in Settings : Desired!Ask(n, s)
<1> DEFINE m == Head(requests)
<1>0. m \in NodeMessages
    BY HeadTailProperties DEF NodeMessage, IInv, TypeOK, HandTypeOK
<1>1. m.id \in Nodes /\ m.settings \in Settings /\ StoreTypeOK
    BY <1>0 DEF NodeMessages, IInv, TypeOK
<1>2. Wanted' = Wanted /\ device' = device /\ Plan' = Plan /\ Asked = NoRow
    BY IdleTypes DEF NodeMessage, collVars, Wanted, Known, Asked, Plan
<1>3. /\ hand'.pc = "save" /\ hand'.id = m.id
      /\ hand'.row = IF Known(m.id) THEN Changed(db[m.id], m.settings)
                                    ELSE NewRow(m.settings)
    BY DEF NodeMessage
<1>4. hand'.row.settings = m.settings
    BY <1>1, <1>3, KnownRow, UpdatedRow, NewRowType, StampTypes
<1>5. Asked' = [id |-> m.id, settings |-> m.settings]
    BY <1>3, <1>4 DEF Asked
<1> QED
    BY <1>1, <1>2, <1>5 DEF Desired!Ask

LEMMA SaveRefines ==
    ASSUME IInv, SaveNode \/ CreateNode, UNCHANGED collVars
    PROVE  Desired!Accept
<1>1. /\ hand.pc = "save" /\ hand \in HandSave /\ hand.id \in Nodes /\ hand.row \in Rows
      /\ StoreTypeOK /\ db' = [db EXCEPT ![hand.id] = hand.row] /\ hand' = ToTell
    BY HandActs DEF SaveNode, CreateNode
<1>2. Asked = [id |-> hand.id, settings |-> hand.row.settings] /\ Asked # NoRow
    BY <1>1, Something, RowParts DEF Asked
<1>3. Asked' = NoRow
    BY <1>1, TellState DEF Asked
<1>4. Wanted' = [Wanted EXCEPT ![hand.id] = hand.row.settings]
    BY <1>1, WantedNew
<1>5. device' = device /\ Plan' = Plan
    BY DEF collVars, Plan
<1> QED
    BY <1>2, <1>3, <1>4, <1>5 DEF Desired!Accept

LEMMA SaveFailedRefines ==
    ASSUME SaveFailed, UNCHANGED collVars
    PROVE  Desired!Reject
BY IdleTypes DEF SaveFailed, collVars, Asked, Plan, Wanted, Known, Desired!Reject

\* A tick changes no setting, in a row or in a copy.
LEMMA TickRefines ==
    ASSUME IInv, Tick
    PROVE  UNCHANGED dsVars
<1>1. \A n \in Nodes : /\ (db'[n] # NoRow) <=> Known(n)
                       /\ Known(n) => db'[n].settings = db[n].settings
    BY KnownRow, OlderRowType, RowParts DEF IInv, TypeOK, Tick, Known
<1>2. Wanted' = Wanted
    BY <1>1, WantedSame DEF Known
<1>3. Asked' = Asked
  <2>1. CASE hand.pc = "save"
    <3>1. hand \in HandSave /\ hand.row \in Rows /\ hand' = [hand EXCEPT !.row = OlderRow(hand.row)]
        BY <2>1, HandActs DEF Tick
    <3>2. hand'.pc = "save" /\ hand'.id = hand.id /\ hand'.row = OlderRow(hand.row)
        BY <2>1, <3>1 DEF HandSave
    <3> QED
        BY <2>1, <3>1, <3>2, OlderRowType DEF Asked
  <2>2. CASE hand.pc # "save"
      BY <2>2 DEF Tick, Asked
  <2> QED
      BY <2>1, <2>2
<1>4. Plan' = Plan
  <2>1. CASE coll.pc \in {"touch", "ssh", "uptime"}
    <3>1. /\ coll \in CollBusy /\ coll.row \in Rows
          /\ coll' = [coll EXCEPT !.row = OlderRow(coll.row)]
        BY <2>1, CollActs DEF Tick
    <3>2. coll'.pc = coll.pc /\ coll'.id = coll.id /\ coll'.row = OlderRow(coll.row)
        BY <3>1 DEF CollBusy
    <3> QED
        BY <3>1, <3>2, OlderRowType DEF Plan
  <2>2. CASE coll.pc \notin {"touch", "ssh", "uptime"}
      BY <2>2 DEF Tick, Plan
  <2> QED
      BY <2>1, <2>2
<1> QED
    BY <1>2, <1>3, <1>4 DEF Tick, dsVars

\* The process ends with what it was doing; a panic may have carried out a part
\* of the plan.
LEMMA RestartRefines ==
    ASSUME IInv, Restart \/ Panic
    PROVE  Desired!Drop(TRUE) \/ \E written \in SUBSET Pushed : Desired!Push(written, TRUE)
<1>1. /\ Plan' = NoRow /\ Asked' = NoRow /\ Wanted' = Wanted
    BY IdleTypes DEF Restart, Panic, SSHPanic, Plan, Asked, Wanted, Known
<1>2. CASE UNCHANGED device
    BY <1>1, <1>2 DEF Desired!Drop
<1>3. ASSUME NEW written \in SUBSET Pushed, coll.pc = "ssh", Write(written)
      PROVE  Desired!Push(written, TRUE)
  <2>1. coll \in CollBusy /\ coll.id \in Nodes /\ coll.row \in Rows
      BY <1>3, CollActs
  <2>2. Plan = [id |-> coll.id, settings |-> coll.row.settings] /\ Plan # NoRow
      BY <1>3, <2>1, Something, RowParts DEF Plan
  <2> QED
      BY <1>1, <1>3, <2>2 DEF Write, Desired!Push
<1> QED
    BY <1>2, <1>3 DEF Restart, Panic, SSHPanic

\* Somebody changes a node.
LEMMA DriftRefines ==
    ASSUME IInv, NEW n \in Nodes, NEW f \in Fields, NEW v \in Values, Drift(n, f, v)
    PROVE  \E s \in Settings : Desired!Change(n, s)
<1>1. [device[n] EXCEPT ![f] = v] \in Settings
    BY DEF IInv, TypeOK, CollTypeOK, Settings
<1>2. Wanted' = Wanted /\ Asked' = Asked /\ Plan' = Plan
    BY DEF Drift, handVars, Wanted, Known, Asked, Plan
<1>3. device' = [device EXCEPT ![n] = [device[n] EXCEPT ![f] = v]]
    BY DEF Drift
<1> QED
    BY <1>1, <1>2, <1>3 DEF Desired!Change

\* Queues and browsers are no part of DesiredState.
LEMMA HiddenSteps ==
    ASSUME IInv,
           \/ \E n \in Nodes : Report(n) /\ UNCHANGED handVars
           \/ Send /\ UNCHANGED handVars
           \/ Tell /\ UNCHANGED collVars
           \/ \E n \in Nodes, f \in Fields, v \in Values :
                Edit(n, f, v) /\ UNCHANGED collVars
           \/ \E store \in {shown, EmptyStore} : Connect(store) /\ UNCHANGED collVars
           \/ UNCHANGED vars
    PROVE  UNCHANGED dsVars
<1>1. UNCHANGED <<db, device>>
    BY DEF Report, Send, Tell, Edit, Connect, handVars, collVars, vars
<1>2. Plan' = Plan
    BY IdleTypes DEF Report, Send, Tell, Edit, Connect, handVars, collVars, vars, Plan
<1>3. Asked' = Asked
    BY IdleTypes DEF Report, Send, Tell, Edit, Connect, handVars, collVars, vars, Asked
<1> QED
    BY <1>1, <1>2, <1>3 DEF dsVars, Wanted, Known

LEMMA StepRefines == IInv /\ [Next]_vars => [Desired!Next]_dsVars
<1> SUFFICES ASSUME IInv, [Next]_vars PROVE [Desired!Next]_dsVars
    OBVIOUS
<1>1. CASE UNCHANGED vars
    BY <1>1, HiddenSteps
<1>2. CASE Next
  <2> USE DEF Desired!Next, Desired!Settings, Settings
  <2>1. CASE \E n \in Nodes : Report(n) /\ UNCHANGED handVars
      BY <2>1, HiddenSteps
  <2>2. CASE InsertNode /\ UNCHANGED handVars
      BY <2>2, InsertNodeRefines
  <2>3. CASE (Touch \/ SSHFailed) /\ UNCHANGED handVars
      BY <2>3, TouchRefines, SSHFailedRefines
  <2>4. CASE \E written \in SUBSET Pushed : SSHUpdate(written) /\ UNCHANGED handVars
      BY <2>4, SSHUpdateRefines
  <2>5. CASE (CreateReachable \/ CreateUnreachable) /\ UNCHANGED handVars
      BY <2>5, CreateRefines
  <2>6. CASE (Send /\ UNCHANGED handVars) \/ (Tell /\ UNCHANGED collVars)
      BY <2>6, HiddenSteps
  <2>7. CASE NodeMessage /\ UNCHANGED collVars
      BY <2>7, NodeMessageRefines
  <2>8. CASE (SaveNode \/ CreateNode \/ SaveFailed) /\ UNCHANGED collVars
      BY <2>8, SaveRefines, SaveFailedRefines
  <2>9. CASE Tick
      BY <2>9, TickRefines
  <2>10. CASE \E n \in Nodes, f \in Fields, v \in Values :
                Edit(n, f, v) /\ UNCHANGED collVars
      BY <2>10, HiddenSteps
  <2>11. CASE \E store \in {shown, EmptyStore} : Connect(store) /\ UNCHANGED collVars
      BY <2>11, HiddenSteps
  <2>12. CASE \E n \in Nodes, f \in Fields, v \in Values : Drift(n, f, v)
      BY <2>12, DriftRefines
  <2>13. CASE Restart \/ Panic
      BY <2>13, RestartRefines
  <2> QED
      BY <1>2, NextCases, <2>1, <2>2, <2>3, <2>4, <2>5, <2>6, <2>7, <2>8, <2>9, <2>10,
         <2>11, <2>12, <2>13
<1> QED
    BY <1>1, <1>2

\* The manager keeps one wanted configuration per node, changes it only as asked
\* or by adopting a node, and brings to a node only what was wanted for it.
THEOREM Refinement == Spec => KeepsDesiredState
BY InitRefines, StepRefines, SpecIInv, PTL DEF Spec, KeepsDesiredState, Desired!Spec,
   Desired!dsVars, dsVars
=============================================================================
