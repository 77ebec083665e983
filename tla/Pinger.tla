------------------------------- MODULE Pinger -------------------------------
(***************************************************************************)
(* The pinger: every so often it reads all rows, pings each node from a    *)
(* goroutine of its own, waits for all of them and broadcasts who has      *)
(* answered.  Meanwhile the collector and the websocket handlers create    *)
(* rows.  Nothing deletes one.                                             *)
(***************************************************************************)
EXTENDS Integers, FiniteSets

CONSTANTS
    Nodes   \* the nodes there can be rows for

ASSUME NodesAssumption == IsFiniteSet(Nodes)

VARIABLES
    rows,      \* nodes with a row in the table
    pc,        \* where run is; "timer" between two rounds, "down" after a crash
    found,     \* the rows read: the local variable nodes
    count,     \* the rows counted
    wg,        \* the counter of the WaitGroup
    routine,   \* where the goroutine of a node is
    answer,    \* whether the node of a goroutine has answered
    read,      \* the slice a goroutine in append has read, as a set
    result     \* the result, in two sets

vars == <<rows, pc, found, count, wg, routine, answer, read, result>>
round == <<pc, found, count>>

Routines == {"none", "filter", "ping", "append", "appending", "done"}
NoResult == [r \in BOOLEAN |-> {}]

TypeOK ==
    /\ rows \subseteq Nodes
    /\ pc \in {"timer", "count", "wait", "down"}
    /\ found \subseteq Nodes
    /\ count \in Nat
    /\ wg \in Nat
    /\ routine \in [Nodes -> Routines]
    /\ answer \in [Nodes -> BOOLEAN]
    /\ read \in [Nodes -> SUBSET Nodes]
    /\ result \in [BOOLEAN -> SUBSET Nodes]

Init ==
    /\ rows \in SUBSET Nodes
    /\ pc = "timer"
    /\ found = {} /\ count = 0 /\ wg = 0
    /\ routine = [n \in Nodes |-> "none"]
    /\ answer = [n \in Nodes |-> FALSE]
    /\ read = [n \in Nodes |-> {}]
    /\ result = NoResult

-----------------------------------------------------------------------------
\* The collector or a handler creates the row of a node.
Create(n) ==
    /\ n \notin rows
    /\ rows' = rows \cup {n}
    /\ UNCHANGED <<pc, found, count, wg, routine, answer, read, result>>

\* A result that is kept from round to round.
FindAndKeep ==
    /\ pc = "timer"
    /\ pc' = "count"
    /\ found' = rows
    /\ UNCHANGED <<rows, count, wg, routine, answer, read, result>>

\* The timer fires.  The first query of the line reads the rows.
Find ==
    /\ pc = "timer"
    /\ pc' = "count"
    /\ found' = rows
    /\ result' = NoResult
    /\ UNCHANGED <<rows, count, wg, routine, answer, read>>

Started(nodes) == [n \in Nodes |-> IF n \in nodes THEN "filter" ELSE "none"]

\* The rows counted before they are read, as in db.Count(&count).Find(&nodes).
CountThenFind ==
    /\ pc = "count"
    /\ pc' = "wait"
    /\ count' = Cardinality(found)
    /\ found' = rows
    /\ wg' = count'
    /\ routine' = Started(rows)
    /\ UNCHANGED <<rows, answer, read, result>>

\* The second query counts the rows; wg.Add(count), and the goroutines start.
Count ==
    /\ pc = "count"
    /\ pc' = "wait"
    /\ count' = Cardinality(rows)
    /\ wg' = count'
    /\ routine' = Started(found)
    /\ UNCHANGED <<rows, found, answer, read, result>>

\* wg.Done at the end of a goroutine.
Return(n) ==
    /\ routine' = [routine EXCEPT ![n] = "done"]
    /\ wg' = wg - 1

\* A return before the deferred wg.Done.
SkipUndone(n) ==
    /\ routine[n] = "filter"
    /\ routine' = [routine EXCEPT ![n] = "done"]
    /\ UNCHANGED <<rows, round, wg, answer, read, result>>

\* TimeFilter holds for the row that was read, or its address does not resolve.
Skip(n) ==
    /\ routine[n] = "filter"
    /\ Return(n)
    /\ UNCHANGED <<rows, round, answer, read, result>>

Ping(n) ==
    /\ routine[n] = "filter"
    /\ routine' = [routine EXCEPT ![n] = "ping"]
    /\ UNCHANGED <<rows, round, wg, answer, read, result>>

\* PingAttempts returns, at the latest after config.Count timeouts.
Pong(n, alive) ==
    /\ routine[n] = "ping"
    /\ routine' = [routine EXCEPT ![n] = "append"]
    /\ answer' = [answer EXCEPT ![n] = alive]
    /\ UNCHANGED <<rows, round, wg, read, result>>

\* append reads the slice, with nothing to keep other goroutines from it ...
Read(n) ==
    /\ routine[n] = "append"
    /\ routine' = [routine EXCEPT ![n] = "appending"]
    /\ read' = [read EXCEPT ![n] = result[answer[n]]]
    /\ UNCHANGED <<rows, round, wg, answer, result>>

\* ... and the longer one is assigned, over what others have assigned meanwhile.
Write(n) ==
    /\ routine[n] = "appending"
    /\ result' = [result EXCEPT ![answer[n]] = read[n] \cup {n}]
    /\ read' = [read EXCEPT ![n] = {}]
    /\ Return(n)
    /\ UNCHANGED <<rows, round, answer>>

\* The local variables of run are gone.
Clear ==
    /\ found' = {} /\ count' = 0 /\ wg' = 0
    /\ routine' = [n \in Nodes |-> "none"]
    /\ answer' = [n \in Nodes |-> FALSE]
    /\ read' = [n \in Nodes |-> {}]

\* A slice is three words.  A goroutine that reads it while another one writes it
\* may get a length without the array that belongs to it, and crash the program.
Tear(n, other) ==
    /\ n # other
    /\ {routine[n], routine[other]} \subseteq {"append", "appending"}
    /\ answer[n] = answer[other]
    /\ pc' = "down"
    /\ Clear
    /\ result' = NoResult
    /\ UNCHANGED rows

\* wg.Wait returns and sendResult broadcasts the result.
SendResult ==
    /\ pc = "wait"
    /\ wg = 0
    /\ pc' = "timer"
    /\ Clear
    /\ UNCHANGED <<rows, result>>

Restart ==
    /\ pc = "down"
    /\ pc' = "timer"
    /\ UNCHANGED <<rows, found, count, wg, routine, answer, read, result>>

Routine(n) == Skip(n) \/ Ping(n) \/ (\E alive \in BOOLEAN : Pong(n, alive)) \/ Read(n) \/ Write(n)

Next ==
    \/ Find \/ Count \/ SendResult \/ Restart
    \/ \E n \in Nodes : Create(n) \/ Routine(n)
    \/ \E n, other \in Nodes : Tear(n, other)

Spec == Init /\ [][Next]_vars

\* The timer fires, goroutines are scheduled, a crashed program is started again.
Fairness ==
    /\ WF_vars(Find) /\ WF_vars(Count) /\ WF_vars(SendResult) /\ WF_vars(Restart)
    /\ \A n \in Nodes : WF_vars(Routine(n))

FairSpec == Spec /\ Fairness

-----------------------------------------------------------------------------
\* No goroutine is still at work, with result in its hands, when it is sent.
SendsFinished ==
    [][pc = "wait" /\ pc' = "timer" => \A n \in Nodes : routine[n] \in {"none", "done"}]_vars

\* What is sent says of no node anything but what its ping of this round said:
\* a node is not in both lists, and none is in there that was not pinged.
SendsAnswers ==
    [][pc = "wait" /\ pc' = "timer" =>
         \A alive \in BOOLEAN : \A n \in result[alive] :
            n \in found /\ routine[n] = "done" /\ answer[n] = alive]_vars

\* A round that has counted the rows it read comes to an end.
RoundEnds == (pc = "wait" /\ count = Cardinality(found)) ~> pc # "wait"

\* config_example.conf: "nodes will pinged periodically".  Not so once a row was
\* created between the two queries: the round waits for a goroutine nobody starts.
PingsPeriodically == []<>(pc = "timer")
=============================================================================
