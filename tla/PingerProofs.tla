---------------------------- MODULE PingerProofs ----------------------------
(***************************************************************************)
(* The safety properties of the pinger for any finite number of nodes.     *)
(***************************************************************************)
EXTENDS Pinger, FiniteSetTheorems, TLAPS

Done == {n \in Nodes : routine[n] = "done"}

\* The goroutines are those of the rows that were read.  The WaitGroup has counted
\* the rows, which are those and the ones created meanwhile, and counts down.
RoundInv ==
    /\ found \subseteq rows
    /\ \A n \in Nodes : routine[n] # "none" => pc = "wait" /\ n \in found
    /\ pc = "wait" => /\ \A n \in found : routine[n] # "none"
                      /\ Cardinality(found) <= count
                      /\ wg = count - Cardinality(Done)

\* A slice holds nodes whose goroutines are through, and so does one read from it.
ResultInv ==
    /\ \A n \in Nodes : routine[n] = "appending" =>
         \A m \in read[n] : routine[m] = "done" /\ answer[m] = answer[n]
    /\ pc \in {"count", "wait"} =>
         \A alive \in BOOLEAN : \A n \in result[alive] :
           routine[n] = "done" /\ answer[n] = alive

IInv == TypeOK /\ RoundInv /\ ResultInv

\* Sets of nodes are finite.
LEMMA FiniteNodes ==
    ASSUME NEW S \in SUBSET Nodes
    PROVE  /\ IsFiniteSet(S)
           /\ Cardinality(S) \in Nat
           /\ \A T \in SUBSET S : /\ Cardinality(T) <= Cardinality(S)
                                  /\ Cardinality(T) = Cardinality(S) => T = S
  <1>1. IsFiniteSet(S)
    BY NodesAssumption, FS_Subset
  <1>2. Cardinality(S) \in Nat
    BY <1>1, FS_CardinalityType
  <1>3. ASSUME NEW T \in SUBSET S
        PROVE  Cardinality(T) <= Cardinality(S) /\ (Cardinality(T) = Cardinality(S) => T = S)
    BY <1>1, FS_Subset
  <1> QED
    BY <1>1, <1>2, <1>3

-----------------------------------------------------------------------------
LEMMA InitIInv == Init => IInv
  BY DEF Init, IInv, TypeOK, RoundInv, ResultInv, Routines, NoResult

\* A goroutine moves on.
LEMMA MoveRound ==
    ASSUME IInv, NEW n \in Nodes, NEW to \in Routines \ {"none", "done"},
           routine[n] \notin {"none", "done"}, routine' = [routine EXCEPT ![n] = to],
           UNCHANGED <<rows, pc, found, count, wg>>
    PROVE  RoundInv'
  <1>1. Done' = Done
    BY DEF Done, IInv, TypeOK
  <1> QED
    BY <1>1 DEF IInv, TypeOK, RoundInv

\* A goroutine returns: its node is one of those the WaitGroup waits for.
LEMMA ReturnRound ==
    ASSUME IInv, NEW n \in Nodes, routine[n] \notin {"none", "done"}, Return(n),
           UNCHANGED <<rows, pc, found, count>>
    PROVE  /\ RoundInv'
           /\ wg' \in Nat
           /\ routine' \in [Nodes -> Routines]
  <1> USE DEF IInv, TypeOK
  <1>1. pc = "wait" /\ n \in found
    BY DEF RoundInv
  <1>2. Done' = Done \cup {n} /\ n \notin Done
    BY DEF Done, Return
  <1>3. Done' \subseteq found
    BY <1>1, <1>2 DEF Done, RoundInv
  <1>4. Done \in SUBSET Nodes
    BY DEF Done
  <1>5. Cardinality(Done') = Cardinality(Done) + 1
    BY <1>2, <1>4, FiniteNodes, FS_AddElement
  <1>6. /\ Cardinality(Done) \in Nat /\ Cardinality(found) \in Nat
        /\ Cardinality(Done') <= Cardinality(found)
    BY <1>3, <1>4, FiniteNodes
  <1>7. wg = count - Cardinality(Done) /\ Cardinality(found) <= count
    BY <1>1 DEF RoundInv
  <1>8. wg' = count' - Cardinality(Done') /\ wg' \in Nat
    BY <1>5, <1>6, <1>7 DEF Return
  <1>9. routine' \in [Nodes -> Routines]
    BY DEF Return, Routines
  <1>10. \A m \in Nodes : routine'[m] # "none" <=> routine[m] # "none"
    BY DEF Return
  <1> QED
    BY <1>1, <1>7, <1>8, <1>9, <1>10 DEF RoundInv

LEMMA NextIInv ==
    ASSUME IInv, [Next]_vars
    PROVE  IInv'
  <1> USE DEF IInv, TypeOK
  <1>1. CASE Find
    BY <1>1 DEF Find, RoundInv, ResultInv, NoResult
  <1>2. CASE Count
    <2>1. Done' = {}
      BY <1>2 DEF Count, Started, Done, RoundInv
    <2>2. Cardinality(Done') = 0
      BY <2>1, FS_EmptySet
    <2>3. Cardinality(rows) \in Nat /\ Cardinality(found) <= Cardinality(rows)
      BY FiniteNodes DEF RoundInv
    <2>4. TypeOK'
      BY <1>2, <2>3 DEF Count, Started, Routines
    <2>5. RoundInv'
      BY <1>2, <2>2, <2>3 DEF Count, Started, RoundInv
    <2>6. \A n \in Nodes : routine[n] = "none"
      BY <1>2 DEF Count, RoundInv
    <2>7. \A alive \in BOOLEAN : result[alive] = {}
      BY <1>2, <2>6 DEF Count, ResultInv
    <2>8. ResultInv'
      BY <1>2, <2>7 DEF Count, Started, ResultInv
    <2> QED
      BY <2>4, <2>5, <2>8
  <1>3. CASE SendResult
    BY <1>3 DEF SendResult, Clear, RoundInv, ResultInv, Routines
  <1>4. CASE Restart
    BY <1>4 DEF Restart, RoundInv, ResultInv
  <1>5. ASSUME NEW n \in Nodes, Create(n)
        PROVE  IInv'
    <2>1. Done' = Done
      BY <1>5 DEF Create, Done
    <2> QED
      BY <1>5, <2>1 DEF Create, RoundInv, ResultInv
  <1>6. ASSUME NEW n \in Nodes, Skip(n)
        PROVE  IInv'
    <2>1. RoundInv' /\ TypeOK'
      BY <1>6, ReturnRound DEF Skip, round
    <2>2. ResultInv'
      BY <1>6 DEF Skip, Return, ResultInv, round
    <2> QED
      BY <2>1, <2>2
  <1>7. ASSUME NEW n \in Nodes, Ping(n)
        PROVE  IInv'
    <2>1. RoundInv'
      BY <1>7, MoveRound DEF Ping, round, Routines
    <2> QED
      BY <1>7, <2>1 DEF Ping, ResultInv, round, Routines
  <1>8. ASSUME NEW n \in Nodes, NEW alive \in BOOLEAN, Pong(n, alive)
        PROVE  IInv'
    <2>1. RoundInv'
      BY <1>8, MoveRound DEF Pong, round, Routines
    <2>2. TypeOK'
      BY <1>8 DEF Pong, round, Routines
    <2>3. ResultInv'
      BY <1>8 DEF Pong, ResultInv, round
    <2> QED
      BY <2>1, <2>2, <2>3
  <1>9. ASSUME NEW n \in Nodes, Read(n)
        PROVE  IInv'
    <2>1. RoundInv'
      BY <1>9, MoveRound DEF Read, round, Routines
    <2>2. TypeOK'
      BY <1>9 DEF Read, round, Routines
    <2>3. pc = "wait"
      BY <1>9 DEF Read, RoundInv
    <2>4. \A m \in read'[n] : routine'[m] = "done" /\ answer'[m] = answer'[n]
      BY <1>9, <2>3 DEF Read, ResultInv, round
    <2>5. ResultInv'
      BY <1>9, <2>4 DEF Read, ResultInv, round
    <2> QED
      BY <2>1, <2>2, <2>5
  <1>10. ASSUME NEW n \in Nodes, Write(n)
         PROVE  IInv'
    <2>1. RoundInv' /\ wg' \in Nat /\ routine' \in [Nodes -> Routines]
      BY <1>10, ReturnRound DEF Write, round
    <2>2. TypeOK'
      BY <1>10, <2>1 DEF Write, round
    <2>3. \A m \in Nodes : routine[m] = "done" => routine'[m] = "done"
      BY <1>10 DEF Write, Return
    <2>4. routine'[n] = "done"
      BY <1>10 DEF Write, Return
    <2>5. ASSUME NEW m \in Nodes, routine'[m] = "appending", NEW k \in read'[m]
          PROVE  routine'[k] = "done" /\ answer'[k] = answer'[m]
      <3>1. m # n /\ read'[m] = read[m] /\ routine[m] = "appending"
        BY <1>10, <2>4, <2>5 DEF Write, Return
      <3> QED
        BY <1>10, <2>3, <2>5, <3>1 DEF Write, ResultInv
    <2>6. ASSUME pc' \in {"count", "wait"}, NEW alive \in BOOLEAN, NEW m \in result'[alive]
          PROVE  routine'[m] = "done" /\ answer'[m] = alive
      <3>1. CASE m \in result[alive] /\ answer[n] # alive
        BY <1>10, <2>3, <2>6, <3>1 DEF Write, ResultInv, round
      <3>2. CASE answer[n] = alive
        <4>1. m = n \/ m \in read[n]
          BY <1>10, <2>6, <3>2 DEF Write
        <4> QED
          BY <1>10, <2>3, <2>4, <3>2, <4>1 DEF Write, ResultInv
      <3> QED
        BY <1>10, <2>6, <3>1, <3>2 DEF Write
    <2>7. ResultInv'
      BY <2>5, <2>6 DEF ResultInv
    <2> QED
      BY <2>1, <2>2, <2>7
  <1>11. ASSUME NEW n \in Nodes, NEW other \in Nodes, Tear(n, other)
         PROVE  IInv'
    BY <1>11 DEF Tear, Clear, RoundInv, ResultInv, Routines, NoResult
  <1>12. CASE UNCHANGED vars
    <2>1. Done' = Done
      BY <1>12 DEF vars, Done
    <2> QED
      BY <1>12, <2>1 DEF vars, RoundInv, ResultInv
  <1> QED
    BY <1>1, <1>2, <1>3, <1>4, <1>5, <1>6, <1>7, <1>8, <1>9, <1>10, <1>11, <1>12
    DEF Next, Routine

-----------------------------------------------------------------------------
LEMMA SpecIInv == Spec => []IInv
  BY InitIInv, NextIInv, PTL DEF Spec

\* A round ends for one reason only.
LEMMA OnlySendResult ==
    ASSUME IInv, [Next]_vars, pc = "wait", pc' = "timer"
    PROVE  SendResult
  BY DEF Next, vars, Find, Count, Restart, Create, Routine, Skip, Ping, Pong, Read, Write,
     Tear, round

\* When the WaitGroup is at 0, every goroutine has counted it down.
LEMMA AllDone ==
    ASSUME IInv, SendResult
    PROVE  \A n \in Nodes : routine[n] \in {"none", "done"}
  <1> USE DEF IInv, TypeOK
  <1>1. Done \subseteq found
    BY DEF Done, RoundInv
  <1>2. /\ Cardinality(Done) \in Nat /\ Cardinality(found) \in Nat
        /\ Cardinality(Done) <= Cardinality(found)
        /\ Cardinality(Done) = Cardinality(found) => Done = found
    BY <1>1, FiniteNodes DEF Done
  <1>3. Cardinality(Done) = count /\ Cardinality(found) <= count
    BY <1>2 DEF SendResult, RoundInv
  <1>4. Done = found
    BY <1>2, <1>3
  <1> QED
    BY <1>4 DEF Done, RoundInv

\* Every variable of the pinger stays in its type.
THEOREM TypeCorrect == Spec => []TypeOK
  BY SpecIInv, PTL DEF IInv

\* run sends the result when no goroutine is at work on it any more, whatever rows
\* are created while the round goes on.
THEOREM SentWhenFinished == Spec => SendsFinished
  <1>1. ASSUME IInv, [Next]_vars
        PROVE  [pc = "wait" /\ pc' = "timer" =>
                  \A n \in Nodes : routine[n] \in {"none", "done"}]_vars
    BY <1>1, OnlySendResult, AllDone
  <1> QED
    BY <1>1, SpecIInv, PTL DEF Spec, SendsFinished

\* What run sends says of a node only what its ping of this round said, although
\* the goroutines append to the slices without a lock.
THEOREM SentAnswers == Spec => SendsAnswers
  <1>1. ASSUME IInv, [Next]_vars
        PROVE  [pc = "wait" /\ pc' = "timer" =>
                  \A alive \in BOOLEAN : \A n \in result[alive] :
                    n \in found /\ routine[n] = "done" /\ answer[n] = alive]_vars
    BY <1>1 DEF IInv, TypeOK, RoundInv, ResultInv
  <1> QED
    BY <1>1, SpecIInv, PTL DEF Spec, SendsAnswers
=============================================================================
