--------------------------- MODULE PoolCallProofs ---------------------------
(***************************************************************************)
(* What the calls of the pool are, for every set of threads and every size *)
(* of the array: GetConnection with the command after it, the keep-alive   *)
(* and pool Ping end after a number of steps of their own thread that      *)
(* depends on the size alone.                                              *)
(***************************************************************************)
EXTENDS ConnectionPoolProofs

-----------------------------------------------------------------------------
(* The moves of a thread through the array.                                *)

Begins(t) == pc[t] = "out" /\ pc'[t] = "scan" /\ wi'[t] = 0

\* A thread stays at its index and comes nearer to the end of its work there.
Deeper(t) ==
  /\ pc[t] \notin {"out", "refused"} /\ pc'[t] \notin {"out", "refused"}
  /\ wi[t] < PoolSize /\ wi'[t] = wi[t]
  /\ Depth[pc'[t]] > Depth[pc[t]]

\* A thread goes on to the next index: over a busy connection, or after the
\* keep-alive or pool Ping is through with one.
Onward(t) ==
  /\ wi[t] < PoolSize /\ wi'[t] = wi[t] + 1 /\ pc'[t] = "scan"
  /\ \/ pc[t] = "scan"
     \/ pc[t] = "done" /\ t \in Keepers
     \/ pc[t] \in {"check"} \cup InPing /\ t \in Pingers

Refused(t) ==
  pc[t] = "scan" /\ wi[t] = PoolSize /\ pc'[t] = "refused" /\ t \in Workers

Returns(t) ==
  /\ pc'[t] = "out"
  /\ \/ pc[t] = "scan" /\ wi[t] = PoolSize
     \/ pc[t] = "done" /\ wi[t] < PoolSize /\ t \in Workers
     \/ pc[t] = "refused"

Moves(t) == Begins(t) \/ Deeper(t) \/ Onward(t) \/ Refused(t) \/ Returns(t)

\* Every step a thread takes is one of these moves.
LEMMA OwnStepMoves ==
  ASSUME TypeOK, NEW t \in Threads, OwnStep(t)
  PROVE  Moves(t)
  <1> USE DEF TypeOK, InCommand, InPing, Places, Goto, NextIndex, Moves,
          Begins, Deeper, Onward, Refused, Returns, Depth
  <1>1. CASE Enter(t) BY <1>1 DEF Enter
  <1>2. CASE Scan(t)
    <2>1. CASE ScanSeesIdle(t) BY <2>1 DEF ScanSeesIdle
    <2>2. CASE ScanSeesBusy(t) BY <2>2 DEF ScanSeesBusy
    <2>3. CASE ScanEnds(t) BY <2>3 DEF ScanEnds
    <2> QED BY <1>2, <2>1, <2>2, <2>3 DEF Scan
  <1>3. CASE GiveUp(t) BY <1>3 DEF GiveUp
  <1>4. ASSUME pc[t] \notin {"out", "scan", "refused"} PROVE wi[t] < PoolSize
    BY <1>4, IndexFits, PoolAssumption DEF Conns
  <1>5. ASSUME NEW o, BeginCommand(t, o) PROVE Moves(t)
    BY <1>4, <1>5 DEF BeginCommand
  <1>6. CASE t \in Workers \cup Keepers /\ CallStep(t)
    <2>1. CASE PingInCommand(t) BY <1>4, <2>1 DEF PingInCommand
    <2>2. CASE PingReturns(t) BY <1>4, <2>2 DEF PingReturns
    <2>3. CASE QueryReturns(t) BY <1>4, <2>3 DEF QueryReturns
    <2>4. CASE QueryFails(t) BY <1>4, <2>4 DEF QueryFails
    <2>5. CASE ReadResult(t) BY <1>4, <2>5 DEF ReadResult
    <2>6. CASE StoreResultFails(t) BY <1>4, <2>6 DEF StoreResultFails
    <2>7. CASE EndCommand(t) BY <1>4, <1>6, <2>7 DEF EndCommand
    <2> QED BY <1>6, <2>1, <2>2, <2>3, <2>4, <2>5, <2>6, <2>7 DEF CallStep
  <1>7. CASE t \in Pingers /\ PingStep(t)
    <2>1. CASE PingRechecks(t) BY <1>4, <1>7, <2>1 DEF PingRechecks
    <2>2. CASE ProbeReturnsZero(t) BY <1>4, <2>2 DEF ProbeReturnsZero
    <2>3. CASE ProbeReturnsError(t)
      BY <1>4, <1>7, <2>3 DEF ProbeReturnsError
    <2>4. CASE CloseConnection(t) BY <1>4, <2>4 DEF CloseConnection
    <2>5. CASE ReConnectTooEarly(t)
      BY <1>4, <1>7, <2>5 DEF ReConnectTooEarly
    <2>6. CASE StartReConnect(t) BY <1>4, <2>6 DEF StartReConnect
    <2>7. CASE ConnectSucceeds(t) BY <1>4, <1>7, <2>7 DEF ConnectSucceeds
    <2>8. CASE ConnectFails(t) BY <1>4, <1>7, <2>8 DEF ConnectFails
    <2> QED
      BY <1>7, <2>1, <2>2, <2>3, <2>4, <2>5, <2>6, <2>7, <2>8 DEF PingStep
  <1> QED
    BY <1>1, <1>2, <1>3, <1>5, <1>6, <1>7 DEF OwnStep, CallerStep

-----------------------------------------------------------------------------
(* What the moves do to the measure.                                       *)

LEMMA DepthRange ==
  /\ \A place \in Places \ {"out", "refused"} : Depth[place] \in 0 .. 6
  /\ \A place \in {"check"} \cup InPing : Depth[place] \in 0 .. 5
  /\ Depth["scan"] = 0 /\ Depth["done"] = 6
  BY DEF Depth, Places, InCommand, InPing

\* A step of a thread has counted: there are fewer to come.
Counted(t) ==
  /\ StepsLeft(t)' \in 0 .. PerIndex(t) * PoolSize + Last(t)
  /\ pc[t] # "out" => StepsLeft(t)' < StepsLeft(t)

\* A move takes a thread nearer to its return, and no move at all is a way
\* to a longer one.
LEMMA MoveCounts ==
  ASSUME TypeOK, TypeOK', NEW t \in Threads, Moves(t)
  PROVE  Counted(t)
  <1> DEFINE n == PerIndex(t)
             l == Last(t)
             i == wi[t]
             j == wi'[t]
  <1>1. /\ PoolSize \in Nat /\ i \in Nat /\ j \in Nat
        /\ i <= PoolSize /\ j <= PoolSize
    BY PoolAssumption DEF TypeOK
  <1>2. \/ n = 1 /\ l = 6 /\ t \in Workers
        \/ n = 7 /\ l = 1 /\ t \in Keepers /\ t \notin Workers
        \/ n = 6 /\ l = 1 /\ t \in Pingers /\ t \notin Workers \cup Keepers
    BY PoolAssumption DEF PerIndex, Last, Threads
  <1>3. pc[t] \in Places /\ pc'[t] \in Places
    BY DEF TypeOK
  <1>4. ASSUME pc[t] \notin {"out", "refused"}
        PROVE  StepsLeft(t) = n * (PoolSize - i) + l - Depth[pc[t]]
    BY <1>4 DEF StepsLeft
  <1>5. ASSUME pc'[t] \notin {"out", "refused"}
        PROVE  StepsLeft(t)' = n * (PoolSize - j) + l - Depth[pc'[t]]
    BY <1>5 DEF StepsLeft, PerIndex, Last, Depth
  <1>6. CASE Begins(t)
    <2>1. StepsLeft(t)' = n * PoolSize + l
      BY <1>1, <1>2, <1>5, <1>6, DepthRange DEF Begins
    <2> QED BY <1>1, <1>2, <1>6, <2>1 DEF Begins, Counted
  <1>7. CASE Deeper(t)
    <2> DEFINE d == Depth[pc[t]]
               e == Depth[pc'[t]]
    <2>1. d \in 0 .. 6 /\ e \in 0 .. 6 /\ e > d
      BY <1>3, <1>7, DepthRange DEF Deeper
    <2>2. StepsLeft(t) = n * (PoolSize - i) + l - d
      BY <1>4, <1>7 DEF Deeper
    <2>3. StepsLeft(t)' = n * (PoolSize - i) + l - e
      BY <1>5, <1>7 DEF Deeper
    <2>4. i < PoolSize
      BY <1>7 DEF Deeper
    <2> HIDE DEF n, l, i, d, e
    <2>5. n * (PoolSize - i) >= n /\ n * (PoolSize - i) <= n * PoolSize
          /\ n * (PoolSize - i) \in Nat /\ n * PoolSize \in Nat
      BY <1>1, <1>2, <2>4
    <2>6. n + l >= 7 /\ n \in Nat /\ l \in Nat
      BY <1>2
    <2>7. StepsLeft(t)' \in 0 .. n * PoolSize + l /\ StepsLeft(t)' < StepsLeft(t)
      BY <2>1, <2>2, <2>3, <2>5, <2>6
    <2> QED BY <2>7 DEF Counted, n, l
  <1>8. CASE Onward(t)
    <2>1. StepsLeft(t)' = n * (PoolSize - (i + 1)) + l
      BY <1>1, <1>2, <1>5, <1>8, DepthRange DEF Onward
    <2>2. /\ StepsLeft(t) \in Int
          /\ StepsLeft(t) >= n * (PoolSize - i) + l - (n - 1)
      BY <1>1, <1>2, <1>4, <1>8, DepthRange, PoolAssumption
      DEF Onward, InPing
    <2>3. i < PoolSize
      BY <1>8 DEF Onward
    <2> HIDE DEF n, l, i
    <2>4. /\ StepsLeft(t)' \in 0 .. n * PoolSize + l
          /\ StepsLeft(t)' < StepsLeft(t)
      BY <1>1, <1>2, <2>1, <2>2, <2>3
    <2> QED BY <2>4 DEF Counted, n, l
  <1>9. CASE Refused(t)
    BY <1>1, <1>2, <1>4, <1>9, DepthRange DEF Refused, Counted, StepsLeft
  <1>10. CASE Returns(t)
    BY <1>1, <1>2, <1>4, <1>10, DepthRange DEF Returns, Counted, StepsLeft
  <1> QED BY <1>6, <1>7, <1>8, <1>9, <1>10 DEF Moves

-----------------------------------------------------------------------------
(* One thread moves at a time.                                             *)

LEMMA OthersStay ==
  ASSUME TypeOK, NEW t \in Threads, OwnStep(t), NEW u \in Threads, u # t
  PROVE  pc'[u] = pc[u] /\ wi'[u] = wi[u]
  <1> USE DEF TypeOK, Goto, NextIndex, connVars
  <1>1. CASE Enter(t) \/ Scan(t) \/ GiveUp(t)
    BY <1>1 DEF Enter, Scan, ScanSeesIdle, ScanSeesBusy, ScanEnds, GiveUp
  <1>2. ASSUME NEW o, BeginCommand(t, o)
        PROVE  pc'[u] = pc[u] /\ wi'[u] = wi[u]
    BY <1>2 DEF BeginCommand
  <1>3. CASE CallStep(t)
    BY <1>3
    DEF CallStep, PingInCommand, PingReturns, QueryReturns, QueryFails,
        ReadResult, StoreResultFails, EndCommand
  <1>4. CASE PingStep(t)
    BY <1>4
    DEF PingStep, PingRechecks, ProbeReturnsZero, ProbeReturnsError,
        CloseConnection, ReConnectTooEarly, StartReConnect,
        ConnectSucceeds, ConnectFails
  <1> QED BY <1>1, <1>2, <1>3, <1>4 DEF OwnStep, CallerStep

LEMMA SomeoneMoves ==
  ASSUME [Next]_vars
  PROVE  (\E t \in Threads : OwnStep(t)) \/ UNCHANGED <<pc, wi>>
  <1>1. ASSUME NEW c \in Conns, ServerDrops(c) \/ Time(c)
        PROVE  UNCHANGED <<pc, wi>>
    BY <1>1 DEF ServerDrops, Time, Age, ClockWraps, threadVars
  <1>2. CASE UNCHANGED vars
    BY <1>2 DEF vars
  <1>3. CASE \E t \in Workers \cup Keepers : CallerStep(t)
    BY <1>3 DEF OwnStep, Threads
  <1>4. CASE \E t \in Pingers : Enter(t) \/ Scan(t) \/ PingStep(t)
    BY <1>4 DEF OwnStep, Threads
  <1> QED BY <1>1, <1>2, <1>3, <1>4 DEF Next

\* Where a thread is, and at which index, is all its measure depends on, and
\* that is changed by its own steps only.
LEMMA OthersKeepMeasure ==
  ASSUME TypeOK, [Next]_vars, NEW t \in Threads, ~OwnStep(t)
  PROVE  StepsLeft(t)' = StepsLeft(t)
  <1>1. pc'[t] = pc[t] /\ wi'[t] = wi[t]
    BY SomeoneMoves, OthersStay
  <1> QED BY <1>1 DEF StepsLeft, PerIndex, Last, Depth

\* GetConnection and the command after it take at most PoolSize + 7 steps of
\* the calling thread, the keep-alive 7 * PoolSize + 2, pool Ping
\* 6 * PoolSize + 2, whatever other threads do to the marks meanwhile and
\* whatever the server answers.
THEOREM CallsAreBounded == Spec => WaitFree
  <1>1. ASSUME TypeOK, TypeOK', [Next]_vars, NEW t \in Threads
        PROVE  /\ OwnStep(t) => Counted(t)
               /\ ~OwnStep(t) => StepsLeft(t)' = StepsLeft(t)
    BY <1>1, OwnStepMoves, MoveCounts, OthersKeepMeasure
  <1>2. TypeOK /\ TypeOK' /\ [Next]_vars =>
          [\A t \in Threads :
             /\ OwnStep(t) =>
                  StepsLeft(t)' \in 0 .. PerIndex(t) * PoolSize + Last(t)
             /\ OwnStep(t) /\ pc[t] # "out" => StepsLeft(t)' < StepsLeft(t)
             /\ ~OwnStep(t) => StepsLeft(t)' = StepsLeft(t)]_vars
    BY <1>1 DEF Counted
  <1> QED BY <1>2, TypeCorrect, PTL DEF Spec, WaitFree

=============================================================================
