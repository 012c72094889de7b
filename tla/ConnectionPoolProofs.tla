------------------------ MODULE ConnectionPoolProofs ------------------------
(***************************************************************************)
(* Proofs about ConnectionPool, for every set of threads and every size of *)
(* the array.                                                              *)
(***************************************************************************)
EXTENDS ConnectionPool, FiniteSetTheorems, TLAPS

-----------------------------------------------------------------------------
(* Types.                                                                  *)

\* The commands of the code and the places of its threads keep to TypeOK,
\* above all: a thread that works on a connection has an index of the array.
LEMMA TypeInit == Init => TypeOK
  BY PoolAssumption DEF Init, TypeOK, Conns, InCommand, InPing, Places

\* A thread at a connection is at an index of the array, so the next one is
\* at most the size of the array.
LEMMA IndexFits ==
  ASSUME TypeOK, NEW t \in Threads, pc[t] \notin {"out", "scan", "refused"}
  PROVE  wi[t] \in Conns /\ wi[t] + 1 \in 0 .. PoolSize
  <1>1. wi[t] \in Conns
    BY DEF TypeOK
  <1> QED BY <1>1, PoolAssumption DEF Conns

LEMMA TypeStep == TypeOK /\ [Next]_vars => TypeOK'
  <1> SUFFICES ASSUME TypeOK, [Next]_vars PROVE TypeOK'
    OBVIOUS
  <1> USE DEF TypeOK, InCommand, InPing, Places, Goto, NextIndex, connVars,
          threadVars
  <1>0. 0 \in 0 .. PoolSize
    BY PoolAssumption
  <1>1. ASSUME NEW t \in Threads, Enter(t) PROVE TypeOK'
    BY <1>0, <1>1 DEF Enter
  <1>2. ASSUME NEW t \in Threads, Scan(t) PROVE TypeOK'
    <2>1. wi[t] < PoolSize => wi[t] \in Conns /\ wi[t] + 1 \in 0 .. PoolSize
      BY PoolAssumption DEF Conns
    <2>2. CASE ScanSeesIdle(t) BY <2>1, <2>2 DEF ScanSeesIdle
    <2>3. CASE ScanSeesBusy(t) BY <2>1, <2>3 DEF ScanSeesBusy
    <2>4. CASE ScanEnds(t) BY <2>4 DEF ScanEnds
    <2> QED BY <1>2, <2>2, <2>3, <2>4 DEF Scan
  <1>3. ASSUME NEW t \in Threads, GiveUp(t) PROVE TypeOK'
    BY <1>3 DEF GiveUp
  <1>4. ASSUME NEW t \in Threads, NEW o, BeginCommand(t, o) PROVE TypeOK'
    BY <1>4 DEF BeginCommand, Commands, SetBusy, Arrive
  <1>5. ASSUME NEW t \in Threads, CallStep(t) PROVE TypeOK'
    <2>1. CASE PingInCommand(t) BY <2>1 DEF PingInCommand
    <2>2. CASE PingReturns(t)
      BY <2>2 DEF PingReturns, CallSucceeds, CallFails
    <2>3. CASE QueryReturns(t)
      <3>1. PICK u \in Talking(wi[t]) : reply' = [reply EXCEPT ![wi[t]] = u]
        BY <2>3 DEF QueryReturns
      <3>2. u \in Threads
        BY DEF Talking
      <3> QED BY <2>3, <3>1, <3>2 DEF QueryReturns, CallSucceeds
    <2>4. CASE QueryFails(t) BY <2>4 DEF QueryFails, CallFails
    <2>5. CASE ReadResult(t) BY <2>5 DEF ReadResult
    <2>6. CASE StoreResultFails(t) BY <2>6 DEF StoreResultFails, CallFails
    <2>7. CASE EndCommand(t)
      <3>1. wi[t] \in Conns /\ wi[t] + 1 \in 0 .. PoolSize
        BY <2>7, IndexFits DEF EndCommand
      <3> QED BY <1>0, <2>7, <3>1 DEF EndCommand, SetIdle, Depart
    <2> QED BY <1>5, <2>1, <2>2, <2>3, <2>4, <2>5, <2>6, <2>7 DEF CallStep
  <1>6. ASSUME NEW t \in Threads, PingStep(t) PROVE TypeOK'
    <2>0. wi[t] \in Conns /\ wi[t] + 1 \in 0 .. PoolSize
      BY <1>6, IndexFits
      DEF PingStep, PingRechecks, ProbeReturnsZero, ProbeReturnsError,
          CloseConnection, ReConnectTooEarly, StartReConnect,
          ConnectSucceeds, ConnectFails
    <2>1. CASE PingRechecks(t) BY <2>0, <2>1 DEF PingRechecks, Arrive
    <2>2. CASE ProbeReturnsZero(t)
      BY <2>2 DEF ProbeReturnsZero, CallSucceeds
    <2>3. CASE ProbeReturnsError(t)
      BY <2>0, <2>3 DEF ProbeReturnsError, CallFails, Depart
    <2>4. CASE CloseConnection(t) BY <2>4 DEF CloseConnection
    <2>5. CASE ReConnectTooEarly(t)
      BY <2>0, <2>5 DEF ReConnectTooEarly, Depart
    <2>6. CASE StartReConnect(t) BY <2>6 DEF StartReConnect
    <2>7. CASE ConnectSucceeds(t)
      BY <2>0, <2>7 DEF ConnectSucceeds, SetIdle, Depart
    <2>8. CASE ConnectFails(t)
      <3>1. recent' \in [Conns -> BOOLEAN]
        BY <2>8, PoolAssumption DEF ConnectFails
      <3>2. link' \in [Conns -> {"open", "dropped", "closed"}]
        BY <2>8 DEF ConnectFails
      <3> QED BY <2>0, <2>8, <3>1, <3>2 DEF ConnectFails, Depart
    <2> QED
      BY <1>6, <2>1, <2>2, <2>3, <2>4, <2>5, <2>6, <2>7, <2>8 DEF PingStep
  <1>7. ASSUME NEW c \in Conns, ServerDrops(c) \/ Time(c) PROVE TypeOK'
    BY <1>7 DEF ServerDrops, Time, Age, ClockWraps
  <1>8. CASE UNCHANGED vars
    BY <1>8 DEF vars
  <1> QED
    BY <1>1, <1>2, <1>3, <1>4, <1>5, <1>6, <1>7, <1>8
    DEF Next, CallerStep, Threads

THEOREM TypeCorrect == Spec => []TypeOK
  BY TypeInit, TypeStep, PTL DEF Spec

-----------------------------------------------------------------------------
(* The mark m_bBusy and the threads inside a command.                      *)

\* A step that neither sets a mark nor takes a thread out of a command on a
\* marked connection keeps BusyHasUser.
LEMMA BusyHasUserFrame ==
  ASSUME BusyHasUser,
         \A c \in Conns : m_bBusy'[c] => m_bBusy[c],
         \A u \in Threads :
           pc[u] \in InCommand => pc'[u] \in InCommand /\ wi'[u] = wi[u]
  PROVE  BusyHasUser'
  BY DEF BusyHasUser, Inside

LEMMA BusyHasUserStep ==
  TypeOK /\ BusyHasUser /\ [Next]_vars => BusyHasUser'
  <1> SUFFICES ASSUME TypeOK, BusyHasUser, [Next]_vars PROVE BusyHasUser'
    OBVIOUS
  <1> USE DEF TypeOK, InCommand, InPing, Places, Goto, NextIndex, connVars,
          threadVars
  <1>1. ASSUME NEW t \in Threads, Enter(t) PROVE BusyHasUser'
    BY <1>1, BusyHasUserFrame DEF Enter
  <1>2. ASSUME NEW t \in Threads, Scan(t) PROVE BusyHasUser'
    BY <1>2, BusyHasUserFrame
    DEF Scan, ScanSeesIdle, ScanSeesBusy, ScanEnds
  <1>3. ASSUME NEW t \in Threads, GiveUp(t) PROVE BusyHasUser'
    BY <1>3, BusyHasUserFrame DEF GiveUp
  <1>4. ASSUME NEW t \in Threads, NEW o, BeginCommand(t, o)
        PROVE  BusyHasUser'
    <2>1. \A c \in Conns : c = wi[t] => t \in Inside(c)'
      BY <1>4 DEF BeginCommand, Inside
    <2>2. \A u \in Threads :
            pc[u] \in InCommand => pc'[u] \in InCommand /\ wi'[u] = wi[u]
      BY <1>4 DEF BeginCommand
    <2>3. \A c \in Conns : c # wi[t] => m_bBusy'[c] = m_bBusy[c]
      BY <1>4 DEF BeginCommand, SetBusy
    <2>4. \A c \in Conns : Inside(c) # {} => Inside(c)' # {}
      BY <2>2 DEF Inside
    <2> QED BY <2>1, <2>3, <2>4 DEF BusyHasUser
  <1>5. ASSUME NEW t \in Threads, CallStep(t) PROVE BusyHasUser'
    <2>1. CASE PingInCommand(t)
      BY <2>1, BusyHasUserFrame DEF PingInCommand
    <2>2. CASE PingReturns(t)
      BY <2>2, BusyHasUserFrame DEF PingReturns
    <2>3. CASE QueryReturns(t)
      BY <2>3, BusyHasUserFrame DEF QueryReturns
    <2>4. CASE QueryFails(t)
      BY <2>4, BusyHasUserFrame DEF QueryFails
    <2>5. CASE ReadResult(t)
      BY <2>5, BusyHasUserFrame DEF ReadResult
    <2>6. CASE StoreResultFails(t)
      BY <2>6, BusyHasUserFrame DEF StoreResultFails
    <2>7. CASE EndCommand(t)
      <3>1. \A c \in Conns : m_bBusy'[c] => m_bBusy[c] /\ c # wi[t]
        BY <2>7 DEF EndCommand, SetIdle
      <3>2. \A u \in Threads : u # t => pc'[u] = pc[u] /\ wi'[u] = wi[u]
        BY <2>7 DEF EndCommand
      <3> QED BY <3>1, <3>2 DEF BusyHasUser, Inside
    <2> QED BY <1>5, <2>1, <2>2, <2>3, <2>4, <2>5, <2>6, <2>7 DEF CallStep
  <1>6. ASSUME NEW t \in Threads, PingStep(t) PROVE BusyHasUser'
    <2>1. \A u \in Threads :
            pc[u] \in InCommand => pc'[u] \in InCommand /\ wi'[u] = wi[u]
      BY <1>6
      DEF PingStep, PingRechecks, ProbeReturnsZero, ProbeReturnsError,
          CloseConnection, ReConnectTooEarly, StartReConnect,
          ConnectSucceeds, ConnectFails
    <2>2. \A c \in Conns : m_bBusy'[c] => m_bBusy[c]
      BY <1>6
      DEF PingStep, PingRechecks, ProbeReturnsZero, ProbeReturnsError,
          CloseConnection, ReConnectTooEarly, StartReConnect,
          ConnectSucceeds, ConnectFails, SetIdle
    <2> QED BY <2>1, <2>2, BusyHasUserFrame
  <1>7. ASSUME NEW c \in Conns, ServerDrops(c) \/ Time(c) PROVE BusyHasUser'
    BY <1>7, BusyHasUserFrame DEF ServerDrops, Time, Age, ClockWraps
  <1>8. CASE UNCHANGED vars
    BY <1>8, BusyHasUserFrame DEF vars
  <1> QED
    BY <1>1, <1>2, <1>3, <1>4, <1>5, <1>6, <1>7, <1>8
    DEF Next, CallerStep, Threads

\* No interleaving of Select, Execute, Insert, the keep-alive and pool Ping
\* leaves m_bBusy set on a connection that no thread is using.
THEOREM BusyMarkHasUser == Spec => []BusyHasUser
  <1>1. Init => BusyHasUser
    BY DEF Init, BusyHasUser
  <1> QED BY <1>1, TypeCorrect, BusyHasUserStep, PTL DEF Spec

-----------------------------------------------------------------------------
(* A connection no second thread has joined.                               *)

OnHandle == InCommand \cup InPing

\* What a thread that is alone on its connection in a command may rely on.
Undisturbed(t) ==
  (pc[t] \in InCommand /\ ~overlapped[wi[t]]) =>
    /\ m_bBusy[wi[t]]
    /\ pc[t] # "pinging"
    /\ pc[t] = "result" => reply[wi[t]] = t
    /\ pc[t] = "done" => answer[t] \in {t, "error"}

\* Two threads on one connection leave their trace in overlapped, and a
\* thread that meets nobody is undisturbed.  This is the invariant under
\* which all that is said of unshared connections is inductive.
Meetings ==
  \A t, u \in Threads :
    (/\ t # u /\ wi[t] = wi[u]
     /\ pc[t] \in OnHandle /\ pc[u] \in OnHandle) => overlapped[wi[t]]

Alone == Meetings /\ \A t \in Threads : Undisturbed(t)

\* A step of t leaves the other threads, and the connections it is not at,
\* as they are.
LocalStep(t) ==
  /\ \A u \in Threads : u # t =>
       pc'[u] = pc[u] /\ wi'[u] = wi[u] /\ answer'[u] = answer[u]
  /\ \A c \in Conns : c # wi[t] =>
       /\ m_bBusy'[c] = m_bBusy[c] /\ reply'[c] = reply[c]
       /\ overlapped'[c] = overlapped[c]

\* Where the thread on a handle is, there is a connection.
LEMMA HandleIsConn ==
  ASSUME TypeOK, NEW t \in Threads, pc[t] \in OnHandle
  PROVE  wi[t] \in Conns
  BY DEF TypeOK, OnHandle, InCommand, InPing

\* A thread off the handles goes to another place off them.
LEMMA AloneAway ==
  ASSUME Alone, NEW t \in Threads,
         pc[t] \notin OnHandle, pc'[t] \notin OnHandle,
         \A u \in Threads : u # t => pc'[u] = pc[u] /\ wi'[u] = wi[u],
         UNCHANGED <<m_bBusy, reply, overlapped, answer>>
  PROVE  Alone'
  BY DEF Alone, Meetings, Undisturbed, OnHandle

\* A thread comes to a handle and Arrive records whom it meets there.
LEMMA AloneArrive ==
  ASSUME Alone, TypeOK, NEW t \in Threads, wi[t] \in Conns,
         pc[t] \notin OnHandle, pc'[t] \in OnHandle, wi'[t] = wi[t],
         LocalStep(t), Arrive(wi[t]), Undisturbed(t)'
  PROVE  Alone'
  <1>1. overlapped'[wi[t]] = (overlapped[wi[t]] \/ Using(wi[t]) # {})
    BY DEF Arrive, TypeOK
  <1>2. ASSUME NEW u \in Threads, u # t, pc[u] \in OnHandle, wi[u] = wi[t]
        PROVE  overlapped'[wi[t]]
    BY <1>1, <1>2 DEF Using, OnHandle
  <1>3. \A u \in Threads : pc[u] \in OnHandle => wi[u] \in Conns
    BY HandleIsConn
  <1>4. Meetings'
    BY <1>2, <1>3 DEF Alone, Meetings, LocalStep
  <1>5. ASSUME NEW u \in Threads PROVE Undisturbed(u)'
    BY <1>2, <1>3 DEF Alone, Undisturbed, LocalStep, OnHandle
  <1> QED BY <1>4, <1>5 DEF Alone

\* A thread goes on at its handle.
LEMMA AloneMove ==
  ASSUME Alone, TypeOK, NEW t \in Threads, pc[t] \in OnHandle,
         pc'[t] \in OnHandle, wi'[t] = wi[t], LocalStep(t),
         overlapped' = overlapped, Undisturbed(t)'
  PROVE  Alone'
  <1>1. \A u \in Threads : pc[u] \in OnHandle => wi[u] \in Conns
    BY HandleIsConn
  <1>2. Meetings'
    BY DEF Alone, Meetings, LocalStep
  <1>3. ASSUME NEW u \in Threads PROVE Undisturbed(u)'
    <2>1. CASE u # t /\ wi[u] = wi[t] /\ pc[u] \in OnHandle
      BY <2>1 DEF Alone, Meetings, Undisturbed, LocalStep
    <2>2. CASE u # t /\ wi[u] # wi[t]
      BY <1>1, <2>2 DEF Alone, Undisturbed, LocalStep, OnHandle
    <2>3. CASE u # t /\ pc[u] \notin OnHandle
      BY <2>3 DEF Undisturbed, LocalStep, OnHandle
    <2>4. CASE u = t BY <2>4 DEF Undisturbed
    <2> QED BY <2>1, <2>2, <2>3, <2>4
  <1> QED BY <1>2, <1>3 DEF Alone

\* A thread leaves its handle and Depart forgets the meetings if it was the
\* last there.
LEMMA AloneDepart ==
  ASSUME Alone, TypeOK, NEW t \in Threads, pc[t] \in OnHandle,
         pc'[t] \notin OnHandle, LocalStep(t), Depart(t, wi[t])
  PROVE  Alone'
  <1>1. \A u \in Threads : pc[u] \in OnHandle => wi[u] \in Conns
    BY HandleIsConn
  <1>2. overlapped'[wi[t]] = (overlapped[wi[t]] /\ Using(wi[t]) # {t})
    BY <1>1 DEF Depart, TypeOK
  <1>3. ASSUME NEW u \in Threads, u # t, pc[u] \in OnHandle, wi[u] = wi[t]
        PROVE  overlapped'[wi[t]]
    <2>1. u \in Using(wi[t])
      BY <1>3 DEF Using, OnHandle
    <2>2. Using(wi[t]) # {t}
      BY <1>3, <2>1
    <2>3. overlapped[wi[t]]
      BY <1>3 DEF Alone, Meetings
    <2> QED BY <1>2, <2>2, <2>3
  <1>4. Meetings'
    BY <1>1, <1>3 DEF Alone, Meetings, LocalStep
  <1>5. ASSUME NEW u \in Threads PROVE Undisturbed(u)'
    BY <1>1, <1>3 DEF Alone, Undisturbed, LocalStep, OnHandle
  <1> QED BY <1>4, <1>5 DEF Alone

LEMMA AloneStep == TypeOK /\ Alone /\ [Next]_vars => Alone'
  <1> SUFFICES ASSUME TypeOK, Alone, [Next]_vars PROVE Alone'
    OBVIOUS
  <1> USE DEF OnHandle, InCommand, InPing, Places, Goto, NextIndex, LocalStep,
          connVars, threadVars
  <1>0. \A u \in Threads : Undisturbed(u)
    BY DEF Alone
  <1>1. ASSUME NEW t \in Threads, Enter(t) \/ Scan(t) \/ GiveUp(t)
        PROVE  Alone'
    BY <1>1, AloneAway
    DEF TypeOK, Enter, Scan, ScanSeesIdle, ScanSeesBusy, ScanEnds, GiveUp
  <1>2. ASSUME NEW t \in Threads, NEW o, BeginCommand(t, o) PROVE Alone'
    <2>1. wi[t] \in Conns
      BY <1>2 DEF BeginCommand, TypeOK
    <2>2. Undisturbed(t)'
      BY <1>2, <2>1 DEF BeginCommand, SetBusy, TypeOK, Undisturbed
    <2> QED
      BY <1>2, <2>1, <2>2, AloneArrive
      DEF BeginCommand, SetBusy, Arrive, TypeOK
  <1>3. ASSUME NEW t \in Threads, CallStep(t) PROVE Alone'
    <2>0. wi[t] \in Conns
      BY <1>3, HandleIsConn
      DEF CallStep, PingInCommand, PingReturns, QueryReturns, QueryFails,
          ReadResult, StoreResultFails, EndCommand
    <2>1. CASE PingInCommand(t)
      <3>1. Undisturbed(t)'
        BY <1>0, <2>1 DEF PingInCommand, IsIdle, Undisturbed, TypeOK
      <3> QED BY <2>1, <3>1, AloneMove DEF PingInCommand, TypeOK
    <2>2. CASE PingReturns(t)
      <3>1. Undisturbed(t)'
        BY <1>0, <2>2 DEF PingReturns, Undisturbed, TypeOK
      <3> QED BY <2>2, <3>1, AloneMove DEF PingReturns, TypeOK
    <2>3. CASE QueryReturns(t)
      <3>1. PICK u \in Talking(wi[t]) : reply' = [reply EXCEPT ![wi[t]] = u]
        BY <2>3 DEF QueryReturns
      <3>2. ~overlapped[wi[t]] => u = t
        BY <2>3 DEF QueryReturns, Talking, Alone, Meetings
      <3>3. Undisturbed(t)'
        BY <1>0, <2>0, <2>3, <3>1, <3>2
        DEF QueryReturns, Undisturbed, TypeOK
      <3> QED
        BY <2>0, <2>3, <3>1, <3>3, AloneMove DEF QueryReturns, TypeOK
    <2>4. CASE QueryFails(t)
      <3>1. Undisturbed(t)'
        BY <1>0, <2>4 DEF QueryFails, Undisturbed, TypeOK
      <3> QED BY <2>4, <3>1, AloneMove DEF QueryFails, TypeOK
    <2>5. CASE ReadResult(t)
      <3>1. Undisturbed(t)'
        BY <1>0, <2>5 DEF ReadResult, Undisturbed, TypeOK
      <3> QED BY <2>5, <3>1, AloneMove DEF ReadResult, TypeOK
    <2>6. CASE StoreResultFails(t)
      <3>1. Undisturbed(t)'
        BY <1>0, <2>6 DEF StoreResultFails, Undisturbed, TypeOK
      <3> QED BY <2>6, <3>1, AloneMove DEF StoreResultFails, TypeOK
    <2>7. CASE EndCommand(t)
      BY <2>0, <2>7, AloneDepart DEF EndCommand, SetIdle, TypeOK, Depart
    <2> QED BY <1>3, <2>1, <2>2, <2>3, <2>4, <2>5, <2>6, <2>7 DEF CallStep
  <1>4. ASSUME NEW t \in Threads, PingStep(t) PROVE Alone'
    <2>0. wi[t] \in Conns
      BY <1>4
      DEF PingStep, PingRechecks, ProbeReturnsZero, ProbeReturnsError,
          CloseConnection, ReConnectTooEarly, StartReConnect,
          ConnectSucceeds, ConnectFails, TypeOK
    <2>1. CASE PingRechecks(t)
      <3>1. CASE IsIdle(wi[t])
        BY <2>0, <2>1, <3>1, AloneArrive
        DEF PingRechecks, Arrive, TypeOK, Undisturbed
      <3>2. CASE ~IsIdle(wi[t])
        BY <2>1, <3>2, AloneAway DEF PingRechecks, TypeOK
      <3> QED BY <3>1, <3>2
    <2>2. CASE ProbeReturnsZero(t)
      BY <2>2, AloneMove DEF ProbeReturnsZero, TypeOK, Undisturbed
    <2>3. CASE ProbeReturnsError(t)
      BY <2>3, <2>0, AloneDepart DEF ProbeReturnsError, TypeOK, Depart
    <2>4. CASE CloseConnection(t)
      BY <2>4, AloneMove DEF CloseConnection, TypeOK, Undisturbed
    <2>5. CASE ReConnectTooEarly(t)
      BY <2>5, <2>0, AloneDepart DEF ReConnectTooEarly, TypeOK, Depart
    <2>6. CASE StartReConnect(t)
      BY <2>6, AloneMove DEF StartReConnect, TypeOK, Undisturbed
    <2>7. CASE ConnectSucceeds(t)
      BY <2>7, <2>0, AloneDepart
      DEF ConnectSucceeds, SetIdle, TypeOK, Depart
    <2>8. CASE ConnectFails(t)
      BY <2>8, <2>0, AloneDepart DEF ConnectFails, TypeOK, Depart
    <2> QED
      BY <1>4, <2>1, <2>2, <2>3, <2>4, <2>5, <2>6, <2>7, <2>8 DEF PingStep
  <1>5. ASSUME NEW c \in Conns, ServerDrops(c) \/ Time(c) PROVE Alone'
    BY <1>5
    DEF ServerDrops, Time, Age, ClockWraps, Alone, Meetings, Undisturbed
  <1>6. CASE UNCHANGED vars
    BY <1>6 DEF vars, Alone, Meetings, Undisturbed
  <1> QED
    BY <1>1, <1>2, <1>3, <1>4, <1>5, <1>6 DEF Next, CallerStep, Threads

LEMMA AloneAlways == Spec => []Alone
  <1>1. Init => Alone
    BY DEF Init, Alone, Meetings, Undisturbed, OnHandle, InCommand, InPing
  <1> QED BY <1>1, TypeCorrect, AloneStep, PTL DEF Spec

\* As long as no two threads meet on a connection, m_bBusy says exactly
\* whether a command is running on it, in spite of the Connect that clears
\* it from pool Ping.
THEOREM BusyMarkExact == Spec => []BusyExactUntilOverlap
  <1>1. TypeOK /\ BusyHasUser /\ Alone => BusyExactUntilOverlap
    BY DEF BusyHasUser, Alone, Undisturbed, BusyExactUntilOverlap, Inside
  <1> QED BY <1>1, TypeCorrect, BusyMarkHasUser, AloneAlways, PTL

\* A command that no other thread has joined on its connection returns what
\* its own statement produced, or an error.
THEOREM AnswerIsOwn == Spec => []OwnAnswerUntilOverlap
  <1>1. Alone => OwnAnswerUntilOverlap
    BY DEF Alone, Undisturbed, OwnAnswerUntilOverlap, InCommand
  <1> QED BY <1>1, AloneAlways, PTL

\* The mysql_ping in front of a statement is only ever reached when another
\* thread has interfered.
THEOREM PingInCommandIsDead == Spec => []PingInCommandIdle
  <1>1. Alone => PingInCommandIdle
    BY DEF Alone, Undisturbed, PingInCommandIdle, InCommand
  <1> QED BY <1>1, AloneAlways, PTL

-----------------------------------------------------------------------------
(* A pool of one thread.                                                   *)

\* A thread meets nobody on a connection but another thread: neither its own
\* earlier command nor its own round of the keep-alive is still there.
LEMMA LoneStep ==
  ASSUME \A t, u \in Threads : t = u,
         TypeOK, \A c \in Conns : ~overlapped[c], [Next]_vars
  PROVE  \A c \in Conns : ~overlapped'[c]
  <1> USE DEF TypeOK, InCommand, InPing, connVars
  <1>1. ASSUME NEW t \in Threads, pc[t] \in {"held", "check"}
        PROVE  Using(wi[t]) = {}
    BY <1>1 DEF Using
  <1>2. ASSUME NEW t \in Threads, NEW c, Depart(t, c)
        PROVE  \A d \in Conns : ~overlapped'[d]
    BY <1>2 DEF Depart
  <1>3. ASSUME NEW t \in Threads, Enter(t) \/ Scan(t) \/ GiveUp(t)
        PROVE  overlapped' = overlapped
    BY <1>3 DEF Enter, Scan, ScanSeesIdle, ScanSeesBusy, ScanEnds, GiveUp
  <1>4. ASSUME NEW t \in Threads, NEW o, BeginCommand(t, o)
        PROVE  \A c \in Conns : ~overlapped'[c]
    BY <1>1, <1>4 DEF BeginCommand, Arrive
  <1>5. ASSUME NEW t \in Threads, CallStep(t)
        PROVE  \A c \in Conns : ~overlapped'[c]
    BY <1>2, <1>5
    DEF CallStep, PingInCommand, PingReturns, QueryReturns, QueryFails,
        ReadResult, StoreResultFails, EndCommand
  <1>6. ASSUME NEW t \in Threads, PingStep(t)
        PROVE  \A c \in Conns : ~overlapped'[c]
    <2>1. CASE PingRechecks(t) BY <1>1, <2>1 DEF PingRechecks, Arrive
    <2>2. CASE ~PingRechecks(t)
      BY <1>2, <1>6, <2>2
      DEF PingStep, ProbeReturnsZero, ProbeReturnsError, CloseConnection,
          ReConnectTooEarly, StartReConnect, ConnectSucceeds, ConnectFails
    <2> QED BY <2>1, <2>2
  <1>7. ASSUME NEW c \in Conns, ServerDrops(c) \/ Time(c)
        PROVE  overlapped' = overlapped
    BY <1>7 DEF ServerDrops, Time, Age, ClockWraps
  <1> QED
    BY <1>3, <1>4, <1>5, <1>6, <1>7 DEF Next, CallerStep, Threads, vars

\* What fails for two threads holds for one: a pool that a single thread
\* uses, be it a worker, the keep-alive or pool Ping, and however the server
\* treats it, never gives a command the result of another statement, not
\* even of an earlier one that failed half way.
THEOREM LoneThreadOwnAnswer ==
  ASSUME \A t, u \in Threads : t = u
  PROVE  Spec => []OwnAnswer
  <1>1. Init => \A c \in Conns : ~overlapped[c]
    BY DEF Init
  <1>2. /\ TypeOK
        /\ \A c \in Conns : ~overlapped[c]
        /\ [Next]_vars
        => (\A c \in Conns : ~overlapped[c])'
    BY LoneStep
  <1>3. /\ TypeOK
        /\ \A c \in Conns : ~overlapped[c]
        /\ OwnAnswerUntilOverlap
        => OwnAnswer
    BY DEF TypeOK, OwnAnswerUntilOverlap, OwnAnswer
  <1> QED BY <1>1, <1>2, <1>3, TypeCorrect, AnswerIsOwn, PTL DEF Spec

=============================================================================
