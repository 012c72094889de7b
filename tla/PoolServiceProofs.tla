-------------------------- MODULE PoolServiceProofs --------------------------
(***************************************************************************)
(* A pool that no keep-alive works on, with at least as many connections   *)
(* as workers, refuses nobody: the counting argument behind the advice to  *)
(* configure as many connections as threads, for every number of them.     *)
(***************************************************************************)
EXTENDS ConnectionPoolProofs

-----------------------------------------------------------------------------
(* Who may be where.                                                       *)

\* Only workers and the keep-alive run commands, and GetConnection returns
\* NULL only at the end of the array.
Roles ==
  /\ \A p \in Pingers : pc[p] \notin {"held"} \cup InCommand
  /\ \A t \in Threads : pc[t] = "refused" => wi[t] = PoolSize

LEMMA RolesStep == TypeOK /\ Roles /\ [Next]_vars => Roles'
  <1> SUFFICES ASSUME TypeOK, Roles, [Next]_vars PROVE Roles'
    OBVIOUS
  <1> USE DEF TypeOK, Roles, InCommand, InPing, Places, Goto, NextIndex,
          Threads, connVars, threadVars
  <1>1. ASSUME NEW t \in Threads, Enter(t) PROVE Roles'
    BY <1>1 DEF Enter
  <1>2. ASSUME NEW t \in Threads, Scan(t) PROVE Roles'
    BY <1>2 DEF Scan, ScanSeesIdle, ScanSeesBusy, ScanEnds
  <1>3. ASSUME NEW t \in Threads, GiveUp(t) PROVE Roles'
    BY <1>3 DEF GiveUp
  <1>4. ASSUME NEW t \in Workers \cup Keepers, NEW o, BeginCommand(t, o)
        PROVE  Roles'
    BY <1>4 DEF BeginCommand
  <1>5. ASSUME NEW t \in Workers \cup Keepers, CallStep(t) PROVE Roles'
    BY <1>5
    DEF CallStep, PingInCommand, PingReturns, QueryReturns, QueryFails,
        ReadResult, StoreResultFails, EndCommand
  <1>6. ASSUME NEW t \in Threads, PingStep(t) PROVE Roles'
    BY <1>6
    DEF PingStep, PingRechecks, ProbeReturnsZero, ProbeReturnsError,
        CloseConnection, ReConnectTooEarly, StartReConnect,
        ConnectSucceeds, ConnectFails
  <1>7. ASSUME NEW c \in Conns, ServerDrops(c) \/ Time(c) PROVE Roles'
    BY <1>7 DEF ServerDrops, Time, Age, ClockWraps
  <1>8. CASE UNCHANGED vars
    BY <1>8 DEF vars
  <1> QED
    BY <1>1, <1>2, <1>3, <1>4, <1>5, <1>6, <1>7, <1>8
    DEF Next, CallerStep

LEMMA RolesAlways == Spec => []Roles
  <1>1. Init => Roles
    BY DEF Init, Roles, InCommand, Threads
  <1> QED BY <1>1, TypeCorrect, RolesStep, PTL DEF Spec

-----------------------------------------------------------------------------
(* Counting the workers.                                                   *)

LEMMA BeyondFinite ==
  \A i \in 0 .. PoolSize :
    /\ IsFiniteSet(Beyond(i)) /\ Cardinality(Beyond(i)) \in Nat
    /\ Cardinality(Beyond(i)) <= Cardinality(Workers)
    /\ Cardinality(Workers) \in Nat
  <1> TAKE i \in 0 .. PoolSize
  <1>1. Beyond(i) \subseteq Workers
    BY DEF Beyond
  <1> QED BY <1>1, FS_Subset, FS_CardinalityType, PoolAssumption

\* A step in which no worker moves up the array thins nothing out.
LEMMA ThinningKept ==
  ASSUME Thinning,
         \A w \in Workers :
           pc'[w] # "out" => pc[w] # "out" /\ wi'[w] = wi[w]
  PROVE  Thinning'
  <1> SUFFICES ASSUME NEW i \in 0 .. PoolSize, Beyond(i)' # {}
               PROVE  Cardinality(Beyond(i)') + i <= Cardinality(Workers)
    BY DEF Thinning
  <1>1. Beyond(i)' \subseteq Beyond(i)
    BY DEF Beyond
  <1>2. Cardinality(Beyond(i)') \in Nat
        /\ Cardinality(Beyond(i)') <= Cardinality(Beyond(i))
    BY <1>1, BeyondFinite, FS_Subset, FS_CardinalityType
  <1>3. Cardinality(Beyond(i)) + i <= Cardinality(Workers)
    BY <1>1 DEF Thinning
  <1> QED BY <1>2, <1>3, BeyondFinite, PoolAssumption

\* A worker comes in at index 0: it is beyond 0 only, where all may be.
LEMMA ThinningAtEnter ==
  ASSUME TypeOK, Thinning, NEW t \in Threads, Enter(t)
  PROVE  Thinning'
  <1> SUFFICES ASSUME NEW i \in 0 .. PoolSize, Beyond(i)' # {}
               PROVE  Cardinality(Beyond(i)') + i <= Cardinality(Workers)
    BY DEF Thinning
  <1>1. CASE i = 0
    <2>1. Beyond(i)' \subseteq Workers
      BY DEF Beyond
    <2> QED
      BY <1>1, <2>1, FS_Subset, FS_CardinalityType, PoolAssumption
  <1>2. CASE i # 0
    <2>1. Beyond(i)' \subseteq Beyond(i)
      BY <1>2, PoolAssumption DEF Beyond, Enter, Goto, TypeOK
    <2>2. Cardinality(Beyond(i)') \in Nat
          /\ Cardinality(Beyond(i)') <= Cardinality(Beyond(i))
      BY <2>1, BeyondFinite, FS_Subset, FS_CardinalityType
    <2>3. Cardinality(Beyond(i)) + i <= Cardinality(Workers)
      BY <2>1 DEF Thinning
    <2> QED BY <2>2, <2>3, BeyondFinite, PoolAssumption
  <1> QED BY <1>1, <1>2

\* The heart of the argument.  A thread that steps over a busy connection
\* leaves behind the worker that made it busy: that worker is beyond wi[t]
\* and not beyond wi[t] + 1.
LEMMA ThinningAtBusy ==
  ASSUME Keepers = {}, TypeOK, BusyHasUser, Roles, Thinning,
         NEW t \in Threads, ScanSeesBusy(t)
  PROVE  Thinning'
  <1> SUFFICES ASSUME NEW i \in 0 .. PoolSize, Beyond(i)' # {}
               PROVE  Cardinality(Beyond(i)') + i <= Cardinality(Workers)
    BY DEF Thinning
  <1>1. /\ wi[t] \in Conns /\ pc[t] = "scan" /\ pc' = pc
        /\ wi' = [wi EXCEPT ![t] = @ + 1] /\ m_bBusy[wi[t]]
    BY PoolAssumption DEF ScanSeesBusy, IsIdle, Conns, TypeOK
  <1>2. PICK u \in Inside(wi[t]) : TRUE
    BY <1>1 DEF BusyHasUser
  <1>3. u \in Workers /\ u # t /\ wi[u] = wi[t] /\ pc[u] # "out"
    BY <1>1, <1>2 DEF Inside, Roles, Threads, InCommand
  <1>4. CASE i = wi[t] + 1
    <2> DEFINE j == wi[t]
    <2>1. j \in 0 .. PoolSize /\ i = j + 1 /\ j \in Nat
      BY <1>1, <1>4, PoolAssumption DEF Conns
    <2>2. u \in Beyond(j) /\ u \notin Beyond(i)'
      BY <1>1, <1>3, <2>1 DEF Beyond, TypeOK
    <2>3. Beyond(i)' \cup {u} \subseteq Beyond(j)
      BY <1>1, <2>1, <2>2, PoolAssumption DEF Beyond, TypeOK, Threads
    <2>4. IsFiniteSet(Beyond(i)')
      BY <2>1, <2>3, BeyondFinite, FS_Subset
    <2>5. Cardinality(Beyond(i)' \cup {u}) = Cardinality(Beyond(i)') + 1
      BY <2>2, <2>4, FS_AddElement
    <2>6. Cardinality(Beyond(i)' \cup {u}) <= Cardinality(Beyond(j))
      BY <2>1, <2>3, BeyondFinite, FS_Subset
    <2>7. Cardinality(Beyond(j)) + j <= Cardinality(Workers)
      BY <2>1, <2>2 DEF Thinning
    <2>8. Cardinality(Beyond(i)') \in Nat
      BY <2>4, FS_CardinalityType
    <2> QED BY <2>1, <2>5, <2>6, <2>7, <2>8, BeyondFinite
  <1>5. CASE i # wi[t] + 1
    <2>1. Beyond(i)' \subseteq Beyond(i)
      BY <1>1, <1>5, PoolAssumption DEF Beyond, TypeOK, Conns
    <2>2. Cardinality(Beyond(i)') \in Nat
          /\ Cardinality(Beyond(i)') <= Cardinality(Beyond(i))
      BY <2>1, BeyondFinite, FS_Subset, FS_CardinalityType
    <2>3. Cardinality(Beyond(i)) + i <= Cardinality(Workers)
      BY <2>1 DEF Thinning
    <2> QED BY <2>2, <2>3, BeyondFinite, PoolAssumption
  <1> QED BY <1>4, <1>5

LEMMA ThinningStep ==
  ASSUME Keepers = {}
  PROVE  TypeOK /\ BusyHasUser /\ Roles /\ Thinning /\ [Next]_vars
           => Thinning'
  <1> SUFFICES ASSUME TypeOK, BusyHasUser, Roles, Thinning, [Next]_vars
               PROVE  Thinning'
    OBVIOUS
  <1> USE DEF TypeOK, InCommand, InPing, Places, Goto, NextIndex, Threads,
          connVars, threadVars
  <1>1. ASSUME NEW t \in Threads, Enter(t) PROVE Thinning'
    BY <1>1, ThinningAtEnter
  <1>2. ASSUME NEW t \in Threads, Scan(t) PROVE Thinning'
    <2>1. CASE ScanSeesIdle(t)
      BY <2>1, ThinningKept DEF ScanSeesIdle
    <2>2. CASE ScanSeesBusy(t)
      BY <2>2, ThinningAtBusy
    <2>3. CASE ScanEnds(t)
      BY <2>3, ThinningKept DEF ScanEnds
    <2> QED BY <1>2, <2>1, <2>2, <2>3 DEF Scan
  <1>3. ASSUME NEW t \in Threads, GiveUp(t) PROVE Thinning'
    BY <1>3, ThinningKept DEF GiveUp
  <1>4. ASSUME NEW t \in Threads, NEW o, BeginCommand(t, o) PROVE Thinning'
    BY <1>4, ThinningKept DEF BeginCommand
  <1>5. ASSUME NEW t \in Threads, CallStep(t) PROVE Thinning'
    BY <1>5, ThinningKept
    DEF CallStep, PingInCommand, PingReturns, QueryReturns, QueryFails,
        ReadResult, StoreResultFails, EndCommand
  <1>6. ASSUME NEW t \in Pingers, PingStep(t) PROVE Thinning'
    <2>1. \A w \in Workers : w # t
      BY PoolAssumption
    <2> QED
      BY <1>6, <2>1, ThinningKept
      DEF PingStep, PingRechecks, ProbeReturnsZero, ProbeReturnsError,
          CloseConnection, ReConnectTooEarly, StartReConnect,
          ConnectSucceeds, ConnectFails
  <1>7. ASSUME NEW c \in Conns, ServerDrops(c) \/ Time(c) PROVE Thinning'
    BY <1>7, ThinningKept DEF ServerDrops, Time, Age, ClockWraps
  <1>8. CASE UNCHANGED vars
    BY <1>8, ThinningKept DEF vars
  <1> QED
    BY <1>1, <1>2, <1>3, <1>4, <1>5, <1>6, <1>7, <1>8
    DEF Next, CallerStep

\* With no keep-alive running, of n workers at most n - i are at index i of
\* the array or beyond it, whatever they do and however often.
THEOREM WorkersThinOut ==
  ASSUME Keepers = {} PROVE Spec => []Thinning
  <1>1. Init => Thinning
    BY DEF Init, Thinning, Beyond, Threads
  <1> QED
    BY <1>1, TypeCorrect, BusyMarkHasUser, RolesAlways, ThinningStep, PTL
    DEF Spec

\* As many connections as workers, and no keep-alive: GetConnection never
\* returns NULL.
THEOREM NobodyRefused ==
  ASSUME Keepers = {}, Cardinality(Workers) <= PoolSize
  PROVE  Spec => []NeverRefused
  <1>1. Roles /\ Thinning => NeverRefused
    <2> SUFFICES ASSUME Roles, Thinning, NEW w \in Workers, pc[w] = "refused"
                 PROVE  FALSE
      BY DEF NeverRefused
    <2>1. w \in Beyond(PoolSize) /\ PoolSize \in 0 .. PoolSize
      BY PoolAssumption DEF Roles, Beyond, Threads
    <2>2. Cardinality(Beyond(PoolSize)) + PoolSize <= Cardinality(Workers)
      BY <2>1 DEF Thinning
    <2>3. Cardinality(Beyond(PoolSize)) # 0
      BY <2>1, BeyondFinite, FS_EmptySet
    <2> QED BY <2>1, <2>2, <2>3, BeyondFinite, PoolAssumption
  <1> QED BY <1>1, RolesAlways, WorkersThinOut, PTL

-----------------------------------------------------------------------------
(* The pool implements PoolService.                                        *)

\* A step that moves no worker in or out of "scan", or of what it holds, is
\* a stutter of the service.
LEMMA ServiceStutter ==
  ASSUME \A w \in Workers :
           /\ pc'[w] = "scan" <=> pc[w] = "scan"
           /\ Holding(w)' <=> Holding(w)
           /\ Holding(w) => wi'[w] = wi[w]
  PROVE  UNCHANGED <<Phase, Lease>>
  BY DEF Phase, Lease

LEMMA ServiceStep ==
  ASSUME Keepers = {}, Cardinality(Workers) <= PoolSize
  PROVE  /\ TypeOK /\ Roles /\ Thinning /\ NeverRefused /\ NeverRefused'
         /\ [Next]_vars
         => [Service!Next]_<<Phase, Lease>>
  <1> SUFFICES ASSUME TypeOK, Roles, Thinning, NeverRefused, NeverRefused',
                      [Next]_vars
               PROVE  Service!Next \/ UNCHANGED <<Phase, Lease>>
    BY DEF Service!vars
  <1> USE DEF TypeOK, InCommand, InPing, Places, Goto, NextIndex, Threads,
          connVars, threadVars, Holding
  <1>1. ASSUME NEW t \in Workers, Enter(t) PROVE Service!Ask(t)
    BY <1>1 DEF Enter, Service!Ask, Phase, Lease
  <1>2. ASSUME NEW t \in Workers, ScanSeesIdle(t) PROVE Service!Grant(t)
    <2>1. t \notin Pingers
      BY PoolAssumption
    <2>2. wi[t] \in 0 .. PoolSize /\ t \in Beyond(wi[t])
      BY <1>2 DEF ScanSeesIdle, Beyond
    <2>3. Cardinality(Beyond(wi[t])) + wi[t] <= Cardinality(Workers)
      BY <2>2 DEF Thinning
    <2>4. Cardinality(Beyond(wi[t])) # 0
      BY <2>2, BeyondFinite, FS_EmptySet
    <2>5. wi[t] \in 0 .. Cardinality(Workers) - 1
      BY <2>2, <2>3, <2>4, BeyondFinite, PoolAssumption
    <2>6. Phase[t] = "asking" /\ Phase' = [Phase EXCEPT ![t] = "holding"]
      BY <1>2, <2>1 DEF ScanSeesIdle, Phase
    <2>7. Lease' = [Lease EXCEPT ![t] = wi[t]]
      BY <1>2, <2>1 DEF ScanSeesIdle, Lease
    <2>8. \E c \in 0 .. Cardinality(Workers) - 1 :
            Lease' = [Lease EXCEPT ![t] = c]
      BY <2>5, <2>7
    <2> QED BY <2>6, <2>8 DEF Service!Grant
  <1>3. ASSUME NEW t \in Workers, EndCommand(t) PROVE Service!Finish(t)
    <2>1. t \notin Keepers
      BY PoolAssumption
    <2>2. pc[t] = "done" /\ pc' = [pc EXCEPT ![t] = "out"]
          /\ wi' = [wi EXCEPT ![t] = 0]
      BY <1>3, <2>1 DEF EndCommand
    <2>3. Phase[t] = "holding" /\ Phase' = [Phase EXCEPT ![t] = "out"]
      BY <2>2 DEF Phase
    <2>4. Lease' = [Lease EXCEPT ![t] = Nobody]
      BY <2>2 DEF Lease
    <2> QED BY <2>3, <2>4 DEF Service!Finish
  <1>4. ASSUME NEW t \in Threads, ScanSeesBusy(t) \/ GiveUp(t)
        PROVE  UNCHANGED <<Phase, Lease>>
    BY <1>4, ServiceStutter DEF ScanSeesBusy, GiveUp, NeverRefused
  <1>5. ASSUME NEW t \in Workers, ScanEnds(t) PROVE FALSE
    BY <1>5 DEF ScanEnds, NeverRefused
  <1>6. ASSUME NEW t \in Threads, NEW o, BeginCommand(t, o)
        PROVE  UNCHANGED <<Phase, Lease>>
    BY <1>6, ServiceStutter DEF BeginCommand
  <1>7. ASSUME NEW t \in Workers,
               PingInCommand(t) \/ PingReturns(t) \/ QueryReturns(t)
               \/ QueryFails(t) \/ ReadResult(t) \/ StoreResultFails(t)
        PROVE  UNCHANGED <<Phase, Lease>>
    BY <1>7, ServiceStutter
    DEF PingInCommand, PingReturns, QueryReturns, QueryFails, ReadResult,
        StoreResultFails
  <1>8. ASSUME NEW t \in Pingers, Enter(t) \/ Scan(t) \/ PingStep(t)
        PROVE  UNCHANGED <<Phase, Lease>>
    <2>1. \A w \in Workers : w # t
      BY PoolAssumption
    <2>2. \A w \in Workers : pc'[w] = pc[w] /\ wi'[w] = wi[w]
      BY <1>8, <2>1
      DEF Enter, Scan, ScanSeesIdle, ScanSeesBusy, ScanEnds, PingStep,
          PingRechecks, ProbeReturnsZero, ProbeReturnsError,
          CloseConnection, ReConnectTooEarly, StartReConnect,
          ConnectSucceeds, ConnectFails
    <2> QED BY <2>2, ServiceStutter
  <1>9. ASSUME NEW c \in Conns, ServerDrops(c) \/ Time(c)
        PROVE  UNCHANGED <<Phase, Lease>>
    BY <1>9, ServiceStutter DEF ServerDrops, Time, Age, ClockWraps
  <1>10. CASE UNCHANGED vars
    BY <1>10, ServiceStutter DEF vars
  <1> QED
    BY <1>1, <1>2, <1>3, <1>4, <1>5, <1>6, <1>7, <1>8, <1>9, <1>10
    DEF Next, CallerStep, CallStep, Scan, Service!Next

\* As many connections as workers, and no keep-alive: what the workers see
\* is the service that grants every request, each with a connection among
\* the first as many as there are workers.
THEOREM PoolImplementsService ==
  ASSUME Keepers = {}, Cardinality(Workers) <= PoolSize
  PROVE  Spec => ImplementsService
  <1>1. Init => Service!Init
    BY DEF Init, Service!Init, Phase, Lease, Holding, InCommand, Threads
  <1> QED
    BY <1>1, TypeCorrect, RolesAlways, WorkersThinOut, NobodyRefused,
       ServiceStep, PTL
    DEF Spec, ImplementsService, Service!Spec, Service!vars

=============================================================================
