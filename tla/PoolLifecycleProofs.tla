------------------------- MODULE PoolLifecycleProofs -------------------------
(***************************************************************************)
(* Proofs about PoolLifecycle, for every number of users and addresses and *)
(* every nThreadNum.                                                       *)
(***************************************************************************)
EXTENDS PoolLifecycle, TLAPS

-----------------------------------------------------------------------------
(* What the main thread has built at each place of its calls.              *)

\* Which pool is alive.
Stage ==
  /\ main \in {"init:close", "free:close", "init:delete", "free:delete",
               "allocate", "connect"} => g \in Pools /\ alive = {g}
  /\ main = "idle" => alive = {g} \ {Null}
  /\ main \in {"init:forget", "free:forget"} => g \in Pools /\ alive = {}
  /\ main = "construct" => g = Null /\ alive = {}

\* Which sessions are open.
Sessions ==
  /\ \A p \in Pools : p # g => open[p] = {}
  /\ main \in {"init:delete", "free:delete", "init:forget", "free:forget",
               "allocate"} => open[g] = {}
  /\ main \in {"init:close", "free:close"} =>
       \A i \in open[g] : wi <= i /\ i < m_wMaxPoolNum[g]
  /\ main = "connect" =>
       /\ open[g] = 0 .. wi - 1 /\ wi <= m_wMaxPoolNum[g]
       /\ m_pDBConnection[g] /\ allocated[g] = m_wMaxPoolNum[g]
  /\ main = "idle" /\ g # Null =>
       \A i \in open[g] : i < m_wMaxPoolNum[g]

MainInv == TypeOK /\ Stage /\ Sessions

LEMMA MainInit == Init => MainInv
  <1> SUFFICES ASSUME Init PROVE MainInv
    OBVIOUS
  <1>1. TypeOK
    BY DEF Init, TypeOK
  <1>2. Stage
    BY DEF Init, Stage
  <1>3. Sessions
    BY DEF Init, Sessions
  <1> QED BY <1>1, <1>2, <1>3 DEF MainInv

\* The users change nothing the main thread relies on.
LEMMA MainInvUser ==
  ASSUME MainInv, NEW u \in Users, UserStep(u)
  PROVE  MainInv'
  <1> USE DEF MainInv, TypeOK, poolVars, mainVars
  <1>1. UNCHANGED <<poolVars, mainVars>>
    BY DEF UserStep, Call, ReadPointer, LoopSeesIdle, LoopGoesOn, LoopEnds,
           LoopCrashes, UseConnection, EndUse
  <1>2. Stage' /\ Sessions'
    BY <1>1 DEF Stage, Sessions
  <1>3. /\ pc' \in [Users -> {"out", "called", "loop", "use", "used",
                              "overran", "crashed"}]
        /\ at' \in [Users -> Pools \cup {Null}]
        /\ ui' \in [Users -> Nat]
    <2> USE DEF Crash, Leave
    <2>1. CASE Call(u) BY <2>1 DEF Call
    <2>2. CASE ReadPointer(u) BY <2>2 DEF ReadPointer
    <2>3. CASE LoopSeesIdle(u) BY <2>3 DEF LoopSeesIdle
    <2>4. CASE LoopGoesOn(u) BY <2>4 DEF LoopGoesOn
    <2>5. CASE LoopEnds(u) BY <2>5 DEF LoopEnds
    <2>6. CASE LoopCrashes(u) BY <2>6 DEF LoopCrashes
    <2>7. CASE UseConnection(u) BY <2>7 DEF UseConnection
    <2>8. CASE EndUse(u) BY <2>8 DEF EndUse
    <2> QED
      BY <2>1, <2>2, <2>3, <2>4, <2>5, <2>6, <2>7, <2>8 DEF UserStep
  <1> QED BY <1>1, <1>2, <1>3

LEMMA MainInvMain ==
  ASSUME MainInv, MainStep
  PROVE  MainInv'
  <1> USE LifecycleAssumption
      DEF MainInv, TypeOK, Stage, Sessions, poolVars, mainVars, userVars,
          Closing, Deleting, Forget, OnTo
  <1>1. ASSUME NEW n \in Sizes, MTInitDBConnect(n) PROVE MainInv'
    <2>1. n \in Nat
      OBVIOUS
    <2>2. CASE g = Null
      <3>1. \A p \in Pools : open[p] = {}
        BY <2>2
      <3>2. alive = {}
        BY <1>1, <2>2 DEF MTInitDBConnect
      <3> QED BY <1>1, <2>1, <2>2, <3>1, <3>2 DEF MTInitDBConnect
    <2>3. CASE g # Null
      <3>1. g \in Pools /\ alive = {g}
        BY <1>1, <2>3 DEF MTInitDBConnect
      <3>2. \A i \in open[g] : 0 <= i /\ i < m_wMaxPoolNum[g]
        BY <1>1, <2>3, <3>1 DEF MTInitDBConnect
      <3>3. Stage'
        BY <1>1, <2>3, <3>1 DEF MTInitDBConnect
      <3>4. Sessions'
        BY <1>1, <2>3, <3>2 DEF MTInitDBConnect
      <3>5. TypeOK'
        BY <1>1, <2>1 DEF MTInitDBConnect
      <3> QED BY <3>3, <3>4, <3>5
    <2> QED BY <2>2, <2>3
  <1>2. CASE MTDBFreeSQLPool
    <2>1. g \in Pools /\ alive = {g}
      BY <1>2 DEF MTDBFreeSQLPool
    <2>2. \A i \in open[g] : 0 <= i /\ i < m_wMaxPoolNum[g]
      BY <1>2, <2>1 DEF MTDBFreeSQLPool
    <2>3. Stage'
      BY <1>2, <2>1 DEF MTDBFreeSQLPool
    <2>4. Sessions'
      BY <1>2, <2>2 DEF MTDBFreeSQLPool
    <2>5. TypeOK'
      BY <1>2 DEF MTDBFreeSQLPool
    <2> QED BY <2>3, <2>4, <2>5
  <1>3. CASE CloseNext
    BY <1>3 DEF CloseNext
  <1>4. CASE CloseEnds
    BY <1>4 DEF CloseEnds
  <1>5. CASE DeletePool
    BY <1>5 DEF DeletePool
  <1>6. CASE ForgetPool
    BY <1>6 DEF ForgetPool
  <1>7. ASSUME NEW p \in Pools, ConstructPool(p) PROVE MainInv'
    BY <1>7 DEF ConstructPool
  <1>8. CASE AllocateArray
    BY <1>8 DEF AllocateArray
  <1>9. CASE AllocateFails
    BY <1>9 DEF AllocateFails
  <1>10. CASE ConnectNext
    BY <1>10 DEF ConnectNext
  <1>11. CASE ConnectFails
    BY <1>11 DEF ConnectFails
  <1>12. CASE CreateEnds
    BY <1>12 DEF CreateEnds
  <1>13. ASSUME NEW n \in Resizes, SetMaxPoolNum(n) PROVE MainInv'
    BY <1>13 DEF SetMaxPoolNum
  <1>14. CASE ConstructFails
    BY <1>14 DEF ConstructFails
  <1> QED
    BY <1>1, <1>2, <1>3, <1>4, <1>5, <1>6, <1>7, <1>8, <1>9, <1>10, <1>11,
       <1>12, <1>13, <1>14
    DEF MainStep, Delete, Create

LEMMA MainInvStep == MainInv /\ [Next]_vars => MainInv'
  <1>1. MainInv /\ UNCHANGED vars => MainInv'
    BY DEF MainInv, TypeOK, Stage, Sessions, vars
  <1> QED BY <1>1, MainInvUser, MainInvMain DEF Next

LEMMA MainAlways == Spec => []MainInv
  BY MainInit, MainInvStep, PTL DEF Spec

\* Every variable of a pool's life has its type.
THEOREM LifecycleTypes == Spec => []TypeOK
  <1>1. MainInv => TypeOK
    BY DEF MainInv
  <1> QED BY <1>1, MainAlways, PTL

\* Neither a rebuild nor a free leaves a session of an earlier pool open at
\* the server, failed connects and SetMaxPoolNum included.  (The users are
\* workers and keep-alives; pool Ping, which reconnects, is not one of them.)
THEOREM SessionsAreTheirPools == Spec => []NoSessionLeft
  <1>1. MainInv => NoSessionLeft
    BY DEF MainInv, Sessions, NoSessionLeft
  <1> QED BY <1>1, MainAlways, PTL

\* Between its calls the main thread leaves exactly the pool behind that
\* g_pDBConnectionPool points to.
THEOREM OnePoolAtATime == Spec => []OnePool
  <1>1. MainInv => OnePool
    BY DEF MainInv, Stage, OnePool
  <1> QED BY <1>1, MainAlways, PTL

-----------------------------------------------------------------------------
(* The users the server keeps out of a pool in the making.                 *)

Complete ==
  ready => /\ main = "idle" /\ g \in Pools
           /\ m_pDBConnection[g]
           /\ allocated[g] # 0 /\ open[g] = 0 .. allocated[g] - 1

\* A careful user in the pool finds it ready and holds the pointer of today.
CarefulInside ==
  \A u \in Careful :
    /\ pc[u] # "crashed"
    /\ pc[u] \in {"called", "loop", "use", "used"} => ready
    /\ pc[u] \in {"loop", "use", "used"} => at[u] = g
    /\ pc[u] \in {"use", "used"} => ui[u] < allocated[g]

CarefulInv == MainInv /\ Complete /\ CarefulInside

\* What is ready is usable at every index of the array.
LEMMA ReadyIsUsable ==
  ASSUME MainInv, Complete, ready, NEW i \in Nat, i < allocated[g]
  PROVE  IsThere(g, i) /\ Usable(g, i)
  <1>1. g \in Pools /\ alive = {g}
    BY LifecycleAssumption DEF MainInv, Complete, Stage
  <1>2. allocated[g] \in Nat /\ open[g] \subseteq prepared[g]
    BY <1>1 DEF MainInv, TypeOK
  <1>3. i \in prepared[g]
    BY <1>1, <1>2 DEF Complete
  <1> QED BY <1>1, <1>3 DEF Complete, IsThere, Usable, IsPrepared

\* A step of a user that is not careful, or a harmless one of a careful one.
LEMMA CarefulUser ==
  ASSUME CarefulInv, NEW u \in Users, UserStep(u)
  PROVE  CarefulInv'
  <1> USE LifecycleAssumption DEF poolVars, mainVars
  <1>1. UNCHANGED <<poolVars, mainVars>>
    BY DEF UserStep, Call, ReadPointer, LoopSeesIdle, LoopGoesOn, LoopEnds,
           LoopCrashes, UseConnection, EndUse
  <1>2. MainInv' /\ Complete'
    BY <1>1, MainInvUser DEF CarefulInv, Complete
  <1>3. \A v \in Users :
          v # u => pc'[v] = pc[v] /\ at'[v] = at[v] /\ ui'[v] = ui[v]
    BY DEF UserStep, Call, ReadPointer, LoopSeesIdle, LoopGoesOn, LoopEnds,
           LoopCrashes, UseConnection, EndUse, Crash, Leave,
           CarefulInv, MainInv, TypeOK
  <1>4. ASSUME u \in Careful
        PROVE  /\ pc'[u] # "crashed"
               /\ pc'[u] \in {"called", "loop", "use", "used"} => ready
               /\ pc'[u] \in {"loop", "use", "used"} => at'[u] = g
               /\ pc'[u] \in {"use", "used"} => ui'[u] < allocated[g]
    <2> USE <1>4 DEF CarefulInv, CarefulInside, MainInv, TypeOK, Crash, Leave
    <2>1. ui[u] \in Nat
      OBVIOUS
    <2>2. ready /\ ui[u] < allocated[g]
            => IsThere(g, ui[u]) /\ Usable(g, ui[u])
      BY <2>1, ReadyIsUsable
    <2>3. ready => g \in alive /\ allocated[g] \in Nat
      BY DEF Complete, Stage
    <2>12. ready => IsThere(g, ui[u]) \/ Beyond(g, ui[u])
      BY <2>1, <2>2, <2>3 DEF Complete, Beyond
    <2>4. CASE Call(u) BY <2>4 DEF Call
    <2>5. CASE ReadPointer(u) BY <2>1, <2>5 DEF ReadPointer
    <2>6. CASE LoopSeesIdle(u)
      BY <2>1, <2>6 DEF LoopSeesIdle, InLoop, IsThere
    <2>7. CASE LoopGoesOn(u) BY <2>1, <2>7 DEF LoopGoesOn, InLoop
    <2>8. CASE LoopEnds(u) BY <2>8 DEF LoopEnds
    <2>9. CASE LoopCrashes(u)
      BY <2>1, <2>3, <2>12, <2>9 DEF LoopCrashes, InLoop
    <2>10. CASE UseConnection(u) BY <2>1, <2>2, <2>10 DEF UseConnection
    <2>11. CASE EndUse(u) BY <2>1, <2>2, <2>11 DEF EndUse
    <2> QED
      BY <2>4, <2>5, <2>6, <2>7, <2>8, <2>9, <2>10, <2>11 DEF UserStep
  <1>5. CarefulInside'
    BY <1>1, <1>3, <1>4 DEF CarefulInv, CarefulInside
  <1> QED BY <1>2, <1>5 DEF CarefulInv

LEMMA CarefulMain ==
  ASSUME CarefulInv, MainStep
  PROVE  CarefulInv'
  <1> USE DEF CarefulInv, poolVars, mainVars, userVars
  <1>1. MainInv'
    BY MainInvMain
  <1>2. CASE \E n \in Sizes : MTInitDBConnect(n)
    BY <1>1, <1>2
    DEF MTInitDBConnect, CarefulAreOut, Complete, CarefulInside
  <1>3. CASE MTDBFreeSQLPool
    BY <1>1, <1>3
    DEF MTDBFreeSQLPool, CarefulAreOut, Complete, CarefulInside
  <1>4. CASE CreateEnds
    <2>1. g \in Pools /\ ~ready
      BY <1>4 DEF CreateEnds, Complete, MainInv, Stage
    <2>2. wi = m_wMaxPoolNum[g]
      BY <1>4, <2>1 DEF CreateEnds, MainInv, Sessions, TypeOK
    <2>3. Complete'
      BY <1>4, <2>1, <2>2 DEF CreateEnds, Complete, MainInv, Sessions
    <2>4. CarefulInside'
      BY <1>4, <2>1 DEF CreateEnds, CarefulInside
    <2> QED BY <1>1, <2>3, <2>4
  <1>5. CASE \/ Delete \/ AllocateArray \/ AllocateFails
             \/ ConnectNext \/ ConnectFails \/ ConstructFails
             \/ \E p \in Pools : ConstructPool(p)
    <2>1. ~ready /\ ready' = ready /\ pc' = pc
      BY <1>5
      DEF Delete, CloseNext, CloseEnds, DeletePool, ForgetPool, Closing,
          Deleting, Forget, AllocateArray, AllocateFails, ConnectNext,
          ConnectFails, ConstructPool, ConstructFails, Complete
    <2> QED BY <1>1, <2>1 DEF Complete, CarefulInside
  <1>6. ASSUME NEW n \in Resizes, SetMaxPoolNum(n) PROVE CarefulInv'
    BY <1>1, <1>6 DEF SetMaxPoolNum, Complete, CarefulInside
  <1> QED BY <1>2, <1>3, <1>4, <1>5, <1>6 DEF MainStep, Create

LEMMA CarefulAlways == Spec => []CarefulInv
  <1>1. Init => CarefulInv
    BY MainInit, LifecycleAssumption
    DEF Init, CarefulInv, Complete, CarefulInside
  <1>2. CarefulInv /\ UNCHANGED vars => CarefulInv'
    BY DEF CarefulInv, MainInv, TypeOK, Stage, Sessions, Complete,
           CarefulInside, vars
  <1>3. CarefulInv /\ [Next]_vars => CarefulInv'
    BY <1>2, CarefulUser, CarefulMain DEF Next
  <1> QED BY <1>1, <1>3, PTL DEF Spec

\* A user that stays out of the pool until it is ready, and whom the main
\* thread lets leave before it frees or rebuilds the pool, never touches
\* memory that is not there, whatever the other users do.
THEOREM CarefulAreSafe == Spec => []CarefulNeverCrash
  <1>1. CarefulInv => CarefulNeverCrash
    BY DEF CarefulInv, CarefulInside, CarefulNeverCrash
  <1> QED BY <1>1, CarefulAlways, PTL

\* TRUE from MTInitDBConnect means that every connection is up.
THEOREM ReadyPoolIsComplete == Spec => []ReadyIsComplete
  <1>1. CarefulInv => ReadyIsComplete
    BY LifecycleAssumption
    DEF CarefulInv, Complete, MainInv, Stage, ReadyIsComplete
  <1> QED BY <1>1, CarefulAlways, PTL

\* With every user kept out of a pool in the making nobody crashes at all.
THEOREM AllCarefulAllSafe ==
  ASSUME Careful = Users
  PROVE  Spec => []UsersNeverCrash
  <1>1. CarefulNeverCrash => UsersNeverCrash
    BY DEF CarefulNeverCrash, UsersNeverCrash
  <1> QED BY <1>1, CarefulAreSafe, PTL

-----------------------------------------------------------------------------
(* The end of the array.                                                   *)

\* What the size of a pool may be at each place of the main thread's calls
\* as long as SetMaxPoolNum is given no more than some nThreadNum.
SizeKept ==
  /\ main \in {"init:close", "init:delete", "init:forget", "construct"} =>
       want \in Sizes
  /\ main \in {"allocate", "connect"} \/ (main = "idle" /\ g # Null) =>
       m_wMaxPoolNum[g] \in Sizes
  /\ main = "allocate" => ~m_pDBConnection[g]
  /\ \A p \in Pools : m_pDBConnection[p] => m_wMaxPoolNum[p] <= allocated[p]

\* A user that has a connection has it below the length of the array it is
\* in, and no user has one in a pool whose array is still to come.
InUse(u) == pc[u] \in {"use", "used"}

UseKept ==
  \A u \in Users :
    /\ pc[u] # "overran"
    /\ InUse(u) => /\ at[u] \in Pools /\ ui[u] < allocated[at[u]]
                   /\ main = "allocate" => at[u] # g

ArrayInv == MainInv /\ SizeKept /\ UseKept

LEMMA ArrayUser ==
  ASSUME ArrayInv, NEW u \in Users, UserStep(u)
  PROVE  ArrayInv'
  <1> USE DEF ArrayInv, poolVars, mainVars
  <1>1. UNCHANGED <<poolVars, mainVars>>
    BY DEF UserStep, Call, ReadPointer, LoopSeesIdle, LoopGoesOn, LoopEnds,
           LoopCrashes, UseConnection, EndUse
  <1>2. MainInv' /\ SizeKept'
    BY <1>1, MainInvUser DEF SizeKept
  <1>3. \A v \in Users :
          v # u => pc'[v] = pc[v] /\ at'[v] = at[v] /\ ui'[v] = ui[v]
    BY DEF UserStep, Call, ReadPointer, LoopSeesIdle, LoopGoesOn, LoopEnds,
           LoopCrashes, UseConnection, EndUse, Crash, Leave, MainInv, TypeOK
  <1>4. ui[u] < allocated[at[u]] => ~Beyond(at[u], ui[u])
    BY DEF Beyond, MainInv, TypeOK
  <1>5. /\ pc'[u] # "overran"
        /\ InUse(u)' => /\ at'[u] \in Pools /\ ui'[u] < allocated[at'[u]]
                        /\ main = "allocate" => at'[u] # g
    <2> USE DEF UseKept, InUse, MainInv, TypeOK, Crash, Leave
    <2>1. CASE Call(u) BY <2>1 DEF Call
    <2>2. CASE ReadPointer(u) BY <2>2 DEF ReadPointer
    <2>3. CASE LoopSeesIdle(u)
      BY <2>3 DEF LoopSeesIdle, InLoop, IsThere, SizeKept
    <2>4. CASE LoopGoesOn(u) BY <2>4 DEF LoopGoesOn, InLoop
    <2>5. CASE LoopEnds(u) BY <2>5 DEF LoopEnds
    <2>6. CASE LoopCrashes(u)
      <3>1. ~Beyond(at[u], ui[u])
        BY <2>6 DEF LoopCrashes, InLoop, Beyond, SizeKept
      <3> QED BY <2>6, <3>1 DEF LoopCrashes
    <2>7. CASE UseConnection(u) BY <1>4, <2>7 DEF UseConnection
    <2>8. CASE EndUse(u) BY <1>4, <2>8 DEF EndUse
    <2> QED
      BY <2>1, <2>2, <2>3, <2>4, <2>5, <2>6, <2>7, <2>8 DEF UserStep
  <1>6. UseKept'
    BY <1>1, <1>3, <1>5 DEF UseKept, InUse
  <1> QED BY <1>2, <1>6

LEMMA ArrayMain ==
  ASSUME \A r \in Resizes, n \in Sizes : r <= n,
         ArrayInv, MainStep
  PROVE  ArrayInv'
  <1> USE LifecycleAssumption
      DEF ArrayInv, SizeKept, UseKept, InUse, poolVars, mainVars, userVars,
          Closing, Deleting, Forget, OnTo
  <1>1. MainInv'
    BY MainInvMain
  <1>2. TypeOK /\ Stage
    BY DEF MainInv
  <1> USE DEF TypeOK, Stage
  <1>3. ASSUME NEW n \in Sizes, MTInitDBConnect(n) PROVE ArrayInv'
    BY <1>1, <1>2, <1>3 DEF MTInitDBConnect
  <1>4. CASE MTDBFreeSQLPool
    BY <1>1, <1>2, <1>4 DEF MTDBFreeSQLPool
  <1>5. CASE CloseNext
    BY <1>1, <1>2, <1>5 DEF CloseNext
  <1>6. CASE CloseEnds
    BY <1>1, <1>2, <1>6 DEF CloseEnds
  <1>7. CASE DeletePool
    BY <1>1, <1>2, <1>7 DEF DeletePool
  <1>8. CASE ForgetPool
    BY <1>1, <1>2, <1>8 DEF ForgetPool
  <1>9. ASSUME NEW p \in Pools, ConstructPool(p) PROVE ArrayInv'
    BY <1>1, <1>2, <1>9 DEF ConstructPool
  <1>10. CASE ConstructFails
    BY <1>1, <1>2, <1>10 DEF ConstructFails
  <1>11. CASE AllocateArray
    BY <1>1, <1>2, <1>11 DEF AllocateArray
  <1>12. CASE AllocateFails
    BY <1>1, <1>2, <1>12 DEF AllocateFails
  <1>13. CASE ConnectNext
    BY <1>1, <1>2, <1>13 DEF ConnectNext
  <1>14. CASE ConnectFails
    BY <1>1, <1>2, <1>14 DEF ConnectFails
  <1>15. CASE CreateEnds
    BY <1>1, <1>2, <1>15 DEF CreateEnds
  <1>16. ASSUME NEW n \in Resizes, SetMaxPoolNum(n) PROVE ArrayInv'
    <2>1. g \in Pools /\ m_wMaxPoolNum[g] \in Sizes
      BY <1>2, <1>16 DEF SetMaxPoolNum
    <2>2. n = m_wMaxPoolNum[g]
      <3>1. n >= m_wMaxPoolNum[g] /\ n <= m_wMaxPoolNum[g]
        BY <1>16, <2>1 DEF SetMaxPoolNum
      <3>2. n \in Nat /\ m_wMaxPoolNum[g] \in Nat
        BY <2>1
      <3> QED BY <3>1, <3>2
    <2>3. m_wMaxPoolNum' = m_wMaxPoolNum
      BY <1>2, <1>16, <2>1, <2>2 DEF SetMaxPoolNum
    <2> QED BY <1>1, <1>16, <2>3 DEF SetMaxPoolNum
  <1> QED
    BY <1>3, <1>4, <1>5, <1>6, <1>7, <1>8, <1>9, <1>10, <1>11, <1>12, <1>13,
       <1>14, <1>15, <1>16
    DEF MainStep, Delete, Create

\* SetMaxPoolNum is all that can lead a user off the end of the array: where
\* it is given no more than any nThreadNum, or is not called, nobody goes
\* beyond it, not even a user that comes while the pool is built, resized
\* or deleted, and stays while it is.
THEOREM ResizeAloneOverruns ==
  ASSUME \A r \in Resizes, n \in Sizes : r <= n
  PROVE  Spec => []WithinArray
  <1>1. Init => ArrayInv
    <2> SUFFICES ASSUME Init PROVE SizeKept /\ UseKept
      BY MainInit DEF ArrayInv
    <2> QED BY DEF Init, SizeKept, UseKept, InUse
  <1>2. ArrayInv /\ UNCHANGED vars => ArrayInv'
    BY DEF ArrayInv, MainInv, TypeOK, Stage, Sessions, SizeKept, UseKept,
           InUse, vars
  <1>3. ArrayInv /\ [Next]_vars => ArrayInv'
    BY <1>2, ArrayUser, ArrayMain DEF Next
  <1>4. ArrayInv => WithinArray
    BY DEF ArrayInv, UseKept, WithinArray
  <1> QED BY <1>1, <1>3, <1>4, PTL DEF Spec

-----------------------------------------------------------------------------
(* The pool as its careful users see it.                                   *)

\* A step that leaves what is served, and where the careful users are.
LEMMA ServingStutter ==
  ASSUME UNCHANGED <<ready, ServedSize>>,
         \A u \in Careful :
           /\ (u \in Inside)' <=> u \in Inside
           /\ InUse(u)' <=> InUse(u)
           /\ InUse(u) => ui'[u] = ui[u]
  PROVE  UNCHANGED <<ServedSize, Inside, On>>
  BY DEF Inside, On, InUse

LEMMA ServingUser ==
  ASSUME CarefulInv, CarefulInv', NEW u \in Users, UserStep(u)
  PROVE  Serving!Next \/ UNCHANGED <<ServedSize, Inside, On>>
  <1> USE DEF CarefulInv, MainInv, TypeOK, poolVars, mainVars, Crash, Leave
  <1>1. UNCHANGED <<ready, ServedSize>>
    BY DEF UserStep, Call, ReadPointer, LoopSeesIdle, LoopGoesOn, LoopEnds,
           LoopCrashes, UseConnection, EndUse, ServedSize
  <1>2. CASE u \notin Careful
    <2>1. \A v \in Careful : pc'[v] = pc[v] /\ ui'[v] = ui[v]
      BY <1>2, LifecycleAssumption
      DEF UserStep, Call, ReadPointer, LoopSeesIdle, LoopGoesOn, LoopEnds,
          LoopCrashes, UseConnection, EndUse
    <2> QED BY <1>1, <2>1, ServingStutter DEF Inside, InUse
  <1>3. CASE u \in Careful
    <2> USE <1>3, LifecycleAssumption
    <2>1. CASE Call(u)
      <3>1. ServedSize # 0
        BY <2>1 DEF Call, ServedSize, Complete
      <3>2. u \notin Inside /\ Inside' = Inside \cup {u}
        BY <2>1 DEF Call, Inside
      <3>3. On' = On
        BY <2>1 DEF Call, On
      <3>4. Serving!Enter(u)
        BY <1>1, <3>1, <3>2, <3>3 DEF Serving!Enter
      <3> QED BY <3>4 DEF Serving!Next
    <2>2. CASE ReadPointer(u)
      BY <1>1, <2>2, ServingStutter DEF ReadPointer, Inside, InUse
    <2>3. CASE LoopSeesIdle(u)
      <3>1. u \in Inside /\ On[u] = Null
        BY <2>3 DEF LoopSeesIdle, InLoop, Inside, On
      <3>2. ui[u] \in 0 .. ServedSize - 1
        BY <2>3
        DEF LoopSeesIdle, InLoop, IsThere, ServedSize, CarefulInside, Complete
      <3>3. Inside' = Inside
        BY <2>3 DEF LoopSeesIdle, InLoop, Inside
      <3>4. On' = [On EXCEPT ![u] = ui[u]]
        BY <2>3 DEF LoopSeesIdle, InLoop, On
      <3>5. Serving!Take(u)
        BY <1>1, <3>1, <3>2, <3>3, <3>4 DEF Serving!Take
      <3> QED BY <3>5 DEF Serving!Next
    <2>4. CASE LoopGoesOn(u)
      BY <1>1, <2>4, ServingStutter DEF LoopGoesOn, InLoop, Inside, InUse
    <2>5. CASE LoopEnds(u) \/ LoopCrashes(u)
      <3>1. u \in Inside /\ Inside' = Inside \ {u}
        BY <2>5 DEF LoopEnds, LoopCrashes, InLoop, Inside
      <3>2. On' = [On EXCEPT ![u] = Null]
        BY <2>5 DEF LoopEnds, LoopCrashes, InLoop, On
      <3>3. Serving!Leave(u)
        BY <1>1, <3>1, <3>2 DEF Serving!Leave
      <3> QED BY <3>3 DEF Serving!Next
    <2>6. pc[u] \in {"use", "used"} => Usable(at[u], ui[u])
      BY ReadyIsUsable DEF CarefulInside
    <2>7. CASE UseConnection(u)
      BY <1>1, <2>6, <2>7, ServingStutter DEF UseConnection, Inside, InUse
    <2>8. CASE EndUse(u)
      <3>1. On[u] # Null /\ u \in Inside
        BY <2>8 DEF EndUse, On, Inside
      <3>2. On' = [On EXCEPT ![u] = Null]
        <4>1. pc'[u] \notin {"use", "used"}
          BY <2>6, <2>8 DEF EndUse
        <4>2. \A v \in Careful : v # u => pc'[v] = pc[v] /\ ui'[v] = ui[v]
          BY <2>6, <2>8 DEF EndUse
        <4> QED BY <4>1, <4>2 DEF On
      <3>3. CASE u \in Timers
        <4>1. Inside' = Inside
          BY <2>6, <2>8, <3>3 DEF EndUse, Inside
        <4>2. Serving!Release(u)
          BY <1>1, <3>1, <3>2, <4>1 DEF Serving!Release
        <4> QED BY <4>2 DEF Serving!Next
      <3>4. CASE u \notin Timers
        <4>1. Inside' = Inside \ {u}
          BY <2>6, <2>8, <3>4 DEF EndUse, Inside
        <4>2. Serving!Leave(u)
          BY <1>1, <3>1, <3>2, <4>1 DEF Serving!Leave
        <4> QED BY <4>2 DEF Serving!Next
      <3> QED BY <3>3, <3>4
    <2> QED
      BY <2>1, <2>2, <2>3, <2>4, <2>5, <2>7, <2>8 DEF UserStep
  <1> QED BY <1>2, <1>3

LEMMA ServingMain ==
  ASSUME CarefulInv, CarefulInv', MainStep
  PROVE  Serving!Next \/ UNCHANGED <<ServedSize, Inside, On>>
  <1> USE DEF CarefulInv, poolVars, mainVars, userVars
  <1>1. CASE MTDBFreeSQLPool \/ \E n \in Sizes : MTInitDBConnect(n)
    <2>1. Inside = {} /\ Inside' = Inside /\ On' = On
      BY <1>1 DEF MTDBFreeSQLPool, MTInitDBConnect, CarefulAreOut, Inside, On
    <2>2. ServedSize' = 0
      BY <1>1 DEF MTDBFreeSQLPool, MTInitDBConnect, ServedSize
    <2>3. Serving!Withdraw
      BY <2>1, <2>2 DEF Serving!Withdraw
    <2> QED BY <2>3 DEF Serving!Next
  <1>2. CASE CreateEnds
    <2>1. Inside' = Inside /\ On' = On
      BY <1>2 DEF CreateEnds, Inside, On
    <2>2. ServedSize = 0
      BY <1>2 DEF CreateEnds, Complete, ServedSize
    <2>3. CASE ready'
      <3>1. ServedSize' \in Nat \ {0}
        BY <2>3 DEF Complete, ServedSize, MainInv, TypeOK
      <3>2. Serving!Serve
        BY <2>1, <2>2, <3>1 DEF Serving!Serve
      <3> QED BY <3>2 DEF Serving!Next
    <2>4. CASE ~ready'
      BY <2>1, <2>2, <2>4 DEF ServedSize
    <2> QED BY <2>3, <2>4
  <1>3. CASE \/ Delete \/ AllocateArray \/ AllocateFails
             \/ ConnectNext \/ ConnectFails \/ ConstructFails
             \/ \E p \in Pools : ConstructPool(p)
    <2>1. ~ready /\ ready' = ready /\ pc' = pc /\ ui' = ui
      BY <1>3
      DEF Delete, CloseNext, CloseEnds, DeletePool, ForgetPool, Closing,
          Deleting, Forget, AllocateArray, AllocateFails, ConnectNext,
          ConnectFails, ConstructPool, ConstructFails, Complete
    <2> QED BY <2>1 DEF ServedSize, Inside, On
  <1>4. ASSUME NEW n \in Resizes, SetMaxPoolNum(n)
        PROVE  UNCHANGED <<ServedSize, Inside, On>>
    BY <1>4 DEF SetMaxPoolNum, ServedSize, Inside, On
  <1> QED BY <1>1, <1>2, <1>3, <1>4 DEF MainStep, Create

\* A thread that comes after MTInitDBConnect has returned TRUE and is gone
\* when the pool is rebuilt or freed finds ReadyPool: while it is inside,
\* the pool has the connections it was built with and no fewer, through any
\* failed build, resize and use of the pool by threads that are not careful.
THEOREM PoolServesCareful == Spec => ServesCareful
  <1>1. Init => Serving!Init
    BY LifecycleAssumption
    DEF Init, Serving!Init, ServedSize, Inside, On
  <1>2. /\ CarefulInv /\ CarefulInv' /\ [Next]_vars
        => [Serving!Next]_<<ServedSize, Inside, On>>
    <2>1. CASE UNCHANGED vars
      BY <2>1 DEF vars, ServedSize, Inside, On
    <2> QED BY <2>1, ServingUser, ServingMain DEF Next
  <1> QED
    BY <1>1, <1>2, CarefulAlways, PTL
    DEF Spec, ServesCareful, Serving!Spec, Serving!vars

=============================================================================
