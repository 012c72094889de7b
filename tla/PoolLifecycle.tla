---------------------------- MODULE PoolLifecycle ----------------------------
(***************************************************************************)
(* How the pool comes and goes: the main thread builds, resizes and frees  *)
(* it with MTInitDBConnect, SetMaxPoolNum and MTDBFreeSQLPool, and other   *)
(* threads reach it through g_pDBConnectionPool, unprotected.              *)
(*                                                                         *)
(*   Workers  GetConnection, then a command on the connection it returned  *)
(*   Timers   MTInitDBPing, which tests g_pDBConnectionPool first          *)
(*   Careful  those of them the server keeps out of the pool from before   *)
(*            it is built or freed until it is ready (again)               *)
(*                                                                         *)
(* A user that goes beyond the end of an array has "overran" it; one that  *)
(* touches any other memory that is not there is "crashed".  What users do *)
(* to each other on a live connection is in ConnectionPool: here IsIdle    *)
(* may answer either way.                                                  *)
(***************************************************************************)
EXTENDS Naturals

CONSTANTS Workers, Timers, Careful,
          Pools,      \* the addresses a CDBConnectionPool may get
          Sizes,      \* the nThreadNum MTInitDBConnect is called with
          Resizes,    \* the arguments of SetMaxPoolNum
          MemoryOut,  \* whether there may be no memory for a pool or its array
          Null

Users == Workers \cup Timers

ASSUME LifecycleAssumption ==
  /\ Workers \cap Timers = {} /\ Careful \subseteq Users
  /\ Null \notin Pools /\ Null \notin Nat
  /\ Sizes \subseteq Nat /\ Resizes \subseteq Nat
  /\ MemoryOut \in BOOLEAN

VARIABLES
  g,                \* g_pDBConnectionPool
  alive,            \* the pools that are constructed and not deleted
  m_wMaxPoolNum,    \* [Pools -> Nat]
  m_pDBConnection,  \* [Pools -> BOOLEAN]: there is an array
  allocated,        \* [Pools -> Nat]: its length
  prepared,         \* [Pools -> SUBSET Nat]: the connections whose handle has
                    \* been through mysql_init; the others are raw memory
  open,             \* [Pools -> SUBSET Nat]: those with a session
  main,             \* where the main thread is
  wi, want,         \* its loop index, and nThreadNum
  ready,            \* MTInitDBConnect has returned TRUE, and neither it nor
                    \* MTDBFreeSQLPool has been called since
  badClose,         \* history: mysql_close was given raw memory
  pc, at, ui        \* of a user: its place, its pool and its index

poolVars == <<g, alive, m_wMaxPoolNum, m_pDBConnection, allocated, prepared,
              open>>
mainVars == <<main, wi, want, ready, badClose>>
userVars == <<pc, at, ui>>
vars == <<g, alive, m_wMaxPoolNum, m_pDBConnection, allocated, prepared,
          open, main, wi, want, ready, badClose, pc, at, ui>>

Init ==
  /\ g = Null /\ alive = {}
  /\ m_wMaxPoolNum = [p \in Pools |-> 0]
  /\ m_pDBConnection = [p \in Pools |-> FALSE]
  /\ allocated = [p \in Pools |-> 0]
  /\ prepared = [p \in Pools |-> {}]
  /\ open = [p \in Pools |-> {}]
  /\ main = "idle" /\ wi = 0 /\ want = 0
  /\ ready = FALSE /\ badClose = FALSE
  /\ pc = [u \in Users |-> "out"]
  /\ at = [u \in Users |-> Null]
  /\ ui = [u \in Users |-> 0]

-----------------------------------------------------------------------------
(* MTInitDBConnect and MTDBFreeSQLPool.                                    *)

\* The server does not rebuild or free the pool under its careful users.
CarefulAreOut ==
  \A u \in Careful : pc[u] \in {"out", "overran", "crashed"}

\* Mutant: an existing pool is deleted and not closed first.
MTInitDBConnect_NoClose(n) ==
  /\ main = "idle" /\ CarefulAreOut
  /\ want' = n
  /\ main' = IF g = Null THEN "construct" ELSE "init:delete"
  /\ wi' = 0
  /\ ready' = FALSE
  /\ UNCHANGED <<poolVars, badClose, userVars>>

MTInitDBConnect(n) ==
  /\ main = "idle" /\ CarefulAreOut
  /\ want' = n
  /\ main' = IF g = Null THEN "construct" ELSE "init:close"
  /\ wi' = 0
  /\ ready' = FALSE
  /\ UNCHANGED <<poolVars, badClose, userVars>>

MTDBFreeSQLPool ==
  /\ main = "idle" /\ CarefulAreOut
  /\ g # Null
  /\ main' = "free:close"
  /\ wi' = 0
  /\ ready' = FALSE
  /\ UNCHANGED <<poolVars, want, badClose, userVars>>

\* Where the deletion of the pool goes on, for either caller.
Closing  == main \in {"init:close", "free:close"}
Deleting == main \in {"init:delete", "free:delete"}
Forget   == main \in {"init:forget", "free:forget"}
OnTo(step) == main' = IF main \in {"init:close", "init:delete", "init:forget"}
                        THEN step.init ELSE step.free

\* The pointer to connection i of pool p, computed from the start of the
\* array, is not NULL.
HasAddress(p, i) == m_pDBConnection[p] \/ i # 0

\* And Connect has run on what is there.
IsPrepared(p, i) == m_pDBConnection[p] /\ i \in prepared[p]

\* CloseConnectionPool closes connection wi.  mysql_close on raw memory, or
\* on an offset into an array that is NULL, may do anything: it is recorded,
\* and the outcome in which it returns is followed.  (For MTDBFreeSQLPool
\* others may end in its catch block, with the pool still published.)
CloseNext ==
  /\ Closing /\ wi < m_wMaxPoolNum[g]
  /\ badClose' = (badClose \/ (HasAddress(g, wi) /\ ~IsPrepared(g, wi)))
  /\ open' = [open EXCEPT ![g] = @ \ {wi}]
  /\ wi' = wi + 1
  /\ UNCHANGED <<g, alive, m_wMaxPoolNum, m_pDBConnection, allocated,
                 prepared, main, want, ready, userVars>>

\* Its end: the size is 0 and the array is gone.
CloseEnds ==
  /\ Closing /\ wi >= m_wMaxPoolNum[g]
  /\ m_wMaxPoolNum' = [m_wMaxPoolNum EXCEPT ![g] = 0]
  /\ m_pDBConnection' = [m_pDBConnection EXCEPT ![g] = FALSE]
  /\ OnTo([init |-> "init:delete", free |-> "free:delete"])
  /\ UNCHANGED <<g, alive, allocated, prepared, open, wi, want, ready,
                 badClose, userVars>>

\* delete g_pDBConnectionPool; the destructor deletes an array that is left.
DeletePool ==
  /\ Deleting
  /\ alive' = alive \ {g}
  /\ m_pDBConnection' = [m_pDBConnection EXCEPT ![g] = FALSE]
  /\ OnTo([init |-> "init:forget", free |-> "free:forget"])
  /\ UNCHANGED <<g, m_wMaxPoolNum, allocated, prepared, open, wi, want,
                 ready, badClose, userVars>>

\* Mutant: the pointer is left as it is.
ForgetPool_Dangling ==
  /\ Forget
  /\ OnTo([init |-> "construct", free |-> "idle"])
  /\ UNCHANGED <<poolVars, wi, want, ready, badClose, userVars>>

ForgetPool ==
  /\ Forget
  /\ g' = Null
  /\ OnTo([init |-> "construct", free |-> "idle"])
  /\ UNCHANGED <<alive, m_wMaxPoolNum, m_pDBConnection, allocated, prepared,
                 open, wi, want, ready, badClose, userVars>>

\* new CDBConnectionPool: everybody can see it from here on.  An address
\* some user still holds is not taken again.
ConstructPool(p) ==
  /\ main = "construct"
  /\ p \notin alive /\ \A u \in Users : at[u] # p
  /\ g' = p
  /\ alive' = alive \cup {p}
  /\ m_wMaxPoolNum' = [m_wMaxPoolNum EXCEPT ![p] = want]
  /\ m_pDBConnection' = [m_pDBConnection EXCEPT ![p] = FALSE]
  /\ main' = "allocate"
  /\ UNCHANGED <<allocated, prepared, open, wi, want, ready, badClose,
                 userVars>>

\* No memory for the pool: FALSE, or the exception of new.
ConstructFails ==
  /\ main = "construct" /\ MemoryOut
  /\ main' = "idle"
  /\ want' = 0
  /\ UNCHANGED <<poolVars, wi, ready, badClose, userVars>>

\* CreateConnectionPool: new CDBConnection[m_wMaxPoolNum].
AllocateArray ==
  /\ main = "allocate"
  /\ m_pDBConnection' = [m_pDBConnection EXCEPT ![g] = TRUE]
  /\ allocated' = [allocated EXCEPT ![g] = m_wMaxPoolNum[g]]
  /\ prepared' = [prepared EXCEPT ![g] = {}]
  /\ open' = [open EXCEPT ![g] = {}]
  /\ wi' = 0
  /\ main' = "connect"
  /\ UNCHANGED <<g, alive, m_wMaxPoolNum, want, ready, badClose, userVars>>

\* Mutant: the result of new is not tested.
AllocateFails_GoesOn ==
  /\ main = "allocate" /\ MemoryOut
  /\ wi' = 0
  /\ main' = "connect"
  /\ UNCHANGED <<poolVars, want, ready, badClose, userVars>>

\* No memory for the array: MTInitDBConnect is left with FALSE, or by the
\* exception of new, and the pool stays where it is.
AllocateFails ==
  /\ main = "allocate" /\ MemoryOut
  /\ main' = "idle"
  /\ want' = 0
  /\ UNCHANGED <<poolVars, wi, ready, badClose, userVars>>

\* Mutant: one turn too many.
ConnectNext_OneMore ==
  /\ main = "connect" /\ wi <= m_wMaxPoolNum[g]
  /\ prepared' = [prepared EXCEPT ![g] = @ \cup {wi}]
  /\ open' = [open EXCEPT ![g] = @ \cup {wi}]
  /\ wi' = wi + 1
  /\ UNCHANGED <<g, alive, m_wMaxPoolNum, m_pDBConnection, allocated, main,
                 want, ready, badClose, userVars>>

ConnectNext ==
  /\ main = "connect" /\ wi < m_wMaxPoolNum[g]
  /\ prepared' = [prepared EXCEPT ![g] = @ \cup {wi}]
  /\ open' = [open EXCEPT ![g] = @ \cup {wi}]
  /\ wi' = wi + 1
  /\ UNCHANGED <<g, alive, m_wMaxPoolNum, m_pDBConnection, allocated, main,
                 want, ready, badClose, userVars>>

\* Mutant: a connection that fails is left out and the loop goes on.
ConnectFails_GoesOn ==
  /\ main = "connect" /\ wi < m_wMaxPoolNum[g]
  /\ prepared' = [prepared EXCEPT ![g] = @ \cup {wi}]
  /\ wi' = wi + 1
  /\ UNCHANGED <<g, alive, m_wMaxPoolNum, m_pDBConnection, allocated, open,
                 main, want, ready, badClose, userVars>>

\* Connect fails, before or after the session is up, and so does
\* CreateConnectionPool, at once: what is built stays.
ConnectFails ==
  /\ main = "connect" /\ wi < m_wMaxPoolNum[g]
  /\ prepared' = [prepared EXCEPT ![g] = @ \cup {wi}]
  /\ \E up \in {{}, {wi}} : open' = [open EXCEPT ![g] = @ \cup up]
  /\ main' = "idle"
  /\ want' = 0
  /\ UNCHANGED <<g, alive, m_wMaxPoolNum, m_pDBConnection, allocated, wi,
                 ready, badClose, userVars>>

\* Mutant: a pool of no connections is a success.
CreateEnds_ZeroIsReady ==
  /\ main = "connect" /\ wi >= m_wMaxPoolNum[g]
  /\ ready' = TRUE
  /\ main' = "idle"
  /\ want' = 0
  /\ UNCHANGED <<poolVars, wi, badClose, userVars>>

\* The size is the result: a pool of 0 connections is a failure, too.
CreateEnds ==
  /\ main = "connect" /\ wi >= m_wMaxPoolNum[g]
  /\ ready' = (m_wMaxPoolNum[g] # 0)
  /\ main' = "idle"
  /\ want' = 0
  /\ UNCHANGED <<poolVars, wi, badClose, userVars>>

\* The size grows; the array does not.
SetMaxPoolNum(n) ==
  /\ main = "idle" /\ g # Null
  /\ n >= m_wMaxPoolNum[g]
  /\ m_wMaxPoolNum' = [m_wMaxPoolNum EXCEPT ![g] = n]
  /\ UNCHANGED <<g, alive, m_pDBConnection, allocated, prepared, open,
                 mainVars, userVars>>

-----------------------------------------------------------------------------
(* The users.                                                              *)

\* Index i is beyond the end of the array of pool p.
Beyond(p, i) == p \in alive /\ m_pDBConnection[p] /\ i >= allocated[p]

Crash(u) ==
  /\ pc' = [pc EXCEPT ![u] = IF Beyond(at[u], ui[u]) THEN "overran"
                                                    ELSE "crashed"]
  /\ at' = [at EXCEPT ![u] = Null]
  /\ UNCHANGED ui

Leave(u) == /\ pc' = [pc EXCEPT ![u] = "out"]
            /\ at' = [at EXCEPT ![u] = Null]
            /\ ui' = [ui EXCEPT ![u] = 0]

\* MTInitDBPing tests g_pDBConnectionPool; a caller of GetConnection does
\* not.  The pointer is read again for the call.
Call(u) ==
  /\ pc[u] = "out"
  /\ u \in Careful => ready
  /\ u \in Timers => g # Null
  /\ pc' = [pc EXCEPT ![u] = "called"]
  /\ UNCHANGED <<poolVars, mainVars, at, ui>>

ReadPointer(u) ==
  /\ pc[u] = "called"
  /\ pc' = [pc EXCEPT ![u] = "loop"]
  /\ at' = [at EXCEPT ![u] = g]
  /\ UNCHANGED <<poolVars, mainVars, ui>>

\* The memory of connection i of pool p is there.
IsThere(p, i) == p \in alive /\ m_pDBConnection[p] /\ i < allocated[p]

\* One turn of the loop of GetConnection or ExecUTF8: the size and the array
\* are read through the pointer to the pool, IsIdle through the array.
InLoop(u) == pc[u] = "loop" /\ at[u] \in alive /\ ui[u] < m_wMaxPoolNum[at[u]]

LoopSeesIdle(u) ==
  /\ InLoop(u) /\ IsThere(at[u], ui[u])
  /\ pc' = [pc EXCEPT ![u] = "use"]
  /\ UNCHANGED <<poolVars, mainVars, at, ui>>

LoopGoesOn(u) ==
  /\ InLoop(u)
  /\ IsThere(at[u], ui[u]) \/ ~HasAddress(at[u], ui[u])
  /\ ui' = [ui EXCEPT ![u] = @ + 1]
  /\ UNCHANGED <<poolVars, mainVars, pc, at>>

LoopEnds(u) ==
  /\ pc[u] = "loop" /\ at[u] \in alive
  /\ ui[u] >= m_wMaxPoolNum[at[u]]
  /\ Leave(u)
  /\ UNCHANGED <<poolVars, mainVars>>

\* The pointer to the pool is NULL, or the pool has been deleted, or the
\* connection is not there.
LoopCrashes(u) ==
  /\ \/ pc[u] = "loop" /\ at[u] \notin alive
     \/ /\ InLoop(u)
        /\ HasAddress(at[u], ui[u]) /\ ~IsThere(at[u], ui[u])
  /\ Crash(u)
  /\ UNCHANGED <<poolVars, mainVars>>

\* What a command needs: a connection on which Connect has run.
Usable(p, i) == IsThere(p, i) /\ IsPrepared(p, i)

\* A command on the connection: mysql_query on its handle.
UseConnection(u) ==
  /\ pc[u] = "use"
  /\ IF Usable(at[u], ui[u])
       THEN pc' = [pc EXCEPT ![u] = "used"] /\ UNCHANGED <<at, ui>>
       ELSE Crash(u)
  /\ UNCHANGED <<poolVars, mainVars>>

\* SetIdle at its end; MTInitDBPing goes on with the next connection.
EndUse(u) ==
  /\ pc[u] = "used"
  /\ IF ~Usable(at[u], ui[u]) THEN Crash(u)
     ELSE IF u \in Timers
       THEN /\ pc' = [pc EXCEPT ![u] = "loop"]
            /\ ui' = [ui EXCEPT ![u] = @ + 1]
            /\ UNCHANGED at
       ELSE Leave(u)
  /\ UNCHANGED <<poolVars, mainVars>>

-----------------------------------------------------------------------------
Delete == CloseNext \/ CloseEnds \/ DeletePool \/ ForgetPool

Create ==
  \/ \E p \in Pools : ConstructPool(p)
  \/ ConstructFails
  \/ AllocateArray \/ AllocateFails
  \/ ConnectNext \/ ConnectFails \/ CreateEnds

MainStep ==
  \/ \E n \in Sizes : MTInitDBConnect(n)
  \/ MTDBFreeSQLPool
  \/ Delete \/ Create
  \/ \E n \in Resizes : SetMaxPoolNum(n)

UserStep(u) ==
  \/ Call(u) \/ ReadPointer(u)
  \/ LoopSeesIdle(u) \/ LoopGoesOn(u) \/ LoopEnds(u) \/ LoopCrashes(u)
  \/ UseConnection(u) \/ EndUse(u)

Next == MainStep \/ \E u \in Users : UserStep(u)

Spec == Init /\ [][Next]_vars

-----------------------------------------------------------------------------
(* Properties.                                                             *)

TypeOK ==
  /\ g \in Pools \cup {Null}
  /\ alive \subseteq Pools
  /\ m_wMaxPoolNum \in [Pools -> Nat]
  /\ m_pDBConnection \in [Pools -> BOOLEAN]
  /\ allocated \in [Pools -> Nat]
  /\ prepared \in [Pools -> SUBSET Nat]
  /\ open \in [Pools -> SUBSET Nat]
  /\ \A p \in Pools : /\ open[p] \subseteq prepared[p]
                      /\ prepared[p] \subseteq 0 .. allocated[p] - 1
  /\ main \in {"idle", "init:close", "init:delete", "init:forget",
               "free:close", "free:delete", "free:forget",
               "construct", "allocate", "connect"}
  /\ wi \in Nat /\ want \in Nat
  /\ ready \in BOOLEAN /\ badClose \in BOOLEAN
  /\ pc \in [Users -> {"out", "called", "loop", "use", "used",
                      "overran", "crashed"}]
  /\ at \in [Users -> Pools \cup {Null}]
  /\ ui \in [Users -> Nat]

\* A user the server keeps out while the pool is built and freed never
\* touches a pool, an array or a session that is not there, through any
\* number of failed, repeated and undone calls of MTInitDBConnect; all that
\* can befall it is the end of the array, after SetMaxPoolNum.
CarefulNeverCrash == \A u \in Careful : pc[u] # "crashed"

\* No user goes beyond the end of the array.
WithinArray == \A u \in Users : pc[u] # "overran"

\* MTInitDBConnect returns TRUE only with every connection of the array up,
\* and they are all there as long as the pool is ready.
ReadyIsComplete ==
  ready => /\ g \in alive /\ m_pDBConnection[g]
           /\ allocated[g] # 0 /\ open[g] = 0 .. allocated[g] - 1

\* To its careful users the pool is that of ReadyPool: while one of them is
\* inside it has the size it was built with, and nobody takes it away.  One
\* that runs off the end of the array counts as having left.
ServedSize == IF ready THEN allocated[g] ELSE 0
Inside     == {u \in Careful : pc[u] \in {"called", "loop", "use", "used"}}
On == [u \in Careful |-> IF pc[u] \in {"use", "used"} THEN ui[u] ELSE Null]

Serving == INSTANCE ReadyPool WITH
  Clients <- Careful, NoConn <- Null,
  size <- ServedSize, inside <- Inside, on <- On

ServesCareful == Serving!Spec

\* Sessions belong to the pool that g_pDBConnectionPool points to: neither
\* a rebuild nor a free leaves one behind at the server.
NoSessionLeft == \A p \in Pools : open[p] # {} => p = g

\* The pointer is NULL or leads to a live pool whenever the main thread is
\* not busy with it, and there is never a second pool.
OnePool == main = "idle" => alive = {g} \ {Null}

\* mysql_close is only called on connections that Connect has run on.
CloseAfterConnect == ~badClose

\* Nobody crashes, careful or not.
UsersNeverCrash == \A u \in Users : pc[u] # "crashed"
=============================================================================
