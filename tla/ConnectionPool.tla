--------------------------- MODULE ConnectionPool ---------------------------
(***************************************************************************)
(* The pool of MySQL connections while it serves its threads: the array    *)
(* that CDBConnectionPool keeps, and the threads that use it with no lock. *)
(* A step of a thread is one access to what the threads share: a read or a *)
(* write of m_bBusy, or the return of a call of the MySQL client library.  *)
(*                                                                         *)
(*   Workers  the threads of the server: GetConnection, then one Select,   *)
(*            Execute or Insert on the connection it returned              *)
(*   Keepers  threads that call MTInitDBPing, that is pool ExecUTF8        *)
(*   Pingers  threads that call CDBConnectionPool::Ping                    *)
(*                                                                         *)
(* The array and its size are fixed here; PoolLifecycle has the operations *)
(* that build and destroy them.  Connection has the clock that decides     *)
(* "recent", which is a flag here that may turn either way.                *)
(***************************************************************************)
EXTENDS Naturals, FiniteSets

CONSTANTS Workers, Keepers, Pingers,
          PoolSize,     \* m_wMaxPoolNum
          Ops,          \* the commands the workers issue
          Fragile,      \* the connections whose session the server may drop
          JustCreated,  \* in Init, the last connect is under 3 seconds ago
          Wraps,        \* the tick count may wrap, every 49.7 days
          Nobody        \* owner of a handle's reply before any statement

Threads == Workers \cup Keepers \cup Pingers
Conns   == 0 .. PoolSize - 1

ASSUME PoolAssumption ==
  /\ Workers \cap Keepers = {} /\ Workers \cap Pingers = {}
  /\ Keepers \cap Pingers = {}
  /\ IsFiniteSet(Workers)
  /\ PoolSize \in Nat \ {0}
  /\ Ops \subseteq {"Select", "Execute", "Insert"}
  /\ Fragile \subseteq Conns /\ JustCreated \in BOOLEAN
  /\ Wraps \in BOOLEAN
  /\ Nobody \notin Threads /\ Nobody \notin Nat

VARIABLES
  m_bBusy,      \* [Conns -> BOOLEAN]
  link,         \* what m_mysqlInstance is: a live session ("open"), one the
                \* server dropped and the library may restore ("dropped"),
                \* or a handle after mysql_close ("closed")
  recent,       \* GetTickCount() - m_dwConnectTime is below 3 seconds
  reply,        \* the thread whose statement the status kept in
                \* m_mysqlInstance (result set, insert id) answers
  overlapped,   \* history: two threads have been on the connection at once
                \* since it was last unused
  pc, wi,       \* where a thread is, and its loop index or its pointer
  op,           \* the command a thread runs
  answer        \* the thread whose result the command is about to return

connVars   == <<m_bBusy, link, recent, reply, overlapped>>
threadVars == <<pc, wi, op, answer>>
vars       == <<m_bBusy, link, recent, reply, overlapped, pc, wi, op, answer>>

-----------------------------------------------------------------------------
InCommand == {"flagged", "pinging", "query", "result", "done"}
InPing    == {"probing", "closing", "reconnect", "connecting"}

Places    == {"out", "scan", "refused", "held", "check"}
               \cup InCommand \cup InPing

\* The threads between SetBusy and SetIdle of a command on connection c.
Inside(c) == {t \in Threads : pc[t] \in InCommand /\ wi[t] = c}

\* These and the threads that pool Ping has led to the handle of c.
Using(c) == {t \in Threads : pc[t] \in InCommand \cup InPing /\ wi[t] = c}

\* The threads that wait for, or read, what the server sends on c.
Talking(c) ==
  {t \in Threads : /\ pc[t] \in {"pinging", "probing", "query", "result"}
                   /\ wi[t] = c}

IsIdle(c) == ~m_bBusy[c]

Goto(t, label) == pc' = [pc EXCEPT ![t] = label]

\* CreateConnectionPool succeeded: every connection is open and idle.
Init ==
  /\ m_bBusy = [c \in Conns |-> FALSE]
  /\ link = [c \in Conns |-> "open"]
  /\ recent = [c \in Conns |-> JustCreated]
  /\ reply = [c \in Conns |-> Nobody]
  /\ overlapped = [c \in Conns |-> FALSE]
  /\ pc = [t \in Threads |-> "out"]
  /\ wi = [t \in Threads |-> 0]
  /\ op = [t \in Threads |-> "none"]
  /\ answer = [t \in Threads |-> Nobody]

\* A thread comes to the handle of c, or thread t leaves it.
Arrive(c)    == overlapped' = [overlapped EXCEPT ![c] = @ \/ Using(c) # {}]
Depart(t, c) == overlapped' = [overlapped EXCEPT ![c] = @ /\ Using(c) # {t}]

-----------------------------------------------------------------------------
(* The loops over the array: GetConnection, ExecUTF8 and Ping of the pool. *)

\* Mutant: the loop starts at 1.
Enter_SkipsFirst(t) ==
  /\ pc[t] = "out"
  /\ Goto(t, "scan")
  /\ wi' = [wi EXCEPT ![t] = 1]
  /\ UNCHANGED <<connVars, op, answer>>

\* GetConnection, MTInitDBPing and pool Ping all start at index 0.
Enter(t) ==
  /\ pc[t] = "out"
  /\ Goto(t, "scan")
  /\ wi' = [wi EXCEPT ![t] = 0]
  /\ UNCHANGED <<connVars, op, answer>>

\* Mutant: the index is advanced before the address is taken.
ScanSeesIdle_OneTooFar(t) ==
  /\ pc[t] = "scan" /\ wi[t] < PoolSize
  /\ IsIdle(wi[t])
  /\ Goto(t, IF t \in Pingers THEN "check" ELSE "held")
  /\ wi' = [wi EXCEPT ![t] = @ + 1]
  /\ UNCHANGED <<connVars, op, answer>>

\* An idle connection ends GetConnection; it is not marked.  ExecUTF8 goes
\* on to MTInitUTF8 on it, and Ping to CDBConnection::Ping.
ScanSeesIdle(t) ==
  /\ pc[t] = "scan" /\ wi[t] < PoolSize
  /\ IsIdle(wi[t])
  /\ Goto(t, IF t \in Pingers THEN "check" ELSE "held")
  /\ UNCHANGED <<connVars, wi, op, answer>>

\* All three loops step over a busy connection.
ScanSeesBusy(t) ==
  /\ pc[t] = "scan" /\ wi[t] < PoolSize
  /\ ~IsIdle(wi[t])
  /\ wi' = [wi EXCEPT ![t] = @ + 1]
  /\ UNCHANGED <<connVars, pc, op, answer>>

\* Past the last index GetConnection returns NULL, the other two TRUE.
ScanEnds(t) ==
  /\ pc[t] = "scan" /\ wi[t] = PoolSize
  /\ Goto(t, IF t \in Workers THEN "refused" ELSE "out")
  /\ UNCHANGED <<connVars, wi, op, answer>>

\* A caller that got NULL does without ("all thread is busy" in main).
GiveUp(t) ==
  /\ pc[t] = "refused"
  /\ Goto(t, "out")
  /\ UNCHANGED <<connVars, wi, op, answer>>

-----------------------------------------------------------------------------
(* Select, Execute and Insert.  The keep-alive runs Execute.               *)

Commands(t) == IF t \in Keepers THEN {"Execute"} ELSE Ops

\* Mutant: the mark is not written.
SetBusy_Forgotten(c) == UNCHANGED m_bBusy

SetBusy(c) == m_bBusy' = [m_bBusy EXCEPT ![c] = TRUE]
SetIdle(c) == m_bBusy' = [m_bBusy EXCEPT ![c] = FALSE]

BeginCommand(t, o) ==
  /\ pc[t] = "held" /\ o \in Commands(t)
  /\ SetBusy(wi[t])
  /\ Arrive(wi[t])
  /\ op' = [op EXCEPT ![t] = o]
  /\ Goto(t, "flagged")
  /\ UNCHANGED <<link, recent, reply, wi, answer>>

\* Mutant: the test of IsIdle is the wrong way round.
PingInCommand_Inverted(t) ==
  /\ pc[t] = "flagged"
  /\ Goto(t, IF IsIdle(wi[t]) THEN "query" ELSE "pinging")
  /\ UNCHANGED <<connVars, wi, op, answer>>

\* CDBConnection::Ping reads the flag this thread has just set, and calls
\* mysql_ping only when another thread has cleared it meanwhile.
PingInCommand(t) ==
  /\ pc[t] = "flagged"
  /\ Goto(t, IF IsIdle(wi[t]) THEN "pinging" ELSE "query")
  /\ UNCHANGED <<connVars, wi, op, answer>>

\* Mutant: MYSQL_OPT_RECONNECT is not set.
CallSucceeds_NoReconnect(c) == link[c] = "open" /\ UNCHANGED link

\* What a library call that reaches for the server may do to the handle.
\* MYSQL_OPT_RECONNECT lets it restore a dropped session; a closed handle
\* stays closed.
CallSucceeds(c) ==
  /\ link[c] # "closed"
  /\ link' = [link EXCEPT ![c] = "open"]

CallFails(c) ==
  \/ UNCHANGED link
  \/ link[c] = "open" /\ link' = [link EXCEPT ![c] = "dropped"]

\* The commands ignore what Ping returns.
PingReturns(t) ==
  /\ pc[t] = "pinging"
  /\ CallSucceeds(wi[t]) \/ CallFails(wi[t])
  /\ Goto(t, "query")
  /\ UNCHANGED <<m_bBusy, recent, reply, overlapped, wi, op, answer>>

\* mysql_query returns 0.  When several threads talk on one handle at once
\* the packets carry no owner: the reply read is that of any of them.
QueryReturns(t) ==
  /\ pc[t] = "query"
  /\ CallSucceeds(wi[t])
  /\ \E u \in Talking(wi[t]) : reply' = [reply EXCEPT ![wi[t]] = u]
  /\ Goto(t, "result")
  /\ UNCHANGED <<m_bBusy, recent, overlapped, wi, op, answer>>

\* Mutant: the error return leaves out SetIdle.
QueryFails_StaysBusy(t) ==
  /\ pc[t] = "query"
  /\ CallFails(wi[t])
  /\ Depart(t, wi[t])
  /\ op' = [op EXCEPT ![t] = "none"]
  /\ IF t \in Keepers
       THEN wi' = [wi EXCEPT ![t] = @ + 1] /\ Goto(t, "scan")
       ELSE wi' = [wi EXCEPT ![t] = 0] /\ Goto(t, "out")
  /\ UNCHANGED <<m_bBusy, recent, reply, answer>>

\* Mutant: the error is not returned, the old state of the handle is read.
QueryFails_ReadsOn(t) ==
  /\ pc[t] = "query"
  /\ CallFails(wi[t])
  /\ Goto(t, "result")
  /\ UNCHANGED <<m_bBusy, recent, reply, overlapped, wi, op, answer>>

\* mysql_query returns an error.  Execute and Insert copy its text into a
\* std::string before they call SetIdle; the exception that copy throws when
\* there is no memory for it, which no try block meets, is left out.
QueryFails(t) ==
  /\ pc[t] = "query"
  /\ CallFails(wi[t])
  /\ answer' = [answer EXCEPT ![t] = "error"]
  /\ Goto(t, "done")
  /\ UNCHANGED <<m_bBusy, recent, reply, overlapped, wi, op>>

\* mysql_store_result and the copy into a CDBRecordset, or mysql_insert_id
\* and mysql_affected_rows: read what the handle holds now.  A copy that an
\* exception cuts short still returns the rows it has.
ReadResult(t) ==
  /\ pc[t] = "result"
  /\ op[t] = "Select" => link[wi[t]] = "open"
  /\ answer' = [answer EXCEPT ![t] = reply[wi[t]]]
  /\ Goto(t, "done")
  /\ UNCHANGED <<connVars, wi, op>>

\* mysql_store_result returns NULL, or there is no memory for the table.
StoreResultFails(t) ==
  /\ pc[t] = "result" /\ op[t] = "Select"
  /\ CallFails(wi[t])
  /\ answer' = [answer EXCEPT ![t] = "error"]
  /\ Goto(t, "done")
  /\ UNCHANGED <<m_bBusy, recent, reply, overlapped, wi, op>>

\* Mutant: the keep-alive does not go on to the next connection.
EndCommand_SameIndex(t) ==
  /\ pc[t] = "done"
  /\ SetIdle(wi[t])
  /\ Depart(t, wi[t])
  /\ op' = [op EXCEPT ![t] = "none"]
  /\ answer' = [answer EXCEPT ![t] = Nobody]
  /\ Goto(t, IF t \in Keepers THEN "scan" ELSE "out")
  /\ UNCHANGED <<link, recent, reply, wi>>

\* Mutant: the keep-alive returns after its first connection.
EndCommand_FirstOnly(t) ==
  /\ pc[t] = "done"
  /\ SetIdle(wi[t])
  /\ Depart(t, wi[t])
  /\ op' = [op EXCEPT ![t] = "none"]
  /\ answer' = [answer EXCEPT ![t] = Nobody]
  /\ wi' = [wi EXCEPT ![t] = 0]
  /\ Goto(t, "out")
  /\ UNCHANGED <<link, recent, reply>>

\* Every return of a command goes through SetIdle.  A worker leaves the
\* pool; the keep-alive goes on with the next connection.
EndCommand(t) ==
  /\ pc[t] = "done"
  /\ SetIdle(wi[t])
  /\ Depart(t, wi[t])
  /\ op' = [op EXCEPT ![t] = "none"]
  /\ answer' = [answer EXCEPT ![t] = Nobody]
  /\ IF t \in Keepers
       THEN wi' = [wi EXCEPT ![t] = @ + 1] /\ Goto(t, "scan")
       ELSE wi' = [wi EXCEPT ![t] = 0] /\ Goto(t, "out")
  /\ UNCHANGED <<link, recent, reply>>

-----------------------------------------------------------------------------
(* Ping of the pool, for one connection it found idle.                     *)

NextIndex(t) == wi' = [wi EXCEPT ![t] = @ + 1] /\ Goto(t, "scan")

\* CDBConnection::Ping reads the flag again; TRUE when it is busy by now.
PingRechecks(t) ==
  /\ pc[t] = "check"
  /\ IF IsIdle(wi[t])
       THEN Goto(t, "probing") /\ Arrive(wi[t]) /\ UNCHANGED wi
       ELSE NextIndex(t) /\ UNCHANGED overlapped
  /\ UNCHANGED <<m_bBusy, link, recent, reply, op, answer>>

\* mysql_ping returns 0 for a live session, which is FALSE to the caller:
\* the live connection is the one to be closed.
ProbeReturnsZero(t) ==
  /\ pc[t] = "probing"
  /\ CallSucceeds(wi[t])
  /\ Goto(t, "closing")
  /\ UNCHANGED <<m_bBusy, recent, reply, overlapped, wi, op, answer>>

ProbeReturnsError(t) ==
  /\ pc[t] = "probing"
  /\ CallFails(wi[t])
  /\ NextIndex(t)
  /\ Depart(t, wi[t])
  /\ UNCHANGED <<m_bBusy, recent, reply, op, answer>>

CloseConnection(t) ==
  /\ pc[t] = "closing"
  /\ link' = [link EXCEPT ![wi[t]] = "closed"]
  /\ Goto(t, "reconnect")
  /\ UNCHANGED <<m_bBusy, recent, reply, overlapped, wi, op, answer>>

\* StartReConnect does nothing within 3 seconds of the last connect.
ReConnectTooEarly(t) ==
  /\ pc[t] = "reconnect" /\ recent[wi[t]]
  /\ NextIndex(t)
  /\ Depart(t, wi[t])
  /\ UNCHANGED <<m_bBusy, link, recent, reply, op, answer>>

\* Otherwise it stamps m_dwConnectTime, closes again, and Connect clears the
\* handle with mysql_init and goes to the server.
StartReConnect(t) ==
  /\ pc[t] = "reconnect" /\ ~recent[wi[t]]
  /\ recent' = [recent EXCEPT ![wi[t]] = TRUE]
  /\ link' = [link EXCEPT ![wi[t]] = "closed"]
  /\ reply' = [reply EXCEPT ![wi[t]] = Nobody]
  /\ Goto(t, "connecting")
  /\ UNCHANGED <<m_bBusy, overlapped, wi, op, answer>>

\* Connect succeeds and clears m_bBusy, whoever has set it.
ConnectSucceeds(t) ==
  /\ pc[t] = "connecting"
  /\ link' = [link EXCEPT ![wi[t]] = "open"]
  /\ recent' = [recent EXCEPT ![wi[t]] = TRUE]
  /\ SetIdle(wi[t])
  /\ NextIndex(t)
  /\ Depart(t, wi[t])
  /\ UNCHANGED <<reply, op, answer>>

\* mysql_real_connect fails and leaves no session, or the session is up and
\* mysql_set_character_set fails; m_dwConnectTime becomes 0 either way,
\* which is recent only just after a wrap.
ConnectFails(t) ==
  /\ pc[t] = "connecting"
  /\ \E l \in {"closed", "open"} : link' = [link EXCEPT ![wi[t]] = l]
  /\ \E r \in {FALSE, Wraps} : recent' = [recent EXCEPT ![wi[t]] = r]
  /\ NextIndex(t)
  /\ Depart(t, wi[t])
  /\ UNCHANGED <<m_bBusy, reply, op, answer>>

-----------------------------------------------------------------------------
(* The environment.                                                        *)

\* The server closes a session: wait_timeout, restart, network.
ServerDrops(c) ==
  /\ c \in Fragile /\ link[c] = "open"
  /\ link' = [link EXCEPT ![c] = "dropped"]
  /\ UNCHANGED <<m_bBusy, recent, reply, overlapped, threadVars>>

\* Three seconds pass since the last connect.
Age(c) ==
  /\ recent[c]
  /\ recent' = [recent EXCEPT ![c] = FALSE]
  /\ UNCHANGED <<m_bBusy, link, reply, overlapped, threadVars>>

\* The tick count comes round to the stamp again.
ClockWraps(c) ==
  /\ Wraps /\ ~recent[c]
  /\ recent' = [recent EXCEPT ![c] = TRUE]
  /\ UNCHANGED <<m_bBusy, link, reply, overlapped, threadVars>>

Time(c) == Age(c) \/ ClockWraps(c)

-----------------------------------------------------------------------------
Scan(t) == ScanSeesIdle(t) \/ ScanSeesBusy(t) \/ ScanEnds(t)

CallStep(t) ==
  \/ PingInCommand(t) \/ PingReturns(t)
  \/ QueryReturns(t) \/ QueryFails(t)
  \/ ReadResult(t) \/ StoreResultFails(t) \/ EndCommand(t)

CallerStep(t) ==
  \/ Enter(t) \/ Scan(t) \/ GiveUp(t)
  \/ \E o \in Ops \cup {"Execute"} : BeginCommand(t, o)
  \/ CallStep(t)

PingStep(t) ==
  \/ PingRechecks(t) \/ ProbeReturnsZero(t) \/ ProbeReturnsError(t)
  \/ CloseConnection(t) \/ ReConnectTooEarly(t) \/ StartReConnect(t)
  \/ ConnectSucceeds(t) \/ ConnectFails(t)

Next ==
  \/ \E t \in Workers \cup Keepers : CallerStep(t)
  \/ \E t \in Pingers : Enter(t) \/ Scan(t) \/ PingStep(t)
  \/ \E c \in Conns : ServerDrops(c) \/ Time(c)

Spec == Init /\ [][Next]_vars

(***************************************************************************)
(* A thread that has called the pool is scheduled, and the calls of the    *)
(* client library return, with a result or an error.  Nothing is assumed   *)
(* of when a thread calls, of the server, or of which outcome a call has.  *)
(***************************************************************************)
Fairness ==
  /\ \A t \in Workers \cup Keepers :
       WF_vars(\/ Scan(t) \/ GiveUp(t) \/ CallStep(t)
               \/ \E o \in Ops \cup {"Execute"} : BeginCommand(t, o))
  /\ \A t \in Pingers : WF_vars(Scan(t) \/ PingStep(t))

FairSpec == Spec /\ Fairness

(***************************************************************************)
(* What the keep-alive needs to be worth anything: a timer of the server   *)
(* calls MTInitDBPing again and again, and the server is not down for      *)
(* ever: of the statements that are sent again and again on a connection   *)
(* one succeeds.                                                           *)
(***************************************************************************)
KeptAlive ==
  /\ \A t \in Keepers : WF_vars(Enter(t))
  /\ \A c \in Conns :
       SF_vars(\E t \in Workers \cup Keepers : wi[t] = c /\ QueryReturns(t))

\* The same for pool Ping: it is called again and again, time passes, and
\* what it asks again and again of a connection succeeds one time.
Pinged ==
  /\ \A t \in Pingers : WF_vars(Enter(t))
  /\ \A c \in Conns : WF_vars(Age(c))
  /\ \A t \in Pingers, c \in Conns :
       /\ SF_vars(wi[t] = c /\ ProbeReturnsZero(t))
       /\ SF_vars(wi[t] = c /\ ConnectSucceeds(t))

-----------------------------------------------------------------------------
(* Properties.                                                             *)

TypeOK ==
  /\ m_bBusy \in [Conns -> BOOLEAN]
  /\ link \in [Conns -> {"open", "dropped", "closed"}]
  /\ recent \in [Conns -> BOOLEAN]
  /\ reply \in [Conns -> Threads \cup {Nobody}]
  /\ overlapped \in [Conns -> BOOLEAN]
  /\ pc \in [Threads -> Places]
  /\ wi \in [Threads -> 0 .. PoolSize]
  /\ \A t \in Threads :
       pc[t] \notin {"out", "scan", "refused"} => wi[t] \in Conns
  /\ op \in [Threads -> Ops \cup {"Execute", "none"}]
  /\ answer \in [Threads -> Threads \cup {Nobody, "error"}]

\* A connection marked busy has a thread in a command on it: no way through
\* Select, Execute or Insert, and no meeting of threads on one connection,
\* leaves a mark behind that would take the connection out of the pool.
BusyHasUser == \A c \in Conns : m_bBusy[c] => Inside(c) # {}

\* As long as no two threads have met on a connection the mark is exact.
BusyExactUntilOverlap ==
  \A c \in Conns : ~overlapped[c] => (m_bBusy[c] <=> Inside(c) # {})

\* A command on a connection no other thread has joined returns the rows,
\* or the insert id, of its own statement.
OwnAnswerUntilOverlap ==
  \A t \in Threads :
    (pc[t] = "done" /\ ~overlapped[wi[t]]) => answer[t] \in {t, "error"}

\* The Ping in front of every statement asks the server only when another
\* thread has cleared the mark; a command alone on its connection sends
\* its statement to a session nobody has tested.
PingInCommandIdle ==
  \A t \in Threads : pc[t] = "pinging" => overlapped[wi[t]]

\* The workers at index i of the array or beyond it.
Beyond(i) ==
  {w \in Workers : pc[w] # "out" /\ wi[w] >= i}

\* The further into the array, the fewer workers: who steps over a busy
\* connection leaves the worker that keeps it busy behind.
Thinning ==
  \A i \in 0 .. PoolSize :
    Beyond(i) # {} => Cardinality(Beyond(i)) + i <= Cardinality(Workers)

\* GetConnection never returns NULL.
NeverRefused == \A w \in Workers : pc[w] # "refused"

\* A command returns the result of its own statement or an error.
OwnAnswer ==
  \A t \in Threads : pc[t] = "done" => answer[t] \in {t, "error"}

\* What the workers see is the service of PoolService: no call is refused,
\* and no connection beyond the first Cardinality(Workers) is ever used.
Holding(w) == pc[w] \in {"held"} \cup InCommand

Phase == [w \in Workers |-> IF pc[w] = "scan" THEN "asking"
                            ELSE IF Holding(w) THEN "holding" ELSE "out"]
Lease == [w \in Workers |-> IF Holding(w) THEN wi[w] ELSE Nobody]

Service == INSTANCE PoolService WITH
  Clients <- Workers, Served <- 0 .. Cardinality(Workers) - 1,
  NoConn <- Nobody, phase <- Phase, lease <- Lease

ImplementsService == Service!Spec

\* The steps a thread still has before its call returns, whatever it meets:
\* those at each index it has not passed, and those after the last one.
PerIndex(t) == IF t \in Workers THEN 1 ELSE IF t \in Keepers THEN 7 ELSE 6
Last(t)     == IF t \in Workers THEN 6 ELSE 1

Depth == [scan |-> 0, held |-> 1, flagged |-> 2, pinging |-> 3, query |-> 4,
          result |-> 5, done |-> 6, check |-> 1, probing |-> 2, closing |-> 3,
          reconnect |-> 4, connecting |-> 5]

StepsLeft(t) ==
  IF pc[t] = "out" THEN 0
  ELSE IF pc[t] = "refused" THEN 1
  ELSE PerIndex(t) * (PoolSize - wi[t]) + Last(t) - Depth[pc[t]]

OwnStep(t) ==
  \/ t \in Workers \cup Keepers /\ CallerStep(t)
  \/ t \in Pingers /\ (Enter(t) \/ Scan(t) \/ PingStep(t))

\* A call of the pool is over after a number of its thread's own steps that
\* is fixed when it begins.  No other thread, and nothing the server does,
\* makes it longer: no loop over the array is ever sent back.
WaitFree ==
  [][\A t \in Threads :
       /\ OwnStep(t) => StepsLeft(t)' \in 0 .. PerIndex(t) * PoolSize + Last(t)
       /\ OwnStep(t) /\ pc[t] # "out" => StepsLeft(t)' < StepsLeft(t)
       /\ ~OwnStep(t) => StepsLeft(t)' = StepsLeft(t)]_vars

\* Every call of the pool returns.
CallsReturn == \A t \in Threads : pc[t] # "out" ~> pc[t] = "out"

\* A connection marked busy is marked idle again.
BusyEnds == \A c \in Conns : m_bBusy[c] ~> ~m_bBusy[c]

\* Where no thread calls pool Ping, the keep-alive brings every session the
\* server has dropped back, on each connection of the array: what it skips
\* because a worker is on it, that worker's statements restore.
DroppedRestored ==
  KeptAlive => \A c \in Conns : link[c] = "dropped" ~> link[c] = "open"

\* A connection that was closed to be reconnected is open again one day.
ClosedReopened ==
  KeptAlive /\ Pinged =>
    \A c \in Conns : link[c] = "closed" ~> link[c] = "open"
=============================================================================
