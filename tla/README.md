# Verification of MySQL-ConnectionPool

TLA+ models of the connection pool in `src/`, checked with TLC on small
instances, and theorems about them checked by TLAPS for every instance.

The program is a C++ wrapper (about 810 lines of its own) around the MySQL 5.0
C client library: an array of connections shared by the threads of a Windows
IOCP server. There is no lock, no atomic operation and no condition variable
in it; every protection is the flag `m_bBusy` of a connection.

## 1. Inventory

### CDBConnectionPool (`MTDBConnectionPool.cpp`)

State: `m_pDBConnection`, an array of connections; `m_wMaxPoolNum`, its size.

| operation | what it does |
|---|---|
| `GetConnection` | returns the first connection whose `m_bBusy` is false, or NULL; changes nothing |
| `ExecUTF8` | the keep-alive: runs `set names 'utf8'` on every connection it sees idle |
| `Ping` | for every connection it sees idle: `mysql_ping`, then close and reconnect |
| `CreateConnectionPool`, `CloseConnectionPool`, `SetMaxPoolNum`, constructors, destructor | build, size and destroy the array |

Correct when: a connection that is handed out exists; marks are never orphaned
(an orphaned one takes a connection out of the pool for ever); as many threads
as connections are always served; every call returns; dropped sessions come
back; the array is not used before it exists or after it is gone.

### CDBConnection (`MTDBConnection.cpp`)

State: `m_bBusy`; the client handle `m_mysqlInstance` (session, pending reply,
last insert id); `m_dwConnectTime`, `m_dwExecUTF8`, `m_dwTickCount1/2` read off
the 32-bit millisecond clock; error texts.

| operation | what it does |
|---|---|
| `Select`, `Execute`, `Insert` | `SetBusy`, `Ping`, `mysql_query`, read the result off the handle, `SetIdle` on every way out |
| `Ping` | `mysql_ping` when not busy, else TRUE |
| `Connect`, `CloseConnection`, `StartReConnect` | the session; a reconnect at most every 3 seconds; a `Connect` that succeeds clears `m_bBusy` |
| `ExecUTF8`, `IsLoop`, `IsConnected`, `GetComsumedTime` | a keep-alive of one connection, its 10-second throttle, status, duration of the last command |

Correct when: a command returns what its own statement produced; the busy mark
says whether a command is running; a connection that was closed is reopened, or
its caller is told; the clock arithmetic survives the wrap at 2^32.

### CDBRecordset (`MTDBRecordset.cpp`)

State: `m_pFieldValue`, a table of typed cells, each with a string it owns;
`m_pFieldName`, the names and types of its columns.

| operation | what it does |
|---|---|
| constructor, destructor, `FreeRecord` | make and free the two arrays and the strings |
| `SetFieldName` | names a column and chooses the member its numbers go to |
| `SetFieldValue` | copies the text of a cell, and converts it into that member |
| `GetFieldValue` | a cell by row and column, or by row and name |

Correct when: indices stay in the table, each cell says what the server sent,
the type of a cell is the one its reader uses, a text is not cut, every string
is freed once. The last but one does not hold: see section 3.

### Interface functions and example (`MTDBOperate.cpp`)

State: `g_pDBConnectionPool`. `MTInitDBConnect` (re)builds the pool,
`MTDBFreeSQLPool` destroys it, `MTInitDBPing` runs the keep-alive; `main` is
the example of their use. Correct when: the functions may be called by a timer
and by threads as the server starts, runs and stops.

### Client library (`MySQL/include`, `MySQL/lib`)

Vendored. Modelled only by what `src/` relies on: a statement or a ping
succeeds or fails; with `MYSQL_OPT_RECONNECT` a dropped session is restored by
the next call; a handle after `mysql_close` fails every call until
`mysql_real_connect`.

### How they interact, and what is hard

Threads call the pool's loops and then, outside the pool, the commands of the
connection they were given. Two threads share the flag, the handle and its
reply. What is hard to test:

* between `GetConnection` and `SetBusy`, and between the keep-alive's `IsIdle`
  and `Execute`, another thread may take the same connection;
* the first of two threads to finish clears the mark of the other;
* `Connect` clears the mark whoever set it;
* every early return has to clear the mark by hand;
* `GetConnection` sees each index at another moment;
* the 3-second limit, the inverted answer of `mysql_ping` and the close that
  precedes them;
* `g_pDBConnectionPool` is set before the array exists, and tested and read
  again without a lock while the main thread builds or frees the pool;
* a build that fails half way leaves the pool as it is, to be closed or built
  over; `SetMaxPoolNum` moves the size and not the array;
* the limits in time are differences of tick counts that wrap, and a stored 0
  has a meaning of its own;
* `Select` turns an exception into a table that is part of the answer, and the
  caller is not told; `Execute` and `Insert` have no handler at all;
* the text of a cell goes through `char` pointers without its length.

`PROJECT.json` lists each at its line with the properties about it. Some of
them do go wrong in this code, and the property then says under what other
circumstances it does not: `ClosedIsKnown` exempts a `StartReConnect` that came
too early (`MTDBConnection.cpp:272`, `:289`), `DurationIsExact` the inside of a
command (`:249`), `NothingLost` the `MYSQL_RES` that an exception leaves
(`:162`), and `CrashesExplained` names the three ways a caller of a recordset
crashes (`MTDBConnection.cpp:141`, `MTDBRecordset.cpp:40`, `:93`). Such a
property says that there is no other way; it does not say that the code is
right about these.

## 2. Modules

| module | models | state |
|---|---|---|
| `ConnectionPool` | the pool in service and the commands on its connections, access by access | `m_bBusy`, `link` (the session behind the handle), `recent` (the 3-second clock), `reply` (whose answer the handle holds), `pc`, `wi`, `op`, `answer` of each thread; `overlapped` is a history variable |
| `PoolService` | what a server may expect: every request granted | `phase`, `lease` |
| `ReadyPool` | what `MTInitDBConnect` promises to threads that come after it has returned TRUE: a fixed number of connections, not 0, as long as one of them is inside. `PoolLifecycle` keeps it; `ConnectionPool`, whose array is fixed, rests on it | `size`, `inside`, `on` |
| `PoolLifecycle` | how the pool is built, sized, rebuilt and freed under the threads that reach it through `g_pDBConnectionPool` | `g`, `alive`, and of each pool `m_wMaxPoolNum`, `m_pDBConnection`, `allocated`, `prepared`, `open`; the place of the main thread; `pc`, `at`, `ui` of each user; `ready`; `badClose` is a history variable |
| `Connection` | one connection and the clock it reads | `now`; `m_dwConnectTime`, `m_dwExecUTF8`, `m_dwTickCount1/2`, `m_bBusy`, `link`; `pc`, `op`, `ok` of the calling thread; `early`, `tried`, `tries`, `passed`, `passes`, `ran` are history variables |
| `Throttle` | what a limit in time promises | `since`, `turn` |
| `Recordset` | a result set, from the answer of the query to its deletion | `table` (the `MYSQL_RES`), `result`; `wFieldIndex`, `wRowIndex`, `i` of the loops in `Select`; `m_pFieldName`, `m_pFieldValue`, `null`; `thrown`, `edited`, `freed`, `lost` are history variables |
| `MCConnectionPool`, `MCPoolLifecycle`, `MCConnection`, `MCRecordset` | symmetries and columns for TLC | |
| `ConnectionPoolProofs` | TLAPS: types, marks, answers, a pool of one thread | |
| `PoolCallProofs` | TLAPS: every call is bounded | |
| `PoolServiceProofs` | TLAPS: the counting argument and the refinement | |
| `PoolLifecycleProofs` | TLAPS: types, one pool, no session left, careful users and `ReadyPool`, the end of the array | |
| `ConnectionProofs` | TLAPS: the limits over the wrap, durations, closed handles | |
| `RecordsetProofs` | TLAPS: what of a table is copied, what is found, lost and crashes | |

### ConnectionPool

A step is one access to what threads share: reading or writing `m_bBusy`, or
the return of one library call. `Enter`, `ScanSees...` and `ScanEnds` are the
three loops over the array (`GetConnection` for `Workers`, `ExecUTF8` for
`Keepers`, `Ping` for `Pingers`). `BeginCommand` to `EndCommand` are `Select`,
`Execute` and `Insert` with every error return. `PingRechecks` to
`ConnectFails` are the body of pool `Ping`, with `StartReConnect` and `Connect`
in full. `ServerDrops` is the server; `Age` and `ClockWraps` are the clock: they
turn the flag `recent` when the 3 seconds are over and when, after 49.7 days,
the tick count comes round to the stamp again. Where `Wraps` is TRUE the flag
may turn either way at any time and start either way after a connect that
failed, which is every way the difference of two tick counts can answer.
`SetBusy` and `SetIdle` also write a tick count, which no other thread reads.

An exception inside a command is left out. `Select` has a handler that calls
`SetIdle`; `Execute` and `Insert` have none and assign `m_sErrorMsg`
(`MTDBConnection.cpp:186`, `:207`) before they call it, so an allocation that
fails there leaves the mark for ever. `BusyHasUser`, `BusyExactUntilOverlap`,
`BusyEnds` and their theorems are about runs in which no exception leaves them.

`StepsLeft` counts the steps a thread still has before its call returns: 1, 7
or 6 for each index it has not passed (a worker only looks, the keep-alive runs
a command, `Ping` may reconnect), 6 more for the command of a worker and one for
the end of the loop. `WaitFree` says that each step of the thread lowers it and
that no other step changes it.

When two threads talk on one handle at once the protocol gives the packets no
owner; `QueryReturns` then lets the reply be that of any thread that talks.
This is the milder part of what such a race can do: the library may also fail
or corrupt its buffers. Nothing is claimed about a connection after a meeting
of threads except what `BusyHasUser` and the liveness properties say of the
pool's own variables.

### PoolLifecycle

`MTInitDBConnect` and `MTDBFreeSQLPool` start the main thread on its way
through `CloseNext`, `CloseEnds` (`CloseConnectionPool`), `DeletePool` (the
destructor), `ForgetPool`, `ConstructPool` (the constructor, and the pointer is
set), `AllocateArray`, `ConnectNext` and `CreateEnds` (`CreateConnectionPool`);
`ConstructFails`, `AllocateFails` and `ConnectFails` leave it at the place where the code
returns, with what is built so far. Users go `Call`, `ReadPointer`, the loop,
`UseConnection`, `EndUse`; a step that reads memory that is not there ends in
`crashed`, or in `overran` beyond the end of the array.

A connection is raw until `Connect` has called `mysql_init` on it (`prepared`;
the constructor leaves `m_mysqlInstance` as it finds it), and `open` while it
has a session. Abstractions:

* what users do to each other is left to `ConnectionPool`; `IsIdle` may answer
  either way, and a turn of the loop, a close of one connection and the end of
  `CloseConnectionPool` are one step each;
* of `mysql_close` on raw memory, or at an offset into an array that is NULL,
  the outcome in which it returns is followed, and `badClose` records that it
  happened. `MTDBFreeSQLPool` has a `catch (...)` around it
  (`MTDBOperate.cpp:47-56`) which can turn another outcome into a pool that is
  half closed and still published; nothing is said about that one;
* the address of a deleted pool is not used again while a user holds it, so
  every use after free is seen as one;
* `Careful` users are those the server keeps away from before
  `MTInitDBConnect` or `MTDBFreeSQLPool` until the build has returned TRUE.
  Nothing in the code does that: it is what the interface leaves to its caller,
  and `LifeTimer` shows what happens without it.

`ReadyPool` is where the two models of the pool meet. In `PoolLifecycle` its
`size` is the length of the array while the pool is ready and 0 otherwise, and
its clients are the careful users: `CreateEnds` is `Serve`, a call of
`MTInitDBConnect` or `MTDBFreeSQLPool` is `Withdraw`, and a careful user that
runs off the end of the array, after `SetMaxPoolNum`, counts as having left
(`WithinArray` is about that). `ConnectionPool` takes up from there: its array
and its `PoolSize`, which is not 0, do not change, because its threads are
clients of a pool that is served.

### Connection

`ConnectionPool` has the session and the mark of each connection and every
thread, and of the clock only a flag. `Connection` has the clock, and one
thread that calls one operation after the other: `Call` enters `Execute`
(`SetBusy`, `QueryReturns`, `SetIdle`; `Select` and `Insert` read the same
clock at the same places), `ExecUTF8` (a ping, a command, and if that succeeds
`CloseConnection` and the reconnect), pool `Ping`, or `StartReConnect` by
itself, which ends in `ReConnectTooEarly` or goes on to `ConnectSucceeds` or
`ConnectFails`. `IsLoopTrue` is `IsLoop` when it returns TRUE; FALSE changes
nothing. `Tick` may come at any place, so a command, a connect and the time
between two calls last as long as they like.

`Minus` is the subtraction of two DWORDs, with a period of `Wrap`. Time is also
counted by history variables that do not wrap within a limit: `tried` since the
last reconnect, `passed` since the last TRUE of `IsLoop`. The refinement maps
each to `since` of `Throttle`, where a pass needs the whole gap behind it or an
excuse, and `tries` and `passes`, which change with every reconnect and every
TRUE, to `turn`, so that a second pass in the same tick is a step that counts.
Two passes are excused because the code stores 0 for them: after a
connect that failed (on purpose) and after a TRUE of `IsLoop` at tick 0 (by
chance, for a millisecond in 49.7 days); neither may itself come early. The second read of the clock in
`StartReConnect`, for the stamp, is taken to give the time of the first.

### Recordset

`Select` after `mysql_query`: `StoreResult`, `Construct`, `NameField` for each
column, `CopyCell` for each cell, `Return`; `Throws` and `ConstructThrows` are
the exceptions its handler takes for the end of the work. The caller then reads
by name, makes one change with `SetFieldName` or `SetFieldValue`, frees by hand
and deletes. `Stored` is the conversion of a text into the member of its type.
A step that reads through a NULL ends in `crashed`. Abstractions:

* a text is the number whose digits it is, or `Raw`, or `Empty`, or one with a
  NUL byte in it, of which `Head` says what comes before that byte. `CString`
  is what the code makes of a text wherever it takes it through a `char`
  pointer, `c_str` or `strcpy`: for the test whether the cell is empty, for the
  string and for the conversion;
* the bytes of a `BIT` are a text like any other, which may happen to be digits
  when there are more than four bits; the rounding of a `FLOAT` is left out;
* numbers keep their two widths, `2 * Half32` and `2 * Half64`; a number that is
  displayed in four characters fits the smaller;
* names are taken up to their case, as the look-up compares them;
* a DWORD counts the cells of a table, so rows times columns does not wrap;
* the arrays keep their contents after `FreeRecord`, and `null` says that
  nothing can reach them.

## 3. Runs

Bounds are in the `.cfg` files. `Ops` names the commands in a run: `Execute`
and `Insert` have the same shape, `Select` adds `mysql_store_result` and its
failure. Nothing in the models counts up without end (sizes are at most
`Sizes` and `Resizes`), so the state spaces are finite without bounds on steps.

| run | instance | shows |
|---|---|---|
| `PoolWorkers` | 3 workers, 3 connections | `BusyHasUser`: no orphaned mark. `BusyExactUntilOverlap`, `OwnAnswerUntilOverlap`. `Thinning`: of n workers at most n - i at index i or beyond. `NeverRefused`. `ImplementsService`: every step is one of `PoolService` or a stutter |
| `PoolLive` | one thread of each kind, 1 connection the server may drop: everybody meets there; the clock may wrap; fair | `TypeOK`, `BusyExactUntilOverlap`, `OwnAnswerUntilOverlap`, `PingInCommandIdle`. `CallsReturn`, `BusyEnds`; `WaitFree`: the steps a call has left only depend on its own thread |
| `PoolKeepAlive` | worker, keep-alive, 3 connections the server may drop, no pool `Ping`; fair | `DroppedRestored` |
| `PoolForeignAnswer` | 2 workers, 2 connections | violated: `OwnAnswer`; two threads get one connection and `Insert` returns the other's id |
| `PoolRefusal` | 1 worker, keep-alive, 3 connections | violated: `NeverRefused`; NULL with two connections idle |
| `PoolReconnect` | pinger alone, server healthy | violated: `ClosedReopened`; a live connection is closed within 3 seconds of its connect and never reopened |
| `Lifecycle` | worker and timer kept out while the pool changes, a timer that is not; 2 addresses, `nThreadNum` 0 to 2, `SetMaxPoolNum(3)`, failures of `new` and of each connect | `TypeOK`, `CarefulNeverCrash`, `ReadyIsComplete`, `NoSessionLeft`, `OnePool`. `ServesCareful`: what the careful users see is `ReadyPool` |
| `LifeResize` | one careful worker | violated: `WithinArray`; after `SetMaxPoolNum` the loop runs off the array |
| `LifeRawClose` | a build that fails, then a free | violated: `CloseAfterConnect`; `mysql_close` on handles that never saw `mysql_init` |
| `LifeTimer` | a timer nobody keeps out | violated: `UsersNeverCrash`; the test of the pointer in `MTInitDBPing` does not protect it |
| `Connection` | a clock of 5 ticks, both limits 2 ticks | `TypeOK`, `ReconnectsApart`, `LoopsApart`, `DurationIsExact`, `ClosedIsKnown` |
| `Recordset` | every table of up to 2 columns and 2 rows over nine kinds of columns, with two short names and a long one; widths of 2 and 3 bits; the numbers -2, 1 and 6, a text that goes on after its NUL byte and one that begins with it; exceptions at every step | `TypeOK`, `PrefixIsCopied`, `FoundByName`, `NothingLost`, `CrashesExplained` |

Three workers make a chain of two overtakings, three connections give the walk
of the keep-alive a first, a middle and a last stop, and two addresses make one pool
follow another while a user still holds the first. A clock of 5 ticks is the
shortest that is more than twice a limit, and every stamp is met by every time,
before and after a wrap. Two columns and two rows tell row-major order from any
other, and make a look-up choose between two columns; one number is negative,
one fits both widths and one only the larger. The theorems cover the rest.

Deadlock is checked in every run but `Recordset`: a thread can always call the
pool or the connection again, while a recordset ends when it is deleted.

Smaller disagreements met on the way, with no run of their own:

* pool `Ping` returns TRUE at its end whatever it saw (`MTDBDef.h:161` says it
  tells whether all are idle), and `Execute` returns TRUE for success where
  `MTDBDef.h:142` says 0;
* `main` reads the column it calls `uint` (`MTDBOperate.cpp:16`) from
  `FieldValueUInt` (`MTDBOperate.cpp:121`); an `INT UNSIGNED` with its usual
  display length of 10 is stored in `FieldValueUInt64`
  (`MTDBRecordset.cpp:110`), and the other member is 0: what `main` prints as
  the `uint` is 0 whatever the server sent. In the run, a column `LONG` of
  length 10 has type `ULONGLONG`, and `Holds`, of which `PrefixIsCopied` is
  made, says that all other members are 0. It also says that a signed column of
  more than four characters has its number in `FieldValueUInt64`, right only
  when it is read as signed;
* a text is cut at its first NUL byte, and one that begins with it (a `BIT` of
  value 0) is dropped and looks like an SQL NULL: `CString` in `Holds`;
* `IsConnected` is "whether connected" (`MTDBDef.h:123`), and is TRUE of a
  handle that `CloseConnection` closed and FALSE after a connect at tick 0;
* `ExecUTF8` of a connection returns TRUE and leaves the handle closed when its
  `StartReConnect` comes too early: the exception in `ClosedIsKnown`;
* `GetComsumedTime` within a command subtracts its start from the end of the
  command before, which wraps to days;
* the case of "DECIMAL or NUMERIC" columns (`MTDBRecordset.cpp:128`) does not
  take the type that a server of version 5 sends for them, `NEWDECIMAL`, whose
  line is commented out: such a column keeps the type 0, and its cells have
  only their text.

### Fairness

`FairSpec` has weak fairness of each thread once it has called the pool: the
code has no lock to wait on, so a thread is only ever waiting for the scheduler
or for a library call, which returns with a result or an error. (A thread whose
packet another thread took off the same handle waits at most until the server
closes the session after `wait_timeout`.) Nothing is assumed of when a thread
calls, of the server or of which outcome a call has.

`KeptAlive` is what the keep-alive needs to be worth anything, and the premise
of `DroppedRestored`: a timer calls `MTInitDBPing` again and again, and the
server is not down for ever (strong fairness, for each connection, of some
statement on it succeeding). It does not say whose statement: where the
keep-alive steps over a connection because a worker is on it each time, it is
the worker's that restores the session, and where no worker calls it is the
keep-alive's. The run has no pool `Ping`, which would restore or close the
session for other reasons. `ClosedReopened` adds `Pinged`, the same for pool
`Ping`, with the passing of time, and is violated all the same.

## 4. Proofs

The theorems about `ConnectionPool` are for any finite number of workers, any
keepers and pingers and any size of the array, and rest only on
`PoolAssumption`: the roles are disjoint, the workers are finitely many, and
the size is a natural number other than 0, which is what `MTInitDBConnect`
returned TRUE for.

* `TypeCorrect`: `TypeOK`, which is inductive; its part that matters is that a
  thread at a connection has an index of the array.
* `BusyMarkHasUser`: `BusyHasUser` is inductive with `TypeOK`.
* `BusyMarkExact`, `AnswerIsOwn`, `PingInCommandIsDead`: these are not
  inductive. They follow from `Alone`, which says that two threads at one
  connection have set `overlapped` there (`Meetings`), and what a thread that
  met nobody may rely on at each place of a command (`Undisturbed`). The
  lemmas `AloneArrive`, `AloneMove`, `AloneDepart` and `AloneAway` prove it
  kept by the four kinds of step a thread can take.
* `LoneThreadOwnAnswer`: for a pool that one thread uses, `OwnAnswer` itself.
  `PoolForeignAnswer` is the counterexample with two threads. `LoneStep` shows
  that the thread never meets anybody: when it comes to a connection, its
  earlier command or ping is no longer there.
* `CallsAreBounded`: `WaitFree`. `OwnStepMoves` sorts the steps of a thread into
  five moves through the array, `MoveCounts` shows for each that the measure
  falls by at least one and never below 0, and `OthersStay` that no thread moves
  another. So `GetConnection` with a command takes at most `PoolSize + 7` steps,
  the keep-alive `7 * PoolSize + 2` and pool `Ping` `6 * PoolSize + 2`. This is
  the part of `CallsReturn` that can be proved here: with the fairness of
  `FairSpec` (each of those steps is taken at last) it gives the rest.
* `WorkersThinOut`: with no keep-alive, `Thinning`. A thread that steps over a
  busy connection at i leaves behind the worker that made it busy
  (`BusyHasUser`), so the set of workers beyond i + 1 is smaller than the set
  beyond i by that worker, and the number falls by one with every index.
  Pool `Ping` may run: it never marks a connection.
* `NobodyRefused`: then, with at least as many connections as workers, no
  worker is refused. The assumption `Keepers = {}` is needed: `PoolRefusal`
  is the counterexample with one keeper.
* `PoolImplementsService`: under the same assumptions every behaviour is one
  of `PoolService!Spec`.

The theorems about `PoolLifecycle` are for any users, addresses, sizes and
resizes (`LifecycleAssumption`).

* `SessionsAreTheirPools`, `OnePoolAtATime`: neither property is inductive.
  `MainInv` adds what the main thread has built at each place (`Stage`) and
  that the sessions of a pool being closed are those the loop has still ahead
  of it and lie below the size (`Sessions`); that is why a `SetMaxPoolNum`,
  which can only raise the size, does not make the loop miss one.
* `CarefulAreSafe`, `ReadyPoolIsComplete`: `CarefulInv` adds that a ready pool
  has its array, with every connection up (`Complete`), and that a careful
  user is in the pool only while it is ready, at today's pointer and at an
  index of the array (`CarefulInside`).
* `PoolServesCareful`: `ServesCareful`. Every step is one of `ReadyPool` or a
  stutter, from `CarefulInv`: a pool that is served is not withdrawn with a
  careful user inside, and at every index such a user takes there is a
  connection that Connect has run on (`ReadyIsUsable`), so it never leaves by a
  crash.
* `ResizeAloneOverruns`: `WithinArray`, where no argument of `SetMaxPoolNum` is
  larger than any `nThreadNum`, for all users, careful or not. `ArrayInv` adds
  to `MainInv` that the size is an `nThreadNum` and no more than the array
  (`SizeKept`), and that a user who has a connection has it below the end of an
  array that is not still to be made (`UseKept`). `LifeResize` shows the
  assumption is needed: the overrun has no other cause.
* `AllCarefulAllSafe`: if every user is careful, `UsersNeverCrash`, which
  `LifeTimer` refutes for one that is not.
* `LifecycleTypes`: `TypeOK`, which is inductive.

The theorems about `Connection` are for every period of the clock that is
longer than the limits (`ClockAssumption`; in the code 2^32, 3000 and 10000).

* `ReconnectsStayApart`, `LoopsStayApart`: the connection implements `Throttle`
  twice, two passes in one tick counting as two. What is inductive is `TriedBound` and `PassedBound`: while the limit
  runs, the age read off a stamp is at most the real time since the pass it
  limits. `MinusNext` says that a tick moves the age on by one around the clock,
  so the age can fall to 0 by a wrap and is never ahead of real time. A stamp
  that a long connect moves on only makes the age smaller.
* `DurationAlwaysExact`: in a command the age of `m_dwTickCount1` is the time
  it has taken, modulo the period (`Duration`).
* `ClosedAlwaysKnown`: `Known`, over every place of the calls.
* `ConnectionTypes`: `TypeOK`, which is inductive.

The theorems about `Recordset` are for any columns, any numbers, any size of
the tables and any two widths (`TableAssumption`).

* `PrefixesAreCopied`: the invariant is `CellsCopied`: the
  cells before the row and column of the loop are copies of the table up to the
  NUL bytes in its texts, those after it are as the constructor made them. It is
  kept because a step writes one place, the place of its cell
  (`IndexInjective`, `IndexInside`), and because the type of a column fits what
  is left of what the server sends in it (`SentFacts`, `StoredFacts`: a number
  within its range comes back from the member of its type). At the end of a
  `Select` that nothing stopped the prefix is the table (`Places`).
* `NamesAreFound`: the columns before `wFieldIndex` have their names
  (`FieldsNamed`), and a search that has a match has a first one (`Least`).
* `NothingIsLost`: inductive with `CellsCopied`, which says that a cell the
  loop comes to has no string yet.
* `CrashesAreExplained`, `RecordsetTypes`: with `FieldsNamed`, inductive.

Only model-checked: the liveness properties `CallsReturn`, `BusyEnds` and
`DroppedRestored` (TLAPS has no proof of liveness under fairness, nor of
ENABLED, which weak fairness needs). The safety part of the first two is
proved: `WaitFree`, and `BusyHasUser`, by which a marked connection has a thread
on it that is on its bounded way to `SetIdle`.

## 5. Not modelled

* Exceptions inside `Execute` and `Insert` (section 2, ConnectionPool), and the
  exception handler of `MTDBFreeSQLPool`.
* Log and error texts, `SetParams`, the connection parameters; what `main`
  prints.
* The TCP connection and the server beyond outcomes of calls.
* The vendored headers and binaries of the client library. They are about nine
  tenths of the lines of the repository (some 8500 of 9300 in headers) and hold
  declarations, not behaviour; of the program's own 810 lines, what changes
  state or decides anything is in the modules.
* The numbers of the clock in `ConnectionPool`, which has a flag per connection
  instead: `recent`, which `Age` and `ClockWraps` turn. A flag that may turn at
  any time allows everything the numbers do; how long 3 seconds are is in
  `Connection`. `PoolReconnect` and `PoolWorkers` run without the wrap: a
  reopening that only comes after 49.7 days is none.
* A cell read with a type that is not its own: `PrefixIsCopied` says what is in each
  member, and the choice is the caller's.

## 6. Plan

1. Done: `ConnectionPool` and `PoolService`, with their proofs.
2. Done: `PoolLifecycle` and `ReadyPool`, with their proofs.
3. Done: `Connection` and `Throttle`, with their proofs.
4. Done: `Recordset`, with its proofs.
5. Left out: `ConnectionPool` with the clock of `Connection` in place of its
   flag. The clock of each connection multiplies the states by the square of
   the period and more, and the flag already has every order of a connect, a
   test, the end of the 3 seconds and a wrap; what only the numbers show is in
   `Connection`.
6. Left: a bound like `WaitFree` on the steps of the main thread and of
   `Select`, and an abstract result set for `Recordset` to implement.
