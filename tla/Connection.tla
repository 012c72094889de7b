----------------------------- MODULE Connection -----------------------------
(***************************************************************************)
(* One CDBConnection and the clock it reads: the 3 seconds between two     *)
(* reconnects, the 10 seconds between two keep-alives, and the duration of *)
(* a command, all of them differences of GetTickCount, a DWORD of          *)
(* milliseconds that starts again at 0 after 49.7 days.                    *)
(*                                                                         *)
(* A thread calls Execute, ExecUTF8, StartReConnect and IsLoop, or Ping of *)
(* the pool for this connection, one after the other, and time passes      *)
(* before, between and within them.  What several threads do to each other *)
(* is in ConnectionPool.                                                   *)
(***************************************************************************)
EXTENDS Integers

CONSTANTS Wrap,     \* 2^32, the number of values of GetTickCount
          Gap,      \* the 3000 of StartReConnect
          LoopGap   \* the 10000 of IsLoop

ASSUME ClockAssumption ==
  /\ Wrap \in Nat /\ Gap \in Nat /\ LoopGap \in Nat
  /\ 0 < Gap /\ Gap < Wrap /\ LoopGap + 1 < Wrap

Stamps == 0 .. Wrap - 1

VARIABLES
  now,              \* what GetTickCount returns
  m_dwConnectTime, m_dwExecUTF8, m_dwTickCount1, m_dwTickCount2,
  m_bBusy,
  link,             \* as in ConnectionPool: "open", "dropped" or "closed"
  pc, op,           \* where the thread is, and in which call
  ok,               \* what the last command or StartReConnect returned
  early,            \* history: the last StartReConnect came too early
  tried, passed,    \* history: ticks since the last reconnect and since the
                    \* last TRUE of IsLoop, counted as Throttle does
  tries, passes,    \* history: whether the number of reconnects, and of
                    \* TRUEs of IsLoop, is odd
  ran               \* history: ticks the last command took, modulo Wrap

stampVars   == <<m_dwConnectTime, m_dwExecUTF8, m_dwTickCount1,
                 m_dwTickCount2>>
historyVars == <<early, tried, tries, passed, passes, ran>>
vars == <<now, m_dwConnectTime, m_dwExecUTF8, m_dwTickCount1, m_dwTickCount2,
          m_bBusy, link, pc, op, ok, early, tried, tries, passed, passes,
          ran>>

\* Mutant: the difference is taken without the wrap.
Minus_Absolute(a, b) == IF a >= b THEN a - b ELSE b - a

\* a - b of two DWORDs.
Minus(a, b) == IF a >= b THEN a - b ELSE a - b + Wrap

Elapsed(stamp) == Minus(now, stamp)

\* The constructor, and a Connect that has just succeeded.
Init ==
  /\ now \in Stamps /\ m_dwConnectTime = now
  /\ m_dwExecUTF8 = 0 /\ m_dwTickCount1 = 0 /\ m_dwTickCount2 = 0
  /\ m_bBusy = FALSE /\ link = "open"
  /\ pc = "out" /\ op = "none" /\ ok = TRUE
  /\ early = FALSE /\ tried = 0 /\ passed = LoopGap + 1 /\ ran = 0
  /\ tries = FALSE /\ passes = FALSE

-----------------------------------------------------------------------------
(* Time and the server.                                                    *)

\* GetTickCount a millisecond later.
Next1(n) == IF n = Wrap - 1 THEN 0 ELSE n + 1

Tick ==
  /\ now' = Next1(now)
  /\ tried' = IF tried < Gap THEN tried + 1 ELSE Gap
  /\ passed' = IF passed < LoopGap + 1 THEN passed + 1 ELSE LoopGap + 1
  /\ ran' = IF m_bBusy THEN Next1(ran) ELSE ran
  /\ UNCHANGED <<stampVars, m_bBusy, link, pc, op, ok, early, tries, passes>>

ServerDrops ==
  /\ link = "open" /\ link' = "dropped"
  /\ UNCHANGED <<now, stampVars, m_bBusy, pc, op, ok, historyVars>>

\* A call of the client library that reaches for the server, as in
\* ConnectionPool.
CallSucceeds == link # "closed" /\ link' = "open"
CallFails    == link' \in IF link = "open" THEN {"open", "dropped"} ELSE {link}

-----------------------------------------------------------------------------
(* IsLoop.                                                                 *)

\* Mutant: the time is not stored.
IsLoopTrue_NoStamp ==
  /\ pc = "out"
  /\ m_dwExecUTF8 = 0 \/ Elapsed(m_dwExecUTF8) > LoopGap
  /\ passed' = (IF now = 0 THEN LoopGap + 1 ELSE 0) /\ passes' = ~passes
  /\ UNCHANGED <<now, stampVars, m_bBusy, link, pc, op, ok, early, tried,
                 tries, ran>>

\* FALSE changes nothing.  TRUE comes the first time, that is when the stamp
\* is 0, or after 10 seconds.  A pass at tick 0 stores the 0 that says there
\* was none, and is excused.
IsLoopTrue ==
  /\ pc = "out"
  /\ m_dwExecUTF8 = 0 \/ Elapsed(m_dwExecUTF8) > LoopGap
  /\ m_dwExecUTF8' = now
  /\ passed' = (IF now = 0 THEN LoopGap + 1 ELSE 0) /\ passes' = ~passes
  /\ UNCHANGED <<now, m_dwConnectTime, m_dwTickCount1, m_dwTickCount2,
                 m_bBusy, link, pc, op, ok, early, tried, tries, ran>>

-----------------------------------------------------------------------------
(* Commands, ExecUTF8 and the reconnect.                                   *)

\* ExecUTF8 asks the server and ignores its answer; Ping of the pool acts on
\* it; StartReConnect may be called by itself.
Start(call, place) ==
  /\ pc = "out"
  /\ op' = call /\ pc' = place
  /\ UNCHANGED <<now, stampVars, m_bBusy, link, ok, historyVars>>

Call == \/ Start("Execute", "command")
        \/ Start("ExecUTF8", "pinging")
        \/ Start("PoolPing", "probing")
        \/ Start("StartReConnect", "reconnect")

PingReturns ==
  /\ pc = "pinging"
  /\ CallSucceeds \/ CallFails
  /\ pc' = "command"
  /\ UNCHANGED <<now, stampVars, m_bBusy, op, ok, historyVars>>

\* mysql_ping is 0 for a live session, which the pool takes for a failure.
ProbeReturns ==
  /\ pc = "probing"
  /\ \/ CallSucceeds /\ pc' = "closing"
     \/ CallFails /\ pc' = "out"
  /\ UNCHANGED <<now, stampVars, m_bBusy, op, ok, historyVars>>

SetBusy ==
  /\ pc = "command"
  /\ m_dwTickCount1' = now /\ m_bBusy' = TRUE
  /\ ran' = 0
  /\ pc' = "query"
  /\ UNCHANGED <<now, m_dwConnectTime, m_dwExecUTF8, m_dwTickCount2, link,
                 op, ok, early, tried, tries, passed, passes>>

QueryReturns ==
  /\ pc = "query"
  /\ \/ CallSucceeds /\ ok' = TRUE
     \/ CallFails /\ ok' = FALSE
  /\ pc' = "done"
  /\ UNCHANGED <<now, stampVars, m_bBusy, op, historyVars>>

\* Mutant: the error return clears the mark and takes no time.
SetIdle_ErrorNoStamp ==
  /\ pc = "done"
  /\ m_dwTickCount2' = IF ok THEN now ELSE m_dwTickCount2
  /\ m_bBusy' = FALSE
  /\ pc' = IF op = "ExecUTF8" /\ ok THEN "closing" ELSE "out"
  /\ UNCHANGED <<now, m_dwConnectTime, m_dwExecUTF8, m_dwTickCount1, link,
                 op, ok, historyVars>>

\* ExecUTF8 goes on to close the connection its statement has run on.
SetIdle ==
  /\ pc = "done"
  /\ m_dwTickCount2' = now /\ m_bBusy' = FALSE
  /\ pc' = IF op = "ExecUTF8" /\ ok THEN "closing" ELSE "out"
  /\ UNCHANGED <<now, m_dwConnectTime, m_dwExecUTF8, m_dwTickCount1, link,
                 op, ok, historyVars>>

CloseConnection ==
  /\ pc = "closing"
  /\ link' = "closed"
  /\ pc' = "reconnect"
  /\ UNCHANGED <<now, stampVars, m_bBusy, op, ok, historyVars>>

\* Mutant: the stamp is the time from which a reconnect may come, and the
\* clock does not wrap.
StartReConnect_Deadline ==
  /\ pc = "reconnect" /\ Elapsed(m_dwConnectTime) >= Gap
  /\ m_dwConnectTime' = now + Gap
  /\ link' = "closed"
  /\ early' = FALSE /\ tried' = 0 /\ tries' = ~tries
  /\ pc' = "connecting"
  /\ UNCHANGED <<now, m_dwExecUTF8, m_dwTickCount1, m_dwTickCount2, m_bBusy,
                 op, ok, passed, passes, ran>>

\* StartReConnect reads the clock for its test and again for its stamp; here
\* both reads are one step.  Too early is TRUE, too.
ReConnectTooEarly ==
  /\ pc = "reconnect" /\ Elapsed(m_dwConnectTime) < Gap
  /\ early' = TRUE /\ ok' = TRUE
  /\ pc' = "out"
  /\ UNCHANGED <<now, stampVars, m_bBusy, link, op, tried, tries, passed,
                 passes, ran>>

StartReConnect ==
  /\ pc = "reconnect" /\ Elapsed(m_dwConnectTime) >= Gap
  /\ m_dwConnectTime' = now
  /\ link' = "closed"
  /\ early' = FALSE /\ tried' = 0 /\ tries' = ~tries
  /\ pc' = "connecting"
  /\ UNCHANGED <<now, m_dwExecUTF8, m_dwTickCount1, m_dwTickCount2, m_bBusy,
                 op, ok, passed, passes, ran>>

ConnectSucceeds ==
  /\ pc = "connecting"
  /\ m_dwConnectTime' = now /\ m_bBusy' = FALSE
  /\ link' = "open" /\ ok' = TRUE
  /\ pc' = "out"
  /\ UNCHANGED <<now, m_dwExecUTF8, m_dwTickCount1, m_dwTickCount2, op,
                 historyVars>>

\* Mutant: the stamp of the attempt stays.
ConnectFails_StampStays ==
  /\ pc = "connecting"
  /\ link' \in {"closed", "open"} /\ ok' = FALSE
  /\ tried' = Gap
  /\ pc' = "out"
  /\ UNCHANGED <<now, stampVars, m_bBusy, op, early, tries, passed, passes,
                 ran>>

\* Before or after the session is up.  The stamp of 0 lets the next attempt
\* come at once: the failure is an excuse.
ConnectFails ==
  /\ pc = "connecting"
  /\ link' \in {"closed", "open"} /\ ok' = FALSE
  /\ m_dwConnectTime' = 0
  /\ tried' = Gap
  /\ pc' = "out"
  /\ UNCHANGED <<now, m_dwExecUTF8, m_dwTickCount1, m_dwTickCount2, m_bBusy,
                 op, early, tries, passed, passes, ran>>

Next ==
  \/ Tick \/ ServerDrops \/ IsLoopTrue \/ Call
  \/ PingReturns \/ ProbeReturns
  \/ SetBusy \/ QueryReturns \/ SetIdle
  \/ CloseConnection \/ ReConnectTooEarly \/ StartReConnect
  \/ ConnectSucceeds \/ ConnectFails

Spec == Init /\ [][Next]_vars

-----------------------------------------------------------------------------
(* Properties.                                                             *)

IsConnected     == m_dwConnectTime # 0
GetComsumedTime == Minus(m_dwTickCount2, m_dwTickCount1)

TypeOK ==
  /\ now \in Stamps
  /\ m_dwConnectTime \in Stamps /\ m_dwExecUTF8 \in Stamps
  /\ m_dwTickCount1 \in Stamps /\ m_dwTickCount2 \in Stamps
  /\ m_bBusy \in BOOLEAN /\ ok \in BOOLEAN /\ early \in BOOLEAN
  /\ link \in {"open", "dropped", "closed"}
  /\ pc \in {"out", "pinging", "probing", "command", "query", "done",
             "closing", "reconnect", "connecting"}
  /\ op \in {"none", "Execute", "ExecUTF8", "PoolPing", "StartReConnect"}
  /\ tried \in 0 .. Gap /\ passed \in 0 .. LoopGap + 1 /\ ran \in Stamps
  /\ tries \in BOOLEAN /\ passes \in BOOLEAN

\* Reconnects go to the server at least 3 seconds apart, over the wrap of
\* the clock and however long a connect takes, unless the one before failed;
\* two in one tick are two.
Reconnects == INSTANCE Throttle WITH
  Gap <- Gap, since <- tried, turn <- tries

ReconnectsApart == Reconnects!Spec

\* IsLoop lets one caller through in 10 seconds, over the wrap of the clock,
\* but for what follows a pass at tick 0; that pass itself is not early.
Loops == INSTANCE Throttle WITH
  Gap <- LoopGap + 1, since <- passed, turn <- passes

LoopsApart == Loops!Spec

\* Between commands GetComsumedTime is the duration of the last one,
\* whichever way it ended and wherever the clock wrapped.  (Within one it is
\* not: the start is new and the end is of the command before.)
DurationIsExact == ~m_bBusy => GetComsumedTime = ran

\* A handle that a finished call left closed is known to be: the call, or
\* the one after it, returned FALSE and IsConnected is FALSE.  The one way
\* to a closed handle that passes for a good one is a StartReConnect that
\* came too early, in ExecUTF8 or pool Ping.
ClosedIsKnown ==
  pc = "out" /\ link = "closed" => early \/ (~ok /\ ~IsConnected)
=============================================================================
