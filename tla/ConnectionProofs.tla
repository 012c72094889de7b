-------------------------- MODULE ConnectionProofs --------------------------
(***************************************************************************)
(* Proofs about Connection, for every clock that wraps after more ticks    *)
(* than the two limits.                                                    *)
(***************************************************************************)
EXTENDS Connection, TLAPS

-----------------------------------------------------------------------------
(* The arithmetic of the wrapping clock.                                   *)

LEMMA MinusType ==
  ASSUME NEW a \in Stamps, NEW b \in Stamps
  PROVE  Minus(a, b) \in Stamps
  BY ClockAssumption DEF Stamps, Minus

LEMMA MinusSelf ==
  ASSUME NEW a \in Stamps
  PROVE  Minus(a, a) = 0
  BY ClockAssumption DEF Stamps, Minus

LEMMA NextType ==
  ASSUME NEW a \in Stamps
  PROVE  Next1(a) \in Stamps /\ Next1(a) <= a + 1
  BY ClockAssumption DEF Stamps, Next1

\* The age of a stamp goes round with the clock.
LEMMA MinusNext ==
  ASSUME NEW a \in Stamps, NEW b \in Stamps
  PROVE  Minus(Next1(a), b) = Next1(Minus(a, b))
  BY ClockAssumption DEF Stamps, Minus, Next1

-----------------------------------------------------------------------------
(* The invariant: what each stamp says of the time counted beside it.      *)

\* A reconnect that did not fail is no older than its stamp says.
TriedBound == tried < Gap => Elapsed(m_dwConnectTime) <= tried

PassedBound ==
  passed <= LoopGap => m_dwExecUTF8 # 0 /\ Elapsed(m_dwExecUTF8) <= passed

InCommand == pc \in {"query", "done"}

Duration ==
  /\ m_bBusy <=> InCommand
  /\ ran = IF InCommand THEN Elapsed(m_dwTickCount1) ELSE GetComsumedTime

\* Only a reconnect that is under way may have closed the handle unseen.
Known ==
  link = "closed" /\ pc \notin {"reconnect", "connecting"} =>
    early \/ (ok = FALSE /\ m_dwConnectTime = 0)

Inv == TypeOK /\ TriedBound /\ PassedBound /\ Duration /\ Known

LEMMA InitInv == Init => Inv
  <1> SUFFICES ASSUME Init PROVE Inv
    OBVIOUS
  <1>1. TypeOK
    <2>1. 0 \in Stamps /\ 0 \in 0 .. Gap /\ LoopGap + 1 \in 0 .. LoopGap + 1
      BY ClockAssumption DEF Stamps
    <2> QED BY <2>1 DEF Init, TypeOK
  <1>2. TriedBound
    BY MinusSelf DEF Init, TriedBound, Elapsed
  <1>3. PassedBound
    BY ClockAssumption DEF Init, PassedBound
  <1>4. Duration
    <2>1. Minus(0, 0) = 0
      BY ClockAssumption DEF Minus
    <2> QED BY <2>1 DEF Init, Duration, InCommand, GetComsumedTime
  <1>5. Known
    BY DEF Init, Known
  <1> QED BY <1>1, <1>2, <1>3, <1>4, <1>5 DEF Inv

-----------------------------------------------------------------------------
(* The steps.                                                              *)

LEMMA TickInv ==
  ASSUME Inv, Tick
  PROVE  Inv'
  <1> USE DEF Inv
  <1>1. TypeOK'
    BY NextType, ClockAssumption
    DEF TypeOK, Tick, stampVars
  <1>2. TriedBound'
    <2>1. Elapsed(m_dwConnectTime)' = Next1(Elapsed(m_dwConnectTime))
      BY MinusNext DEF Tick, TypeOK, Elapsed, stampVars
    <2>2. Elapsed(m_dwConnectTime)' <= Elapsed(m_dwConnectTime) + 1
      BY <2>1, MinusType, NextType DEF TypeOK, Elapsed
    <2>3. Elapsed(m_dwConnectTime) \in Stamps /\ Elapsed(m_dwConnectTime)' \in Stamps
      BY <2>1, MinusType, NextType DEF TypeOK, Elapsed
    <2> QED BY <2>2, <2>3, ClockAssumption
            DEF TriedBound, Tick, TypeOK, Stamps
  <1>3. PassedBound'
    <2>1. Elapsed(m_dwExecUTF8)' = Next1(Elapsed(m_dwExecUTF8))
      BY MinusNext DEF Tick, TypeOK, Elapsed, stampVars
    <2>2. Elapsed(m_dwExecUTF8)' <= Elapsed(m_dwExecUTF8) + 1
      BY <2>1, MinusType, NextType DEF TypeOK, Elapsed
    <2>3. Elapsed(m_dwExecUTF8) \in Stamps /\ Elapsed(m_dwExecUTF8)' \in Stamps
      BY <2>1, MinusType, NextType DEF TypeOK, Elapsed
    <2> QED BY <2>2, <2>3, ClockAssumption
            DEF PassedBound, Tick, TypeOK, Stamps, stampVars
  <1>4. Duration'
    <2>1. Elapsed(m_dwTickCount1)' = Next1(Elapsed(m_dwTickCount1))
      BY MinusNext DEF Tick, TypeOK, Elapsed, stampVars
    <2> QED BY <2>1 DEF Duration, InCommand, GetComsumedTime, Tick, stampVars
  <1>5. Known'
    BY DEF Known, Tick, stampVars
  <1> QED BY <1>1, <1>2, <1>3, <1>4, <1>5

\* The steps of a call that read no clock.
Timeless ==
  \/ ServerDrops \/ Call \/ PingReturns \/ ProbeReturns \/ QueryReturns
  \/ CloseConnection \/ ReConnectTooEarly

LEMMA TimelessInv ==
  ASSUME Inv, Timeless
  PROVE  Inv'
  <1> USE DEF Inv, stampVars, historyVars
  <1>1. TypeOK'
    BY DEF TypeOK, Timeless, ServerDrops, Call, Start, PingReturns,
           ProbeReturns, QueryReturns, CloseConnection, ReConnectTooEarly,
           CallSucceeds, CallFails
  <1>2. UNCHANGED <<now, stampVars, m_bBusy, tried, passed, ran>>
    BY DEF Timeless, ServerDrops, Call, Start, PingReturns, ProbeReturns,
           QueryReturns, CloseConnection, ReConnectTooEarly
  <1>3. TriedBound' /\ PassedBound'
    BY <1>2 DEF TriedBound, PassedBound, Elapsed
  <1>4. Duration'
    <2>1. InCommand' = InCommand
      BY DEF InCommand, Timeless, ServerDrops, Call, Start, PingReturns,
             ProbeReturns, QueryReturns, CloseConnection, ReConnectTooEarly
    <2> QED BY <1>2, <2>1 DEF Duration, Elapsed, GetComsumedTime
  <1>5. Known'
    BY DEF Known, Timeless, ServerDrops, Call, Start, PingReturns,
           ProbeReturns, QueryReturns, CloseConnection, ReConnectTooEarly,
           CallSucceeds, CallFails
  <1> QED BY <1>1, <1>3, <1>4, <1>5

\* The steps that store a stamp.
Stamping ==
  \/ IsLoopTrue \/ SetBusy \/ SetIdle
  \/ StartReConnect \/ ConnectSucceeds \/ ConnectFails

LEMMA StampingInv ==
  ASSUME Inv, Stamping
  PROVE  Inv'
  <1> USE DEF Inv, stampVars, historyVars
  <1>1. TypeOK'
    <2>1. 0 \in Stamps /\ 0 \in 0 .. Gap /\ Gap \in 0 .. Gap
          /\ 0 \in 0 .. LoopGap + 1 /\ LoopGap + 1 \in 0 .. LoopGap + 1
      BY ClockAssumption DEF Stamps
    <2>2. tries' \in BOOLEAN /\ passes' \in BOOLEAN
      BY Zenon
      DEF TypeOK, Stamping, IsLoopTrue, SetBusy, SetIdle,
          StartReConnect, ConnectSucceeds, ConnectFails
    <2> QED BY <2>1, <2>2
            DEF TypeOK, Stamping, IsLoopTrue, SetBusy, SetIdle,
                StartReConnect, ConnectSucceeds, ConnectFails
  <1>2. Elapsed(now) = 0 /\ now' = now
    BY MinusSelf
    DEF TypeOK, Elapsed, Stamping, IsLoopTrue, SetBusy, SetIdle,
        StartReConnect, ConnectSucceeds, ConnectFails
  <1>3. TriedBound'
    <2>1. CASE IsLoopTrue \/ SetBusy \/ SetIdle
      BY <2>1 DEF TriedBound, Elapsed, IsLoopTrue, SetBusy, SetIdle
    <2>2. CASE StartReConnect \/ ConnectSucceeds
      BY <1>1, <1>2, <2>2
      DEF TriedBound, TypeOK, Elapsed, StartReConnect, ConnectSucceeds
    <2>3. CASE ConnectFails
      BY <2>3, ClockAssumption DEF TriedBound, ConnectFails
    <2> QED BY <2>1, <2>2, <2>3 DEF Stamping
  <1>4. PassedBound'
    <2>1. CASE IsLoopTrue
      BY <1>2, <2>1, ClockAssumption DEF PassedBound, Elapsed, IsLoopTrue
    <2>2. CASE ~IsLoopTrue
      BY <2>2
      DEF PassedBound, Elapsed, Stamping, SetBusy, SetIdle, StartReConnect,
          ConnectSucceeds, ConnectFails
    <2> QED BY <2>1, <2>2
  <1>5. Duration'
    <2>1. CASE SetBusy
      BY <1>2, <2>1 DEF Duration, InCommand, Elapsed, SetBusy
    <2>2. CASE SetIdle
      BY <2>2 DEF Duration, InCommand, Elapsed, GetComsumedTime, SetIdle
    <2>3. CASE IsLoopTrue \/ StartReConnect \/ ConnectSucceeds \/ ConnectFails
      BY <2>3
      DEF Duration, InCommand, Elapsed, GetComsumedTime, IsLoopTrue,
          StartReConnect, ConnectSucceeds, ConnectFails
    <2> QED BY <2>1, <2>2, <2>3 DEF Stamping
  <1>6. Known'
    BY DEF Known, Stamping, IsLoopTrue, SetBusy, SetIdle, StartReConnect,
           ConnectSucceeds, ConnectFails
  <1> QED BY <1>1, <1>3, <1>4, <1>5, <1>6

LEMMA Always == Spec => []Inv
  <1>1. ASSUME Inv, UNCHANGED vars PROVE Inv'
    BY <1>1
    DEF vars, Inv, TypeOK, TriedBound, PassedBound, Duration, Known,
        InCommand, Elapsed, GetComsumedTime
  <1>2. Inv /\ [Next]_vars => Inv'
    BY <1>1, TickInv, TimelessInv, StampingInv DEF Next, Timeless, Stamping
  <1> QED BY InitInv, <1>2, PTL DEF Spec

-----------------------------------------------------------------------------
(* What follows.                                                           *)

\* Every variable has its type; the stamps are DWORDs.
THEOREM ConnectionTypes == Spec => []TypeOK
  <1>1. Inv => TypeOK
    BY DEF Inv
  <1> QED BY <1>1, Always, PTL

\* GetComsumedTime between commands, over the wrap of the clock.
THEOREM DurationAlwaysExact == Spec => []DurationIsExact
  <1>1. Inv => DurationIsExact
    BY DEF Inv, Duration, InCommand, DurationIsExact
  <1> QED BY <1>1, Always, PTL

\* A closed handle is known, but for a StartReConnect that came too early.
THEOREM ClosedAlwaysKnown == Spec => []ClosedIsKnown
  <1>1. Inv => ClosedIsKnown
    BY DEF Inv, Known, ClosedIsKnown, TypeOK, IsConnected
  <1> QED BY <1>1, Always, PTL

\* StartReConnect keeps its 3 seconds: the clock that wraps implements the
\* limit that counts real time.
THEOREM ReconnectsStayApart == Spec => ReconnectsApart
  <1>1. Init => Reconnects!Init
    <2>1. Init => TypeOK
      BY InitInv DEF Inv
    <2> QED BY <2>1, ClockAssumption DEF TypeOK, Reconnects!Init
  <1>2. Inv /\ [Next]_vars
        => [\/ Reconnects!Tick \/ Reconnects!Pass
            \/ Reconnects!Excuse]_<<tried, tries>>
    <2> SUFFICES ASSUME Inv, [Next]_vars
                 PROVE  \/ Reconnects!Tick \/ Reconnects!Pass
                        \/ Reconnects!Excuse \/ UNCHANGED <<tried, tries>>
      OBVIOUS
    <2>1. CASE Tick
      BY <2>1 DEF Tick, Reconnects!Tick
    <2>2. CASE StartReConnect
      <3>1. ~(tried < Gap)
        BY <2>2, MinusType, ClockAssumption
        DEF Inv, TypeOK, TriedBound, StartReConnect, Elapsed, Stamps
      <3> QED BY <2>2, <3>1, ClockAssumption
              DEF Inv, TypeOK, StartReConnect, Reconnects!Pass
    <2>3. CASE ConnectFails
      BY <2>3 DEF ConnectFails, Reconnects!Excuse
    <2>4. CASE ~Tick /\ ~StartReConnect /\ ~ConnectFails
      BY <2>4
      DEF Next, vars, historyVars, ServerDrops, IsLoopTrue, Call, Start,
          PingReturns, ProbeReturns, SetBusy, QueryReturns, SetIdle,
          CloseConnection, ReConnectTooEarly, ConnectSucceeds
    <2> QED BY <2>1, <2>2, <2>3, <2>4
  <1> QED BY <1>1, <1>2, Always, PTL
          DEF Spec, ReconnectsApart, Reconnects!Spec, Reconnects!vars

\* IsLoop keeps its 10 seconds in the same sense.
THEOREM LoopsStayApart == Spec => LoopsApart
  <1>1. Init => Loops!Init
    <2>1. Init => TypeOK
      BY InitInv DEF Inv
    <2> QED BY <2>1, ClockAssumption DEF TypeOK, Loops!Init
  <1>2. Inv /\ [Next]_vars
        => [Loops!Tick \/ Loops!Pass \/ Loops!Excuse]_<<passed, passes>>
    <2> SUFFICES ASSUME Inv, [Next]_vars
                 PROVE  \/ Loops!Tick \/ Loops!Pass
                        \/ Loops!Excuse \/ UNCHANGED <<passed, passes>>
      OBVIOUS
    <2>1. CASE Tick
      BY <2>1 DEF Tick, Loops!Tick
    <2>2. CASE IsLoopTrue
      <3>1. ~(passed <= LoopGap)
        BY <2>2, MinusType, ClockAssumption
        DEF Inv, TypeOK, PassedBound, IsLoopTrue, Elapsed, Stamps
      <3> QED BY <2>2, <3>1, ClockAssumption
              DEF Inv, TypeOK, IsLoopTrue, Loops!Pass
    <2>3. CASE ~Tick /\ ~IsLoopTrue
      BY <2>3
      DEF Next, vars, historyVars, ServerDrops, Call, Start, PingReturns,
          ProbeReturns, SetBusy, QueryReturns, SetIdle, CloseConnection,
          ReConnectTooEarly, StartReConnect, ConnectSucceeds, ConnectFails
    <2> QED BY <2>1, <2>2, <2>3
  <1> QED BY <1>1, <1>2, Always, PTL
          DEF Spec, LoopsApart, Loops!Spec, Loops!vars

=============================================================================
