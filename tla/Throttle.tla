------------------------------ MODULE Throttle ------------------------------
(***************************************************************************)
(* What a limit in time promises: something passes at most once in Gap     *)
(* ticks of real time, unless the one before it is excused.  A pass is     *)
(* seen as a change of turn, so that two in the same tick are two steps.   *)
(***************************************************************************)
EXTENDS Naturals

CONSTANT Gap

VARIABLES
  since,   \* ticks since the last pass, counted up to Gap
  turn     \* changes with every pass

vars == <<since, turn>>

Init == since \in 0 .. Gap /\ turn \in BOOLEAN

Tick   == since' = (IF since < Gap THEN since + 1 ELSE Gap) /\ UNCHANGED turn
Excuse == since' = Gap /\ UNCHANGED turn

\* A pass may be excused at once.
Pass == since = Gap /\ since' \in {0, Gap} /\ turn' = ~turn

Spec == Init /\ [][Tick \/ Pass \/ Excuse]_vars
=============================================================================
