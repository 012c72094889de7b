----------------------------- MODULE PoolService -----------------------------
(***************************************************************************)
(* What a server that runs as many connections as threads may expect of    *)
(* the pool: every thread that asks for a connection is given one of a set *)
(* of them, and gives it back.  There is no refusal.  That a connection is *)
(* given to one thread at a time is not part of it: the pool does not      *)
(* promise that much.                                                      *)
(***************************************************************************)

CONSTANTS Clients,
          Served,   \* the connections that are ever given to a client
          NoConn

VARIABLES phase,    \* [Clients -> {"out", "asking", "holding"}]
          lease     \* the connection a client holds

vars == <<phase, lease>>

Init ==
  /\ phase = [w \in Clients |-> "out"]
  /\ lease = [w \in Clients |-> NoConn]

Ask(w) ==
  /\ phase[w] = "out"
  /\ phase' = [phase EXCEPT ![w] = "asking"]
  /\ UNCHANGED lease

Grant(w) ==
  /\ phase[w] = "asking"
  /\ phase' = [phase EXCEPT ![w] = "holding"]
  /\ \E c \in Served : lease' = [lease EXCEPT ![w] = c]

Finish(w) ==
  /\ phase[w] = "holding"
  /\ phase' = [phase EXCEPT ![w] = "out"]
  /\ lease' = [lease EXCEPT ![w] = NoConn]

Next == \E w \in Clients : Ask(w) \/ Grant(w) \/ Finish(w)

Spec == Init /\ [][Next]_vars
=============================================================================
