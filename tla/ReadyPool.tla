------------------------------ MODULE ReadyPool ------------------------------
(***************************************************************************)
(* What MTInitDBConnect promises to the threads that come to the pool only *)
(* after it has returned TRUE, and that are out again before it or         *)
(* MTDBFreeSQLPool is called the next time: a number of connections that   *)
(* is not 0 and that does not change while one of them is inside, any of   *)
(* which they may be using.  PoolLifecycle keeps this promise to its       *)
(* careful users; that array and size do not change in ConnectionPool      *)
(* rests on it.                                                            *)
(***************************************************************************)
EXTENDS Naturals

CONSTANTS Clients, NoConn

VARIABLES
  size,     \* of the pool the clients may use, 0 when there is none
  inside,   \* the clients that have called it
  on        \* [Clients -> Nat \cup {NoConn}]: the connection each one uses

vars == <<size, inside, on>>

Init == size \in Nat /\ inside = {} /\ on = [c \in Clients |-> NoConn]

\* MTInitDBConnect returns TRUE.
Serve == /\ size = 0
         /\ size' \in Nat \ {0}
         /\ UNCHANGED <<inside, on>>

\* MTInitDBConnect or MTDBFreeSQLPool is called: nobody is inside any more.
Withdraw == /\ inside = {}
            /\ size' = 0
            /\ UNCHANGED <<inside, on>>

Enter(c) == /\ size # 0 /\ c \notin inside
            /\ inside' = inside \cup {c}
            /\ UNCHANGED <<size, on>>

Take(c) == /\ c \in inside /\ on[c] = NoConn
           /\ \E i \in 0 .. size - 1 : on' = [on EXCEPT ![c] = i]
           /\ UNCHANGED <<size, inside>>

Release(c) == /\ on[c] # NoConn
              /\ on' = [on EXCEPT ![c] = NoConn]
              /\ UNCHANGED <<size, inside>>

Leave(c) == /\ c \in inside
            /\ inside' = inside \ {c}
            /\ on' = [on EXCEPT ![c] = NoConn]
            /\ UNCHANGED size

Next ==
  \/ Serve \/ Withdraw
  \/ \E c \in Clients : Enter(c) \/ Take(c) \/ Release(c) \/ Leave(c)

Spec == Init /\ [][Next]_vars
=============================================================================
