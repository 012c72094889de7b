---------------------------- MODULE MCConnection ----------------------------
(* Small instances of Connection for TLC: clocks that wrap soon. *)
EXTENDS Connection
=============================================================================
