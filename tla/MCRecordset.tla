---------------------------- MODULE MCRecordset ----------------------------
(* Small instances of Recordset for TLC: columns that SetFieldName treats   *)
(* differently, with two short names and a long one among them, and a text *)
(* that goes on after its NUL byte and one that begins with it.            *)
EXTENDS Recordset

CONSTANTS a, b, long, torn, zeros

Column(type, unsigned, length, name) ==
  [type |-> type, unsigned |-> unsigned, length |-> length, name |-> name]

MCColumns == {
  Column("LONG",       TRUE,  10, a),
  Column("LONG",       FALSE, 11, b),
  Column("TINY",       TRUE,   4, b),
  Column("SHORT",      FALSE,  4, a),
  Column("LONGLONG",   FALSE, 20, b),
  Column("DOUBLE",     TRUE,   4, a),
  Column("BIT",        TRUE,   1, a),
  Column("VAR_STRING", FALSE, 60, b),
  Column("DATETIME",   FALSE, 19, long)}

MCNumbers == {-2, 1, 6}

MCHead == [t \in {torn, zeros} |-> IF t = torn THEN 1 ELSE Empty]
=============================================================================
