----------------------------- MODULE Recordset -----------------------------
(***************************************************************************)
(* A Select of CDBConnection from the answer of its query on, and the      *)
(* CDBRecordset it fills and hands to its caller: the columns, the cells,  *)
(* what an exception on the way leaves, and what the caller may do until   *)
(* the recordset is deleted.  The marks and clocks of the connection are   *)
(* in ConnectionPool and Connection.                                       *)
(*                                                                         *)
(* The text of a cell is the number it is the digits of, or Raw for a text *)
(* that is no number; Empty is an empty text or an SQL NULL; and a text    *)
(* with a NUL byte in it is one of DOMAIN Head, where Head is what stands  *)
(* before that byte, which is all a char pointer shows of it.  The digits  *)
(* of a FLOAT are few enough for a float.  Names are compared without      *)
(* their case, so a name stands for all its spellings.  A DWORD counts the *)
(* cells of a table.                                                       *)
(***************************************************************************)
EXTENDS Integers

CONSTANTS
  Columns,              \* [type, unsigned, length, name] of a MYSQL_FIELD
  MaxFields, MaxRows,   \* bounds on the tables of a query
  Numbers, Raw, Empty,  \* what a cell may hold without a NUL byte
  Head,                 \* of the texts with a NUL byte, what comes first
  Half32, Half64,       \* 2^31 and 2^63
  LongNames,            \* the names of 32 characters or more
  Blank,                \* the name of a field that has none
  Null                  \* the NULL of a string and of a look-up

IntTypes   == {"TINY", "SHORT", "LONG", "INT24", "BIT"}
FloatTypes == {"DECIMAL", "FLOAT", "DOUBLE"}
TextTypes  == {"STRING", "VAR_STRING"}
OtherTypes == {"NEWDECIMAL", "DATETIME", "BLOB"}   \* and all the others
MySQLTypes == IntTypes \cup {"LONGLONG"} \cup FloatTypes \cup TextTypes
                       \cup OtherTypes

Texts  == Numbers \cup {Raw}
Binary == DOMAIN Head
Values == Texts \cup {Empty} \cup Binary

ASSUME TableAssumption ==
  /\ MaxFields \in Nat /\ MaxRows \in Nat
  /\ Half32 \in Nat \ {0} /\ Half64 \in Nat /\ Half32 <= Half64
  /\ Numbers \subseteq Int
  /\ Head \in [Binary -> Texts \cup {Empty}]
  /\ Binary \cap (Texts \cup {Empty, Null}) = {}
  /\ {Raw, Empty, Null} \cap Int = {}
  /\ Raw # Empty /\ Null # Raw /\ Null # Empty
  /\ Columns \subseteq [type : MySQLTypes, unsigned : BOOLEAN,
                        length : Nat, name : {c.name : c \in Columns}]
  /\ Blank \notin {c.name : c \in Columns}

\* A text that is handed on as a char pointer or copied by strcpy.
CString(text) == IF text \in Binary THEN Head[text] ELSE text

\* A number is in the range of its column, and one that is displayed in 4
\* characters is short.
Fits(c, n) ==
  /\ IF c.unsigned THEN 0 <= n /\ n < 2 * Half64
                   ELSE -Half64 <= n /\ n < Half64
  /\ c.length <= 4 => -Half32 <= n /\ n < Half32

\* What the server sends in a column.  A BIT comes as its bytes; up to 4 bits
\* are one byte that is no digit.
Sent(c) ==
  {Empty} \cup
  CASE c.type \in TextTypes \cup {"BLOB"} -> {Raw} \cup Binary
    [] c.type = "DATETIME" -> {Raw}
    [] c.type = "BIT" -> {t \in Texts \cup Binary :
                            CString(t) \in Numbers =>
                              c.length > 4 /\ Fits(c, CString(t))}
    [] OTHER -> {n \in Numbers : Fits(c, n)}

\* The result of a query: its columns, and a value at each row and column.
TablesOf(f, r) ==
  {t \in [fields : {f}, rows : {r}, column : [0 .. f - 1 -> Columns],
          value : [(0 .. r - 1) \X (0 .. f - 1) -> Values]] :
     \A p \in (0 .. r - 1) \X (0 .. f - 1) :
       t.value[p] \in Sent(t.column[p[2]])}

Tables == UNION {TablesOf(f, r) : f \in 1 .. MaxFields, r \in 0 .. MaxRows}

VARIABLES
  table,          \* the MYSQL_RES
  result,         \* "none", "stored" or, by mysql_free_result, "freed"
  pc,             \* "query", "construct", "fields", "rows" of Select, "held"
                  \* by the caller, "over" or "crashed"
  wFieldIndex,    \* the next column of the loop over the fields
  wRowIndex, i,   \* the next row and column of the loops over the rows
  m_pFieldName, m_pFieldValue,
  null,           \* FreeRecord has set the two pointers to NULL
  thrown,         \* history: an exception has ended Select
  edited, freed,  \* history: the caller has changed the recordset, has
                  \* called FreeRecord
  lost            \* history: an array or a string that no pointer leads to

vars == <<table, result, pc, wFieldIndex, wRowIndex, i, m_pFieldName,
          m_pFieldValue, null, thrown, edited, freed, lost>>
indices   == <<wFieldIndex, wRowIndex, i>>
records   == <<m_pFieldName, m_pFieldValue, null>>
histories == <<thrown, edited, freed, lost>>

Fields == 0 .. table.fields - 1
Cells  == 0 .. table.rows * table.fields - 1

FieldTypes == {"INT", "LONGLONG", "UINT", "ULONGLONG", "FLOAT", "STRING", "0"}

\* FieldValueInt to FieldValueFloat, each under the type that is stored in it.
Members == FieldTypes \ {"STRING", "0"}

NoField == [type |-> "0", name |-> Blank]
NoValue == [type |-> "0", num |-> [m \in Members |-> 0], string |-> Null]

Init ==
  /\ table \in Tables
  /\ result = "none" /\ pc = "query"
  /\ wFieldIndex = 0 /\ wRowIndex = 0 /\ i = 0
  /\ m_pFieldName = [f \in Fields |-> NoField]
  /\ m_pFieldValue = [k \in Cells |-> NoValue]
  /\ null = FALSE /\ thrown = FALSE /\ edited = FALSE /\ freed = FALSE
  /\ lost = FALSE

-----------------------------------------------------------------------------
(* CDBRecordset.                                                           *)

\* Mutant: a long integer is signed, whatever its column says.
FieldTypeOf_Signed(c, old) ==
  CASE c.type \in IntTypes ->
         IF c.length > 4 THEN "LONGLONG"
         ELSE IF c.unsigned THEN "UINT" ELSE "INT"
    [] c.type = "LONGLONG" -> "LONGLONG"
    [] c.type \in FloatTypes -> "FLOAT"
    [] c.type \in TextTypes -> "STRING"
    [] OTHER -> old

\* The type that SetFieldName gives a column; one it does not know keeps
\* the old.
FieldTypeOf(c, old) ==
  CASE c.type \in IntTypes ->
         IF c.length > 4 THEN "ULONGLONG"
         ELSE IF c.unsigned THEN "UINT" ELSE "INT"
    [] c.type = "LONGLONG" -> IF c.unsigned THEN "ULONGLONG" ELSE "LONGLONG"
    [] c.type \in FloatTypes -> "FLOAT"
    [] c.type \in TextTypes -> "STRING"
    [] OTHER -> old

\* Mutant: the last column is out of bounds.
SetFieldName_OffByOne(f, c) ==
  m_pFieldName' =
    IF f >= table.fields - 1 \/ c.name \in LongNames THEN m_pFieldName
    ELSE [m_pFieldName EXCEPT
            ![f] = [type |-> FieldTypeOf(c, @.type), name |-> c.name]]

SetFieldName(f, c) ==
  m_pFieldName' =
    IF f >= table.fields \/ c.name \in LongNames THEN m_pFieldName
    ELSE [m_pFieldName EXCEPT
            ![f] = [type |-> FieldTypeOf(c, @.type), name |-> c.name]]

Index(r, f) == r * table.fields + f

\* %u and %I64u of a number.
Unsigned(n, half) == IF n < 0 THEN n + 2 * half ELSE n

\* What a text becomes in the member of its type: atoi and atof make 0 of a
\* text that is no number, and sscanf leaves the member as it was.
Stored(type, text, old) ==
  IF text \in {Raw, Empty} THEN IF type \in {"INT", "FLOAT"} THEN 0 ELSE old
  ELSE CASE type = "UINT" -> Unsigned(text, Half32)
         [] type = "ULONGLONG" -> Unsigned(text, Half64)
         [] OTHER -> text

\* The string and the number are both taken from c_str.
Copied(type, text, old) ==
  [type |-> type, string |-> CString(text),
   num |-> [m \in Members |->
              IF m = type THEN Stored(type, CString(text), old.num[m])
                          ELSE old.num[m]]]

\* The string that was there before is not freed.
SetFieldValue(r, f, type, text) ==
  IF f >= table.fields \/ r >= table.rows THEN UNCHANGED <<m_pFieldValue, lost>>
  ELSE /\ m_pFieldValue' = [m_pFieldValue EXCEPT
                              ![Index(r, f)] = Copied(type, text, @)]
       /\ lost' = (lost \/ m_pFieldValue[Index(r, f)].string # Null)

Named(name) == {f \in Fields : m_pFieldName[f].name = name}

\* Mutant: the search does not stop at the first.
Find_Last(name) ==
  IF Named(name) = {} THEN Null
  ELSE CHOOSE f \in Named(name) : \A g \in Named(name) : g <= f

\* The column in which GetFieldValue looks for a name.
Find(name) ==
  IF Named(name) = {} THEN Null
  ELSE CHOOSE f \in Named(name) : \A g \in Named(name) : f <= g

\* Mutant: the loop runs over the rows.
Looped_Rows == 0 .. table.rows - 1

Looped == 0 .. table.rows * table.fields - 1

\* The loop frees the strings of the cells, unless a first run has set the
\* pointer it reads them through to NULL.
FreeRecord(place) ==
  IF null /\ Looped # {} THEN pc' = "crashed" /\ UNCHANGED <<null, lost>>
  ELSE /\ null' = TRUE
       /\ lost' = (lost \/ \E k \in Cells \ Looped :
                             ~null /\ m_pFieldValue[k].string # Null)
       /\ pc' = place

-----------------------------------------------------------------------------
(* Select.                                                                 *)

\* Neither a failed query nor one without a result makes a recordset.
QueryFails ==
  /\ pc = "query" /\ pc' = "over"
  /\ UNCHANGED <<table, result, indices, records, histories>>

StoreResult ==
  /\ pc = "query" /\ pc' = "construct"
  /\ result' = "stored"
  /\ UNCHANGED <<table, indices, records, histories>>

Construct ==
  /\ pc = "construct" /\ pc' = "fields"
  /\ UNCHANGED <<table, result, indices, records, histories>>

\* The array of names has no owner when that of the cells cannot be made.
ConstructThrows ==
  /\ pc = "construct" /\ pc' = "over"
  /\ thrown' = TRUE /\ lost' \in {lost, TRUE}
  /\ UNCHANGED <<table, result, indices, records, edited, freed>>

NameField ==
  /\ pc = "fields"
  /\ SetFieldName(wFieldIndex, table.column[wFieldIndex])
  /\ wFieldIndex' = wFieldIndex + 1
  /\ pc' = IF wFieldIndex' = table.fields THEN "rows" ELSE pc
  /\ UNCHANGED <<table, result, wRowIndex, i, m_pFieldValue, null, histories>>

\* Mutant: an empty cell ends its row.
CopyCell_Break ==
  /\ pc = "rows" /\ wRowIndex < table.rows
  /\ LET text == CString(table.value[<<wRowIndex, i>>])
     IN  /\ IF text = Empty THEN UNCHANGED <<m_pFieldValue, lost>>
            ELSE SetFieldValue(wRowIndex, i, m_pFieldName[i].type, text)
         /\ i' = IF text = Empty \/ i + 1 = table.fields THEN 0 ELSE i + 1
  /\ wRowIndex' = IF i' = 0 THEN wRowIndex + 1 ELSE wRowIndex
  /\ UNCHANGED <<table, result, pc, wFieldIndex, m_pFieldName, null, thrown,
                 edited, freed>>

\* A cell that is empty, or empty up to its first NUL byte, is left as the
\* constructor made it.
CopyCell ==
  /\ pc = "rows" /\ wRowIndex < table.rows
  /\ LET text == CString(table.value[<<wRowIndex, i>>])
     IN  IF text = Empty THEN UNCHANGED <<m_pFieldValue, lost>>
         ELSE SetFieldValue(wRowIndex, i, m_pFieldName[i].type, text)
  /\ i' = IF i + 1 = table.fields THEN 0 ELSE i + 1
  /\ wRowIndex' = IF i + 1 = table.fields THEN wRowIndex + 1 ELSE wRowIndex
  /\ UNCHANGED <<table, result, pc, wFieldIndex, m_pFieldName, null, thrown,
                 edited, freed>>

\* The string of a name, of a cell or of its copy cannot be made.  The
\* caller gets what there is, and the MYSQL_RES is not freed.
Throws ==
  /\ pc \in {"fields", "rows"} /\ (pc = "rows" => wRowIndex < table.rows)
  /\ \/ UNCHANGED m_pFieldValue
     \/ /\ pc = "rows" /\ CString(table.value[<<wRowIndex, i>>]) # Empty
        /\ m_pFieldValue' =
             [m_pFieldValue EXCEPT
                ![Index(wRowIndex, i)].type = m_pFieldName[i].type]
  /\ pc' = "held" /\ thrown' = TRUE
  /\ UNCHANGED <<table, result, indices, m_pFieldName, null, edited, freed,
                 lost>>

Return ==
  /\ pc = "rows" /\ wRowIndex = table.rows
  /\ result' = "freed" /\ pc' = "held"
  /\ UNCHANGED <<table, indices, records, histories>>

-----------------------------------------------------------------------------
(* The caller, who passes the indices and the types of the table.          *)

\* It asks for a column of its query by name and reads what it gets unseen.
Read(name) ==
  /\ pc = "held" /\ table.rows > 0
  /\ pc' = IF null \/ Find(name) = Null THEN "crashed" ELSE pc
  /\ UNCHANGED <<table, result, indices, records, histories>>

\* One change in the life of a recordset is enough: a column is named as
\* another of the table, or a cell is set.
EditName(f, c) ==
  /\ pc = "held" /\ ~null /\ ~edited
  /\ SetFieldName(f, c)
  /\ edited' = TRUE
  /\ UNCHANGED <<table, result, pc, indices, m_pFieldValue, null, thrown,
                 freed, lost>>

EditValue(r, f, text) ==
  /\ pc = "held" /\ ~null /\ ~edited
  /\ SetFieldValue(r, f, m_pFieldName[f].type, text)
  /\ edited' = TRUE
  /\ UNCHANGED <<table, result, pc, indices, m_pFieldName, null, thrown, freed>>

FreeByHand ==
  /\ pc = "held" /\ freed' = TRUE
  /\ FreeRecord("held")
  /\ UNCHANGED <<table, result, indices, m_pFieldName, m_pFieldValue, thrown,
                 edited>>

Delete ==
  /\ pc = "held"
  /\ FreeRecord("over")
  /\ UNCHANGED <<table, result, indices, m_pFieldName, m_pFieldValue, thrown,
                 edited, freed>>

Next ==
  \/ QueryFails \/ StoreResult
  \/ Construct \/ ConstructThrows \/ NameField \/ CopyCell \/ Throws \/ Return
  \/ \E f \in Fields :
       \/ Read(table.column[f].name)
       \/ \E g \in Fields : EditName(f, table.column[g])
       \/ \E r \in 0 .. table.rows - 1 :
            \E text \in Sent(table.column[f]) : EditValue(r, f, text)
  \/ FreeByHand \/ Delete

Spec == Init /\ [][Next]_vars

-----------------------------------------------------------------------------
(* Properties.                                                             *)

Member(m) == CASE m = "UINT"      -> 0 .. 2 * Half32 - 1
               [] m = "ULONGLONG" -> 0 .. 2 * Half64 - 1
               [] m = "INT"       -> -Half32 .. Half32 - 1
               [] m = "LONGLONG"  -> -Half64 .. Half64 - 1
               [] m = "FLOAT"     -> Int

TypeOK ==
  /\ table \in Tables
  /\ result \in {"none", "stored", "freed"}
  /\ pc \in {"query", "construct", "fields", "rows", "held", "over", "crashed"}
  /\ wFieldIndex \in 0 .. table.fields
  /\ wRowIndex \in 0 .. table.rows /\ i \in Fields
  /\ m_pFieldName \in [Fields -> [type : FieldTypes,
                                  name : {Blank} \cup {c.name : c \in Columns}]]
  /\ m_pFieldValue \in [Cells -> [type : FieldTypes, num : [Members -> Int],
                                  string : Texts \cup {Empty, Null}]]
  /\ \A k \in Cells, m \in Members : m_pFieldValue[k].num[m] \in Member(m)
  /\ null \in BOOLEAN /\ thrown \in BOOLEAN /\ edited \in BOOLEAN
  /\ freed \in BOOLEAN /\ lost \in BOOLEAN

\* A reader who knows a column to be signed takes its member as signed.
Signed(n) == IF n >= Half64 THEN n - 2 * Half64 ELSE n

Reading(c, type, n) ==
  IF type = "ULONGLONG" /\ ~c.unsigned THEN Signed(n) ELSE n

Untouched(v) == v.string = Null /\ \A m \in Members : v.num[m] = 0

\* The cell of row r and column f says what the server sent, up to a first
\* NUL byte: the string, and the number in the member that SetFieldName chose
\* for the column, which for a signed one of more than 4 characters is
\* FieldValueUInt64 read as signed.  The other members stay 0.
Holds(r, f) ==
  LET text == CString(table.value[<<r, f>>])
      type == m_pFieldName[f].type
      v    == m_pFieldValue[Index(r, f)]
  IN  IF text = Empty THEN v = NoValue
      ELSE /\ v.type = type /\ v.string = text
           /\ \A m \in Members :
                IF m = type /\ text # Raw
                THEN Reading(table.column[f], type, v.num[m]) = text
                ELSE v.num[m] = 0

Usable == pc = "held" /\ ~null /\ ~edited

\* Whatever stops Select leaves a prefix of the table, row by row, and a
\* Select that is not stopped all of it.  What is not in the prefix cannot be
\* told from cells that were empty.
PrefixIsCopied ==
  Usable =>
    /\ ~thrown => wRowIndex = table.rows
    /\ \A r \in 0 .. table.rows - 1, f \in Fields :
         IF r < wRowIndex \/ (r = wRowIndex /\ f < i) THEN Holds(r, f)
         ELSE Untouched(m_pFieldValue[Index(r, f)])

\* A look-up by name finds the first column of the name, whatever columns
\* before it were refused, and a refused one never.
FoundByName ==
  Usable /\ wFieldIndex = table.fields =>
    \A f \in Fields :
      LET name == table.column[f].name
      IN  IF name \in LongNames THEN Find(name) = Null
          ELSE (\A g \in 0 .. f - 1 : table.column[g].name # name)
                 => Find(name) = f

\* Only an exception keeps a MYSQL_RES, and only one in the constructor or a
\* SetFieldValue of the caller's own loses memory of the recordset.
NothingLost ==
  /\ result = "stored" /\ pc \in {"held", "over", "crashed"} => thrown
  /\ lost => edited \/ (thrown /\ wFieldIndex = 0)

\* A caller who leaves names and memory alone and whose columns have short
\* names crashes only when an exception left a column unnamed.
CrashesExplained ==
  pc = "crashed" =>
    \/ freed \/ edited
    \/ \E f \in Fields : table.column[f].name \in LongNames
    \/ thrown /\ wFieldIndex < table.fields
=============================================================================
