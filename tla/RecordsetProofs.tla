--------------------------- MODULE RecordsetProofs ---------------------------
(***************************************************************************)
(* Proofs about Recordset, for tables of every size, any columns and every *)
(* number in the range of its column.                                      *)
(***************************************************************************)
EXTENDS Recordset, FiniteSetTheorems, TLAPS

-----------------------------------------------------------------------------
(* Tables and the cells of an array.                                       *)

LEMMA TableFacts ==
  ASSUME NEW t \in Tables
  PROVE  /\ t.fields \in Nat /\ t.fields > 0 /\ t.rows \in Nat
         /\ t.column \in [0 .. t.fields - 1 -> Columns]
         /\ \A r \in 0 .. t.rows - 1, f \in 0 .. t.fields - 1 :
              t.value[<<r, f>>] \in Sent(t.column[f])
  <1>1. PICK f \in 1 .. MaxFields, r \in 0 .. MaxRows : t \in TablesOf(f, r)
    BY DEF Tables
  <1>2. f \in Nat /\ f > 0 /\ r \in Nat
    BY TableAssumption
  <1>3. /\ t.fields = f /\ t.rows = r /\ t.column \in [0 .. f - 1 -> Columns]
        /\ \A p \in (0 .. r - 1) \X (0 .. f - 1) :
             t.value[p] \in Sent(t.column[p[2]])
    BY <1>1 DEF TablesOf
  <1> QED BY <1>2, <1>3

\* Row by row, every cell of a table has a place of its own in the array.
LEMMA IndexInside ==
  ASSUME NEW F \in Nat, NEW R \in Nat,
         NEW r \in 0 .. R - 1, NEW f \in 0 .. F - 1
  PROVE  r * F + f \in 0 .. R * F - 1
  <1>1. (R - 1 - r) * F >= 0
    OBVIOUS
  <1>2. (R - 1 - r) * F = R * F - F - r * F
    OBVIOUS
  <1>3. r * F \in Nat /\ R * F \in Nat
    OBVIOUS
  <1> QED BY <1>1, <1>2, <1>3

LEMMA IndexInjective ==
  ASSUME NEW F \in Nat, NEW r \in Nat, NEW s \in Nat,
         NEW f \in 0 .. F - 1, NEW g \in 0 .. F - 1,
         r * F + f = s * F + g
  PROVE  r = s /\ f = g
  <1>1. r * F \in Nat /\ s * F \in Nat
    OBVIOUS
  <1>2. ASSUME NEW x \in Nat, NEW y \in Nat, x < y
        PROVE  x * F + F <= y * F
    <2>1. (y - x - 1) * F >= 0
      BY <1>2
    <2>2. (y - x - 1) * F = y * F - x * F - F
      BY <1>2
    <2>3. x * F \in Nat /\ y * F \in Nat
      OBVIOUS
    <2> QED BY <2>1, <2>2, <2>3
  <1>3. ~(r < s)
    BY <1>1, <1>2
  <1>4. ~(s < r)
    BY <1>1, <1>2
  <1> QED BY <1>1, <1>3, <1>4

\* A set of naturals has a least one.
LEMMA Least ==
  ASSUME NEW S \in SUBSET Nat, S # {}
  PROVE  \E m \in S : \A n \in S : m <= n
  <1> DEFINE R == StrictSubsetOrdering(Nat)
             T == {0 .. m : m \in S}
  <1>1. T \subseteq FiniteSubsetsOf(Nat)
    <2>1. ASSUME NEW m \in S PROVE 0 .. m \in FiniteSubsetsOf(Nat)
      <3>1. 0 \in Int /\ m \in Int /\ 0 .. m \in SUBSET Nat
        OBVIOUS
      <3> QED BY <3>1, FS_Interval DEF FiniteSubsetsOf
    <2> QED BY <2>1
  <1>2. PICK x \in T : \A y \in T : <<y, x>> \notin R
    <2>1. IsWellFoundedOn(R, FiniteSubsetsOf(Nat)) /\ T # {}
      BY FS_StrictSubsetOrderingWellFounded
    <2> HIDE DEF R, T
    <2> QED BY <1>1, <2>1, WFMin
  <1>3. PICK m \in S : x = 0 .. m
    OBVIOUS
  <1>4. ASSUME NEW n \in S, n < m PROVE FALSE
    <2>1. 0 .. n \in SUBSET (0 .. m) /\ 0 .. m \in SUBSET Nat
      BY <1>4
    <2>2. m \in 0 .. m /\ m \notin 0 .. n
      BY <1>4
    <2>3. 0 .. n # 0 .. m
      BY <2>2
    <2>4. <<0 .. n, 0 .. m>> \in R
      BY <2>1, <2>3 DEF StrictSubsetOrdering
    <2> QED BY <1>2, <1>3, <2>4
  <1> QED BY <1>4

-----------------------------------------------------------------------------
(* What a text becomes in a cell.                                          *)

CellRecord == [type : FieldTypes, num : [Members -> Int],
               string : Texts \cup {Empty, Null}]
Typed(v)   == v \in CellRecord /\ \A m \in Members : v.num[m] \in Member(m)

LEMMA FieldTypeOfType ==
  ASSUME NEW c \in Columns, NEW old \in FieldTypes
  PROVE  FieldTypeOf(c, old) \in FieldTypes
  BY DEF FieldTypeOf, FieldTypes

\* What is left of a text of a column at its first NUL byte is empty, Raw or
\* a number in the range of the column.
LEMMA SentFacts ==
  ASSUME NEW c \in Columns, NEW text \in Sent(c)
  PROVE  /\ CString(text) \in Texts \cup {Empty}
         /\ CString(CString(text)) = CString(text)
         /\ CString(text) \notin {Raw, Empty} =>
              /\ CString(text) \in Int
              /\ c.type \notin TextTypes \cup {"BLOB"} => Fits(c, CString(text))
  <1>1. /\ \A t \in Texts \cup {Empty} : CString(t) = t
        /\ \A t \in Binary : CString(t) \in Texts \cup {Empty}
    BY TableAssumption DEF CString
  <1>2. CString(text) \in Texts \cup {Empty}
    BY <1>1 DEF Sent, Texts
  <1>3. CString(text) \in Numbers => CString(text) \in Int
    BY TableAssumption
  <1>4. CString(text) \in Numbers /\ c.type \notin TextTypes \cup {"BLOB"}
          => Fits(c, CString(text))
    BY <1>1, TableAssumption DEF Sent, Texts
  <1> QED BY <1>1, <1>2, <1>3, <1>4 DEF Texts

LEMMA StoredFacts ==
  ASSUME NEW c \in Columns, NEW type \in {"0", FieldTypeOf(c, "0")},
         NEW sent \in Sent(c), type \in Members, NEW old \in Member(type),
         NEW text, text = CString(sent)
  PROVE  /\ Stored(type, text, old) \in Member(type)
         /\ text \notin {Raw, Empty} =>
              Reading(c, type, Stored(type, text, old)) = text
         /\ text = Raw /\ old = 0 => Stored(type, text, old) = 0
  <1>1. /\ type \in {"INT", "UINT"} => c.length <= 4
        /\ type = "UINT" => c.unsigned
        /\ type = "INT" => ~c.unsigned
        /\ type = "LONGLONG" => ~c.unsigned
        /\ c.type \notin TextTypes \cup {"BLOB"}
    BY TableAssumption
    DEF FieldTypeOf, Members, FieldTypes, TextTypes, IntTypes, FloatTypes
  <1>2. /\ Half32 \in Nat \ {0} /\ Half64 \in Nat \ {0}
        /\ c.unsigned \in BOOLEAN /\ Raw # Empty
    BY TableAssumption
  <1>3. CASE text \in {Raw, Empty}
    BY <1>2, <1>3
    DEF Stored, Member, Members, FieldTypes
  <1>4. CASE text \notin {Raw, Empty}
    <2>1. text \in Int /\ Fits(c, text)
      BY <1>1, <1>4, SentFacts
    <2>2. CASE type = "UINT"
      BY <1>1, <1>2, <1>4, <2>1, <2>2
      DEF Stored, Member, Unsigned, Reading, Fits
    <2>3. CASE type = "ULONGLONG"
      BY <1>2, <1>4, <2>1, <2>3
      DEF Stored, Member, Unsigned, Reading, Signed, Fits
    <2>4. CASE type \in {"INT", "LONGLONG", "FLOAT"}
      BY <1>1, <1>2, <1>4, <2>1, <2>4
      DEF Stored, Member, Reading, Fits
    <2> QED BY <1>4, <2>2, <2>3, <2>4 DEF Members, FieldTypes
  <1> QED BY <1>3, <1>4

LEMMA MemberIsInt ==
  ASSUME NEW m \in Members
  PROVE  Member(m) \subseteq Int /\ 0 \in Member(m)
  BY TableAssumption DEF Member, Members, FieldTypes

LEMMA NoValueTyped == Typed(NoValue)
  BY MemberIsInt DEF Typed, NoValue, CellRecord, FieldTypes

LEMMA CopiedTyped ==
  ASSUME NEW c \in Columns, NEW type \in {"0", FieldTypeOf(c, "0")},
         NEW sent \in Sent(c), NEW text, CString(text) = CString(sent),
         NEW v, Typed(v)
  PROVE  Typed(Copied(type, text, v))
  <1>1. type \in FieldTypes
    BY FieldTypeOfType DEF FieldTypes
  <1>2. CString(text) \in Texts \cup {Empty, Null}
    BY SentFacts
  <1>3. ASSUME NEW m \in Members
        PROVE  (IF m = type THEN Stored(type, CString(text), v.num[m])
                            ELSE v.num[m]) \in Member(m)
    BY <1>3, StoredFacts DEF Typed
  <1> QED BY <1>1, <1>2, <1>3, MemberIsInt DEF Typed, CellRecord, Copied

-----------------------------------------------------------------------------
(* The invariant.                                                          *)

Early == pc \in {"query", "construct", "fields", "rows"}

\* Where Select is, and where it stopped.
Places ==
  /\ pc = "query" => result = "none"
  /\ pc \in {"query", "construct"} => wFieldIndex = 0
  /\ pc = "fields" => wFieldIndex < table.fields
  /\ pc = "rows" => wFieldIndex = table.fields
  /\ wFieldIndex < table.fields => wRowIndex = 0 /\ i = 0
  /\ wRowIndex = table.rows => i = 0
  /\ pc = "held" /\ ~thrown =>
       wFieldIndex = table.fields /\ wRowIndex = table.rows
  /\ Early => ~null /\ ~thrown /\ ~edited /\ ~freed /\ ~lost
  /\ pc = "held" /\ null => freed

Field(f) ==
  IF f < wFieldIndex /\ table.column[f].name \notin LongNames
  THEN [type |-> FieldTypeOf(table.column[f], "0"),
        name |-> table.column[f].name]
  ELSE NoField

FieldsNamed == ~edited => \A f \in Fields : m_pFieldName[f] = Field(f)

Before(r, f) == r < wRowIndex \/ (r = wRowIndex /\ f < i)

CellCopied(r, f) ==
  /\ Before(r, f) => Holds(r, f)
  /\ ~Before(r, f) => Untouched(m_pFieldValue[Index(r, f)])
  /\ ~Before(r, f) /\ Early => m_pFieldValue[Index(r, f)] = NoValue

CellsCopied ==
  ~edited => \A r \in 0 .. table.rows - 1, f \in Fields : CellCopied(r, f)

Inv == /\ TypeOK /\ Places /\ FieldsNamed /\ CellsCopied
       /\ NothingLost /\ CrashesExplained

LEMMA StateFacts ==
  ASSUME TypeOK
  PROVE  /\ table.fields \in Nat /\ table.fields > 0 /\ table.rows \in Nat
         /\ table.column \in [Fields -> Columns]
         /\ \A r \in 0 .. table.rows - 1, f \in Fields :
              /\ table.value[<<r, f>>] \in Sent(table.column[f])
              /\ Index(r, f) \in Cells
  BY TableFacts, IndexInside DEF TypeOK, Fields, Cells, Index

LEMMA InitInv == Init => Inv
  <1> SUFFICES ASSUME Init PROVE Inv
    OBVIOUS
  <1>1. /\ table.fields \in Nat /\ table.fields > 0 /\ table.rows \in Nat
    BY TableFacts DEF Init
  <1>2. TypeOK
    <2>1. 0 \in Fields /\ 0 \in 0 .. table.fields /\ 0 \in 0 .. table.rows
      BY <1>1 DEF Fields
    <2>2. m_pFieldValue \in [Cells -> CellRecord]
          /\ \A k \in Cells, m \in Members : m_pFieldValue[k].num[m] \in Member(m)
      BY NoValueTyped DEF Init, Typed
    <2>3. m_pFieldName \in [Fields -> [type : FieldTypes,
                              name : {Blank} \cup {c.name : c \in Columns}]]
      BY DEF Init, NoField, FieldTypes
    <2> QED BY <2>1, <2>2, <2>3 DEF Init, TypeOK, CellRecord
  <1>3. Places /\ NothingLost /\ CrashesExplained
    BY <1>1 DEF Init, Places, Early, NothingLost, CrashesExplained
  <1>4. FieldsNamed
    BY <1>1 DEF Init, FieldsNamed, Field, Fields
  <1>5. CellsCopied
    <2>1. ASSUME NEW r \in 0 .. table.rows - 1, NEW f \in Fields
          PROVE  CellCopied(r, f)
      <3>1. ~Before(r, f)
        BY <1>1 DEF Init, Before, Fields
      <3>2. m_pFieldValue[Index(r, f)] = NoValue
        BY <1>2, StateFacts DEF Init
      <3> QED BY <3>1, <3>2 DEF CellCopied, Untouched, NoValue
    <2> QED BY <2>1 DEF CellsCopied
  <1> QED BY <1>2, <1>3, <1>4, <1>5 DEF Inv

-----------------------------------------------------------------------------
(* The steps that leave the two arrays and the indices alone.              *)

LEMMA QuietCopies ==
  ASSUME Inv, UNCHANGED <<table, indices, m_pFieldName, m_pFieldValue, edited>>,
         Early' => Early
  PROVE  FieldsNamed' /\ CellsCopied'
  <1>1. FieldsNamed'
    BY DEF Inv, FieldsNamed, Field, Fields, indices
  <1>2. ASSUME NEW r, NEW f PROVE CellCopied(r, f) => CellCopied(r, f)'
    <2>1. Before(r, f)' = Before(r, f) /\ Index(r, f)' = Index(r, f)
      BY DEF Before, Index, indices
    <2>2. Holds(r, f) => Holds(r, f)'
      BY <2>1 DEF Holds
    <2> QED BY <2>1, <2>2 DEF CellCopied, Untouched
  <1>3. CellsCopied'
    BY <1>2 DEF Inv, CellsCopied, Fields
  <1> QED BY <1>1, <1>3

Quiet == \/ QueryFails \/ StoreResult \/ Construct \/ ConstructThrows \/ Return
         \/ (\E f \in Fields : Read(table.column[f].name))
         \/ FreeByHand \/ Delete

LEMMA ReadFinds ==
  ASSUME TypeOK, FieldsNamed, ~edited, wFieldIndex = table.fields,
         NEW f \in Fields, table.column[f].name \notin LongNames
  PROVE  Find(table.column[f].name) # Null
  <1> DEFINE S == Named(table.column[f].name)
  <1>1. S \in SUBSET Nat /\ f \in S
    <2>1. f < wFieldIndex
      BY StateFacts DEF Fields
    <2>2. m_pFieldName[f].name = table.column[f].name
      <3>1. m_pFieldName[f] = Field(f)
        BY DEF FieldsNamed
      <3> QED BY <2>1, <3>1 DEF Field
    <2> QED BY <2>2, StateFacts DEF Named, Fields
  <1>2. \E m \in S : \A n \in S : m <= n
    BY <1>1, Least
  <1>3. Find(table.column[f].name) \in S
    BY <1>1, <1>2 DEF Find
  <1> QED BY <1>1, <1>3, TableAssumption

LEMMA QuietInv ==
  ASSUME Inv, Quiet
  PROVE  Inv'
  <1> USE DEF Inv, records, histories
  <1>1. UNCHANGED <<table, indices, m_pFieldName, m_pFieldValue, edited>>
    BY DEF Quiet, QueryFails, StoreResult, Construct, ConstructThrows,
           Return, Read, FreeByHand, Delete
  <1>2. Early' => Early
    BY DEF Early, Quiet, QueryFails, StoreResult, Construct,
           ConstructThrows, Return, Read, FreeByHand, Delete, FreeRecord
  <1>3. FieldsNamed' /\ CellsCopied'
    BY <1>1, <1>2, QuietCopies
  <1>4. Cells' = Cells /\ Fields' = Fields /\ Looped = Cells
    BY <1>1 DEF Cells, Fields, Looped
  <1>5. TypeOK'
    <2>1. UNCHANGED <<table, wFieldIndex, wRowIndex, i, m_pFieldName, m_pFieldValue, edited>>
      BY <1>1 DEF indices
    <2>2. /\ pc' \in {"query", "construct", "fields", "rows", "held", "over",
                      "crashed"}
          /\ result' \in {"none", "stored", "freed"} /\ null' \in BOOLEAN
          /\ thrown' \in BOOLEAN /\ freed' \in BOOLEAN /\ lost' \in BOOLEAN
      BY <1>4
      DEF TypeOK, Quiet, QueryFails, StoreResult, Construct,
          ConstructThrows, Return, Read, FreeByHand, Delete, FreeRecord
    <2> QED BY <1>4, <2>1, <2>2 DEF TypeOK
  <1>6. Places'
    <2>1. UNCHANGED <<table, wFieldIndex, wRowIndex, i, edited>>
      BY <1>1 DEF indices
    <2>2. table.fields \in Nat /\ table.fields > 0
      BY StateFacts
    <2>3. CASE QueryFails \/ StoreResult \/ Construct \/ Return
      BY <2>1, <2>2, <2>3
      DEF Places, Early, QueryFails, StoreResult, Construct, Return
    <2>4. CASE ConstructThrows
      BY <2>1, <2>4 DEF Places, Early, ConstructThrows
    <2>5. CASE FreeByHand \/ Delete \/ \E f \in Fields : Read(table.column[f].name)
      BY <2>1, <2>5 DEF Places, Early, Read, FreeByHand, Delete, FreeRecord
    <2> QED BY <2>3, <2>4, <2>5 DEF Quiet
  <1>7. NothingLost'
    <2>1. UNCHANGED <<wFieldIndex, edited>>
      BY <1>1 DEF indices
    <2>2. CASE QueryFails \/ StoreResult \/ Construct \/ Return
      <3>1. ~lost'
        BY <2>2 DEF Places, Early, QueryFails, StoreResult, Construct, Return
      <3>2. result' = "stored" => pc' \notin {"held", "over", "crashed"}
        BY <2>2 DEF Places, QueryFails, StoreResult, Construct, Return
      <3> QED BY <3>1, <3>2 DEF NothingLost
    <2>4. CASE ConstructThrows
      BY <2>1, <2>4 DEF NothingLost, Places, ConstructThrows
    <2>3. CASE FreeByHand \/ Delete \/ \E f \in Fields : Read(table.column[f].name)
      <3>1. result' = result /\ thrown' = thrown /\ pc = "held"
        BY <2>3 DEF Read, FreeByHand, Delete
      <3>2. ~\E k \in Cells \ Looped : ~null /\ m_pFieldValue[k].string # Null
        BY <1>4
      <3>3. lost' => lost
        BY <2>3, <3>2 DEF Read, FreeByHand, Delete, FreeRecord
      <3> QED BY <2>1, <3>1, <3>3 DEF NothingLost
    <2> QED BY <2>2, <2>3, <2>4 DEF Quiet
  <1>8. CrashesExplained'
    <2>1. CASE \E f \in Fields : Read(table.column[f].name)
      <3>1. PICK f \in Fields : Read(table.column[f].name)
        BY <2>1
      <3>2. CASE ~null /\ ~edited /\ wFieldIndex = table.fields
                 /\ table.column[f].name \notin LongNames
        BY <3>1, <3>2, ReadFinds DEF Read, CrashesExplained
      <3>3. wFieldIndex # table.fields => wFieldIndex < table.fields
        <4>1. wFieldIndex \in 0 .. table.fields /\ table.fields \in Nat
          BY StateFacts DEF TypeOK
        <4> QED BY <4>1
      <3> QED BY <1>1, <1>4, <3>1, <3>2, <3>3
              DEF Read, CrashesExplained, Places, indices
    <2>2. CASE ~\E f \in Fields : Read(table.column[f].name)
      BY <1>1, <1>4, <2>2
      DEF CrashesExplained, Places, Quiet, QueryFails, StoreResult,
          Construct, ConstructThrows, Return, FreeByHand, Delete, FreeRecord,
          indices
    <2> QED BY <2>1, <2>2
  <1> QED BY <1>3, <1>5, <1>6, <1>7, <1>8

-----------------------------------------------------------------------------
(* The names of the columns.                                               *)

LEMMA NameFieldInv ==
  ASSUME Inv, NameField
  PROVE  Inv'
  <1> USE DEF Inv, histories
  <1>1. /\ wFieldIndex \in Fields /\ wFieldIndex' = wFieldIndex + 1
        /\ ~edited /\ wRowIndex = 0 /\ i = 0 /\ pc = "fields"
        /\ pc' = IF wFieldIndex + 1 = table.fields THEN "rows" ELSE "fields"
        /\ UNCHANGED <<table, result, wRowIndex, i, m_pFieldValue, null,
                       thrown, edited, freed, lost>>
    BY StateFacts DEF NameField, Places, Early, TypeOK, Fields
  <1>2. Fields' = Fields /\ Cells' = Cells
    BY <1>1 DEF Fields, Cells
  <1>3. ASSUME NEW f \in Fields PROVE m_pFieldName'[f] = Field(f)'
    <2>1. m_pFieldName[f] = Field(f) /\ m_pFieldName[wFieldIndex] = NoField
      <3>1. \A g \in Fields : m_pFieldName[g] = Field(g)
        BY <1>1 DEF FieldsNamed
      <3>2. ~(wFieldIndex < wFieldIndex)
        BY <1>1 DEF Fields
      <3> QED BY <1>1, <3>1, <3>2 DEF Field
    <2>2. f < wFieldIndex + 1 <=> f < wFieldIndex \/ f = wFieldIndex
      BY <1>1, <1>3, StateFacts DEF Fields
    <2>3. ~(wFieldIndex >= table.fields)
      BY <1>1, StateFacts DEF Fields
    <2>4. CASE f = wFieldIndex
      BY <1>1, <2>1, <2>2, <2>3, <2>4
      DEF NameField, SetFieldName, Field, NoField, TypeOK
    <2>5. CASE f # wFieldIndex
      <3>1. m_pFieldName'[f] = m_pFieldName[f]
        BY <1>1, <2>5 DEF NameField, SetFieldName, TypeOK
      <3> QED BY <1>1, <2>1, <2>2, <2>5, <3>1 DEF Field
    <2> QED BY <2>4, <2>5
  <1>4. FieldsNamed'
    BY <1>2, <1>3 DEF FieldsNamed
  <1>5. TypeOK'
    <2>1. wFieldIndex' \in 0 .. table.fields
      BY <1>1, StateFacts DEF Fields
    <2>2. table.column[wFieldIndex] \in Columns
      BY <1>1, StateFacts
    <2>3. m_pFieldName' \in [Fields -> [type : FieldTypes,
                               name : {Blank} \cup {c.name : c \in Columns}]]
      BY <1>1, <2>2, FieldTypeOfType DEF NameField, SetFieldName, TypeOK
    <2> QED BY <1>1, <1>2, <2>1, <2>3 DEF TypeOK
  <1>6. CellsCopied'
    <2>1. ASSUME NEW r \in 0 .. table.rows - 1, NEW f \in Fields
          PROVE  CellCopied(r, f)'
      <3>1. ~Before(r, f) /\ ~Before(r, f)'
        BY <1>1 DEF Before, Fields
      <3>2. CellCopied(r, f) /\ Early
        BY <1>1 DEF CellsCopied, Early
      <3> QED BY <1>1, <3>1, <3>2 DEF CellCopied, Index
    <2> QED BY <1>1, <1>2, <2>1 DEF CellsCopied
  <1>7. Places'
    BY <1>1, StateFacts DEF Places, Early, Fields
  <1>8. NothingLost' /\ CrashesExplained'
    BY <1>1 DEF NothingLost, CrashesExplained, Places, Early
  <1> QED BY <1>4, <1>5, <1>6, <1>7, <1>8

LEMMA EditNameInv ==
  ASSUME Inv, NEW f \in Fields, NEW c \in Columns, EditName(f, c)
  PROVE  Inv'
  <1> USE DEF Inv, EditName, indices
  <1>1. m_pFieldName' \in [Fields -> [type : FieldTypes,
                              name : {Blank} \cup {d.name : d \in Columns}]]
    BY FieldTypeOfType DEF SetFieldName, TypeOK
  <1>2. TypeOK'
    BY <1>1 DEF TypeOK, Fields, Cells
  <1>3. FieldsNamed' /\ CellsCopied'
    BY DEF FieldsNamed, CellsCopied
  <1>4. Places' /\ NothingLost' /\ CrashesExplained'
    BY DEF Places, Early, NothingLost, CrashesExplained
  <1> QED BY <1>2, <1>3, <1>4

-----------------------------------------------------------------------------
(* The cells.                                                              *)

LEMMA TypeOfColumn ==
  ASSUME FieldsNamed, ~edited, NEW f \in Fields
  PROVE  m_pFieldName[f].type \in {"0", FieldTypeOf(table.column[f], "0")}
  <1>1. m_pFieldName[f] = Field(f)
    BY DEF FieldsNamed
  <1> QED BY <1>1 DEF Field, NoField

\* SetFieldValue changes one cell, which keeps its type.
LEMMA SetFieldValueSets ==
  ASSUME TypeOK, FieldsNamed, ~edited,
         NEW r \in 0 .. table.rows - 1, NEW f \in Fields,
         NEW sent \in Sent(table.column[f]),
         NEW text, CString(text) = CString(sent),
         SetFieldValue(r, f, m_pFieldName[f].type, text)
  PROVE  /\ m_pFieldValue' =
              [m_pFieldValue EXCEPT
                 ![Index(r, f)] = Copied(m_pFieldName[f].type, text, @)]
         /\ lost' = (lost \/ m_pFieldValue[Index(r, f)].string # Null)
         /\ m_pFieldValue' \in [Cells -> CellRecord]
         /\ \A k \in Cells, m \in Members :
              m_pFieldValue'[k].num[m] \in Member(m)
  <1>1. ~(f >= table.fields \/ r >= table.rows)
    BY StateFacts DEF Fields
  <1>2. /\ m_pFieldValue' =
             [m_pFieldValue EXCEPT
                ![Index(r, f)] = Copied(m_pFieldName[f].type, text, @)]
        /\ lost' = (lost \/ m_pFieldValue[Index(r, f)].string # Null)
    BY <1>1 DEF SetFieldValue
  <1>3. \A k \in Cells : Typed(m_pFieldValue[k])
    BY DEF TypeOK, Typed, CellRecord
  <1>4. Typed(Copied(m_pFieldName[f].type, text, m_pFieldValue[Index(r, f)]))
    BY <1>3, StateFacts, TypeOfColumn, CopiedTyped
  <1>5. m_pFieldValue \in [Cells -> CellRecord]
    BY DEF TypeOK, CellRecord
  <1>6. \A k \in Cells : Typed(m_pFieldValue'[k])
    BY <1>2, <1>3, <1>4, <1>5
  <1> QED BY <1>2, <1>5, <1>6 DEF Typed

LEMMA EditValueInv ==
  ASSUME Inv, NEW r \in 0 .. table.rows - 1, NEW f \in Fields,
         NEW text \in Sent(table.column[f]), EditValue(r, f, text)
  PROVE  Inv'
  <1> USE DEF Inv, EditValue, indices
  <1>1. TypeOK'
    <2>1. /\ m_pFieldValue' \in [Cells -> CellRecord]
          /\ \A k \in Cells, m \in Members :
               m_pFieldValue'[k].num[m] \in Member(m)
          /\ lost' \in BOOLEAN
      BY SetFieldValueSets
    <2> QED BY <2>1 DEF TypeOK, Fields, Cells, CellRecord
  <1>2. FieldsNamed' /\ CellsCopied'
    BY DEF FieldsNamed, CellsCopied
  <1>3. Places' /\ NothingLost' /\ CrashesExplained'
    BY DEF Places, Early, NothingLost, CrashesExplained
  <1> QED BY <1>1, <1>2, <1>3

LEMMA CopyCellInv ==
  ASSUME Inv, CopyCell
  PROVE  Inv'
  <1> USE DEF Inv
  <1> DEFINE sent == table.value[<<wRowIndex, i>>]
             text == CString(sent)
             type == m_pFieldName[i].type
             k0   == Index(wRowIndex, i)
  <1>1. /\ pc = "rows" /\ wFieldIndex = table.fields /\ ~edited /\ ~lost
        /\ wRowIndex \in 0 .. table.rows - 1 /\ i \in Fields
        /\ UNCHANGED <<table, result, pc, wFieldIndex, m_pFieldName, null,
                       thrown, edited, freed>>
        /\ Fields' = Fields /\ Cells' = Cells /\ Early /\ Early'
    BY StateFacts DEF CopyCell, Places, Early, TypeOK, Fields, Cells
  <1>2. /\ wRowIndex' \in 0 .. table.rows /\ i' \in Fields
        /\ i + 1 = table.fields => i' = 0 /\ wRowIndex' = wRowIndex + 1
        /\ i + 1 # table.fields => i' = i + 1 /\ wRowIndex' = wRowIndex
    BY <1>1, StateFacts DEF CopyCell, Fields
  <1>3. ASSUME NEW r \in 0 .. table.rows - 1, NEW f \in Fields
        PROVE  /\ Before(r, f)' <=> Before(r, f) \/ (r = wRowIndex /\ f = i)
               /\ r = wRowIndex /\ f = i => ~Before(r, f)
               /\ Index(r, f) = k0 => r = wRowIndex /\ f = i
    <2>1. r \in Nat /\ f \in 0 .. table.fields - 1 /\ table.fields \in Nat
          /\ wRowIndex \in Nat /\ i \in 0 .. table.fields - 1
      BY <1>1, StateFacts DEF Fields
    <2>2. Before(r, f)' <=> Before(r, f) \/ (r = wRowIndex /\ f = i)
      BY <1>1, <1>2, <2>1 DEF Before
    <2>3. r = wRowIndex /\ f = i => ~Before(r, f)
      BY <2>1 DEF Before
    <2>4. Index(r, f) = k0 => r = wRowIndex /\ f = i
      BY <2>1, IndexInjective DEF Index
    <2> QED BY <2>2, <2>3, <2>4
  <1>4. m_pFieldValue[k0] = NoValue /\ k0 \in Cells
        /\ sent \in Sent(table.column[i]) /\ CString(text) = text
    <2>1. CellCopied(wRowIndex, i)
      BY <1>1 DEF CellsCopied
    <2>2. sent \in Sent(table.column[i]) /\ table.column[i] \in Columns
      BY <1>1, StateFacts
    <2>3. CString(text) = text
      BY <2>2, SentFacts
    <2>4. k0 \in Cells /\ m_pFieldValue[k0] = NoValue
      BY <1>1, <1>3, <2>1, StateFacts DEF CellCopied
    <2> QED BY <2>2, <2>3, <2>4
  <1>5. /\ text = Empty => m_pFieldValue' = m_pFieldValue /\ lost' = FALSE
        /\ text # Empty =>
             /\ m_pFieldValue' = [m_pFieldValue EXCEPT ![k0] = Copied(type, text, @)]
             /\ lost' = FALSE
             /\ m_pFieldValue' \in [Cells -> CellRecord]
             /\ \A k \in Cells, m \in Members :
                  m_pFieldValue'[k].num[m] \in Member(m)
    <2>1. CASE text = Empty
      BY <1>1, <2>1 DEF CopyCell
    <2>2. CASE text # Empty
      <3>1. SetFieldValue(wRowIndex, i, type, text)
        BY <2>2 DEF CopyCell
      <3>2. m_pFieldValue[k0].string = Null
        BY <1>4 DEF NoValue
      <3> QED BY <1>1, <1>4, <2>2, <3>1, <3>2, SetFieldValueSets
    <2> QED BY <2>1, <2>2
  <1>6. ASSUME text # Empty, NEW r, NEW f, r = wRowIndex, f = i
        PROVE  Holds(r, f)'
    <2>1. m_pFieldValue \in [Cells -> CellRecord]
      BY DEF TypeOK, CellRecord
    <2>2. m_pFieldValue'[k0] = Copied(type, text, NoValue)
      BY <1>4, <1>5, <1>6, <2>1
    <2>3. type \in {"0", FieldTypeOf(table.column[i], "0")}
      BY <1>1, TypeOfColumn
    <2>4. table.column[i] \in Columns
      BY <1>1, StateFacts
    <2>5. \A m \in Members : NoValue.num[m] = 0 /\ 0 \in Member(m)
      BY MemberIsInt DEF NoValue
    <2>6. ASSUME NEW m \in Members
          PROVE  IF m = type /\ text # Raw
                 THEN Reading(table.column[i], type,
                              m_pFieldValue'[k0].num[m]) = text
                 ELSE m_pFieldValue'[k0].num[m] = 0
      <3>1. m_pFieldValue'[k0].num[m] =
              IF m = type THEN Stored(type, text, 0) ELSE 0
        BY <1>4, <2>2, <2>5 DEF Copied
      <3>2. CASE m = type
        <4>1. sent \in Sent(table.column[i]) /\ text = CString(sent)
          BY <1>4
        <4> HIDE DEF type, text, sent, k0
        <4> QED BY <1>6, <2>3, <2>4, <2>5, <3>1, <3>2, <4>1, StoredFacts
      <3>3. CASE m # type
        BY <3>1, <3>3
      <3> QED BY <3>2, <3>3
    <2>7. m_pFieldValue'[k0].type = type /\ m_pFieldValue'[k0].string = text
      BY <1>4, <2>2 DEF Copied
    <2>8. /\ CString(table'.value[<<r, f>>]) = text
          /\ m_pFieldName'[f].type = type
          /\ table'.column[f] = table.column[i] /\ Index(r, f)' = k0
      BY <1>1, <1>6 DEF Index
    <2> HIDE DEF type, text, sent, k0
    <2> QED BY <1>6, <2>6, <2>7, <2>8 DEF Holds
  <1>7. ASSUME NEW r \in 0 .. table.rows - 1, NEW f \in Fields
        PROVE  CellCopied(r, f)'
    <2>1. CellCopied(r, f) /\ Index(r, f) \in Cells /\ Index(r, f)' = Index(r, f)
      BY <1>1, StateFacts DEF CellsCopied, Index
    <2>2. CASE r = wRowIndex /\ f = i
      <3>1. Holds(r, f)'
        <4>1. CASE text = Empty
          <5>1. m_pFieldValue'[Index(r, f)] = NoValue
            BY <1>4, <1>5, <2>2, <4>1
          <5>2. CString(table'.value[<<r, f>>]) = Empty
            BY <1>1, <2>2, <4>1
          <5> HIDE DEF NoValue
          <5> QED BY <2>1, <5>1, <5>2 DEF Holds
        <4>2. CASE text # Empty
          BY <1>6, <2>2, <4>2
        <4> QED BY <4>1, <4>2
      <3> QED BY <1>3, <2>2, <3>1 DEF CellCopied
    <2>3. CASE ~(r = wRowIndex /\ f = i)
      <3>1. Before(r, f)' <=> Before(r, f)
        BY <1>3, <2>3
      <3>2. m_pFieldValue'[Index(r, f)] = m_pFieldValue[Index(r, f)]
        <4>1. Index(r, f) # k0
          BY <1>3, <2>3
        <4>2. m_pFieldValue \in [Cells -> CellRecord]
          BY DEF TypeOK, CellRecord
        <4>3. CASE text = Empty
          BY <1>5, <4>3
        <4>4. CASE text # Empty
          <5> HIDE DEF k0, text, type
          <5> QED BY <1>5, <2>1, <4>1, <4>2, <4>4
        <4> QED BY <4>3, <4>4
      <3>3. Holds(r, f) => Holds(r, f)'
        BY <1>1, <2>1, <3>2 DEF Holds
      <3> QED BY <1>1, <2>1, <3>1, <3>2, <3>3 DEF CellCopied, Untouched
    <2> QED BY <2>2, <2>3
  <1>8. CellsCopied'
    BY <1>1, <1>7 DEF CellsCopied
  <1>9. FieldsNamed'
    BY <1>1 DEF FieldsNamed, Field
  <1>10. TypeOK'
    <2>1. /\ m_pFieldValue' \in [Cells -> CellRecord]
          /\ \A k \in Cells, m \in Members :
               m_pFieldValue'[k].num[m] \in Member(m)
      BY <1>5 DEF TypeOK, CellRecord
    <2>2. lost' \in BOOLEAN
      BY <1>5
    <2> QED BY <1>1, <1>2, <2>1, <2>2 DEF TypeOK, CellRecord
  <1>11. Places'
    <2>1. ~lost' /\ (wRowIndex' = table.rows => i' = 0)
      BY <1>1, <1>2, <1>5, StateFacts
    <2>2. ~(wFieldIndex' < table'.fields)
      BY <1>1, StateFacts
    <2> QED BY <1>1, <2>1, <2>2 DEF Places, Early
  <1>12. NothingLost' /\ CrashesExplained'
    BY <1>1, <1>5 DEF NothingLost, CrashesExplained
  <1> QED BY <1>8, <1>9, <1>10, <1>11, <1>12

LEMMA ThrowsInv ==
  ASSUME Inv, Throws
  PROVE  Inv'
  <1> USE DEF Inv, indices
  <1>1. /\ UNCHANGED <<table, result, wFieldIndex, wRowIndex, i, m_pFieldName,
                       null, edited, freed, lost>>
        /\ thrown' = TRUE /\ pc' = "held" /\ pc \in {"fields", "rows"}
        /\ Fields' = Fields /\ Cells' = Cells
        /\ ~null /\ ~edited /\ ~lost /\ ~Early'
    BY DEF Throws, Places, Early, Fields, Cells
  <1>2. m_pFieldValue \in [Cells -> CellRecord]
    BY DEF TypeOK, CellRecord
  <1>3. /\ m_pFieldValue' \in [Cells -> CellRecord]
        /\ \A k \in Cells : m_pFieldValue'[k].num = m_pFieldValue[k].num
                            /\ m_pFieldValue'[k].string = m_pFieldValue[k].string
        /\ \A r \in 0 .. table.rows - 1, f \in Fields :
             Before(r, f) =>
               m_pFieldValue'[Index(r, f)] = m_pFieldValue[Index(r, f)]
    <2>1. CASE UNCHANGED m_pFieldValue
      BY <1>2, <2>1
    <2>2. CASE ~UNCHANGED m_pFieldValue
      <3>1. /\ m_pFieldValue' =
                 [m_pFieldValue EXCEPT
                    ![Index(wRowIndex, i)].type = m_pFieldName[i].type]
            /\ wRowIndex < table.rows
        BY <2>2 DEF Throws
      <3>2. m_pFieldName[i].type \in FieldTypes
        BY DEF TypeOK
      <3>3. ASSUME NEW r \in 0 .. table.rows - 1, NEW f \in Fields, Before(r, f)
            PROVE  Index(r, f) # Index(wRowIndex, i)
        <4>1. /\ r \in Nat /\ f \in 0 .. table.fields - 1
              /\ table.fields \in Nat /\ wRowIndex \in Nat
              /\ i \in 0 .. table.fields - 1
          BY StateFacts DEF TypeOK, Fields
        <4>2. ~(r = wRowIndex /\ f = i)
          BY <3>3, <4>1 DEF Before
        <4> QED BY <4>1, <4>2, IndexInjective DEF Index
      <3>4. m_pFieldValue' \in [Cells -> CellRecord]
        BY <1>2, <3>1, <3>2 DEF CellRecord
      <3>5. \A k \in Cells : m_pFieldValue'[k].num = m_pFieldValue[k].num
                             /\ m_pFieldValue'[k].string = m_pFieldValue[k].string
        BY <1>2, <3>1 DEF CellRecord
      <3>6. \A k \in Cells : k # Index(wRowIndex, i) =>
              m_pFieldValue'[k] = m_pFieldValue[k]
        BY <1>2, <3>1
      <3>7. \A r \in 0 .. table.rows - 1, f \in Fields :
              Before(r, f) =>
                m_pFieldValue'[Index(r, f)] = m_pFieldValue[Index(r, f)]
        BY <3>3, <3>6, StateFacts
      <3> QED BY <3>4, <3>5, <3>7
    <2> QED BY <2>1, <2>2
  <1>4. TypeOK'
    <2>1. \A k \in Cells, m \in Members : m_pFieldValue'[k].num[m] \in Member(m)
      BY <1>3 DEF TypeOK
    <2> QED BY <1>1, <1>3, <2>1 DEF TypeOK, CellRecord
  <1>5. CellsCopied'
    <2>1. ASSUME NEW r \in 0 .. table.rows - 1, NEW f \in Fields
          PROVE  CellCopied(r, f)'
      <3>1. CellCopied(r, f) /\ Index(r, f) \in Cells
        BY <1>1, StateFacts DEF CellsCopied
      <3>2. Before(r, f)' = Before(r, f) /\ Index(r, f)' = Index(r, f)
        BY <1>1 DEF Before, Index
      <3>3. Before(r, f) /\ Holds(r, f) => Holds(r, f)'
        BY <1>1, <1>3, <3>2 DEF Holds
      <3>4. Untouched(m_pFieldValue[Index(r, f)])
              => Untouched(m_pFieldValue'[Index(r, f)])
        BY <1>3, <3>1 DEF Untouched
      <3> QED BY <1>1, <3>1, <3>2, <3>3, <3>4 DEF CellCopied, Untouched
    <2> QED BY <1>1, <2>1 DEF CellsCopied
  <1>6. FieldsNamed'
    BY <1>1 DEF FieldsNamed, Field
  <1>7. Places' /\ NothingLost' /\ CrashesExplained'
    BY <1>1 DEF Places, Early, NothingLost, CrashesExplained
  <1> QED BY <1>4, <1>5, <1>6, <1>7

LEMMA Always == Spec => []Inv
  <1>1. ASSUME Inv, UNCHANGED vars PROVE Inv'
    <2>1. FieldsNamed' /\ CellsCopied'
      BY <1>1, QuietCopies DEF vars, indices, Early
    <2> QED BY <1>1, <2>1
            DEF vars, Inv, TypeOK, Places, Early, NothingLost,
                CrashesExplained, Fields, Cells
  <1>2. ASSUME Inv, Next PROVE Inv'
    <2>1. CASE Quiet
      BY <1>2, <2>1, QuietInv
    <2>2. CASE NameField \/ CopyCell \/ Throws
      BY <1>2, <2>2, NameFieldInv, CopyCellInv, ThrowsInv
    <2>3. CASE \E f \in Fields :
                 \/ \E g \in Fields : EditName(f, table.column[g])
                 \/ \E r \in 0 .. table.rows - 1 :
                      \E text \in Sent(table.column[f]) : EditValue(r, f, text)
      <3>1. Inv => \A g \in Fields : table.column[g] \in Columns
        BY StateFacts DEF Inv
      <3> QED BY <1>2, <2>3, <3>1, EditNameInv, EditValueInv
    <2> QED BY <1>2, <2>1, <2>2, <2>3 DEF Next, Quiet
  <1> QED BY InitInv, <1>1, <1>2, PTL DEF Spec

-----------------------------------------------------------------------------
(* What follows.                                                           *)

\* Every variable has its type, and every member holds a number of its width.
THEOREM RecordsetTypes == Spec => []TypeOK
  <1>1. Inv => TypeOK
    BY DEF Inv
  <1> QED BY <1>1, Always, PTL

\* Whatever stops Select leaves the cells before it copied and the others
\* untouched; when nothing does, all of them are copied.
THEOREM PrefixesAreCopied == Spec => []PrefixIsCopied
  <1>1. Inv => PrefixIsCopied
    BY DEF Inv, Usable, PrefixIsCopied, Places, CellsCopied, CellCopied, Before
  <1> QED BY <1>1, Always, PTL

\* A name finds its first column, and a refused one none.
THEOREM NamesAreFound == Spec => []FoundByName
  <1>1. Inv => FoundByName
    <2> SUFFICES ASSUME Inv, Usable, wFieldIndex = table.fields, NEW f \in Fields
                 PROVE  LET name == table.column[f].name
                        IN  IF name \in LongNames THEN Find(name) = Null
                            ELSE (\A g \in 0 .. f - 1 :
                                    table.column[g].name # name)
                                   => Find(name) = f
      BY DEF FoundByName
    <2> DEFINE name == table.column[f].name
    <2>1. /\ table.column \in [Fields -> Columns] /\ Fields \subseteq Nat
          /\ \A g \in Fields : g < wFieldIndex
      BY StateFacts DEF Inv, Fields
    <2>2. \A g \in Fields : m_pFieldName[g] = Field(g)
      BY DEF Inv, Usable, FieldsNamed
    <2>3. name # Blank
      BY <2>1, TableAssumption
    <2>4. ASSUME NEW g \in Named(name)
          PROVE  /\ g \in Fields /\ table.column[g].name = name
                 /\ name \notin LongNames
      <3>1. g \in Fields /\ m_pFieldName[g] = Field(g) /\ m_pFieldName[g].name = name
        BY <2>2 DEF Named
      <3> HIDE DEF name
      <3> QED BY <2>3, <3>1 DEF Field, NoField
    <2>5. CASE name \in LongNames
      BY <2>4, <2>5 DEF Find
    <2>6. ASSUME name \notin LongNames,
                 \A g \in 0 .. f - 1 : table.column[g].name # name
          PROVE  Find(name) = f
      <3>1. f \in Named(name)
        <4>1. m_pFieldName[f] = Field(f) /\ f < wFieldIndex
          BY <2>1, <2>2
        <4> QED BY <2>6, <4>1 DEF Named, Field
      <3>2. Named(name) \subseteq Nat
        BY <2>1, <2>4
      <3>3. ASSUME NEW g \in Named(name) PROVE f <= g
        <4>1. g \notin 0 .. f - 1
          BY <2>4, <2>6
        <4> QED BY <3>1, <3>2, <4>1
      <3>4. \A g \in Named(name) : (\A h \in Named(name) : g <= h) => g = f
        BY <3>1, <3>2, <3>3
      <3> QED BY <3>1, <3>3, <3>4 DEF Find
    <2> QED BY <2>5, <2>6
  <1> QED BY <1>1, Always, PTL

\* Memory is lost only by an exception or by a cell that is set again.
THEOREM NothingIsLost == Spec => []NothingLost
  <1>1. Inv => NothingLost
    BY DEF Inv
  <1> QED BY <1>1, Always, PTL

\* The crashes of a caller, all of them.
THEOREM CrashesAreExplained == Spec => []CrashesExplained
  <1>1. Inv => CrashesExplained
    BY DEF Inv
  <1> QED BY <1>1, Always, PTL

=============================================================================
