------------------------------- MODULE DbScan -------------------------------
(***************************************************************************)
(* Scan of db_scan/db_scan.go: all rows of a query into maps, then the     *)
(* maps, field by field, into the caller's struct, pointer or slice.       *)
(*                                                                         *)
(* The rows come from outside: database/sql's Rows, whose Next returns     *)
(* FALSE at the end of the rows and also when the connection breaks.       *)
(*                                                                         *)
(* A value is a record of its type and its number.  The text of a number   *)
(* is [type |-> "bytes", num |-> n], other text has num = NotANumber.      *)
(* Integers have two widths that stand for 64 and for fewer bits; a width  *)
(* is given by how many numbers it has, 2^64 in the code.                  *)
(***************************************************************************)
EXTENDS Sequences, Integers

CONSTANTS
  Columns,     \* the names of the query's columns, in order
  Stored,      \* for each column, the values a row may have in it
  Fields,      \* the target struct: a sequence of [tag, kind, exported]
  Shapes,      \* what target is: "nil", "value", "struct", "pointer", "slice"
  MaxRows,     \* bound: rows of the query
  Narrow,      \* how many numbers the kinds "int8" and "uint8" have
  Wide,        \* how many the kinds "int64" and "uint64" have
  NotANumber

Signed   == [int8  |-> Narrow, int64  |-> Wide]
Unsigned == [uint8 |-> Narrow, uint64 |-> Wide]
Kinds == DOMAIN Signed \union DOMAIN Unsigned
           \union {"float64", "string", "bytes", "time"}
Types == {"nil", "int64", "float64", "bytes", "time", "bool"}

\* The numbers of a width: two's complement, and without a sign.
IntRange(size) == -(size \div 2) .. (size \div 2) - 1
UintRange(size) == 0 .. size - 1

ASSUME DbScanAssumption ==
  /\ Columns \in Seq(STRING)
  /\ Fields \in Seq([tag : STRING, kind : Kinds, exported : BOOLEAN])
  /\ \A c \in 1 .. Len(Columns) : \A v \in Stored[c] :
       v.type \in Types /\ (v.type = "int64" => v.num \in IntRange(Wide))
  /\ Shapes \subseteq {"nil", "value", "struct", "pointer", "slice"}
  /\ MaxRows \in Nat
  /\ Narrow \in Nat \ {0} /\ Wide \in Nat /\ Narrow < Wide
  /\ Narrow % 2 = 0 /\ Wide % 2 = 0

VARIABLES
  shape,      \* what the caller passed
  pc,         \* where Scan is: "call", "rows", "copy", "convert", "field", "done"
  delivered,  \* the rows the query has handed out
  cells,      \* its values: a cell per column, one set of them for all rows
  datas,      \* its result: a map per row
  f,          \* singleResult's field
  work,       \* the struct that singleResult fills
  built,      \* multiResults' valueSliceObj
  mine,       \* the caller's memory behind target
  err         \* what Scan returned

reading == <<shape, delivered, cells, datas>>
filling == <<f, work, built>>
vars == <<reading, filling, pc, mine, err>>

-----------------------------------------------------------------------------
(* Conversion of one value: valueConvert and what it calls.                *)

Value(type, num) == [type |-> type, num |-> num]
Nil  == Value("nil", 0)   \* NULL
Zero == Value("zero", 0)  \* the zero value of any kind
Old  == Value("old", 0)   \* what the caller's target had

Struct(v) == [n \in 1 .. Len(Fields) |-> v]
Names == {Columns[c] : c \in 1 .. Len(Columns)}

\* Seeded faults: the sign bit is forgotten; nothing is cut.
SignedCutUnsigned(n, size) == n % size
NoCut(n, size) == n

\* SetInt and SetUint cut to the width of the field.
SignedCut(n, size) == ((n + (size \div 2)) % size) - (size \div 2)
UnsignedCut(n, size) == n % size

\* A conversion sets the field, leaves it as it is, or fails.
Set(kind, num) == [does |-> "set", value |-> Value(kind, num)]
Keep == [does |-> "keep", value |-> Nil]
Fail == [does |-> "fail", value |-> Nil]

\* handleConvertMapSliceToField: ParseInt and ParseUint check 64 bits, not the
\* width of the field.
FromText(num, kind) ==
  CASE kind = "string" -> Set(kind, num)
    [] kind \in DOMAIN Signed /\ num \in IntRange(Wide) ->
         Set(kind, SignedCut(num, Signed[kind]))
    [] kind \in DOMAIN Unsigned /\ num \in UintRange(Wide) ->
         Set(kind, UnsignedCut(num, Unsigned[kind]))
    [] kind = "float64" /\ num # NotANumber -> Set(kind, num)
    [] OTHER -> Fail

\* The int64 case; a target that is no integer is left alone, without error.
FromInt(num, kind) ==
  CASE kind \in DOMAIN Signed   -> Set(kind, SignedCut(num, Signed[kind]))
    [] kind \in DOMAIN Unsigned -> Set(kind, UnsignedCut(num, Unsigned[kind]))
    [] OTHER                    -> Keep

\* NULL first, then what fits as it is (directSet), then by the value's type.
valueConvert(v, kind) ==
  IF v.type = "nil" THEN Keep
  ELSE IF v.type = kind THEN Set(kind, v.num)
  ELSE CASE v.type = "time"    -> IF kind = "string" THEN Set(kind, v.num) ELSE Fail
         [] v.type = "bytes"   -> FromText(v.num, kind)
         [] v.type = "int64"   -> FromInt(v.num, kind)
         [] v.type = "float64" -> Keep
         [] OTHER              -> Fail

\* Field n can be set and has a column.  Without a tag, or with an empty one, its
\* tag is "" here.
HasColumn(n) ==
  Fields[n].exported /\ Fields[n].tag # "" /\ Fields[n].tag \in Names

\* What singleResult does to field n, given the map of a row.
FieldResult(row, n) ==
  IF HasColumn(n) THEN valueConvert(row[Fields[n].tag], Fields[n].kind) ELSE Keep

-----------------------------------------------------------------------------
(* Reading the rows.                                                       *)

OldTarget(s) == IF s = "slice" THEN <<Struct(Old)>> ELSE Struct(Old)

Init ==
  /\ shape \in Shapes
  /\ pc = "call"
  /\ delivered = <<>> /\ datas = <<>> /\ built = <<>>
  /\ cells = [c \in 1 .. Len(Columns) |-> Nil]
  /\ f = 1
  /\ work = Struct(Zero)
  /\ mine = OldTarget(shape)
  /\ err = "none"

Return(e) ==
  /\ pc' = "done"
  /\ err' = e
  /\ UNCHANGED <<reading, filling>>

\* target is checked with IsNil first, which panics unless it can be nil.
Refuse ==
  /\ pc = "call"
  /\ \/ shape = "nil"   /\ Return("ErrTargetNotSettable")
     \/ shape = "value" /\ Return("panic")
  /\ UNCHANGED mine

ColumnsFails ==
  /\ pc = "call" /\ shape \notin {"nil", "value"}
  /\ Return("rows")
  /\ UNCHANGED mine

ColumnsReturns ==
  /\ pc = "call" /\ shape \notin {"nil", "value"}
  /\ pc' = "rows"
  /\ UNCHANGED <<reading, filling, mine, err>>

\* The row as a map; of two columns of one name the later one counts.
RowMap(row) ==
  [name \in Names |->
     row[CHOOSE c \in 1 .. Len(Columns) :
           /\ Columns[c] = name
           /\ \A d \in (c + 1) .. Len(Columns) : Columns[d] # name]]

Rows == {row \in [1 .. Len(Columns) -> UNION {Stored[c] : c \in 1 .. Len(Columns)}] :
           \A c \in 1 .. Len(Columns) : row[c] \in Stored[c]}

\* Next, and Scan into the cells.
ScanRow(row) ==
  /\ pc = "rows"
  /\ Len(delivered) < MaxRows
  /\ delivered' = Append(delivered, row)
  /\ cells' = row
  /\ pc' = "copy"
  /\ UNCHANGED <<shape, datas, filling, mine, err>>

CopyRowAs(maps) ==
  /\ pc = "copy"
  /\ datas' = maps
  /\ pc' = "rows"
  /\ UNCHANGED <<shape, delivered, cells, filling, mine, err>>

\* Seeded fault: the maps hold the cells themselves, which every Scan overwrites.
CopyRowShared == CopyRowAs([n \in 1 .. Len(datas) + 1 |-> RowMap(cells)])

\* A new map takes what the cells hold now.
CopyRow == CopyRowAs(Append(datas, RowMap(cells)))

\* What a failing Scan left in the cells nobody reads.
ScanFails ==
  /\ pc = "rows"
  /\ Len(delivered) < MaxRows
  /\ Return("rows")
  /\ UNCHANGED mine

\* Next returns FALSE: the rows end or the connection broke; nobody asks.
NextEnds ==
  /\ pc = "rows"
  /\ pc' = "convert"
  /\ UNCHANGED <<reading, filling, mine, err>>

-----------------------------------------------------------------------------
(* Converting them: multiResults and singleResult.                         *)

NoRows ==
  /\ pc = "convert"
  /\ datas = <<>>
  /\ Return(IF shape = "slice" THEN "none" ELSE "ErrEmptyResult")
  /\ UNCHANGED mine

\* singleResult on a new instance, or on the caller's own struct.
BeginRowOn(instance) ==
  /\ pc = "convert"
  /\ datas # <<>>
  /\ work' = IF shape = "struct" THEN mine ELSE instance
  /\ f' = 1
  /\ pc' = "field"
  /\ UNCHANGED <<reading, built, mine, err>>

\* Seeded fault: one instance for all rows.
BeginRowReused == BeginRowOn(work)

BeginRow == BeginRowOn(Struct(Zero))

\* What becomes of the field that is up.
Result == FieldResult(datas[Len(built) + 1], f)

SetField ==
  /\ pc = "field"
  /\ f <= Len(Fields)
  /\ Result.does # "fail"
  /\ work' = IF Result.does = "set" THEN [work EXCEPT ![f] = Result.value] ELSE work
  /\ mine' = IF shape = "struct" THEN work' ELSE mine
  /\ f' = f + 1
  /\ UNCHANGED <<reading, pc, built, err>>

FailLeaving(m) ==
  /\ pc = "field"
  /\ f <= Len(Fields)
  /\ Result.does = "fail"
  /\ Return("convert")
  /\ mine' = m

\* Seeded fault: the elements so far are handed over.
FieldFailsInPlace == FailLeaving(IF shape = "slice" THEN built ELSE mine)

FieldFails == FailLeaving(mine)

\* The row is converted: the next one, or the end.
EndRowAs(more, final) ==
  /\ pc = "field"
  /\ f > Len(Fields)
  /\ built' = Append(built, work)
  /\ pc' = IF more THEN "convert" ELSE "done"
  /\ mine' = IF more THEN mine ELSE final
  /\ UNCHANGED <<reading, f, work, err>>

MoreRows == Len(built) + 1 < Len(datas)

\* What valueObj.Set gives the caller; a struct is filled in place.
Final == IF shape = "slice" THEN Append(built, work) ELSE work

\* Seeded faults: a struct takes every row; valueObj.Set is missing.
EndRowTakesAll == EndRowAs(MoreRows, Final)
EndRowUnset == EndRowAs(shape = "slice" /\ MoreRows, mine)

EndRow == EndRowAs(shape = "slice" /\ MoreRows, Final)

Next ==
  \/ Refuse \/ ColumnsFails \/ ColumnsReturns
  \/ \E row \in Rows : ScanRow(row)
  \/ CopyRow \/ ScanFails \/ NextEnds
  \/ NoRows \/ BeginRow \/ SetField \/ FieldFails \/ EndRow

Spec == Init /\ [][Next]_vars

-----------------------------------------------------------------------------
(* Properties.                                                             *)

\* The values of a field: of its kind and within its width.
FitsField(v, kind) ==
  \/ v \in {Zero, Old}
  \/ /\ v.type = kind
     /\ kind \in DOMAIN Signed   => v.num \in IntRange(Signed[kind])
     /\ kind \in DOMAIN Unsigned => v.num \in UintRange(Unsigned[kind])

IsStruct(s) ==
  /\ DOMAIN s = 1 .. Len(Fields)
  /\ \A n \in 1 .. Len(Fields) : FitsField(s[n], Fields[n].kind)

TypeOK ==
  /\ shape \in Shapes
  /\ pc \in {"call", "rows", "copy", "convert", "field", "done"}
  /\ Len(delivered) <= MaxRows
  /\ DOMAIN cells = 1 .. Len(Columns)
  /\ \A n \in 1 .. Len(datas) : DOMAIN datas[n] = Names
  /\ Len(built) <= Len(datas)
  /\ f \in 1 .. Len(Fields) + 1
  /\ IsStruct(work)
  /\ \A n \in 1 .. Len(built) : IsStruct(built[n])
  /\ IF shape = "slice" THEN \A n \in 1 .. Len(mine) : IsStruct(mine[n])
                        ELSE IsStruct(mine)
  /\ err \in {"none", "panic", "rows", "convert", "ErrTargetNotSettable",
              "ErrEmptyResult"}

\* What a new instance holds after a row.
Filled(row) ==
  [n \in 1 .. Len(Fields) |->
     LET r == FieldResult(RowMap(row), n)
     IN IF r.does = "set" THEN r.value ELSE Zero]

\* All rows' values for a slice, the first row's for a struct.
Handed ==
  IF shape = "slice" THEN [n \in 1 .. Len(delivered) |-> Filled(delivered[n])]
                     ELSE Filled(delivered[1])

\* A slice, or the struct behind a pointer to a pointer, is replaced by all of
\* the rows' values when Scan returns without an error, and before that or with
\* an error, of the reading or of any conversion, is what it was.  A query
\* without rows leaves a slice as it was too, old elements and all, and Scan
\* reports success.
AllOrNothing ==
  shape # "struct" =>
    mine = IF pc = "done" /\ err = "none" /\ delivered # <<>>
           THEN Handed ELSE OldTarget(shape)

\* Each element of a slice comes from its own row: what another row left in the
\* cells, or in an instance where a NULL sets nothing, does not show in it.
RowByRow ==
  shape = "slice" => \A n \in 1 .. Len(built) : built[n] = Filled(delivered[n])

\* A number that the field can hold arrives as it is, from an integer or from
\* its text.
Fits(num, kind) ==
  \/ kind \in DOMAIN Signed   /\ num \in IntRange(Signed[kind])
  \/ kind \in DOMAIN Unsigned /\ num \in UintRange(Unsigned[kind])

NumbersArrive ==
  pc = "done" /\ err = "none" /\ shape \in {"struct", "pointer"} =>
    \A n \in 1 .. Len(Fields) :
      LET v == RowMap(delivered[1])[Fields[n].tag]
      IN HasColumn(n) /\ v.type \in {"int64", "bytes"} /\ Fits(v.num, Fields[n].kind)
         => mine[n].num = v.num

\* A caller's own struct changes only in fields that the first row sets.
OnlyFirstRow ==
  shape = "struct" =>
    \A n \in 1 .. Len(Fields) :
      mine[n] # Old => delivered # <<>> /\ mine[n] = FieldResult(RowMap(delivered[1]), n).value
=============================================================================
