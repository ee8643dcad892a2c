---------------------------- MODULE DbScanProofs ----------------------------
(***************************************************************************)
(* Proofs about DbScan, for any columns, fields, widths and numbers of     *)
(* rows: which row is where (IInv, for which a conversion may be any       *)
(* function), and on top of it what the fields hold (ValuesOK).            *)
(***************************************************************************)
EXTENDS DbScan, SequenceTheorems, IntervalLemmas, TLAPS

-----------------------------------------------------------------------------
(* The inductive invariant.                                                *)

\* What a field may hold.
Contents ==
  {Zero, Old} \union {FieldResult(RowMap(row), n).value : row \in Rows, n \in 1 .. Len(Fields)}
Instances == [1 .. Len(Fields) -> Contents]

Busy == {"rows", "copy", "convert", "field"}

Maps == {RowMap(row) : row \in Rows}

DataOK ==
  /\ shape \in Shapes
  /\ pc \in Busy \union {"call", "done"}
  /\ delivered \in Seq(Rows)
  /\ DOMAIN cells = 1 .. Len(Columns)
  /\ datas \in Seq(Maps)
  /\ f \in 1 .. Len(Fields) + 1
  /\ work \in Instances
  /\ built \in Seq(Instances)

\* Each map holds its own row, which the cells held when it was made: between a
\* Scan and the copy they hold the newest row, which has no map yet.
MapsOK ==
  /\ Len(delivered) = IF pc = "copy" THEN Len(datas) + 1 ELSE Len(datas)
  /\ \A n \in 1 .. Len(datas) : datas[n] = RowMap(delivered[n])
  /\ pc = "copy" => cells = delivered[Len(delivered)]

\* How far Scan is: a row that is up has not been built yet, and only a slice
\* gets more than one.
ProgressOK ==
  /\ pc # "done" => err = "none"
  /\ pc \in Busy => shape \notin {"nil", "value"}
  /\ Len(built) <= Len(delivered)
  /\ pc \in {"call", "rows", "copy"} => built = <<>>
  /\ pc = "convert" => Len(built) < Len(delivered) \/ delivered = <<>>
  /\ pc = "field" => Len(built) < Len(delivered)
  /\ shape # "slice" /\ pc # "done" => built = <<>>

\* A new instance has, up to field f, what its row sets, and is empty behind.
Due == Filled(delivered[Len(built) + 1])
WorkOK ==
  pc = "field" /\ shape # "struct" =>
    \A n \in 1 .. Len(Fields) : work[n] = IF n < f THEN Due[n] ELSE Zero

\* The caller's memory is touched at the end, a struct of the caller's at once.
MineOK ==
  /\ shape # "struct" /\ pc # "done" => mine = OldTarget(shape)
  /\ shape = "struct" => /\ mine \in Instances
                         /\ pc \in {"call", "rows", "copy"} => mine = Struct(Old)
                         /\ pc = "field" => work = mine

IInv ==
  /\ DataOK /\ MapsOK /\ ProgressOK /\ WorkOK /\ MineOK
  /\ RowByRow /\ AllOrNothing /\ OnlyFirstRow

-----------------------------------------------------------------------------

LEMMA LenFields == Len(Fields) \in Nat
  BY DbScanAssumption, LenProperties

LEMMA StructIsInstance ==
  ASSUME NEW v \in {Zero, Old}
  PROVE  Struct(v) \in Instances
  BY DEF Struct, Instances, Contents

LEMMA LenFacts ==
  ASSUME DataOK, MapsOK
  PROVE  /\ Len(delivered) \in Nat /\ Len(datas) \in Nat /\ Len(built) \in Nat
         /\ pc # "copy" => Len(datas) = Len(delivered)
         /\ \A n \in 1 .. Len(delivered) : delivered[n] \in Rows
         /\ \A n \in 1 .. Len(datas) : datas[n] = RowMap(delivered[n])
  <1>1. Len(delivered) \in Nat /\ Len(datas) \in Nat /\ Len(built) \in Nat
    BY LenProperties DEF DataOK
  <1>2. \A n \in 1 .. Len(delivered) : delivered[n] \in Rows
    BY ElementOfSeq DEF DataOK
  <1> QED BY <1>1, <1>2 DEF MapsOK

\* A step that leaves the rows, the fields and the caller's memory alone, and
\* ends the call or goes on to another part of it.
LEMMA Quiet ==
  ASSUME IInv, UNCHANGED <<reading, filling, mine>>, pc # "done",
         DataOK', ProgressOK', pc' # "field", pc # "copy", pc' # "copy",
         pc' \in {"call", "rows"} => pc \in {"call", "rows"},
         pc' = "done" => err' # "none" \/ delivered = <<>>
  PROVE  IInv'
  <1>1. UNCHANGED <<shape, delivered, cells, datas, f, work, built, mine>>
    BY DEF reading, filling
  <1>2. WorkOK' BY DEF WorkOK
  <1>3. MineOK' BY <1>1 DEF IInv, MineOK, OldTarget, Struct
  <1>4. MapsOK' BY <1>1 DEF IInv, MapsOK
  <1>5. RowByRow' BY <1>1 DEF IInv, RowByRow, Filled
  <1>6. OnlyFirstRow' BY <1>1 DEF IInv, OnlyFirstRow
  <1>7. AllOrNothing' BY <1>1 DEF IInv, AllOrNothing, MineOK, OldTarget, Struct
  <1> QED BY <1>2, <1>3, <1>4, <1>5, <1>6, <1>7 DEF IInv

\* The call ends and the caller keeps what it had.
LEMMA ReturnStep ==
  ASSUME IInv, NEW e, Return(e), UNCHANGED mine, pc \notin {"copy", "done"},
         e # "none" \/ delivered = <<>>
  PROVE  IInv'
  <1>1. UNCHANGED <<shape, delivered, cells, datas, f, work, built>> /\ pc' = "done" /\ err' = e
    BY DEF Return, reading, filling
  <1>2. DataOK' BY <1>1 DEF IInv, DataOK, Instances, Contents, Maps
  <1>3. ProgressOK' BY <1>1 DEF IInv, ProgressOK, Busy
  <1> QED BY <1>1, <1>2, <1>3, Quiet DEF Return

-----------------------------------------------------------------------------
(* Reading.                                                                *)

LEMMA ColumnsStep ==
  ASSUME IInv, ColumnsReturns
  PROVE  IInv'
  <1>1. UNCHANGED <<shape, delivered, cells, datas, f, work, built, mine, err>>
        /\ pc = "call" /\ pc' = "rows" /\ shape \notin {"nil", "value"}
    BY DEF ColumnsReturns, reading, filling
  <1>2. DataOK' BY <1>1 DEF IInv, DataOK, Instances, Contents, Busy, Maps
  <1>3. ProgressOK' BY <1>1 DEF IInv, ProgressOK, Busy
  <1> QED BY <1>1, <1>2, <1>3, Quiet DEF ColumnsReturns

LEMMA EndsStep ==
  ASSUME IInv, NextEnds
  PROVE  IInv'
  <1>1. UNCHANGED <<shape, delivered, cells, datas, f, work, built, mine, err>>
        /\ pc = "rows" /\ pc' = "convert"
    BY DEF NextEnds, reading, filling
  <1>2. DataOK' BY <1>1 DEF IInv, DataOK, Instances, Contents, Busy, Maps
  <1>3. ProgressOK'
    <2>1. built = <<>> /\ Len(built) = 0 BY <1>1, EmptySeq DEF IInv, ProgressOK
    <2>2. delivered = <<>> \/ Len(delivered) > 0
      BY EmptySeq DEF IInv, DataOK
    <2> QED BY <1>1, <2>1, <2>2 DEF IInv, ProgressOK, Busy
  <1> QED BY <1>1, <1>2, <1>3, Quiet DEF NextEnds

\* The new row is in the cells and in no map yet; a map of an earlier row does
\* not change with them.
LEMMA RowStep ==
  ASSUME IInv, NEW row \in Rows, ScanRow(row)
  PROVE  IInv'
  <1>1. /\ pc = "rows" /\ pc' = "copy" /\ delivered' = Append(delivered, row) /\ cells' = row
        /\ UNCHANGED <<shape, datas, f, work, built, mine, err>>
    BY DEF ScanRow, filling
  <1> DEFINE m == Len(delivered)
             d2 == Append(delivered, row)
  <1>2. /\ m \in Nat /\ Len(datas) = m
        /\ \A n \in 1 .. m : datas[n] = RowMap(delivered[n])
    BY <1>1, LenFacts DEF IInv
  <1>3. /\ d2 \in Seq(Rows) /\ Len(d2) = m + 1
        /\ \A n \in 1 .. m : d2[n] = delivered[n]
        /\ d2[m + 1] = row
    BY AppendProperties DEF IInv, DataOK
  <1> HIDE DEF m, d2
  <1>4. MapsOK' BY <1>1, <1>2, <1>3 DEF MapsOK, m, d2
  <1>5. built = <<>> /\ Len(built) = 0 BY <1>1, EmptySeq DEF IInv, ProgressOK
  <1>6. DOMAIN row = 1 .. Len(Columns) BY DEF Rows
  <1>7. DataOK' BY <1>1, <1>3, <1>6 DEF IInv, DataOK, Instances, Contents, Busy, Maps, d2
  <1>8. ProgressOK' BY <1>1, <1>2, <1>3, <1>5 DEF IInv, ProgressOK, Busy, d2
  <1>9. WorkOK' BY <1>1 DEF WorkOK
  <1>10. MineOK' BY <1>1 DEF IInv, MineOK, OldTarget, Struct
  <1>11. RowByRow' BY <1>1, <1>5 DEF RowByRow
  <1>12. AllOrNothing' BY <1>1 DEF IInv, AllOrNothing, MineOK, OldTarget, Struct
  <1>13. OnlyFirstRow'
    <2>1. shape = "struct" => \A n \in 1 .. Len(Fields) : mine[n] = Old
      BY <1>1 DEF IInv, MineOK, Struct
    <2> QED BY <1>1, <2>1 DEF OnlyFirstRow
  <1> QED BY <1>4, <1>7, <1>8, <1>9, <1>10, <1>11, <1>12, <1>13 DEF IInv

\* The newest row gets its map, from the cells, which still hold it.
LEMMA CopyStep ==
  ASSUME IInv, CopyRow
  PROVE  IInv'
  <1> DEFINE k == Len(datas)
             maps == Append(datas, RowMap(cells))
  <1>1. /\ pc = "copy" /\ pc' = "rows" /\ datas' = maps
        /\ UNCHANGED <<shape, delivered, cells, f, work, built, mine, err>>
    BY DEF CopyRow, CopyRowAs, filling
  <1>2. /\ k \in Nat /\ Len(delivered) = k + 1 /\ cells = delivered[k + 1]
        /\ \A n \in 1 .. k : datas[n] = RowMap(delivered[n])
    BY <1>1, LenFacts DEF IInv, MapsOK
  <1>3. cells \in Rows
    <2>1. k + 1 \in 1 .. Len(delivered) BY <1>2
    <2> QED BY <1>2, <2>1, LenFacts DEF IInv
  <1>4. RowMap(cells) \in Maps BY <1>3 DEF Maps
  <1>5. /\ maps \in Seq(Maps) /\ Len(maps) = k + 1
        /\ \A n \in 1 .. k : maps[n] = datas[n]
        /\ maps[k + 1] = RowMap(cells)
    BY <1>4, AppendProperties DEF IInv, DataOK
  <1> HIDE DEF k, maps
  <1>6. \A n \in 1 .. k + 1 : maps[n] = RowMap(delivered[n])
    <2>1. \A n \in 1 .. k + 1 : n \in 1 .. k \/ n = k + 1 BY <1>2
    <2> QED BY <1>2, <1>5, <2>1
  <1>7. MapsOK' BY <1>1, <1>2, <1>5, <1>6 DEF MapsOK
  <1>8. DataOK' BY <1>1, <1>5 DEF IInv, DataOK, Instances, Contents, Busy, Maps
  <1>9. ProgressOK' BY <1>1 DEF IInv, ProgressOK, Busy
  <1>10. WorkOK' BY <1>1 DEF WorkOK
  <1>11. MineOK' BY <1>1 DEF IInv, MineOK, OldTarget, Struct
  <1>12. RowByRow' BY <1>1 DEF IInv, RowByRow, Filled
  <1>13. AllOrNothing' BY <1>1 DEF IInv, AllOrNothing, MineOK, OldTarget, Struct
  <1>14. OnlyFirstRow' BY <1>1 DEF IInv, OnlyFirstRow
  <1> QED BY <1>7, <1>8, <1>9, <1>10, <1>11, <1>12, <1>13, <1>14 DEF IInv

-----------------------------------------------------------------------------
(* Converting.                                                             *)

\* No map means no row: a slice stays as it is, without an error.
LEMMA NoRowsStep ==
  ASSUME IInv, NoRows
  PROVE  IInv'
  <1>1. pc = "convert" /\ datas = <<>> /\ UNCHANGED mine BY DEF NoRows
  <1>2. Len(datas) = 0 /\ Len(datas) = Len(delivered) BY <1>1, EmptySeq, LenFacts DEF IInv
  <1>3. delivered = <<>> BY <1>2, EmptySeq DEF IInv, DataOK
  <1> QED BY <1>1, <1>3, ReturnStep DEF NoRows

LEMMA BeginStep ==
  ASSUME IInv, BeginRow
  PROVE  IInv'
  <1>1. /\ pc = "convert" /\ pc' = "field" /\ datas # <<>> /\ f' = 1
        /\ work' = IF shape = "struct" THEN mine ELSE Struct(Zero)
        /\ UNCHANGED <<shape, delivered, cells, datas, built, mine, err>>
    BY DEF BeginRow, BeginRowOn, reading
  <1>2. Len(delivered) \in Nat /\ Len(built) \in Nat /\ Len(datas) = Len(delivered)
    BY <1>1, LenFacts DEF IInv
  <1>3. work' \in Instances
    BY <1>1, StructIsInstance DEF IInv, MineOK
  <1>4. DataOK' BY <1>1, <1>3, LenFields DEF IInv, DataOK, Instances, Contents, Busy, Maps
  <1>5. ProgressOK'
    <2>1. delivered # <<>>
      <3>1. SUFFICES ASSUME delivered = <<>> PROVE FALSE OBVIOUS
      <3>2. Len(datas) = 0 BY <1>2, <3>1, EmptySeq
      <3>3. datas = <<>> BY <3>2, EmptySeq DEF IInv, DataOK
      <3> QED BY <1>1, <3>3
    <2> QED BY <1>1, <2>1 DEF IInv, ProgressOK, Busy
  <1>6. WorkOK' BY <1>1, LenFields DEF WorkOK, Struct
  <1>7. MineOK' BY <1>1 DEF IInv, MineOK, OldTarget, Struct, Instances, Contents
  <1>8. MapsOK' /\ RowByRow' BY <1>1 DEF IInv, MapsOK, RowByRow, Filled
  <1>9. AllOrNothing' BY <1>1 DEF IInv, AllOrNothing, MineOK, OldTarget, Struct
  <1>10. OnlyFirstRow' BY <1>1 DEF IInv, OnlyFirstRow
  <1> QED BY <1>4, <1>5, <1>6, <1>7, <1>8, <1>9, <1>10 DEF IInv

\* The field that is up is one of the row that is up.
LEMMA ResultFacts ==
  ASSUME IInv, pc = "field", f <= Len(Fields)
  PROVE  /\ f \in 1 .. Len(Fields) /\ Len(built) + 1 \in 1 .. Len(delivered)
         /\ delivered[Len(built) + 1] \in Rows
         /\ Result = FieldResult(RowMap(delivered[Len(built) + 1]), f)
         /\ Result.value \in Contents
         /\ shape # "slice" => Len(built) + 1 = 1
  <1>1. Len(delivered) \in Nat /\ Len(built) \in Nat /\ Len(datas) = Len(delivered)
    BY LenFacts DEF IInv
  <1>2. f \in 1 .. Len(Fields) BY LenFields DEF IInv, DataOK
  <1>3. Len(built) + 1 \in 1 .. Len(delivered) BY <1>1 DEF IInv, ProgressOK
  <1>4. /\ delivered[Len(built) + 1] \in Rows
        /\ datas[Len(built) + 1] = RowMap(delivered[Len(built) + 1])
    BY <1>1, <1>3, LenFacts DEF IInv
  <1>5. Result = FieldResult(RowMap(delivered[Len(built) + 1]), f) BY <1>4 DEF Result
  <1>6. Result.value \in Contents BY <1>2, <1>4, <1>5 DEF Contents
  <1>7. shape # "slice" => Len(built) + 1 = 1 BY EmptySeq DEF IInv, ProgressOK
  <1> QED BY <1>2, <1>3, <1>4, <1>5, <1>6, <1>7

LEMMA FieldStep ==
  ASSUME IInv, SetField
  PROVE  IInv'
  <1> DEFINE row == delivered[Len(built) + 1]
  <1>1. /\ pc = "field" /\ pc' = "field" /\ f <= Len(Fields) /\ f' = f + 1
        /\ work' = IF Result.does = "set" THEN [work EXCEPT ![f] = Result.value] ELSE work
        /\ mine' = IF shape = "struct" THEN work' ELSE mine
        /\ UNCHANGED <<shape, delivered, cells, datas, built, err>>
    BY DEF SetField, reading
  <1>2. /\ f \in 1 .. Len(Fields) /\ row \in Rows
        /\ Result = FieldResult(RowMap(row), f) /\ Result.value \in Contents
        /\ shape # "slice" => Len(built) + 1 = 1
    BY <1>1, ResultFacts
  <1>3. work \in Instances BY DEF IInv, DataOK
  <1>4. work' \in Instances /\ f' \in 1 .. Len(Fields) + 1
    BY <1>1, <1>2, <1>3, LenFields DEF Instances
  <1>5. \A n \in 1 .. Len(Fields) :
          work'[n] = IF n = f /\ Result.does = "set" THEN Result.value ELSE work[n]
    BY <1>1, <1>2, <1>3 DEF Instances
  <1>6. DataOK' BY <1>1, <1>4 DEF IInv, DataOK, Instances, Contents, Busy, Maps
  <1>7. ProgressOK' BY <1>1 DEF IInv, ProgressOK, Busy
  <1>8. Filled(row)[f] = IF Result.does = "set" THEN Result.value ELSE Zero
    BY <1>2 DEF Filled
  <1>9. ASSUME shape # "struct", NEW n \in 1 .. Len(Fields)
        PROVE  work'[n] = IF n < f + 1 THEN Filled(row)[n] ELSE Zero
    <2>1. work[n] = IF n < f THEN Filled(row)[n] ELSE Zero
      BY <1>1, <1>9 DEF IInv, WorkOK, Due
    <2> HIDE DEF row
    <2>2. CASE n = f BY <1>2, <1>5, <1>8, <2>1, <2>2
    <2>3. CASE n # f
      <3>1. work'[n] = work[n] BY <1>5, <2>3
      <3>2. (n < f + 1) = (n < f) BY <1>2, <2>3, LenFields
      <3> QED BY <2>1, <3>1, <3>2
    <2> QED BY <2>2, <2>3
  <1>10. WorkOK'
    <2>1. Due' = Filled(row) BY <1>1 DEF Due, Filled
    <2> HIDE DEF row
    <2> QED BY <1>1, <1>9, <2>1 DEF WorkOK
  <1>11. MineOK'
    <2>1. shape # "struct" => mine' = OldTarget(shape)
      BY <1>1 DEF IInv, MineOK
    <2>2. shape = "struct" => mine' = work' BY <1>1
    <2>3. Instances' = Instances /\ OldTarget(shape)' = OldTarget(shape)
      BY <1>1 DEF Instances, Contents, OldTarget, Struct
    <2> QED BY <1>1, <1>4, <2>1, <2>2, <2>3 DEF MineOK
  <1>12. MapsOK' /\ RowByRow' BY <1>1 DEF IInv, MapsOK, RowByRow, Filled
  <1>13. AllOrNothing' BY <1>1 DEF IInv, AllOrNothing, MineOK, OldTarget, Struct
  <1>14. OnlyFirstRow'
    <2> SUFFICES ASSUME shape = "struct", NEW n \in 1 .. Len(Fields), work'[n] # Old
                 PROVE  /\ delivered # <<>>
                        /\ work'[n] = FieldResult(RowMap(delivered[1]), n).value
      BY <1>1 DEF OnlyFirstRow
    <2>1. work = mine BY <1>1 DEF IInv, MineOK
    <2>2. row = delivered[1] BY <1>2
    <2>3. delivered # <<>>
      <3>1. Len(built) + 1 \in 1 .. Len(delivered) BY <1>1, ResultFacts
      <3> QED BY <3>1, EmptySeq
    <2>4. CASE n = f /\ Result.does = "set" BY <1>2, <1>5, <2>2, <2>3, <2>4
    <2>5. CASE ~ (n = f /\ Result.does = "set")
      BY <1>5, <2>1, <2>5 DEF IInv, OnlyFirstRow
    <2> QED BY <2>4, <2>5
  <1> QED BY <1>6, <1>7, <1>10, <1>11, <1>12, <1>13, <1>14 DEF IInv

LEMMA EndStep ==
  ASSUME IInv, EndRow
  PROVE  IInv'
  <1> DEFINE k == Len(built)
             m == Len(delivered)
             b2 == Append(built, work)
             more == shape = "slice" /\ MoreRows
  <1>1. /\ pc = "field" /\ f > Len(Fields) /\ built' = b2
        /\ pc' = IF more THEN "convert" ELSE "done"
        /\ mine' = IF more THEN mine ELSE IF shape = "slice" THEN b2 ELSE work
        /\ UNCHANGED <<shape, delivered, cells, datas, f, work, err>>
    BY DEF EndRow, EndRowAs, Final, reading
  <1>2. m \in Nat /\ k \in Nat /\ Len(datas) = m /\ k < m /\ err = "none"
    BY <1>1, LenFacts DEF IInv, ProgressOK
  <1>3. work \in Instances BY DEF IInv, DataOK
  <1>4. /\ b2 \in Seq(Instances) /\ Len(b2) = k + 1
        /\ \A n \in 1 .. k : b2[n] = built[n]
        /\ b2[k + 1] = work
    BY <1>3, AppendProperties DEF IInv, DataOK
  <1>5. DOMAIN b2 = 1 .. k + 1 BY <1>4, LenProperties
  <1>6. shape # "slice" => k = 0
    BY <1>1, EmptySeq DEF IInv, ProgressOK
  <1>7. more => k + 1 < m BY <1>2 DEF MoreRows
  <1>8. shape = "slice" /\ ~ more => k + 1 = m BY <1>2 DEF MoreRows
  <1>9. shape # "struct" => work = Filled(delivered[k + 1])
    <2> SUFFICES ASSUME shape # "struct" PROVE work = Filled(delivered[k + 1]) OBVIOUS
    <2>1. \A n \in 1 .. Len(Fields) : n < f BY <1>1, LenFields DEF IInv, DataOK
    <2>2. \A n \in 1 .. Len(Fields) : work[n] = Filled(delivered[k + 1])[n]
      BY <1>1, <2>1 DEF IInv, WorkOK, Due
    <2>3. work = [n \in 1 .. Len(Fields) |-> work[n]] BY <1>3 DEF Instances
    <2> QED BY <2>2, <2>3 DEF Filled
  <1> HIDE DEF b2, more
  <1>10. DataOK' BY <1>1, <1>4, SMTT(30) DEF IInv, DataOK, Instances, Contents, Busy, Maps
  <1>11. ProgressOK'
    BY <1>1, <1>2, <1>4, <1>7 DEF IInv, ProgressOK, Busy, more
  <1>12. WorkOK' BY <1>1 DEF WorkOK
  <1>13. MineOK'
    <2>1. shape = "struct" => /\ mine' = work /\ pc' = "done"
      BY <1>1 DEF IInv, MineOK, more
    <2>2. work' \in Instances' BY <1>1, <1>3 DEF Instances, Contents
    <2>3. pc' # "done" => mine' = mine /\ shape = "slice" BY <1>1 DEF more
    <2> QED BY <1>1, <2>1, <2>2, <2>3 DEF IInv, MineOK, OldTarget, Struct
  <1>14. MapsOK' BY <1>1 DEF IInv, MapsOK, more
  <1>15. shape = "slice" => \A n \in 1 .. k + 1 : b2[n] = Filled(delivered[n])
    <2> HIDE DEF k
    <2>1. shape = "slice" => \A n \in 1 .. k : b2[n] = Filled(delivered[n])
      BY <1>4 DEF IInv, RowByRow, k
    <2>2. \A n \in 1 .. k + 1 : n \in 1 .. k \/ n = k + 1 BY <1>2
    <2> QED BY <1>4, <1>9, <2>1, <2>2
  <1>16. RowByRow' BY <1>1, <1>4, <1>15 DEF RowByRow, Filled
  <1>17. AllOrNothing'
    <2>1. CASE more
      <3>1. shape = "slice" /\ mine' = mine /\ pc' = "convert" BY <1>1, <2>1 DEF more
      <3> QED BY <1>1, <3>1 DEF IInv, AllOrNothing, MineOK, OldTarget, Struct
    <2>2. CASE ~ more /\ shape # "struct"
      <3>1. pc' = "done" /\ err' = "none" /\ delivered' # <<>>
        BY <1>1, <1>2, <2>2, EmptySeq
      <3>2. mine' = Handed'
        <4>1. CASE shape = "slice"
          <5>1. mine' = b2 BY <1>1, <2>2, <4>1
          <5>2. b2 = [n \in 1 .. k + 1 |-> b2[n]] BY <1>4, <1>5
          <5>3. b2 = [n \in 1 .. m |-> Filled(delivered[n])]
            BY <1>8, <1>15, <2>2, <4>1, <5>2
          <5> QED BY <1>1, <4>1, <5>1, <5>3 DEF Handed, Filled
        <4>2. CASE shape # "slice"
          <5>1. mine' = work /\ k + 1 = 1 BY <1>1, <1>6, <2>2, <4>2
          <5>2. work = Filled(delivered[1]) BY <1>9, <2>2, <5>1
          <5> QED BY <1>1, <4>2, <5>1, <5>2 DEF Handed, Filled
        <4> QED BY <4>1, <4>2
      <3> QED BY <3>1, <3>2 DEF AllOrNothing
    <2>3. CASE shape = "struct" BY <1>1, <2>3 DEF AllOrNothing
    <2> QED BY <2>1, <2>2, <2>3
  <1>18. OnlyFirstRow'
    <2>1. shape = "struct" => mine' = mine BY <1>1 DEF IInv, MineOK, more
    <2> QED BY <1>1, <2>1 DEF IInv, OnlyFirstRow
  <1> QED BY <1>10, <1>11, <1>12, <1>13, <1>14, <1>16, <1>17, <1>18 DEF IInv

-----------------------------------------------------------------------------
(* The invariant and what follows from it.                                 *)

LEMMA InitIInv == Init => IInv
  <1> SUFFICES ASSUME Init PROVE IInv OBVIOUS
  <1>1. /\ shape \in Shapes /\ pc = "call" /\ delivered = <<>> /\ datas = <<>>
        /\ DOMAIN cells = 1 .. Len(Columns)
        /\ built = <<>> /\ f = 1 /\ work = Struct(Zero) /\ mine = OldTarget(shape)
        /\ err = "none"
    BY DEF Init
  <1>2. <<>> \in Seq(Rows) /\ <<>> \in Seq(Maps) /\ <<>> \in Seq(Instances) /\ Len(<<>>) = 0
    BY EmptySeq
  <1>3. DataOK BY <1>1, <1>2, LenFields, StructIsInstance DEF DataOK
  <1>4. ProgressOK BY <1>1, <1>2 DEF ProgressOK, Busy
  <1>5. WorkOK BY <1>1 DEF WorkOK
  <1>6. MineOK BY <1>1, StructIsInstance DEF MineOK, OldTarget
  <1>7. MapsOK BY <1>1, <1>2 DEF MapsOK
  <1>8. RowByRow BY <1>1, <1>2 DEF RowByRow
  <1>9. AllOrNothing BY <1>1 DEF AllOrNothing
  <1>10. OnlyFirstRow BY <1>1 DEF OnlyFirstRow, OldTarget, Struct
  <1> QED BY <1>3, <1>4, <1>5, <1>6, <1>7, <1>8, <1>9, <1>10 DEF IInv

LEMMA StutterStep ==
  ASSUME IInv, UNCHANGED vars
  PROVE  IInv'
  <1>1. UNCHANGED <<shape, delivered, cells, datas, f, work, built, pc, mine, err>>
    BY DEF vars, reading, filling
  <1>2. DataOK' BY <1>1 DEF IInv, DataOK, Instances, Contents, Busy, Maps
  <1>3. ProgressOK' BY <1>1 DEF IInv, ProgressOK, Busy
  <1>4. WorkOK' BY <1>1 DEF IInv, WorkOK, Due, Filled
  <1>5. MineOK' BY <1>1 DEF IInv, MineOK, OldTarget, Struct, Instances, Contents
  <1>6. MapsOK' /\ RowByRow' BY <1>1 DEF IInv, MapsOK, RowByRow, Filled
  <1>7. AllOrNothing' BY <1>1 DEF IInv, AllOrNothing, Handed, OldTarget, Struct, Filled
  <1>8. OnlyFirstRow' BY <1>1 DEF IInv, OnlyFirstRow
  <1> QED BY <1>2, <1>3, <1>4, <1>5, <1>6, <1>7, <1>8 DEF IInv

LEMMA NextIInv == IInv /\ [Next]_vars => IInv'
  <1> SUFFICES ASSUME IInv, [Next]_vars PROVE IInv' OBVIOUS
  <1>1. CASE Refuse BY <1>1, ReturnStep DEF Refuse
  <1>2. CASE ColumnsFails BY <1>2, ReturnStep DEF ColumnsFails
  <1>3. CASE ColumnsReturns BY <1>3, ColumnsStep
  <1>4. ASSUME NEW row \in Rows, ScanRow(row) PROVE IInv' BY <1>4, RowStep
  <1>5. CASE CopyRow BY <1>5, CopyStep
  <1>6. CASE ScanFails BY <1>6, ReturnStep DEF ScanFails
  <1>7. CASE NextEnds BY <1>7, EndsStep
  <1>8. CASE NoRows BY <1>8, NoRowsStep
  <1>9. CASE BeginRow BY <1>9, BeginStep
  <1>10. CASE SetField BY <1>10, FieldStep
  <1>11. CASE FieldFails BY <1>11, ReturnStep DEF FieldFails, FailLeaving
  <1>12. CASE EndRow BY <1>12, EndStep
  <1>13. CASE UNCHANGED vars BY <1>13, StutterStep
  <1> QED BY <1>1, <1>2, <1>3, <1>4, <1>5, <1>6, <1>7, <1>8, <1>9, <1>10, <1>11, <1>12, <1>13
      DEF Next

\* The inductive invariant holds in every state of every call of Scan.
THEOREM Invariance == Spec => []IInv
  BY InitIInv, NextIInv, PTL DEF Spec

\* Each element that multiResults builds comes from its own row alone, though all
\* rows pass through the same cells.
THEOREM OwnRow == Spec => []RowByRow
  <1>1. IInv => RowByRow BY DEF IInv
  <1> QED BY <1>1, Invariance, PTL

\* A slice and the struct behind a pointer are replaced as a whole when Scan
\* succeeds with rows, and otherwise, after any error of the rows or of a
\* conversion, not at all.
THEOREM Atomic == Spec => []AllOrNothing
  <1>1. IInv => AllOrNothing BY DEF IInv
  <1> QED BY <1>1, Invariance, PTL

\* The caller's own struct takes nothing but what the first row sets, also when
\* singleResult gives up in the middle.
THEOREM FirstRowOnly == Spec => []OnlyFirstRow
  <1>1. IInv => OnlyFirstRow BY DEF IInv
  <1> QED BY <1>1, Invariance, PTL

-----------------------------------------------------------------------------
(* The values.                                                             *)

LEMMA ModFacts ==
  ASSUME NEW n \in Int, NEW m \in Nat \ {0}
  PROVE  n % m \in 0 .. m - 1 /\ (n \in 0 .. m - 1 => n % m = n)
  OBVIOUS

\* What SetInt and SetUint make of a number is one of the width's, and the
\* number itself if it was one of them.
LEMMA CutFacts ==
  ASSUME NEW n \in Int, NEW size \in {Narrow, Wide}
  PROVE  /\ SignedCut(n, size) \in IntRange(size)
         /\ UnsignedCut(n, size) \in UintRange(size)
         /\ n \in IntRange(size) => SignedCut(n, size) = n
         /\ n \in UintRange(size) => UnsignedCut(n, size) = n
  <1> DEFINE half == size \div 2
  <1>1. size \in Nat \ {0} /\ size % 2 = 0 BY DbScanAssumption
  <1>2. half \in Nat /\ size = 2 * half BY <1>1
  <1> HIDE DEF half
  <1>3. n + half \in Int BY <1>2
  <1>4. /\ (n + half) % size \in 0 .. size - 1
        /\ n + half \in 0 .. size - 1 => (n + half) % size = n + half
    BY <1>1, <1>3, ModFacts
  <1>5. n % size \in 0 .. size - 1 /\ (n \in 0 .. size - 1 => n % size = n) BY <1>1, ModFacts
  <1>6. PICK k \in Int : k = (n + half) % size BY <1>4
  <1>7. k - half \in -half .. half - 1 BY <1>2, <1>4, <1>6
  <1>8. n \in -half .. half - 1 => k - half = n BY <1>2, <1>4, <1>6
  <1> QED BY <1>5, <1>6, <1>7, <1>8 DEF SignedCut, UnsignedCut, IntRange, UintRange, half

LEMMA WidthFacts ==
  /\ DOMAIN Signed = {"int8", "int64"} /\ DOMAIN Unsigned = {"uint8", "uint64"}
  /\ Signed["int8"] = Narrow /\ Signed["int64"] = Wide
  /\ Unsigned["uint8"] = Narrow /\ Unsigned["uint64"] = Wide
  BY DEF Signed, Unsigned

\* A value of a row: an integer is one of 64 bits.
IsStored(v) == v.type \in Types /\ (v.type = "int64" => v.num \in IntRange(Wide))

LEMMA RangeFacts ==
  /\ IntRange(Narrow) \subseteq IntRange(Wide) /\ IntRange(Wide) \subseteq Int
  /\ UintRange(Narrow) \subseteq UintRange(Wide) /\ UintRange(Wide) \subseteq Int
  <1>1. Narrow \in Nat /\ Wide \in Nat /\ Narrow < Wide BY DbScanAssumption
  <1> QED BY <1>1 DEF IntRange, UintRange

LEMMA SetFacts ==
  ASSUME NEW kind, NEW n
  PROVE  Set(kind, n).does = "set" /\ Set(kind, n).value.type = kind /\ Set(kind, n).value.num = n
  BY DEF Set, Value

LEMMA SignedFits ==
  ASSUME NEW n \in Int, NEW kind \in DOMAIN Signed
  PROVE  FitsField(Set(kind, SignedCut(n, Signed[kind])).value, kind)
  <1>1. Signed[kind] \in {Narrow, Wide} /\ kind \notin DOMAIN Unsigned BY WidthFacts
  <1>2. PICK k : k = SignedCut(n, Signed[kind]) OBVIOUS
  <1>3. k \in IntRange(Signed[kind]) BY <1>1, <1>2, CutFacts
  <1>4. FitsField(Set(kind, k).value, kind) BY <1>1, <1>3, SetFacts DEF FitsField
  <1> QED BY <1>2, <1>4

LEMMA UnsignedFits ==
  ASSUME NEW n \in Int, NEW kind \in DOMAIN Unsigned
  PROVE  FitsField(Set(kind, UnsignedCut(n, Unsigned[kind])).value, kind)
  <1>1. Unsigned[kind] \in {Narrow, Wide} /\ kind \notin DOMAIN Signed BY WidthFacts
  <1>2. PICK k : k = UnsignedCut(n, Unsigned[kind]) OBVIOUS
  <1>3. k \in UintRange(Unsigned[kind]) BY <1>1, <1>2, CutFacts
  <1>4. FitsField(Set(kind, k).value, kind) BY <1>1, <1>3, SetFacts DEF FitsField
  <1> QED BY <1>2, <1>4

LEMMA OtherFits ==
  ASSUME NEW n, NEW kind, kind \notin DOMAIN Signed, kind \notin DOMAIN Unsigned
  PROVE  FitsField(Set(kind, n).value, kind)
  BY SetFacts DEF FitsField

\* What a conversion sets fits its field.
LEMMA ConvertFits ==
  ASSUME NEW v, IsStored(v), NEW kind, valueConvert(v, kind).does = "set"
  PROVE  FitsField(valueConvert(v, kind).value, kind)
  <1>1. PICK r : r = valueConvert(v, kind) OBVIOUS
  <1> SUFFICES FitsField(r.value, kind) BY <1>1
  <1>2. r.does = "set" BY <1>1
  <1>3. CASE v.type = "nil" BY <1>1, <1>2, <1>3 DEF valueConvert, Keep
  <1>4. CASE v.type # "nil" /\ v.type = kind
    <2>1. r = Set(kind, v.num) BY <1>1, <1>4 DEF valueConvert
    <2>2. CASE kind = "int64"
      <3>1. v.num \in IntRange(Signed[kind]) BY <1>4, <2>2, WidthFacts DEF IsStored
      <3>2. kind \notin DOMAIN Unsigned BY <2>2, WidthFacts
      <3> QED BY <1>4, <2>1, <3>1, <3>2, SetFacts DEF FitsField
    <2>3. CASE kind # "int64"
      <3>1. kind \notin DOMAIN Signed /\ kind \notin DOMAIN Unsigned
        BY <1>4, <2>3, WidthFacts DEF IsStored, Types
      <3> QED BY <2>1, <3>1, OtherFits
    <2> QED BY <2>2, <2>3
  <1>5. CASE v.type = "time" /\ kind # "time"
    <2>1. kind = "string" /\ r = Set(kind, v.num)
      BY <1>1, <1>2, <1>5 DEF valueConvert, Fail
    <2>2. kind \notin DOMAIN Signed /\ kind \notin DOMAIN Unsigned BY <2>1, WidthFacts
    <2> QED BY <2>1, <2>2, OtherFits
  <1>6. CASE v.type = "bytes" /\ kind # "bytes"
    <2>1. r = FromText(v.num, kind) BY <1>1, <1>6 DEF valueConvert
    <2>2. CASE kind = "string" \/ kind = "float64"
      <3>1. kind \notin DOMAIN Signed /\ kind \notin DOMAIN Unsigned BY <2>2, WidthFacts
      <3>2. r = Set(kind, v.num) BY <1>2, <2>1, <2>2, <3>1 DEF FromText, Fail
      <3> QED BY <3>1, <3>2, OtherFits
    <2>3. CASE kind \in DOMAIN Signed
      <3>1. kind # "string" /\ kind # "float64" /\ kind \notin DOMAIN Unsigned BY <2>3, WidthFacts
      <3>2. v.num \in IntRange(Wide) BY <1>2, <2>1, <2>3, <3>1 DEF FromText, Fail
      <3>3. r = Set(kind, SignedCut(v.num, Signed[kind])) BY <2>1, <2>3, <3>1, <3>2 DEF FromText
      <3>4. v.num \in Int BY <3>2, RangeFacts
      <3> QED BY <2>3, <3>3, <3>4, SignedFits
    <2>4. CASE kind \in DOMAIN Unsigned
      <3>1. kind # "string" /\ kind # "float64" /\ kind \notin DOMAIN Signed BY <2>4, WidthFacts
      <3>2. v.num \in UintRange(Wide) BY <1>2, <2>1, <2>4, <3>1 DEF FromText, Fail
      <3>3. r = Set(kind, UnsignedCut(v.num, Unsigned[kind]))
        BY <2>1, <2>4, <3>1, <3>2 DEF FromText
      <3>4. v.num \in Int BY <3>2, RangeFacts
      <3> QED BY <2>4, <3>3, <3>4, UnsignedFits
    <2>5. kind \in {"string", "float64"} \union DOMAIN Signed \union DOMAIN Unsigned
      BY <1>2, <2>1 DEF FromText, Fail
    <2> QED BY <2>2, <2>3, <2>4, <2>5
  <1>7. CASE v.type = "int64" /\ kind # "int64"
    <2>1. r = FromInt(v.num, kind) BY <1>1, <1>7 DEF valueConvert
    <2>2. v.num \in Int BY <1>7, RangeFacts DEF IsStored
    <2>3. CASE kind \in DOMAIN Signed
      <3>1. r = Set(kind, SignedCut(v.num, Signed[kind])) BY <2>1, <2>3, WidthFacts DEF FromInt
      <3> QED BY <2>2, <2>3, <3>1, SignedFits
    <2>4. CASE kind \notin DOMAIN Signed
      <3>1. kind \in DOMAIN Unsigned /\ r = Set(kind, UnsignedCut(v.num, Unsigned[kind]))
        BY <1>2, <2>1, <2>4 DEF FromInt, Keep
      <3> QED BY <2>2, <3>1, UnsignedFits
    <2> QED BY <2>3, <2>4
  <1>8. CASE v.type \in {"float64", "bool"} /\ kind # v.type
    BY <1>1, <1>2, <1>8 DEF valueConvert, Keep, Fail
  <1> QED BY <1>3, <1>4, <1>5, <1>6, <1>7, <1>8 DEF IsStored, Types

\* A number that the field can hold is set as it is.
LEMMA ConvertKeeps ==
  ASSUME NEW v, IsStored(v), v.type \in {"int64", "bytes"}, NEW kind, Fits(v.num, kind)
  PROVE  valueConvert(v, kind) = Set(kind, v.num)
  <1>1. kind \in DOMAIN Signed \/ kind \in DOMAIN Unsigned BY DEF Fits
  <1>2. ASSUME kind \in DOMAIN Signed PROVE valueConvert(v, kind) = Set(kind, v.num)
    <2>1. /\ kind \notin DOMAIN Unsigned /\ kind \notin {"string", "float64", "bytes"}
          /\ Signed[kind] \in {Narrow, Wide}
      BY <1>2, WidthFacts
    <2>2. v.num \in IntRange(Signed[kind]) BY <2>1 DEF Fits
    <2>3. v.num \in IntRange(Wide) /\ v.num \in Int BY <2>1, <2>2, RangeFacts
    <2>4. SignedCut(v.num, Signed[kind]) = v.num BY <2>1, <2>2, <2>3, CutFacts
    <2> QED BY <1>2, <2>1, <2>3, <2>4 DEF valueConvert, FromText, FromInt
  <1>3. ASSUME kind \in DOMAIN Unsigned PROVE valueConvert(v, kind) = Set(kind, v.num)
    <2>1. /\ kind \notin DOMAIN Signed /\ kind \notin {"string", "float64", "bytes", "int64"}
          /\ Unsigned[kind] \in {Narrow, Wide}
      BY <1>3, WidthFacts
    <2>2. v.num \in UintRange(Unsigned[kind]) BY <2>1 DEF Fits
    <2>3. v.num \in UintRange(Wide) /\ v.num \in Int BY <2>1, <2>2, RangeFacts
    <2>4. UnsignedCut(v.num, Unsigned[kind]) = v.num BY <2>1, <2>2, <2>3, CutFacts
    <2> QED BY <1>3, <2>1, <2>3, <2>4 DEF valueConvert, FromText, FromInt
  <1> QED BY <1>1, <1>2, <1>3

\* A row's map has values of the row.
LEMMA RowFacts ==
  ASSUME NEW row \in Rows, NEW name \in Names
  PROVE  IsStored(RowMap(row)[name])
  <1> DEFINE named == {c \in 1 .. Len(Columns) : Columns[c] = name}
             Last(c) == /\ Columns[c] = name
                        /\ \A d \in (c + 1) .. Len(Columns) : Columns[d] # name
  <1>1. Len(Columns) \in Nat BY DbScanAssumption, LenProperties
  <1>2. named # {} /\ named \subseteq 0 .. Len(Columns) BY <1>1 DEF Names
  <1>3. \E c \in named : \A d \in named : c >= d
    <2> HIDE DEF named
    <2> QED BY <1>1, <1>2, GreatestExists
  <1>4. \E c \in 1 .. Len(Columns) : Last(c) BY <1>1, <1>3
  <1>5. PICK e : e = CHOOSE c \in 1 .. Len(Columns) : Last(c) OBVIOUS
  <1>6. e \in 1 .. Len(Columns) BY <1>4, <1>5
  <1>7. RowMap(row)[name] = row[e] BY <1>5 DEF RowMap
  <1>8. row[e] \in Stored[e] BY <1>6 DEF Rows
  <1>9. IsStored(row[e]) BY <1>6, <1>8, DbScanAssumption DEF IsStored
  <1> QED BY <1>7, <1>9

LEMMA FieldFits ==
  ASSUME NEW row \in Rows, NEW n \in 1 .. Len(Fields),
         FieldResult(RowMap(row), n).does = "set"
  PROVE  FitsField(FieldResult(RowMap(row), n).value, Fields[n].kind)
  <1>1. Fields[n].tag \in Names
        /\ FieldResult(RowMap(row), n) = valueConvert(RowMap(row)[Fields[n].tag], Fields[n].kind)
    BY DEF FieldResult, HasColumn, Keep
  <1>2. IsStored(RowMap(row)[Fields[n].tag]) BY <1>1, RowFacts
  <1> QED BY <1>1, <1>2, ConvertFits

-----------------------------------------------------------------------------
(* The second invariant: what the fields hold.                             *)

Errors == {"none", "panic", "rows", "convert", "ErrTargetNotSettable", "ErrEmptyResult"}

BoundsOK == Len(delivered) <= MaxRows /\ err \in Errors

FitOK ==
  /\ IsStruct(work)
  /\ \A n \in 1 .. Len(built) : IsStruct(built[n])
  /\ IF shape = "slice" THEN \A n \in 1 .. Len(mine) : IsStruct(mine[n]) ELSE IsStruct(mine)

\* The fields below k of s have what the first row sets in them.
Taken(s, k) ==
  \A n \in 1 .. Len(Fields) :
    LET r == FieldResult(RowMap(delivered[1]), n)
    IN n < k /\ r.does = "set" => s[n] = r.value

TakenOK ==
  shape \in {"struct", "pointer"} =>
    /\ pc = "field" => Taken(work, f)
    /\ pc = "done" /\ err = "none" => delivered # <<>> /\ Taken(mine, Len(Fields) + 1)

ValuesOK == BoundsOK /\ FitOK /\ TakenOK

LEMMA StructFits ==
  ASSUME NEW v \in {Zero, Old}
  PROVE  IsStruct(Struct(v))
  BY DEF Struct, IsStruct, FitsField

LEMMA OldFits ==
  ASSUME NEW s
  PROVE  IF s = "slice" THEN \A n \in 1 .. Len(OldTarget(s)) : IsStruct(OldTarget(s)[n])
         ELSE IsStruct(OldTarget(s))
  <1>1. IsStruct(Struct(Old)) BY StructFits
  <1>2. CASE s = "slice"
    <2>1. PICK o : o = Struct(Old) OBVIOUS
    <2>2. OldTarget(s) = <<o>> BY <1>2, <2>1 DEF OldTarget
    <2>3. Len(<<o>>) = 1 /\ <<o>>[1] = o OBVIOUS
    <2>4. \A n \in 1 .. 1 : n = 1 OBVIOUS
    <2> QED BY <1>1, <1>2, <2>1, <2>2, <2>3, <2>4
  <1>3. CASE s # "slice" BY <1>1, <1>3 DEF OldTarget
  <1> QED BY <1>2, <1>3

\* A step that writes neither a field nor a row.
LEMMA ValuesQuiet ==
  ASSUME ValuesOK, UNCHANGED <<reading, filling, mine>>, pc' # "field", err' \in Errors,
         pc' = "done" /\ err' = "none" => shape = "slice"
  PROVE  ValuesOK'
  <1>1. UNCHANGED <<shape, delivered, cells, datas, f, work, built, mine>>
    BY DEF reading, filling
  <1>2. BoundsOK' BY <1>1 DEF ValuesOK, BoundsOK, Errors
  <1>3. FitOK' BY <1>1 DEF ValuesOK, FitOK, IsStruct, FitsField
  <1>4. TakenOK' BY <1>1 DEF TakenOK
  <1> QED BY <1>2, <1>3, <1>4 DEF ValuesOK

LEMMA ValuesRow ==
  ASSUME IInv, ValuesOK, NEW row \in Rows, ScanRow(row)
  PROVE  ValuesOK'
  <1>1. /\ pc' = "copy" /\ delivered' = Append(delivered, row) /\ Len(delivered) < MaxRows
        /\ UNCHANGED <<shape, f, work, built, mine, err>>
    BY DEF ScanRow, filling
  <1>2. delivered \in Seq(Rows) BY DEF IInv, DataOK
  <1>3. Len(delivered') = Len(delivered) + 1 /\ Len(delivered) \in Nat
    BY <1>1, <1>2, AppendProperties, LenProperties
  <1>4. BoundsOK' BY <1>1, <1>3, DbScanAssumption DEF ValuesOK, BoundsOK, Errors
  <1>5. FitOK' BY <1>1 DEF ValuesOK, FitOK, IsStruct, FitsField
  <1>6. TakenOK' BY <1>1 DEF TakenOK
  <1> QED BY <1>4, <1>5, <1>6 DEF ValuesOK

LEMMA ValuesCopy ==
  ASSUME ValuesOK, CopyRow
  PROVE  ValuesOK'
  <1>1. pc' = "rows" /\ UNCHANGED <<shape, delivered, f, work, built, mine, err>>
    BY DEF CopyRow, CopyRowAs, filling
  <1>2. BoundsOK' BY <1>1 DEF ValuesOK, BoundsOK, Errors
  <1>3. FitOK' BY <1>1 DEF ValuesOK, FitOK, IsStruct, FitsField
  <1>4. TakenOK' BY <1>1 DEF TakenOK
  <1> QED BY <1>2, <1>3, <1>4 DEF ValuesOK

LEMMA ValuesBegin ==
  ASSUME ValuesOK, BeginRow
  PROVE  ValuesOK'
  <1>1. /\ pc' = "field" /\ f' = 1
        /\ work' = IF shape = "struct" THEN mine ELSE Struct(Zero)
        /\ UNCHANGED <<shape, delivered, cells, datas, built, mine, err>>
    BY DEF BeginRow, BeginRowOn, reading
  <1>2. BoundsOK' BY <1>1 DEF ValuesOK, BoundsOK, Errors
  <1>3. IsStruct(work') BY <1>1, StructFits DEF ValuesOK, FitOK
  <1>4. FitOK' BY <1>1, <1>3 DEF ValuesOK, FitOK, IsStruct, FitsField
  <1>5. \A n \in 1 .. Len(Fields) : ~ n < 1 BY LenFields
  <1>6. TakenOK' BY <1>1, <1>5 DEF TakenOK, Taken
  <1> QED BY <1>2, <1>4, <1>6 DEF ValuesOK

LEMMA ValuesField ==
  ASSUME IInv, ValuesOK, SetField
  PROVE  ValuesOK'
  <1> DEFINE row == delivered[Len(built) + 1]
  <1>1. /\ pc = "field" /\ pc' = "field" /\ f <= Len(Fields) /\ f' = f + 1
        /\ work' = IF Result.does = "set" THEN [work EXCEPT ![f] = Result.value] ELSE work
        /\ mine' = IF shape = "struct" THEN work' ELSE mine
        /\ UNCHANGED <<shape, delivered, cells, datas, built, err>>
    BY DEF SetField, reading
  <1>2. /\ f \in 1 .. Len(Fields) /\ row \in Rows
        /\ Result = FieldResult(RowMap(row), f)
        /\ shape # "slice" => row = delivered[1]
    BY <1>1, ResultFacts
  <1> HIDE DEF row
  <1>3. /\ DOMAIN work = 1 .. Len(Fields)
        /\ \A n \in 1 .. Len(Fields) : FitsField(work[n], Fields[n].kind)
    BY DEF ValuesOK, FitOK, IsStruct
  <1>4. /\ DOMAIN work' = 1 .. Len(Fields)
        /\ \A n \in 1 .. Len(Fields) :
             work'[n] = IF n = f /\ Result.does = "set" THEN Result.value ELSE work[n]
    BY <1>1, <1>2, <1>3
  <1>5. Result.does = "set" => FitsField(Result.value, Fields[f].kind)
    BY <1>2, FieldFits
  <1>6. IsStruct(work')
    <2>1. \A n \in 1 .. Len(Fields) : FitsField(work'[n], Fields[n].kind)
      BY <1>3, <1>4, <1>5
    <2> QED BY <1>4, <2>1 DEF IsStruct
  <1>7. FitOK' BY <1>1, <1>6 DEF ValuesOK, FitOK, IsStruct, FitsField
  <1>8. BoundsOK' BY <1>1 DEF ValuesOK, BoundsOK, Errors
  <1>9. ASSUME shape \in {"struct", "pointer"} PROVE Taken(work, f)'
    <2> SUFFICES ASSUME NEW n \in 1 .. Len(Fields), n < f + 1,
                        FieldResult(RowMap(delivered[1]), n).does = "set"
                 PROVE  work'[n] = FieldResult(RowMap(delivered[1]), n).value
      BY <1>1 DEF Taken
    <2>1. CASE n = f BY <1>2, <1>4, <1>9, <2>1
    <2>2. CASE n # f
      <3>1. n < f BY <1>2, <2>2, LenFields
      <3>2. work[n] = FieldResult(RowMap(delivered[1]), n).value
        BY <1>1, <1>9, <3>1 DEF ValuesOK, TakenOK, Taken
      <3> QED BY <1>4, <2>2, <3>2
    <2> QED BY <2>1, <2>2
  <1>10. TakenOK' BY <1>1, <1>9 DEF TakenOK, Taken
  <1> QED BY <1>7, <1>8, <1>10 DEF ValuesOK

LEMMA ValuesEnd ==
  ASSUME IInv, ValuesOK, EndRow
  PROVE  ValuesOK'
  <1> DEFINE more == shape = "slice" /\ MoreRows
             b2 == Append(built, work)
             k == Len(built)
  <1>1. /\ pc = "field" /\ f > Len(Fields) /\ built' = b2
        /\ pc' = IF more THEN "convert" ELSE "done"
        /\ mine' = IF more THEN mine ELSE IF shape = "slice" THEN b2 ELSE work
        /\ UNCHANGED <<shape, delivered, cells, datas, f, work, err>>
    BY DEF EndRow, EndRowAs, Final, reading
  <1>2. BoundsOK' BY <1>1 DEF ValuesOK, BoundsOK, Errors
  <1>3. work \in Instances /\ built \in Seq(Instances) BY DEF IInv, DataOK
  <1>4. /\ k \in Nat /\ Len(b2) = k + 1 /\ b2[k + 1] = work
        /\ \A n \in 1 .. k : b2[n] = built[n]
    BY <1>3, AppendProperties, LenProperties
  <1> HIDE DEF b2, more
  <1>5. \A n \in 1 .. Len(b2) : IsStruct(b2[n])
    <2>1. IsStruct(work) /\ \A n \in 1 .. k : IsStruct(built[n]) BY DEF ValuesOK, FitOK
    <2> HIDE DEF k
    <2>2. \A n \in 1 .. k + 1 : n \in 1 .. k \/ n = k + 1 BY <1>4
    <2> QED BY <1>4, <2>1, <2>2
  <1>6. IF shape = "slice" THEN \A n \in 1 .. Len(mine') : IsStruct(mine'[n]) ELSE IsStruct(mine')
    BY <1>1, <1>5 DEF ValuesOK, FitOK, more
  <1>7. FitOK' BY <1>1, <1>5, <1>6 DEF ValuesOK, FitOK, IsStruct, FitsField
  <1>8. ASSUME shape \in {"struct", "pointer"}
        PROVE  delivered # <<>> /\ Taken(mine, Len(Fields) + 1)'
    <2>1. delivered # <<>>
      <3>1. Len(built) < Len(delivered) /\ Len(built) \in Nat
        BY <1>1, LenFacts DEF IInv, ProgressOK
      <3> QED BY <3>1, EmptySeq
    <2>2. mine' = work BY <1>1, <1>8 DEF more
    <2>3. \A n \in 1 .. Len(Fields) : n < f BY <1>1, LenFields DEF IInv, DataOK
    <2>4. Taken(work, f) BY <1>1, <1>8 DEF ValuesOK, TakenOK
    <2> QED BY <1>1, <2>1, <2>2, <2>3, <2>4 DEF Taken
  <1>9. TakenOK' BY <1>1, <1>8 DEF TakenOK, more
  <1> QED BY <1>2, <1>7, <1>9 DEF ValuesOK

LEMMA InitValues == Init => ValuesOK
  <1> SUFFICES ASSUME Init PROVE ValuesOK OBVIOUS
  <1>1. /\ pc = "call" /\ delivered = <<>> /\ built = <<>> /\ work = Struct(Zero)
        /\ mine = OldTarget(shape) /\ err = "none"
    BY DEF Init
  <1>2. Len(<<>>) = 0 BY EmptySeq
  <1>3. BoundsOK BY <1>1, <1>2, DbScanAssumption DEF BoundsOK, Errors
  <1>4. FitOK BY <1>1, <1>2, StructFits, OldFits DEF FitOK
  <1>5. TakenOK BY <1>1 DEF TakenOK
  <1> QED BY <1>3, <1>4, <1>5 DEF ValuesOK

LEMMA NextValues == IInv /\ ValuesOK /\ [Next]_vars => ValuesOK'
  <1> SUFFICES ASSUME IInv, ValuesOK, [Next]_vars PROVE ValuesOK' OBVIOUS
  <1>1. ASSUME NEW e \in Errors \ {"none"}, Return(e), UNCHANGED mine PROVE ValuesOK'
    BY <1>1, ValuesQuiet DEF Return
  <1>2. CASE Refuse BY <1>1, <1>2 DEF Refuse, Errors
  <1>3. CASE ColumnsFails BY <1>1, <1>3 DEF ColumnsFails, Errors
  <1>4. err \in Errors BY DEF ValuesOK, BoundsOK
  <1>5. CASE ColumnsReturns BY <1>4, <1>5, ValuesQuiet DEF ColumnsReturns
  <1>6. ASSUME NEW row \in Rows, ScanRow(row) PROVE ValuesOK' BY <1>6, ValuesRow
  <1>15. CASE CopyRow BY <1>15, ValuesCopy
  <1>7. CASE ScanFails BY <1>1, <1>7 DEF ScanFails, Errors
  <1>8. CASE NextEnds BY <1>4, <1>8, ValuesQuiet DEF NextEnds
  <1>9. CASE NoRows
    <2>1. CASE shape = "slice" BY <1>9, <2>1, ValuesQuiet DEF NoRows, Return, Errors
    <2>2. CASE shape # "slice" BY <1>1, <1>9, <2>2 DEF NoRows, Errors
    <2> QED BY <2>1, <2>2
  <1>10. CASE BeginRow BY <1>10, ValuesBegin
  <1>11. CASE SetField BY <1>11, ValuesField
  <1>12. CASE FieldFails BY <1>1, <1>12 DEF FieldFails, FailLeaving, Errors
  <1>13. CASE EndRow BY <1>13, ValuesEnd
  <1>14. CASE UNCHANGED vars
    <2>1. UNCHANGED <<shape, delivered, cells, datas, f, work, built, pc, mine, err>>
      BY <1>14 DEF vars, reading, filling
    <2>2. BoundsOK' BY <2>1 DEF ValuesOK, BoundsOK, Errors
    <2>3. FitOK' BY <2>1 DEF ValuesOK, FitOK, IsStruct, FitsField
    <2>4. TakenOK' BY <2>1 DEF ValuesOK, TakenOK, Taken
    <2> QED BY <2>2, <2>3, <2>4 DEF ValuesOK
  <1> QED BY <1>2, <1>3, <1>5, <1>6, <1>7, <1>8, <1>9, <1>10, <1>11, <1>12, <1>13, <1>14, <1>15
      DEF Next

LEMMA Values == Spec => [](IInv /\ ValuesOK)
  <1>1. Init => IInv /\ ValuesOK BY InitIInv, InitValues
  <1>2. (IInv /\ ValuesOK) /\ [Next]_vars => (IInv /\ ValuesOK)' BY NextIInv, NextValues
  <1> QED BY <1>1, <1>2, PTL DEF Spec

\* Whatever the rows hold, every field of every struct that Scan fills keeps to
\* its kind and its width, and the maps have the columns of the query.
THEOREM TypeCorrect == Spec => []TypeOK
  <1>1. IInv /\ ValuesOK => TypeOK
    <2> SUFFICES ASSUME IInv, ValuesOK PROVE TypeOK OBVIOUS
    <2>1. \A n \in 1 .. Len(datas) : datas[n] = RowMap(delivered[n]) BY LenFacts DEF IInv
    <2>2. \A n \in 1 .. Len(datas) : DOMAIN datas[n] = Names BY <2>1 DEF RowMap
    <2>3. Len(built) <= Len(datas)
      <3>1. CASE pc = "copy" BY <3>1, LenFacts, EmptySeq DEF IInv, ProgressOK
      <3>2. CASE pc # "copy" BY <3>2, LenFacts DEF IInv, ProgressOK
      <3> QED BY <3>1, <3>2
    <2> QED BY <2>2, <2>3 DEF IInv, DataOK, Busy, ValuesOK, BoundsOK, Errors, FitOK, TypeOK
  <1> QED BY <1>1, Values, PTL

\* A number of the first row that its field can hold is in that field when Scan
\* returns without an error, be it an integer or text.
THEOREM Arrival == Spec => []NumbersArrive
  <1>1. IInv /\ ValuesOK => NumbersArrive
    <2> SUFFICES ASSUME IInv, ValuesOK, pc = "done", err = "none",
                        shape \in {"struct", "pointer"}, NEW n \in 1 .. Len(Fields),
                        HasColumn(n),
                        RowMap(delivered[1])[Fields[n].tag].type \in {"int64", "bytes"},
                        Fits(RowMap(delivered[1])[Fields[n].tag].num, Fields[n].kind)
                 PROVE  mine[n].num = RowMap(delivered[1])[Fields[n].tag].num
      BY DEF NumbersArrive
    <2> DEFINE row == delivered[1]
               v == RowMap(row)[Fields[n].tag]
    <2>1. delivered # <<>> /\ Taken(mine, Len(Fields) + 1) BY DEF ValuesOK, TakenOK
    <2>2. row \in Rows
      <3>1. Len(delivered) \in Nat /\ Len(delivered) # 0
        BY <2>1, LenFacts, EmptySeq DEF IInv, DataOK
      <3>2. 1 \in 1 .. Len(delivered) BY <3>1
      <3> QED BY <3>2, LenFacts DEF IInv
    <2>3. IsStored(v)
      <3>1. Fields[n].tag \in Names BY DEF HasColumn
      <3> QED BY <2>2, <3>1, RowFacts
    <2>4. FieldResult(RowMap(row), n) = valueConvert(v, Fields[n].kind) BY DEF FieldResult
    <2>5. valueConvert(v, Fields[n].kind) = Set(Fields[n].kind, v.num) BY <2>3, ConvertKeeps
    <2>6. n < Len(Fields) + 1 BY LenFields
    <2> HIDE DEF v
    <2>7. mine[n] = Set(Fields[n].kind, v.num).value
      BY <2>1, <2>4, <2>5, <2>6, SetFacts DEF Taken
    <2>8. mine[n].num = v.num BY <2>7, SetFacts
    <2> QED BY <2>8 DEF v
  <1> QED BY <1>1, Values, PTL
=============================================================================
