CONSTANTS
  Columns <- MCColumns
  Stored <- MCStored
  Fields <- MCFields
  Shapes = {"nil", "value", "struct", "pointer", "slice"}
  MaxRows = 2
  Narrow = 4
  Wide = 8
  NotANumber = NotANumber
SPECIFICATION Spec
INVARIANTS TypeOK AllOrNothing RowByRow NumbersArrive OnlyFirstRow
CHECK_DEADLOCK FALSE
