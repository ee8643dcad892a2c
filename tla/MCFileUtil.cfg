CONSTANTS
  x = x
  y = y
  Blank = Blank
  Comment = Comment
  Part = Part
  Newline = Newline
  Hole = Hole
  Absent = Absent
  Dir = Dir
  Procs = {p1, p2}
  Texts = {x, y}
  Requests <- MCRequests
  InitialFiles <- MCFiles
  FdLimit = 2
  BufferSize = 3
  MaxCalls = 3
SPECIFICATION Spec
INVARIANTS TypeOK AloneDoesIt AppendersShare ReadsOneMoment
PROPERTIES CreateSparesTheOld
SYMMETRY Symmetry
CHECK_DEADLOCK FALSE
