CONSTANTS
  a = a
  int = int
  float = float
  NoDoc = NoDoc
  nan = nan
  list = list
  Unset = Unset
  Values = {a, int, float, nan}
  SelfUnequal = {nan}
  Unhashable = {list}
  Decoded <- MCDecoded
  Documents <- MCDocuments
  Views = {w1}
  MaxLen = 3
SPECIFICATION Spec
INVARIANTS TypeOK MapMatchesSlice NoDuplicates SliceStable JsonKeeps
PROPERTIES RefinesOrderedSet
