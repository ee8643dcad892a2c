CONSTANTS
  Base = 2
  Formats <- MCFormats
  Arguments <- MCArguments
  Texts <- MCTexts
  Tails <- MCTails
  NotANumber = NotANumber
  Holds <- MCHolds
  FloatBits <- MCFloatBits
SPECIFICATION Spec
INVARIANTS TypeOK CalSizeExact UnPackGivesBack CastKeeps
CHECK_DEADLOCK FALSE
