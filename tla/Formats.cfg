\* Two messages of each type, two of their fields edited; one unknown field,
\* two users in a list; texts of 0, 1 and 200 bytes; ints of reduced width.
\* Two arguments on the command line.  A gateway that is up or aborted stops.
SPECIFICATION FormatsSpec
CHECK_DEADLOCK FALSE
CONSTANTS
  empty = empty
  x = x
  y = y
  number = number
  Texts = {empty, x, y}
  Empty = empty
  Length <- MCLength
  Ints <- MCInts
  Bits32 = 6
  Bits64 = 16
  NULL = NULL
  Samples <- MCSamples
  MaxEdited = 2
  MaxUnknown = 1
  MaxUsers = 2
  Values = {empty, number, x, y}
  Numbers = {number}
  EmptyValue = empty
  NoValue = NoValue
  DefaultPort = number
  DefaultAddr = x
  DefaultId = y
  MaxArgs = 2
INVARIANTS HintsHold SizeFits RoundTrip MergeIsConcatenation CopiesEqual JsonCarriesUser StartsAsTold
