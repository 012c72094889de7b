CONSTANTS
  a = a
  b = b
  long = long
  torn = torn
  zeros = zeros
  Head <- MCHead
  Columns <- MCColumns
  Numbers <- MCNumbers
  LongNames = {long}
  MaxFields = 2
  MaxRows = 2
  Half32 = 2
  Half64 = 4
  Raw = Raw
  Empty = Empty
  Blank = Blank
  Null = Null
SPECIFICATION Spec
INVARIANT TypeOK
INVARIANT PrefixIsCopied
INVARIANT FoundByName
INVARIANT NothingLost
INVARIANT CrashesExplained
CHECK_DEADLOCK FALSE
