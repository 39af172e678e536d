SPECIFICATION AnswerSpec
CONSTANTS
  Text <- NarrowTexts
  Limit = 7
  MessageLimit = 13
  Suffix = 2
  MaxInline = 2
  File = {f1, s1, b1}
  Svg = {s1}
  Big = {b1}
  Inline = s1
  Listing <- Listings
  Batch = 2
INVARIANTS
  SafeToSend
CHECK_DEADLOCK FALSE
