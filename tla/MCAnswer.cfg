SPECIFICATION AnswerLive
CONSTANTS
  Text <- AnswerTexts
  Limit = 7
  MessageLimit = 13
  Suffix = 2
  MaxInline = 2
  File = {f1, s1, b1}
  Svg = {s1}
  Big = {b1}
  Inline = s1
  Listing <- Listings
  Batch = 2
INVARIANTS
  FencesSurvive
  NothingLost
  DiscordTakesIt
  NeverSilent
  ListedFilesArrive
  AttachedOnce
  AnswerTypeOK
  EndsLabelled
PROPERTIES
  FinalStatusStays
  AnswerEnds
CHECK_DEADLOCK FALSE
