CONSTANTS
  speed = speed
  u1 = u1
  u2 = u2
  None = None
  I64_MAX = 3
  Path = {speed}
  ReqId <- MCReqId
  SubId <- MCSubId
  Value <- MCValue
  Filters <- MCFilters
  HandWritten <- MCHandWritten
SPECIFICATION Spec
CHECK_DEADLOCK FALSE
INVARIANT LibraryIsUnderstood
INVARIANT AnswerIsLinked
INVARIANT AnswerIsReadAsMeant
