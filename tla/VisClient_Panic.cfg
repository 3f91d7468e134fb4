CONSTANTS
  INTERVAL = INTERVAL
  None = None
  Lower <- MCLower
  I64_MAX = 3
  Value <- Counts
  ReqId <- MCReqId
  Path = {INTERVAL}
  Filters <- Unfiltered
  MaxReceived = 10
  Recipient = {}
  Texts <- MCTexts
  MaxRequests = 1
  MaxSources = 2
  SubId = {s1}
  Client = {c1}
  Calls <- GetCalls
  Readable <- Counts
SPECIFICATION ClientSpec
CHECK_DEADLOCK FALSE
INVARIANT AnswerBeforeEnd
