CONSTANTS
  INTERVAL = INTERVAL
  None = None
  Lower <- MCLower
  I64_MAX = 3
  Value <- Counts
  ReqId <- MCReqId
  Path = {INTERVAL}
  Filters <- Unfiltered
  MaxReceived = 10
  Recipient = {}
  Texts <- MCTexts
  MaxRequests = 1
  MaxSources = 3
  SubId = {s1}
  Client = {c1}
  Calls <- AllCalls
  Readable <- Counts
SPECIFICATION FairClientSpec
CHECK_DEADLOCK FALSE
PROPERTY GetReturns
PROPERTY StreamCatchesUp
PROPERTY DroppedStreamsAreCleanedUp
INVARIANT RawStreamBeginsWithAnswer
