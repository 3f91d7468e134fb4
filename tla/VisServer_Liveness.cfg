CONSTANTS
  speed = speed
  SPEED = SPEED
  None = None
  Lower <- MCLower
  I64_MAX = 3
  Value <- MCValue
  ReqId <- MCReqId
  Path = {speed}
  Filters <- MCFilters
  MaxRequests = 2
  MaxSources = 1
  MaxReceived = 10
  SubId = {s1}
  Client = {c1, c2}
  Recipient = {}
  Texts <- SubscribeTexts
SPECIFICATION FairServerSpec
CHECK_DEADLOCK FALSE
PROPERTY EventuallyAnswered
PROPERTY EventuallyStopped
