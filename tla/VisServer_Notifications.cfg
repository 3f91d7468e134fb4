CONSTANTS
  speed = speed
  SPEED = SPEED
  None = None
  Lower <- MCLower
  I64_MAX = 3
  Value <- MCValue
  ReqId <- MCReqId
  Path = {speed}
  Filters <- MCFilters
  MaxRequests = 2
  MaxSources = 3
  MaxReceived = 10
  SubId = {s1, s2}
  Client = {c1}
  Recipient = {}
  Texts <- SubscribeTexts
SPECIFICATION ServerSpec
SYMMETRY Symmetry
VIEW View
CHECK_DEADLOCK FALSE
INVARIANT ServerTypeOK
INVARIANT AcknowledgedBeforeNotified
INVARIANT SubscriptionsFollowCache
INVARIANT ClientHasLastValue
