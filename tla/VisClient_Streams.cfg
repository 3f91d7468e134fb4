CONSTANTS
  INTERVAL = INTERVAL
  None = None
  Lower <- MCLower
  I64_MAX = 3
  Value <- Counts
  ReqId <- MCReqId
  Path = {INTERVAL}
  Filters <- Unfiltered
  MaxReceived = 10
  Recipient = {}
  Texts <- MCTexts
  MaxRequests = 2
  MaxSources = 3
  SubId = {s1, s2}
  Client = {c1, c2}
  Calls <- GetSubscribeAndEnd
  Readable <- NotOne
SPECIFICATION ClientSpec
SYMMETRY Symmetry
VIEW ClientView
CHECK_DEADLOCK FALSE
INVARIANT ClientTypeOK
INVARIANT GaplessStream
INVARIANT ObservationsNeverGoBack
INVARIANT GetHasItsAnswer
PROPERTY UnsubscribeAllEndsNothing
