CONSTANTS
  speed = speed
  SPEED = SPEED
  None = None
  Lower <- MCLower
  I64_MAX = 3
  Value <- OneValue
  ReqId <- MCReqId
  Path = {speed}
  Filters = {None}
  MaxRequests = 3
  MaxSources = 1
  MaxReceived = 10
  SubId = {s1, s2}
  Client = {c1, c2}
  Recipient = {rcpt1}
  Texts <- RequestTexts
SPECIFICATION ServerSpec
SYMMETRY Symmetry
VIEW View
CHECK_DEADLOCK FALSE
INVARIANT AnsweredOnce
INVARIANT AnsweredInOrder
INVARIANT ListedIffRunning
INVARIANT DisconnectCleansUp
