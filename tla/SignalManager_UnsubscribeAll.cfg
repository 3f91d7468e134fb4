CONSTANTS
  speed = speed
  SPEED = SPEED
  rpm = rpm
  None = None
  Path = {speed, SPEED, rpm}
  Lower <- MCLower
  Value = {v1}
  Filters = {None}
  ReqId = {r1}
  SubId = {s1, s2}
  Client = {c1, c2}
  Recipient = {rcpt1}
SPECIFICATION Spec
PROPERTY RemovesAllClientSubscriptions
