CONSTANTS
  INTERVAL = INTERVAL
  LAST_FRAME_ID = LAST_FRAME_ID
  PRINT_SET = PRINT_SET
  None = None
  Path <- Paths
  Filters = {}
  SubId = {}
  ReqId <- MCReqId
  Value <- MCValue
  Worker = {w1, w2}
  Client = {c1, c2}
  Frame = {f1, f2}
  MaxTicks = 2
  MaxInputs = 2
SPECIFICATION Spec
SYMMETRY Symmetry
CHECK_DEADLOCK FALSE
INVARIANT TypeOK
INVARIANT SetIsAccepted
INVARIANT SetReachesOneRecipient
INVARIANT CounterNeverGoesBack
INVARIANT FramesTakenAreDelivered
