SPECIFICATION Spec
CONSTANTS
  c1 = c1
  Clients = {c1}
  MaxMsgs = 2
  MaxConfirmWin = 0
  ReqCap = 1
  ResetCap = 1
  SeekBeyond = 0
  StartMsgs = 2
  StartDisabled = TRUE
  OrderedTopic = FALSE
  Ops = {"disable", "slave", "offset", "order", "unorder", "toend", "skip", "sample", "enable"}
  MaxAdmin = 2
INVARIANT CursorInv
INVARIANT NoMessageLost
PROPERTY CursorRefinement
