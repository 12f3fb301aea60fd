SPECIFICATION Spec
CONSTANTS
  c1 = c1
  Clients = {c1}
  MaxMsgs = 2
  MaxConfirmWin = 1
  ReqCap = 1
  ResetCap = 1
  SeekBeyond = 1
  StartMsgs = 2
  StartDisabled = FALSE
  OrderedTopic = FALSE
  Ops = {"offset"}
  MaxAdmin = 1
INVARIANT NoMessageLost
