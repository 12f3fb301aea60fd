SPECIFICATION FairSpec
CONSTANTS
  c1 = c1
  Clients = {c1}
  MaxMsgs = 2
  MaxConfirmWin = 1
  ReqCap = 1
  ResetCap = 1
  SeekBeyond = 0
  StartMsgs = 1
  StartDisabled = FALSE
  OrderedTopic = FALSE
  Ops = {"timeout", "patience", "defer", "heartbeat", "close", "req"}
  MaxAdmin = 0
INVARIANT NoMessageLost
 
