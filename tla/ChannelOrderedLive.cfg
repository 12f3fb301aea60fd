SPECIFICATION FairSpec
CONSTANTS
  c1 = c1
  Clients = {c1}
  MaxMsgs = 2
  MaxConfirmWin = 1
  ReqCap = 1
  ResetCap = 1
  SeekBeyond = 0
  StartMsgs = 2
  StartDisabled = FALSE
  OrderedTopic = TRUE
  Ops = {"patience", "req", "timeout"}
  MaxAdmin = 0
INVARIANT OrderedDelivery
INVARIANT NoMessageLost
PROPERTY EventuallyConfirmed
