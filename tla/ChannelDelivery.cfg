SPECIFICATION Spec
CONSTANTS
  c1 = c1
  c2 = c2
  Clients = {c1, c2}
  MaxMsgs = 2
  MaxConfirmWin = 1
  ReqCap = 1
  ResetCap = 1
  SeekBeyond = 0
  StartMsgs = 2
  StartDisabled = FALSE
  OrderedTopic = FALSE
  Ops = {"timeout", "req", "defer"}
  MaxAdmin = 0
SYMMETRY Symmetry
INVARIANT TypeOK
INVARIANT ConfirmedOnlyDone
INVARIANT NoMessageLost
