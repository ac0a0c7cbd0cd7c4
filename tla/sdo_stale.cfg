SPECIFICATION SdoSpec
CONSTANTS
  LastWord = 1
  Segments = 2
  Params = 2
  Mappings = 1
  Refused = {2}
  LastNode = 2
  ServerNode = 2
  ScanAfter = 2
  TxDepth = 3
  RxDepth = 4
  Ops = {"set"}
  MaxRequests = 2
  MaxLoss = 0
  MaxEarly = 0
  MaxResets = 0
INVARIANTS OkMeansSet
CHECK_DEADLOCK FALSE
