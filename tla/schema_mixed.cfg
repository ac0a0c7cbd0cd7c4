SPECIFICATION SdoSpec
CONSTANTS
  LastWord = 1
  Segments = 3
  Params = 1
  Mappings = 1
  Refused = {}
  LastNode = 1
  ServerNode = 1
  ScanAfter = 2
  TxDepth = 8
  RxDepth = 6
  Ops = {"nodeid"}
  MaxRequests = 1
  MaxLoss = 0
  MaxEarly = 4
  MaxResets = 0
INVARIANT SchemaWhole
CHECK_DEADLOCK FALSE
