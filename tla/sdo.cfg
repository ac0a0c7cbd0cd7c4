SPECIFICATION SdoFairSpec
CONSTANTS
  LastWord = 1
  Segments = 2
  Params = 2
  Mappings = 1
  Refused = {2}
  LastNode = 2
  ServerNode = 2
  ScanAfter = 2
  TxDepth = 3
  RxDepth = 4
  Ops = {"get", "set", "json", "add", "canmap", "stream", "nodeid"}
  MaxRequests = 2
  MaxLoss = 1
  MaxEarly = 1
  MaxResets = 1
INVARIANTS SdoTypeOK SchemaWholeUnmixed
PROPERTIES NoReplySwallowed HttpAnswered HandshakeRetried
CHECK_DEADLOCK FALSE
