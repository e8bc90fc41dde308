\* A ring of five, nothing lost, one flood at a time.
SPECIFICATION FairSpec
CONSTANTS
  Nodes = {1, 2, 3, 4, 5}
  RECV_NODE_ID = 1
  Link <- Ring
  INF = 7
  MAX_CNT = 2
  RX_CAP = 9
  LOSSY = FALSE
  ROUNDS_APART = TRUE
  SourceFrames = {}
  SourceRange = {}
INVARIANTS RouteInv MetricIsReal FloodsSettle
PROPERTY Converges
CHECK_DEADLOCK FALSE
