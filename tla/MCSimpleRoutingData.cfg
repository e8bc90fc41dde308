\* Two nodes that hear the source, and one of them the other.
SPECIFICATION FairSpec
CONSTANTS
  Nodes = {1, 2}
  RECV_NODE_ID = 1
  Link <- OneWay
  INF = 7
  MAX_CNT = 1
  RX_CAP = 1
  LOSSY = TRUE
  ROUNDS_APART = FALSE
  SourceFrames <- DataFrames
  SourceRange = {1, 2}
PROPERTY BusyClears
CHECK_DEADLOCK FALSE
