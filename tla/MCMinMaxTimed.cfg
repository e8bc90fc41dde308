CONSTANTS
  Nodes = {0, 1, 2, 3}
  ROOT_NODE_ID = 0
  Link <- Diamond
  Number <- DiamondNumbers
  NUM_MOD = 6
  SMALL_MID_VALUE = 1
  BIG_MID_VALUE = 4
  STALE_COUNT_THD = 1
  STALE_CAP = 2
  STABLE_THD = 1
  END_TIME = 2
  RADIO_FIRST = TRUE
  WELL_TIMED = TRUE
SPECIFICATION Spec
INVARIANTS RootKnows ReportIsTrue
