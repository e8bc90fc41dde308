CONSTANTS
  Nodes = {0, 1, 2}
  ROOT_NODE_ID = 0
  Link <- Triangle
  Number <- TriangleNumbers
  NUM_MOD = 4
  SMALL_MID_VALUE = 1
  BIG_MID_VALUE = 2
  STALE_COUNT_THD = 1
  STALE_CAP = 2
  STABLE_THD = 1
  END_TIME = 3
  RADIO_FIRST = TRUE
  WELL_TIMED = FALSE
SPECIFICATION Spec
INVARIANTS MinMaxInv BusyMeansPending
PROPERTIES FloodEnds RootReports
