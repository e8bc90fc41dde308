CONSTANTS
  N = 2
  Buffers = {"car_packet", "data_packet"}
  NoMsg = "none"
  RadioFails = FALSE
  MAX_SEQ = 3
SPECIFICATION Spec
INVARIANTS RelayInv BusyMeansPending SuppressesOnlyOlder
PROPERTIES BusyClears UsesSlots
