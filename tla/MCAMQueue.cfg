CONSTANTS
  N = 3
  Buffers = {m1, m2}
  NoMsg = none
  RadioFails = TRUE
SPECIFICATION QueueSpec
INVARIANT QueueInv
PROPERTY ImplementsSlots
