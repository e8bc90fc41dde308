SPECIFICATION Spec
CONSTANTS
  Relays = {r1, r2}
  PC = pc
  CAR = car
  Link <- FullLinks
  MAX_KEYS = 2
  MAX_SEQ = 2
  RX_CAP = 1
  CAREFUL = TRUE
SYMMETRY RelaySymmetry
INVARIANTS NetInv WholeIfPatient ObeysInOrder QuietMeansObeyed
CHECK_DEADLOCK FALSE
