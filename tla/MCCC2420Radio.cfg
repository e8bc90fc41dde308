SPECIFICATION Spec
CONSTANTS
  Clients = {spi, car, c3}
  DefaultOwner = dflt
  NoRes = none
  SpiClients = {0, 3, 4}
  SPI = spi
  NO_HOLDER = 255
  CTL = 0
  TX = 3
  RX = 4
  ACK_REQS = {FALSE, TRUE}
INVARIANTS ArbInv RadioInv SentMeansSent
PROPERTIES ImplementsService ImplementsSpiService ImplementsSlots
