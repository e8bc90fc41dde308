CONSTANTS
  Clients = {radio, car, other}
  Car = car
  DefaultOwner = dflt
  NoRes = none
  Values = {v1, v2}
  Tags = {t1, t2}
  NoTag = notag
  MAX_DATA = 6
  GoodReader = TRUE
SPECIFICATION Spec
INVARIANTS ReadingInv SendFlagMatchesBus ReadingWithinTenure ReadingIsOfQueriedTag
PROPERTIES CommandBodyStable CommandCompletes ImplementsPort
