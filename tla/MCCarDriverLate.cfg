CONSTANTS
  Clients = {radio, car}
  Car = car
  DefaultOwner = dflt
  NoRes = none
  Values = {}
  Tags = {t1}
  NoTag = notag
  MAX_DATA = 2
  GoodReader = FALSE
SPECIFICATION Spec
PROPERTIES CommandCompletes
