SPECIFICATION FairSpec
CHECK_DEADLOCK FALSE
CONSTANTS
  cart = cart
  stock = stock
  tool = tool
  api = api
  prod = prod
  ops = ops
  Nowhere = Nowhere
  NoService = NoService
  NoNamespace = NoNamespace
  Workloads = {cart, stock, tool}
  Services = {api}
  Namespaces = {prod, ops}
  NamespaceOf <- MCNamespaceOf
  Namesake <- MCNamesake
  Requests <- AllRequests
  Traffics <- AllTraffics
  Measurements <- AllMeasurements
  Thresholds = {0, 5}
INVARIANTS TypeOK DirectIffDownstream OnlyDegradedAreListed WorseIsListedToo
PROPERTIES Terminates
