SPECIFICATION Spec
CHECK_DEADLOCK FALSE
CONSTANTS
  cart = cart
  stock = stock
  tool = tool
  api = api
  prod = prod
  ops = ops
  Nowhere = Nowhere
  NoService = NoService
  NoNamespace = NoNamespace
  Workloads = {cart, stock, tool}
  Services = {api}
  Namespaces = {prod, ops}
  NamespaceOf <- MCNamespaceOf
  Namesake <- MCNamesake
  Requests <- RemoteReport
  Traffics <- AllTraffics
  Measurements <- OneMeasurement
  Thresholds = {0}
INVARIANTS ClassifiesTheInjectedTarget
