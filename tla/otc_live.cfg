SPECIFICATION FairSpec
CONSTANTS
  lumber = lumber nails = nails bolts = bolts yard = yard shed = shed bin = bin o1 = o1 o2 = o2 o3 = o3 ann = ann p1 = p1 p2 = p2
  Rows = {yard, shed, bin}
  Products = {lumber, nails, bolts}
  Orders = {o1, o2, o3}
  Procs = {p1, p2}
  Nobody = Nobody NoRow = NoRow NoOrder = NoOrder
  ProductOf <- mcBolts
  InitialStock <- mcBoltStock
  Lines <- mcThreeOrders
  Customers = {ann}
  CustomerOf <- mcCustomer
  OrderTotal <- mcTotal
  InvoiceTotal <- mcTotal
  CreditLimit = 2
  Kinds = {"confirm", "cancel", "fulfill"}
  Adjustments = {}
  Moves = {}
  MaxInFlight = 1
  MaxStockTasks = 0
  MaxQuantity = 3
  MaxEvents = 3
  Failures = FALSE
PROPERTIES EveryRequestEnds CancelSucceeds
CHECK_DEADLOCK FALSE
