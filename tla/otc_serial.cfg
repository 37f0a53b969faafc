SPECIFICATION Spec
CONSTANTS
  lumber = lumber nails = nails bolts = bolts yard = yard shed = shed bin = bin o1 = o1 o2 = o2 o3 = o3 ann = ann p1 = p1 p2 = p2
  Rows = {yard, shed, bin}
  Products = {lumber, nails}
  Orders = {o1, o2}
  Procs = {p1, p2}
  Nobody = Nobody NoRow = NoRow NoOrder = NoOrder
  ProductOf <- mcProductOf
  InitialStock <- mcStock
  Lines <- mcCrossing
  Customers = {ann}
  CustomerOf <- mcCustomer
  OrderTotal <- mcTotal
  InvoiceTotal <- mcTotal
  CreditLimit = 0
  Kinds = {"confirm", "cancel", "fulfill", "deliver"}
  Adjustments = {}
  Moves = {}
  MaxInFlight = 1
  MaxStockTasks = 0
  MaxQuantity = 3
  MaxEvents = 3
  Failures = TRUE
INVARIANTS TypeOK AllocationBacked StockShipped BilledOnce
PROPERTIES FinalStatus BookSpec
SYMMETRY Symmetry
CHECK_DEADLOCK FALSE
