SPECIFICATION Spec
CONSTANTS
  lumber = lumber nails = nails bolts = bolts yard = yard shed = shed bin = bin o1 = o1 o2 = o2 o3 = o3 ann = ann p1 = p1 p2 = p2
  Rows = {yard, shed}
  Products = {lumber}
  Orders = {o1, o2}
  Procs = {p1, p2}
  Nobody = Nobody NoRow = NoRow NoOrder = NoOrder
  ProductOf <- mcTwoYards
  InitialStock <- mcTwoStock
  Lines <- mcSingle
  Customers = {ann}
  CustomerOf <- mcCustomer
  OrderTotal <- mcTotal
  InvoiceTotal <- mcTotal
  CreditLimit = 0
  Kinds = {"confirm", "cancel", "fulfill", "deliver"}
  Adjustments = {}
  Moves = {}
  MaxInFlight = 2
  MaxStockTasks = 0
  MaxQuantity = 3
  MaxEvents = 3
  Failures = FALSE
INVARIANTS NoOversell LedgersAgree EveryInvoiceAnnounced FulfilledIsBilled
SYMMETRY Symmetry
CHECK_DEADLOCK FALSE
