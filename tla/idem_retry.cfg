SPECIFICATION Spec
CONSTANTS
  a1 = a1 a2 = a2 b1 = b1 b2 = b2 n1 = n1
  alice = alice bob = bob key = key other = other none = none
  Requests = {a1, a2, b1, b2, n1}
  Caller <- mcCaller
  ClientKey <- mcClientKey
  Covered = {a1, a2, b1, b2}
  NoEntry = NoEntry
  MaxEntries = 1
  MaxRestarts = 1
INVARIANTS ExecutedOnce OneAnswer
CHECK_DEADLOCK FALSE
