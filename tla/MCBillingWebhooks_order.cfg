SPECIFICATION Spec
CONSTANTS
  Handlers = {h1}
  Kinds = {"stripe"}
  Prices = {"team", "business"}
  NoRow = NoRow
  MaxCheckouts = 2
  MaxEvents = 6
  MaxFaults = 0
INVARIANTS
  OrderSafe
CHECK_DEADLOCK FALSE
