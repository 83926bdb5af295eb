SPECIFICATION Spec
CONSTANTS
  Handlers = {h1, h2}
  Kinds = {"stripe", "stand-in"}
  Prices = {"team", "business", "legacy"}
  NoRow = NoRow
  MaxCheckouts = 2
  MaxEvents = 5
  MaxFaults = 1
SYMMETRY HandlerSymmetry
INVARIANTS
  TypeOK
  AppliedOnce
  RowIsOneEvent
  
  Settled
CHECK_DEADLOCK FALSE
