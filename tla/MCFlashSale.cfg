CONSTANTS
  Handlers = {h1, h2}
  Orders = {"order"}
  Payments = {"pay1", "pay2"}
  None = None
SPECIFICATION Spec
SYMMETRY Symmetry
INVARIANTS
  ResultsTravel
CHECK_DEADLOCK FALSE
