CONSTANTS
  Handlers = {h1, h2}
  Orders = {"order"}
  Payments = {"pay"}
  None = None
SPECIFICATION Spec
INVARIANTS
  PaidOrderLeavesWaitPay
CHECK_DEADLOCK FALSE
