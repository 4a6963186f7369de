CONSTANTS
  Users = {u}
  Workers = {w}
  Consumers = {c}
  Orders = {"order"}
  Strangers = {}
  Messages <- PaidAndFailed
  None = None
  MaxFaults = 1
SPECIFICATION Spec
PROPERTIES
  OrdersGetDecided
