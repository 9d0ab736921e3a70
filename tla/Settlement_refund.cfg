SPECIFICATION SettlementSpec
CONSTANTS
  p1 = p1
  p2 = p2
  Seats = {p1, p2}
  Failures = {"refund"}
INVARIANTS
  ReceiptIsPayout
CHECK_DEADLOCK FALSE
