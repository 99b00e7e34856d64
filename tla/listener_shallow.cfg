SPECIFICATION Spec
CONSTANTS
  d1 = d1
  d2 = d2
  t1 = t1
  t2 = t2
  t3 = t3
  o1 = o1
  o2 = o2
  Unknown = Unknown
  Pods = {d1}
  Txs = {t1}
  Orders = {o1}
  OrderOf <- OneOrder
  Amount <- Twice
  Price <- FullPrice
  Width = 2
  RequiredConfirmations = 1
  ReorgDepth = 1
  MaxHead = 4
  BatchSize = 2
  StartBlock = 0
  WebSocket = TRUE
  Faults = {"reorg"}
  MaxFaults = 1
INVARIANT PaidStays
