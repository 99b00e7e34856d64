SPECIFICATION FairSpec
CONSTANTS
  d1 = d1
  d2 = d2
  t1 = t1
  t2 = t2
  t3 = t3
  o1 = o1
  o2 = o2
  Unknown = Unknown
  Pods = {d1}
  Txs = {t1}
  Orders = {o1}
  OrderOf <- OneOrder
  Amount <- Short
  Price <- FullPrice
  Width = 2
  RequiredConfirmations = 1
  ReorgDepth = 1
  MaxHead = 2
  BatchSize = 1
  StartBlock = 0
  WebSocket = FALSE
  Faults = {"db"}
  MaxFaults = 1
PROPERTY LogPersisted
