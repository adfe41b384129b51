\* Two overlapping PerformTransaction calls on one transaction.
CONSTANTS
  t1 = t1  t2 = t2  t3 = t3  o1 = o1  o2 = o2  w1 = w1  w2 = w2
  NoTx = NoTx
  Tx = {t1, t2}
  Order = {o1, o2}
  Subscription = {"user-course"}
  Worker = {w1, w2}
  OrderOf <- MCOnePerOrder
  SubOf <- MCSubOf
  Goods <- MCGoods
  Overlap = TRUE
  MaxRequests = 3
  MaxAborts = 0
SPECIFICATION Spec
INVARIANTS PerformedOnce
CHECK_DEADLOCK FALSE
