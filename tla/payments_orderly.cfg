\* The gateway waits for an answer before the next request on a transaction.
CONSTANTS
  t1 = t1  t2 = t2  t3 = t3  o1 = o1  o2 = o2  w1 = w1  w2 = w2
  NoTx = NoTx
  Tx = {t1, t2, t3}
  Order = {o1, o2}
  Subscription = {"user-course"}
  Worker = {w1, w2}
  OrderOf <- MCTwoPerOrder
  SubOf <- MCSubOf
  Goods <- MCGoods
  Overlap = FALSE
  MaxRequests = 4
  MaxAborts = 1
SPECIFICATION FairSpec
INVARIANTS DeliveredOnlyWhenPaid RecordsAgree
PROPERTIES ImplementsContract CancelIsFinal EveryPaymentDelivered
CHECK_DEADLOCK FALSE
