--------------------------- MODULE PaymentsProofs ---------------------------
(***************************************************************************)
(* What holds of the Payme handlers for every set of transactions, orders  *)
(* and concurrent handlers, with no bound on requests and failures other   *)
(* than the model's own.                                                   *)
(***************************************************************************)
EXTENDS PaymentsContract, TLAPS

-----------------------------------------------------------------------------
(***************************************************************************)
(* Type correctness.                                                       *)
(***************************************************************************)

\* Initially every row and handler has its type.
LEMMA TypeInit == Init => TypeOK
  BY PaymentsAssumption
  DEF Init, TypeOK, Idle, Request, Step, TxState, TransactionState, OrderStatus,
      Payment

\* Moving a busy handler to another step, or to idle, keeps req typed.
LEMMA GotoType ==
  ASSUME TypeOK, NEW w \in Worker, NEW s \in Step, Goto(w, s), req[w].step # "idle"
  PROVE  /\ req' \in [Worker -> Request]
         /\ \A v \in Worker : req'[v].step # "idle" => req'[v].tx \in Tx
         /\ req[w].tx \in Tx /\ req[w].id \in Nat /\ req[w].seen \in TxState
         /\ OrderOf[req[w].tx] \in Order
  BY PaymentsAssumption DEF TypeOK, Goto, Request

LEMMA FinishType ==
  ASSUME TypeOK, NEW w \in Worker, Finish(w), req[w].step # "idle"
  PROVE  /\ req' \in [Worker -> Request]
         /\ \A v \in Worker : req'[v].step # "idle" => req'[v].tx \in Tx
         /\ req[w].tx \in Tx
         /\ OrderOf[req[w].tx] \in Order
<1>1. Idle \in Request /\ Idle.step = "idle"
  BY DEF Idle, Request, Step, TxState
<1>2. QED
  BY <1>1, PaymentsAssumption DEF TypeOK, Finish

\* The next step of a handler that depends on the order's goods is a step.
LEMMA NextSteps ==
  ASSUME NEW o
  PROVE  /\ AfterPay(o) \in Step /\ AfterChat(o) \in Step
         /\ AfterCancel(o) \in Step /\ AfterCancelChat(o) \in Step
  BY DEF AfterPay, AfterChat, AfterCancel, AfterCancelChat, Step

\* Accepting a request gives the handler a typed record.
LEMMA TypeAccept ==
  ASSUME TypeOK, NEW w \in Worker, Accept(w)
  PROVE  TypeOK'
<1>1. PICK t \in Tx, s \in Step : Begin(w, t, s)
  BY NextSteps
  DEF Accept, CreateTransaction, PerformTransaction, CancelTransaction, Step
<1>2. QED
  BY <1>1 DEF Begin, TypeOK, Request, ledger

\* The last write of a handler keeps the types.
LEMMA TypeCloseOrder ==
  ASSUME TypeOK, NEW w \in Worker, NEW s \in Step \ {"idle"}, NEW st \in OrderStatus,
         CloseOrder(w, s, st)
  PROVE  TypeOK'
<1>1. Finish(w) /\ req[w].step # "idle"
  BY DEF CloseOrder
<1>2. QED
  BY <1>1, FinishType DEF CloseOrder, TypeOK, ledger

\* A step of createTransaction keeps the types.
LEMMA TypeCreateStep ==
  ASSUME TypeOK, NEW w \in Worker, CreateStep(w)
  PROVE  TypeOK'
<1>1. CASE FilterTransaction(w)
  <2>1. req[w].step # "idle" /\ (Goto(w, "insert") \/ Finish(w))
    BY <1>1 DEF FilterTransaction
  <2>2. "insert" \in Step
    BY DEF Step
  <2>3. QED
    BY <1>1, <2>1, <2>2, GotoType, FinishType DEF FilterTransaction, TypeOK, ledger
<1>2. CASE InsertTransaction(w)
  <2>1. "orderPending" \in Step
    BY DEF Step
  <2>2. QED
    BY <1>2, <2>1, GotoType DEF InsertTransaction, TypeOK, ledger, TxState,
       TransactionState
<1>3. CASE OrderPending(w)
  BY <1>3, TypeCloseOrder DEF OrderPending, Step, OrderStatus
<1>4. CASE ExpireTransaction(w)
  <2>1. PICK s \in Step : Goto(w, s) /\ req[w].step # "idle"
    BY <1>4 DEF ExpireTransaction, Step
  <2>2. QED
    BY <1>4, <2>1, GotoType DEF ExpireTransaction, TypeOK, ledger, TxState,
       TransactionState
<1>5. CASE OrderTimeout(w)
  BY <1>5, TypeCloseOrder DEF OrderTimeout, Step, OrderStatus
<1>6. QED
  BY <1>1, <1>2, <1>3, <1>4, <1>5 DEF CreateStep

\* A step of performTransaction keeps the types.
LEMMA TypePerformStep ==
  ASSUME TypeOK, NEW w \in Worker, PerformStep(w)
  PROVE  TypeOK'
<1>1. CASE Pay(w)
  <2>1. Goto(w, AfterPay(OrderOf[req[w].tx])) /\ req[w].step # "idle"
    BY <1>1 DEF Pay
  <2>2. QED
    BY <1>1, <2>1, GotoType, NextSteps DEF Pay, TypeOK, ledger, TxState,
       TransactionState, Payment
<1>2. CASE ChatPaid(w)
  <2>1. "chatHistory" \in Step
    BY DEF Step
  <2>2. QED
    BY <1>2, <2>1, GotoType DEF ChatPaid, TypeOK, ledger
<1>3. CASE ChatHistory(w)
  BY <1>3, GotoType, NextSteps DEF ChatHistory, TypeOK
<1>4. CASE FindUserCourse(w)
  <2> DEFINE e == enrolments[SubOf[OrderOf[req[w].tx]]] > 0
  <2>1. e \in BOOLEAN
    OBVIOUS
  <2>2. "enrol" \in Step
    BY DEF Step
  <2>3. req[w].step = "findCourse" /\ w \in DOMAIN req
    BY <1>4 DEF FindUserCourse, TypeOK
  <2>4. req' = [req EXCEPT ![w].step = "enrol", ![w].enrolled = e]
    BY <1>4 DEF FindUserCourse
  <2> HIDE DEF e
  <2>5. /\ req' \in [Worker -> Request]
        /\ \A v \in Worker : req'[v].step # "idle" => req'[v].tx \in Tx
    BY <2>1, <2>2, <2>3, <2>4 DEF TypeOK, Request
  <2>6. QED
    BY <1>4, <2>5 DEF FindUserCourse, TypeOK, ledger
<1>5. CASE Enrol(w)
  <2>1. "joinGroup" \in Step
    BY DEF Step
  <2>2. QED
    BY <1>5, <2>1, GotoType DEF Enrol, TypeOK, ledger
<1>6. CASE JoinGroup(w)
  <2>1. "courseHistory" \in Step
    BY DEF Step
  <2>2. QED
    BY <1>6, <2>1, GotoType DEF JoinGroup, TypeOK
<1>7. CASE CourseHistory(w)
  <2>1. "orderPaid" \in Step
    BY DEF Step
  <2>2. QED
    BY <1>7, <2>1, GotoType DEF CourseHistory, TypeOK
<1>8. CASE OrderPaid(w)
  BY <1>8, TypeCloseOrder DEF OrderPaid, Step, OrderStatus
<1>9. QED
  BY <1>1, <1>2, <1>3, <1>4, <1>5, <1>6, <1>7, <1>8 DEF PerformStep

\* A step of cancelTransaction keeps the types.
LEMMA TypeCancelStep ==
  ASSUME TypeOK, NEW w \in Worker, CancelStep(w)
  PROVE  TypeOK'
<1>1. CASE CancelTx(w)
  <2>1. "cancelOrder" \in Step
    BY DEF Step
  <2>2. QED
    BY <1>1, <2>1, GotoType DEF CancelTx, TypeOK, ledger, TxState, TransactionState,
       Negated
<1>2. CASE CancelOrder(w)
  BY <1>2, GotoType, NextSteps DEF CancelOrder, TypeOK, ledger, OrderStatus
<1>3. CASE CancelChat(w)
  BY <1>3, GotoType, NextSteps DEF CancelChat, TypeOK, ledger
<1>4. CASE CancelTariff(w)
  <2>1. "cancelClose" \in Step
    BY DEF Step
  <2>2. QED
    BY <1>4, <2>1, GotoType, FinishType DEF CancelTariff, TypeOK, ledger
<1>5. CASE CancelClose(w)
  BY <1>5, TypeCloseOrder DEF CancelClose, Step, OrderStatus
<1>6. QED
  BY <1>1, <1>2, <1>3, <1>4, <1>5 DEF CancelStep

\* Every step of the system keeps the types.
LEMMA TypeStep == TypeOK /\ [Next]_vars => TypeOK'
<1> SUFFICES ASSUME TypeOK, [Next]_vars PROVE TypeOK'
  OBVIOUS
<1>1. CASE \E o \in Order : CreateOrder(o)
  BY <1>1 DEF CreateOrder, TypeOK, OrderStatus, ledger
<1>2. CASE \E t \in Tx : Expire(t)
  BY <1>2 DEF Expire, TypeOK, ledger
<1>3. ASSUME NEW w \in Worker, Accept(w) \/ Handle(w)
      PROVE  TypeOK'
  BY <1>3, TypeAccept, TypeCreateStep, TypePerformStep, TypeCancelStep DEF Handle
<1>4. ASSUME NEW w \in Worker, Abort(w)
      PROVE  TypeOK'
  BY <1>4 DEF Abort, Finish, TypeOK, Request, Idle, Step, ledger, TxState
<1>5. CASE UNCHANGED vars
  BY <1>5 DEF vars, TypeOK
<1>6. QED
  BY <1>1, <1>2, <1>3, <1>4, <1>5 DEF Next

\* Rows hold values of their enums, and every handler in flight works on a
\* transaction.
THEOREM TypeCorrect == Spec => []TypeOK
  BY TypeInit, TypeStep, PTL DEF Spec

-----------------------------------------------------------------------------
(***************************************************************************)
(* Deliveries are paid for.  The invariant is strengthened with what the   *)
(* handlers in the delivery half of performTransaction know.               *)
(***************************************************************************)
Delivering == {"chatPaid", "chatHistory", "findCourse", "enrol", "joinGroup",
               "courseHistory", "orderPaid"}

\* A handler that delivers has itself written PAID for its transaction.
PaidBeforeDelivery ==
  \A w \in Worker :
    req[w].step \in Delivering => [id |-> req[w].id, tx |-> req[w].tx] \in payments

ReceiptInv ==
  /\ TypeOK
  /\ PaidBeforeDelivery
  /\ DeliveredOnlyWhenPaid
  /\ PaidOrderHasReceipt

\* The request that delivers is among the receipts of its order.
LEMMA DeliveringReceipt ==
  ASSUME TypeOK, PaidBeforeDelivery, NEW w \in Worker, req[w].step \in Delivering
  PROVE  req[w].id \in ReceiptsOf(OrderOf[req[w].tx])
<1> DEFINE p == [id |-> req[w].id, tx |-> req[w].tx]
<1>1. p \in payments /\ p.id = req[w].id /\ p.tx = req[w].tx
  BY DEF PaidBeforeDelivery
<1> HIDE DEF p
<1>2. QED
  BY <1>1 DEF ReceiptsOf

\* Receipts are never withdrawn.
LEMMA ReceiptsGrow ==
  ASSUME payments \subseteq payments', NEW o
  PROVE  ReceiptsOf(o) \subseteq ReceiptsOf(o)'
  BY DEF ReceiptsOf

\* A step that delivers nothing and moves no handler into the delivery half keeps
\* the invariant, provided it marks no order PAID.
LEMMA ReceiptFrame ==
  ASSUME ReceiptInv, TypeOK', UNCHANGED ledger, payments \subseteq payments',
         \A w \in Worker : req'[w].step \in Delivering =>
            \/ req[w].step \in Delivering /\ req'[w].id = req[w].id
                                          /\ req'[w].tx = req[w].tx
            \/ [id |-> req'[w].id, tx |-> req'[w].tx] \in payments',
         \A o \in Order : order'[o] = "PAID" => order[o] = "PAID" \/ ReceiptsOf(o)' # {}
  PROVE  ReceiptInv'
<1>1. PaidBeforeDelivery'
  BY DEF ReceiptInv, PaidBeforeDelivery
<1>2. DeliveredOnlyWhenPaid'
  BY ReceiptsGrow DEF ReceiptInv, DeliveredOnlyWhenPaid, ledger
<1>3. PaidOrderHasReceipt'
  BY ReceiptsGrow DEF ReceiptInv, PaidOrderHasReceipt
<1>4. QED
  BY <1>1, <1>2, <1>3 DEF ReceiptInv

\* Steps of one handler: what Goto and Finish do to the records in req.
LEMMA GotoFrame ==
  ASSUME TypeOK, NEW w \in Worker, NEW s, Goto(w, s)
  PROVE  \A v \in Worker : /\ req'[v].id = req[v].id /\ req'[v].tx = req[v].tx
                           /\ req'[v].step = IF v = w THEN s ELSE req[v].step
  BY DEF TypeOK, Goto, Request

LEMMA FinishFrame ==
  ASSUME TypeOK, NEW w \in Worker, Finish(w)
  PROVE  \A v \in Worker : IF v = w THEN req'[v].step = "idle" ELSE req'[v] = req[v]
  BY DEF TypeOK, Finish, Idle

\* Accepting a request starts no delivery.
LEMMA ReceiptAccept ==
  ASSUME ReceiptInv, TypeOK', NEW w \in Worker, Accept(w)
  PROVE  ReceiptInv'
<1>1. \E t \in Tx : \E s : Begin(w, t, s) /\ s \notin Delivering
  BY DEF Accept, CreateTransaction, PerformTransaction, CancelTransaction, Delivering,
     AfterCancel, AfterCancelChat
<1>2. \A v \in Worker : req'[v].step \in Delivering => v # w /\ req'[v] = req[v]
  BY <1>1 DEF Begin, ReceiptInv, TypeOK
<1>3. UNCHANGED <<ledger, payments, order>>
  BY <1>1 DEF Begin
<1>4. QED
  BY <1>2, <1>3, ReceiptFrame

\* The steps of createTransaction and the expiry deliver nothing.
LEMMA ReceiptCreateStep ==
  ASSUME ReceiptInv, TypeOK', NEW w \in Worker, CreateStep(w)
  PROVE  ReceiptInv'
<1>1. UNCHANGED <<ledger, payments>>
  BY DEF CreateStep, FilterTransaction, InsertTransaction, OrderPending, CloseOrder,
     ExpireTransaction, OrderTimeout
<1>2. \/ Finish(w)
      \/ \E s \in {"insert", "orderPending", "createTimeout", "performTimeout"} :
            Goto(w, s)
  BY DEF CreateStep, FilterTransaction, InsertTransaction, OrderPending, CloseOrder,
     ExpireTransaction, OrderTimeout
<1>3. \A v \in Worker : req'[v].step \in Delivering =>
         /\ req[v].step \in Delivering
         /\ req'[v].id = req[v].id /\ req'[v].tx = req[v].tx
  BY <1>2, GotoFrame, FinishFrame DEF ReceiptInv, Delivering
<1>4. \A o \in Order : order'[o] = "PAID" => order[o] = "PAID"
  BY DEF CreateStep, FilterTransaction, InsertTransaction, OrderPending, CloseOrder,
     ExpireTransaction, OrderTimeout, ReceiptInv, TypeOK
<1>5. QED
  BY <1>1, <1>3, <1>4, ReceiptFrame

\* The steps of cancelTransaction deliver nothing.
LEMMA ReceiptCancelStep ==
  ASSUME ReceiptInv, TypeOK', NEW w \in Worker, CancelStep(w)
  PROVE  ReceiptInv'
<1>1. UNCHANGED <<ledger, payments>>
  BY DEF CancelStep, CancelTx, CancelOrder, CancelChat, CancelTariff, CancelClose,
     CloseOrder
<1>2. \/ Finish(w)
      \/ \E s \in {"cancelOrder", "cancelChat", "cancelTariff", "cancelClose"} :
            Goto(w, s)
  BY DEF CancelStep, CancelTx, CancelOrder, CancelChat, CancelTariff, CancelClose,
     CloseOrder, AfterCancel, AfterCancelChat
<1>3. \A v \in Worker : req'[v].step \in Delivering =>
         /\ req[v].step \in Delivering
         /\ req'[v].id = req[v].id /\ req'[v].tx = req[v].tx
  BY <1>2, GotoFrame, FinishFrame DEF ReceiptInv, Delivering
<1>4. \A o \in Order : order'[o] = "PAID" => order[o] = "PAID"
  BY DEF CancelStep, CancelTx, CancelOrder, CancelChat, CancelTariff, CancelClose,
     CloseOrder, ReceiptInv, TypeOK
<1>5. QED
  BY <1>1, <1>3, <1>4, ReceiptFrame

\* The steps of performTransaction deliver for a receipt they hold.
LEMMA ReceiptPerformStep ==
  ASSUME ReceiptInv, TypeOK', NEW w \in Worker, PerformStep(w)
  PROVE  ReceiptInv'
<1> DEFINE o == OrderOf[req[w].tx]
<1>0. TypeOK
  BY DEF ReceiptInv
<1>1. CASE Pay(w)
  <2>1. /\ payments' = payments \cup {[id |-> req[w].id, tx |-> req[w].tx]}
        /\ UNCHANGED <<ledger, order>>
    BY <1>1 DEF Pay
  <2>2. \A v \in Worker : /\ req'[v].id = req[v].id /\ req'[v].tx = req[v].tx
                          /\ v # w => req'[v].step = req[v].step
    BY <1>0, <1>1, GotoFrame DEF Pay
  <2>3. QED
    BY <2>1, <2>2, ReceiptFrame
<1>2. CASE ChatPaid(w) \/ FindUserCourse(w) \/ Enrol(w)
  <2>1. UNCHANGED <<ledger, payments, order>> /\ req[w].step \in Delivering
    BY <1>2 DEF ChatPaid, FindUserCourse, Enrol, Delivering
  <2>2. \A v \in Worker : /\ req'[v].id = req[v].id /\ req'[v].tx = req[v].tx
                          /\ v # w => req'[v].step = req[v].step
    BY <1>0, <1>2, GotoFrame DEF ChatPaid, FindUserCourse, Enrol, TypeOK, Request
  <2>3. QED
    BY <2>1, <2>2, ReceiptFrame
<1>3. CASE ChatHistory(w) \/ JoinGroup(w) \/ CourseHistory(w)
  <2>1. req[w].step \in Delivering /\ UNCHANGED <<payments, order>>
    BY <1>3 DEF ChatHistory, JoinGroup, CourseHistory, Delivering
  <2>2. req[w].id \in ReceiptsOf(o)
    BY <1>0, <2>1, DeliveringReceipt DEF ReceiptInv
  <2>3. /\ chatHistory' \in {chatHistory, [chatHistory EXCEPT ![o] = @ \cup {req[w].id}]}
        /\ joins' \in {joins, [joins EXCEPT ![o] = @ \cup {req[w].id}]}
        /\ courseHistory' \in {courseHistory,
                               [courseHistory EXCEPT ![o] = @ \cup {req[w].id}]}
    BY <1>3 DEF ChatHistory, JoinGroup, CourseHistory
  <2>4. \A q \in Order : /\ chatHistory'[q] \subseteq chatHistory[q] \cup ReceiptsOf(q)
                         /\ joins'[q] \subseteq joins[q] \cup ReceiptsOf(q)
                         /\ courseHistory'[q] \subseteq courseHistory[q] \cup ReceiptsOf(q)
    BY <1>0, <2>2, <2>3 DEF TypeOK
  <2>5. DeliveredOnlyWhenPaid'
    BY <2>1, <2>4 DEF ReceiptInv, DeliveredOnlyWhenPaid, ReceiptsOf
  <2>6. \A v \in Worker : /\ req'[v].id = req[v].id /\ req'[v].tx = req[v].tx
                          /\ v # w => req'[v].step = req[v].step
    BY <1>0, <1>3, GotoFrame DEF ChatHistory, JoinGroup, CourseHistory
  <2>7. PaidBeforeDelivery'
    BY <2>1, <2>6 DEF ReceiptInv, PaidBeforeDelivery
  <2>8. PaidOrderHasReceipt'
    BY <2>1 DEF ReceiptInv, PaidOrderHasReceipt, ReceiptsOf
  <2>9. QED
    BY <2>5, <2>7, <2>8 DEF ReceiptInv
<1>4. CASE OrderPaid(w)
  <2>1. /\ req[w].step \in Delivering
        /\ UNCHANGED <<ledger, payments>>
        /\ order' = [order EXCEPT ![o] = "PAID"]
        /\ Finish(w)
    BY <1>4 DEF OrderPaid, CloseOrder, Delivering
  <2>2. \A q \in Order : q = o => ReceiptsOf(q) # {}
    BY <1>0, <2>1, DeliveringReceipt DEF ReceiptInv
  <2>3. \A q \in Order : order'[q] = "PAID" => order[q] = "PAID" \/ ReceiptsOf(q)' # {}
    BY <1>0, <2>1, <2>2, ReceiptsGrow DEF TypeOK
  <2>4. \A v \in Worker : req'[v].step \in Delivering => req'[v] = req[v]
    BY <1>0, <2>1, FinishFrame DEF Delivering
  <2>5. QED
    BY <2>1, <2>3, <2>4, ReceiptFrame
<1>5. QED
  BY <1>1, <1>2, <1>3, <1>4 DEF PerformStep

LEMMA ReceiptInit == Init => ReceiptInv
<1> SUFFICES ASSUME Init PROVE ReceiptInv
  OBVIOUS
<1>1. PaidBeforeDelivery /\ DeliveredOnlyWhenPaid /\ PaidOrderHasReceipt
  BY DEF Init, PaidBeforeDelivery, DeliveredOnlyWhenPaid, PaidOrderHasReceipt, Idle,
     Delivering
<1>2. QED
  BY <1>1, TypeInit DEF ReceiptInv

LEMMA ReceiptStep == ReceiptInv /\ [Next]_vars => ReceiptInv'
<1> SUFFICES ASSUME ReceiptInv, [Next]_vars PROVE ReceiptInv'
  OBVIOUS
<1>0. TypeOK /\ TypeOK'
  BY TypeStep DEF ReceiptInv
<1>1. ASSUME NEW o \in Order, CreateOrder(o)
      PROVE  ReceiptInv'
  <2>1. UNCHANGED <<ledger, payments, req>>
        /\ \A q \in Order : order'[q] = "PAID" => order[q] = "PAID"
    BY <1>0, <1>1 DEF CreateOrder, TypeOK
  <2>2. QED
    BY <1>0, <2>1, ReceiptFrame
<1>2. ASSUME NEW t \in Tx, Expire(t)
      PROVE  ReceiptInv'
  BY <1>0, <1>2, ReceiptFrame DEF Expire
<1>3. ASSUME NEW w \in Worker, Accept(w) \/ Handle(w)
      PROVE  ReceiptInv'
  BY <1>0, <1>3, ReceiptAccept, ReceiptCreateStep, ReceiptPerformStep, ReceiptCancelStep
  DEF Handle
<1>4. ASSUME NEW w \in Worker, Abort(w)
      PROVE  ReceiptInv'
  <2>1. UNCHANGED <<ledger, payments, order>> /\ Finish(w)
    BY <1>4 DEF Abort
  <2>2. \A v \in Worker : req'[v].step \in Delivering => req'[v] = req[v]
    BY <1>0, <2>1, FinishFrame DEF Delivering
  <2>3. QED
    BY <1>0, <2>1, <2>2, ReceiptFrame
<1>5. CASE UNCHANGED vars
  BY <1>0, <1>5, ReceiptFrame DEF vars, ledger
<1>6. QED
  BY <1>1, <1>2, <1>3, <1>4, <1>5 DEF Next

\* Every seat, payment history row and closed order is backed by a PAID that was
\* written for that order, however handlers overlap, expire or die.
THEOREM DeliveredCorrect == Spec => []DeliveredOnlyWhenPaid
<1>1. ReceiptInv => DeliveredOnlyWhenPaid
  BY DEF ReceiptInv
<1>2. QED
  BY <1>1, ReceiptInit, ReceiptStep, PTL DEF Spec

\* An order is PAID only if one of its transactions was paid.
THEOREM PaidOrderCorrect == Spec => []PaidOrderHasReceipt
<1>1. ReceiptInv => PaidOrderHasReceipt
  BY DEF ReceiptInv
<1>2. QED
  BY <1>1, ReceiptInit, ReceiptStep, PTL DEF Spec

-----------------------------------------------------------------------------
(***************************************************************************)
(* A cancellation is final.                                                *)
(***************************************************************************)

\* One step of the handlers leaves a canceled, quiet transaction as it is.
LEMMA CancelStays ==
  ASSUME TypeOK, [Next]_vars, NEW t \in Tx, CanceledAndQuiet(t)
  PROVE  CanceledAndQuiet(t)' /\ tx'[t] = tx[t]
<1>1. ASSUME NEW w \in Worker, Accept(w)
      PROVE  CanceledAndQuiet(t)' /\ tx'[t] = tx[t]
  <2>1. PICK u \in Tx, s \in Step : Begin(w, u, s) /\ (u = t => s \notin TxWriter)
    BY <1>1 DEF Accept, CreateTransaction, PerformTransaction, CancelTransaction,
       TxWriter, Step, AfterCancel, AfterCancelChat, CanceledAndQuiet, Canceled
  <2>2. /\ tx' = tx
        /\ \A v \in Worker : req'[v] = req[v] \/ (req'[v].tx = u /\ req'[v].step = s)
    BY <2>1 DEF Begin, TypeOK
  <2>3. QED
    BY <2>1, <2>2 DEF CanceledAndQuiet
<1>2. ASSUME NEW w \in Worker, Handle(w) \/ Abort(w)
      PROVE  CanceledAndQuiet(t)' /\ tx'[t] = tx[t]
  <2>1. \/ tx' = tx
        \/ req[w].step \in TxWriter /\ \E x : tx' = [tx EXCEPT ![req[w].tx] = x]
    BY <1>2 DEF Handle, CreateStep, PerformStep, CancelStep, FilterTransaction,
       InsertTransaction, OrderPending, CloseOrder, ExpireTransaction, OrderTimeout, Pay,
       ChatPaid, ChatHistory, FindUserCourse, Enrol, JoinGroup, CourseHistory, OrderPaid,
       CancelTx, CancelOrder, CancelChat, CancelTariff, CancelClose, Abort, TxWriter
  <2>2. tx'[t] = tx[t]
    BY <2>1 DEF CanceledAndQuiet, TypeOK
  <2>3. \/ Finish(w)
        \/ req' = [req EXCEPT ![w].step = "enrol",
                        ![w].enrolled = enrolments[SubOf[OrderOf[req[w].tx]]] > 0]
        \/ \E s : Goto(w, s) /\ (s \notin TxWriter \/ req[w].step \in TxWriter)
    <3>1. CASE CreateStep(w)
      BY <3>1 DEF CreateStep, FilterTransaction, InsertTransaction, OrderPending,
         CloseOrder, ExpireTransaction, OrderTimeout, TxWriter
    <3>2. CASE PerformStep(w)
      <4>1. CASE FindUserCourse(w)
        BY <4>1 DEF FindUserCourse
      <4>2. CASE ~FindUserCourse(w)
        <5>1. \/ Finish(w)
              \/ Goto(w, "chatHistory") \/ Goto(w, "joinGroup")
              \/ Goto(w, "courseHistory") \/ Goto(w, "orderPaid")
              \/ \E o : Goto(w, AfterPay(o)) \/ Goto(w, AfterChat(o))
          BY <3>2, <4>2 DEF PerformStep, Pay, ChatPaid, ChatHistory, Enrol, JoinGroup,
             CourseHistory, OrderPaid, CloseOrder
        <5>2. \A o : AfterPay(o) \notin TxWriter /\ AfterChat(o) \notin TxWriter
          BY DEF AfterPay, AfterChat, TxWriter
        <5>3. QED
          BY <5>1, <5>2 DEF TxWriter
      <4>3. QED
        BY <4>1, <4>2
    <3>3. CASE CancelStep(w)
      BY <3>3 DEF CancelStep, CancelTx, CancelOrder, CancelChat, CancelTariff,
         CancelClose, CloseOrder, TxWriter, AfterCancel, AfterCancelChat
    <3>4. CASE Abort(w)
      BY <3>4 DEF Abort
    <3>5. QED
      BY <1>2, <3>1, <3>2, <3>3, <3>4 DEF Handle
  <2>4. \A v \in Worker :
           req'[v].step \in TxWriter =>
             req'[v].tx = req[v].tx /\ req[v].step \in TxWriter
    <3>1. CASE Finish(w)
      BY <3>1, FinishFrame DEF TxWriter
    <3>2. CASE req' = [req EXCEPT ![w].step = "enrol",
                        ![w].enrolled = enrolments[SubOf[OrderOf[req[w].tx]]] > 0]
      BY <3>2 DEF TypeOK, Request, TxWriter
    <3>3. CASE \E s : Goto(w, s) /\ (s \notin TxWriter \/ req[w].step \in TxWriter)
      BY <3>3, GotoFrame
    <3>4. QED
      BY <2>3, <3>1, <3>2, <3>3
  <2>5. QED
    BY <2>2, <2>4 DEF CanceledAndQuiet
<1>3. ASSUME UNCHANGED <<tx, req>>
      PROVE  CanceledAndQuiet(t)' /\ tx'[t] = tx[t]
  BY <1>3 DEF CanceledAndQuiet
<1>4. QED
  BY <1>1, <1>2, <1>3 DEF Next, CreateOrder, Expire, vars

\* No later request revives or changes a transaction that was canceled while no
\* handler held an older read of it.
THEOREM CancelCorrect == Spec => CancelIsFinal
<1>1. TypeOK /\ [Next]_vars =>
        [\A t \in Tx : CanceledAndQuiet(t) =>
           CanceledAndQuiet(t)' /\ tx'[t] = tx[t]]_vars
  BY CancelStays
<1>2. QED
  BY <1>1, TypeInit, TypeStep, PTL DEF Spec, CancelIsFinal

-----------------------------------------------------------------------------
(***************************************************************************)
(* A gateway that waits for its answers.  With one handler per transaction *)
(* what a handler has read is still true when it writes.                   *)
(***************************************************************************)

\* Idle handlers hold no transaction and no transaction has two handlers.
OneHandler ==
  /\ \A w \in Worker : req[w].step = "idle" => req[w].tx = NoTx
  /\ \A v, w \in Worker : req[v].tx = req[w].tx /\ req[v].tx # NoTx => v = w

\* A handler about to write a row knows the state it replaces.
FreshRead ==
  \A w \in Worker :
    LET s == tx[req[w].tx] IN
      /\ req[w].step \in {"filter", "insert"} => s = "none"
      /\ req[w].step \in {"createExpire", "performExpire", "pay"} => s = "PENDING"
      /\ req[w].step = "cancelTx" => s = req[w].seen /\ s \in {"PENDING", "PAID"}

\* A payment leaves its mark on the row for good.
PaymentMark == \A p \in payments : tx[p.tx] \in {"PAID", "PAID_CANCELED"}

OrderlyInv == TypeOK /\ OneHandler /\ FreshRead /\ PaymentMark /\ PerformedOnce

\* What a step of handler w does to the records in req.
LEMMA HandlerRecord ==
  ASSUME TypeOK, NEW w \in Worker, Handle(w) \/ Abort(w)
  PROVE  /\ req[w].step # "idle"
         /\ \A v \in Worker : v # w => req'[v] = req[v]
         /\ \/ req'[w].step = "idle" /\ req'[w].tx = NoTx
            \/ req'[w].step # "idle" /\ req'[w].tx = req[w].tx
<1>1. req[w].step # "idle"
  BY DEF Handle, CreateStep, PerformStep, CancelStep, FilterTransaction,
     InsertTransaction, OrderPending, CloseOrder, ExpireTransaction, OrderTimeout, Pay,
     ChatPaid, ChatHistory, FindUserCourse, Enrol, JoinGroup, CourseHistory, OrderPaid,
     CancelTx, CancelOrder, CancelChat, CancelTariff, CancelClose, Abort
<1>2. \/ Finish(w) \/ FindUserCourse(w)
      \/ \E s : s # "idle" /\ Goto(w, s)
  <2>1. CASE CreateStep(w) \/ Abort(w)
    BY <2>1 DEF CreateStep, FilterTransaction, InsertTransaction, OrderPending,
       CloseOrder, ExpireTransaction, OrderTimeout, Abort
  <2>2. CASE PerformStep(w)
    <3>1. \A o : AfterPay(o) # "idle" /\ AfterChat(o) # "idle"
      BY DEF AfterPay, AfterChat
    <3>2. QED
      BY <2>2, <3>1 DEF PerformStep, Pay, ChatPaid, ChatHistory, Enrol, JoinGroup,
         CourseHistory, OrderPaid, CloseOrder
  <2>3. CASE CancelStep(w)
    BY <2>3 DEF CancelStep, CancelTx, CancelOrder, CancelChat, CancelTariff,
       CancelClose, CloseOrder, AfterCancel, AfterCancelChat
  <2>4. QED
    BY <2>1, <2>2, <2>3 DEF Handle
<1>3. CASE Finish(w)
  BY <1>1, <1>3 DEF Finish, Idle, TypeOK
<1>4. CASE FindUserCourse(w)
  BY <1>1, <1>4 DEF FindUserCourse, TypeOK, Request
<1>5. CASE \E s : s # "idle" /\ Goto(w, s)
  BY <1>1, <1>5 DEF Goto, TypeOK, Request
<1>6. QED
  BY <1>1, <1>2, <1>3, <1>4, <1>5

\* What a step of handler w does to transactions and payments.
HandlerEffect(w) ==
  \/ /\ UNCHANGED <<tx, payments>>
     /\ req'[w].step \in TxWriter => req[w].step = "filter" /\ req'[w].step = "insert"
  \/ /\ req[w].step = "insert" /\ tx' = [tx EXCEPT ![req[w].tx] = "PENDING"]
     /\ UNCHANGED payments
     /\ req'[w].step \notin TxWriter
  \/ /\ req[w].step \in {"createExpire", "performExpire"}
     /\ tx' = [tx EXCEPT ![req[w].tx] = "PENDING_CANCELED"]
     /\ UNCHANGED payments
     /\ req'[w].step \notin TxWriter
  \/ /\ req[w].step = "pay" /\ tx' = [tx EXCEPT ![req[w].tx] = "PAID"]
     /\ payments' = payments \cup {[id |-> req[w].id, tx |-> req[w].tx]}
     /\ req'[w].step \notin TxWriter
  \/ /\ req[w].step = "cancelTx" /\ tx' = [tx EXCEPT ![req[w].tx] = Negated(req[w].seen)]
     /\ UNCHANGED payments
     /\ req'[w].step \notin TxWriter

LEMMA HandlerEffects ==
  ASSUME TypeOK, NEW w \in Worker, Handle(w) \/ Abort(w)
  PROVE  HandlerEffect(w)
<1>1. ASSUME NEW s, Goto(w, s) PROVE req'[w].step = s
  BY <1>1, GotoFrame
<1>2. ASSUME Finish(w) PROVE req'[w].step \notin TxWriter
  BY <1>2, FinishFrame DEF TxWriter
<1>3. CASE FilterTransaction(w)
  BY <1>1, <1>2, <1>3 DEF FilterTransaction, HandlerEffect
<1>4. CASE InsertTransaction(w) \/ ExpireTransaction(w)
  BY <1>1, <1>4 DEF InsertTransaction, ExpireTransaction, HandlerEffect, TxWriter
<1>5. CASE Pay(w)
  <2>1. AfterPay(OrderOf[req[w].tx]) \notin TxWriter
    BY DEF AfterPay, AfterChat, TxWriter
  <2>2. QED
    BY <1>1, <1>5, <2>1 DEF Pay, HandlerEffect
<1>6. CASE CancelTx(w)
  BY <1>1, <1>6 DEF CancelTx, HandlerEffect, TxWriter
<1>7. CASE OrderPending(w) \/ OrderTimeout(w) \/ OrderPaid(w) \/ CancelClose(w) \/ Abort(w)
  BY <1>2, <1>7 DEF OrderPending, OrderTimeout, OrderPaid, CancelClose, CloseOrder, Abort,
     HandlerEffect
<1>8. CASE ChatPaid(w) \/ Enrol(w) \/ JoinGroup(w) \/ CourseHistory(w)
  BY <1>1, <1>8 DEF ChatPaid, Enrol, JoinGroup, CourseHistory, HandlerEffect, TxWriter
<1>9. CASE ChatHistory(w) \/ CancelOrder(w) \/ CancelChat(w) \/ CancelTariff(w)
  <2>1. \A o : {AfterChat(o), AfterCancel(o), AfterCancelChat(o)} \cap TxWriter = {}
    BY DEF AfterChat, AfterCancel, AfterCancelChat, TxWriter
  <2>2. QED
    BY <1>1, <1>2, <1>9, <2>1 DEF ChatHistory, CancelOrder, CancelChat, CancelTariff,
       HandlerEffect, TxWriter
<1>10. CASE FindUserCourse(w)
  BY <1>10 DEF FindUserCourse, HandlerEffect, TypeOK, Request, TxWriter
<1>11. QED
  BY <1>3, <1>4, <1>5, <1>6, <1>7, <1>8, <1>9, <1>10
  DEF Handle, CreateStep, PerformStep, CancelStep

LEMMA OrderlyInit == Init => OrderlyInv
<1> SUFFICES ASSUME Init PROVE OrderlyInv
  OBVIOUS
<1>1. OneHandler /\ FreshRead /\ PaymentMark /\ PerformedOnce
  BY DEF Init, OneHandler, FreshRead, PaymentMark, PerformedOnce, Idle
<1>2. QED
  BY <1>1, TypeInit DEF OrderlyInv

\* A new request finds no other handler on its transaction, and its read is fresh.
LEMMA OrderlyAccept ==
  ASSUME ~Overlap, OrderlyInv, TypeOK', NEW w \in Worker, Accept(w)
  PROVE  OrderlyInv'
<1>1. PICK t \in Tx, s \in Step \ {"idle"} :
        /\ Begin(w, t, s)
        /\ s \in {"filter", "insert"} => tx[t] = "none"
        /\ s \in {"createExpire", "performExpire", "pay"} => tx[t] = "PENDING"
        /\ s = "cancelTx" => tx[t] \in {"PENDING", "PAID"}
  BY DEF Accept, CreateTransaction, PerformTransaction, CancelTransaction, Step,
     AfterCancel, AfterCancelChat, Canceled
<1>2. /\ UNCHANGED <<tx, payments>>
      /\ \A v \in Worker : v # w => req'[v] = req[v]
      /\ req'[w].tx = t /\ req'[w].step = s /\ req'[w].seen = tx[t]
      /\ \A v \in Worker : req[v].tx # t
  BY <1>1 DEF Begin, OrderlyInv, TypeOK
<1>3. OneHandler'
  BY <1>1, <1>2 DEF OrderlyInv, OneHandler
<1>4. FreshRead'
  BY <1>1, <1>2 DEF OrderlyInv, FreshRead
<1>5. QED
  BY <1>2, <1>3, <1>4 DEF OrderlyInv, PaymentMark, PerformedOnce

\* A step of handler w disturbs no other handler's read.
LEMMA OrderlyHandle ==
  ASSUME OrderlyInv, TypeOK', NEW w \in Worker, Handle(w) \/ Abort(w)
  PROVE  /\ OrderlyInv'
         /\ \A t \in Tx : tx'[t] # tx[t] => <<tx[t], tx'[t]>> \in Lifecycle
<1> DEFINE t == req[w].tx
<1>0. TypeOK /\ t \in Tx /\ t # NoTx /\ req[w].step # "idle"
  BY HandlerRecord, PaymentsAssumption DEF OrderlyInv, TypeOK
<1>1. /\ \A v \in Worker : v # w => req'[v] = req[v]
      /\ \/ req'[w].step = "idle" /\ req'[w].tx = NoTx
         \/ req'[w].step # "idle" /\ req'[w].tx = t
  BY <1>0, HandlerRecord
<1>2. HandlerEffect(w)
  BY <1>0, HandlerEffects
<1>3. OneHandler'
  BY <1>0, <1>1 DEF OrderlyInv, OneHandler
<1>4. \A v \in Worker : v # w => req[v].tx # t
  BY <1>0 DEF OrderlyInv, OneHandler
<1>5. \A u \in Tx : u # t => tx'[u] = tx[u]
  BY <1>0, <1>2 DEF HandlerEffect, TypeOK
<1>6. tx'[t] # tx[t] => <<tx[t], tx'[t]>> \in Lifecycle
  BY <1>0, <1>2 DEF HandlerEffect, OrderlyInv, FreshRead, Lifecycle, TypeOK, Negated
<1>7. FreshRead'
  <2>1. ASSUME NEW v \in Worker, v # w, req[v].step # "idle"
        PROVE  req'[v] = req[v] /\ tx'[req[v].tx] = tx[req[v].tx]
    BY <1>0, <1>1, <1>4, <1>5, <2>1 DEF TypeOK
  <2>2. req'[w].step \in TxWriter =>
          /\ req'[w].step = "insert" /\ req[w].step = "filter"
          /\ req'[w].tx = t /\ tx' = tx
    BY <1>1, <1>2 DEF HandlerEffect, TxWriter
  <2>3. QED
    BY <1>1, <2>1, <2>2 DEF OrderlyInv, FreshRead, TxWriter
<1>8. PaymentMark' /\ PerformedOnce'
  <2>1. CASE req[w].step = "pay"
    <3>1. \A p \in payments : p.tx # t
      BY <2>1 DEF OrderlyInv, FreshRead, PaymentMark
    <3>2. /\ payments' = payments \/ payments' = payments \cup {[id |-> req[w].id, tx |-> t]}
          /\ payments' # payments => tx'[t] = "PAID"
      BY <1>0, <1>2, <2>1 DEF HandlerEffect, TypeOK
    <3>3. \A p \in payments : p.tx \in Tx
      BY <1>0 DEF TypeOK, Payment
    <3>4. QED
      BY <1>5, <3>1, <3>2, <3>3 DEF OrderlyInv, PaymentMark, PerformedOnce
  <2>2. CASE req[w].step # "pay"
    <3>1. payments' = payments
      BY <1>2, <2>2 DEF HandlerEffect
    <3>2. \A p \in payments : p.tx \in Tx /\ tx[p.tx] \in {"PAID", "PAID_CANCELED"}
      BY <1>0 DEF OrderlyInv, PaymentMark, TypeOK, Payment
    <3>3. \A p \in payments : tx'[p.tx] \in {"PAID", "PAID_CANCELED"}
      BY <1>5, <1>6, <3>2 DEF Lifecycle
    <3>4. QED
      BY <3>1, <3>3 DEF OrderlyInv, PaymentMark, PerformedOnce
  <2>3. QED
    BY <2>1, <2>2
<1>9. QED
  BY <1>3, <1>5, <1>6, <1>7, <1>8 DEF OrderlyInv

LEMMA OrderlyStep ==
  ASSUME ~Overlap, OrderlyInv, [Next]_vars
  PROVE  /\ OrderlyInv'
         /\ \A t \in Tx : tx'[t] # tx[t] => <<tx[t], tx'[t]>> \in Lifecycle
<1>0. TypeOK'
  BY TypeStep DEF OrderlyInv
<1>1. ASSUME NEW w \in Worker, Accept(w)
      PROVE  OrderlyInv' /\ tx' = tx
  BY <1>0, <1>1, OrderlyAccept
  DEF Accept, CreateTransaction, PerformTransaction, CancelTransaction, Begin
<1>2. ASSUME UNCHANGED <<tx, req, payments>>
      PROVE  OrderlyInv' /\ tx' = tx
  BY <1>0, <1>2 DEF OrderlyInv, OneHandler, FreshRead, PaymentMark, PerformedOnce
<1>3. QED
  BY <1>0, <1>1, <1>2, OrderlyHandle DEF Next, CreateOrder, Expire, vars

\* A gateway that does not overlap requests on a transaction sees every transaction
\* follow its life cycle, whatever the handlers of other transactions do.
THEOREM LifecycleCorrect == ASSUME ~Overlap PROVE Spec => OrderlyLifecycle
<1>1. OrderlyInv /\ [Next]_vars => OrderlyInv'
  BY OrderlyStep
<1>2. OrderlyInv /\ [Next]_vars =>
        [\A t \in Tx : tx'[t] # tx[t] => <<tx[t], tx'[t]>> \in Lifecycle]_vars
  BY OrderlyStep
<1>3. QED
  BY <1>1, <1>2, OrderlyInit, PTL DEF Spec, OrderlyLifecycle

\* Such a gateway never has a transaction performed twice.
THEOREM PerformedOnceCorrect == ASSUME ~Overlap PROVE Spec => []PerformedOnce
<1>1. OrderlyInv /\ [Next]_vars => OrderlyInv'
  BY OrderlyStep
<1>2. OrderlyInv => PerformedOnce
  BY DEF OrderlyInv
<1>3. QED
  BY <1>1, <1>2, OrderlyInit, PTL DEF Spec

-----------------------------------------------------------------------------
(***************************************************************************)
(* The handlers implement the contract.  With one handler per transaction, *)
(* the row is what the step of its handler supposes.                       *)
(***************************************************************************)
Canceling == {"createTimeout", "performTimeout", "cancelOrder", "cancelChat",
              "cancelTariff", "cancelClose"}

\* The last steps of createTransaction, performTransaction and cancelTransaction follow their
\* write of the row; an order is about to be PAID when its goods have been delivered; a
\* transaction is created for an order that has been placed.
HandedOver(o) == courseHistory[o] \cup chatHistory[o] # {}

Agrees(w) ==
  LET t == req[w].tx
      o == OrderOf[t]
  IN  /\ req[w].step = "orderPending" => tx[t] = "PENDING"
      /\ req[w].step \in Delivering => tx[t] = "PAID"
      /\ req[w].step \in Canceling => tx[t] \in Canceled
      /\ req[w].step = "orderPaid" => Goods[o] = {} \/ HandedOver(o)
      /\ req[w].step \in {"filter", "insert"} => order[o] # "none"

ContractInv == OrderlyInv /\ \A w \in Worker : Agrees(w)

LEMMA ContractInit == Init => ContractInv
  BY OrderlyInit DEF Init, ContractInv, Agrees, Idle, Delivering, Canceling

\* A new request has written nothing yet, or repeats the end of a cancellation.
LEMMA ContractAccept ==
  ASSUME ~Overlap, ContractInv, NEW w \in Worker, Accept(w)
  PROVE  ContractInv'
<1>1. OrderlyInv' /\ TypeOK
  BY OrderlyStep DEF ContractInv, Next, OrderlyInv
<1>2. PICK t \in Tx, s \in Step :
        /\ Begin(w, t, s)
        /\ s \notin Delivering \cup {"orderPending"}
        /\ s \in Canceling => tx[t] \in Canceled
        /\ s \in {"filter", "insert"} => order[OrderOf[t]] # "none"
  BY DEF Accept, CreateTransaction, PerformTransaction, CancelTransaction, Step,
     AfterCancel, AfterCancelChat, Delivering, Canceling
<1>3. /\ UNCHANGED <<tx, order, courseHistory, chatHistory>>
      /\ \A v \in Worker : v # w => req'[v] = req[v]
      /\ req'[w].tx = t /\ req'[w].step = s
  BY <1>1, <1>2 DEF Begin, TypeOK, ledger
<1>4. ASSUME NEW v \in Worker PROVE Agrees(v)'
  <2>1. CASE v = w
    BY <1>2, <1>3, <2>1 DEF Agrees, Delivering
  <2>2. CASE v # w
    BY <1>3, <2>2 DEF ContractInv, Agrees, HandedOver
  <2>3. QED
    BY <2>1, <2>2
<1>5. QED
  BY <1>1, <1>4 DEF ContractInv

\* Goods are handed over by the two history steps alone.
LEMMA LedgerEffect ==
  ASSUME NEW w \in Worker, Handle(w) \/ Abort(w)
  PROVE  CourseHistory(w) \/ ChatHistory(w) \/ UNCHANGED <<courseHistory, chatHistory>>
<1>1. CASE CreateStep(w) \/ Abort(w)
  BY <1>1 DEF CreateStep, FilterTransaction, InsertTransaction, OrderPending, CloseOrder,
     ExpireTransaction, OrderTimeout, Abort, ledger
<1>2. CASE PerformStep(w)
  BY <1>2 DEF PerformStep, Pay, ChatPaid, FindUserCourse, Enrol, JoinGroup, OrderPaid,
     CloseOrder, ledger
<1>3. CASE CancelStep(w)
  BY <1>3 DEF CancelStep, CancelTx, CancelOrder, CancelChat, CancelTariff, CancelClose,
     CloseOrder, ledger
<1>4. QED
  BY <1>1, <1>2, <1>3 DEF Handle

\* A handler writes no other order than its own, and never takes one back to "none".
LEMMA OrderEffect ==
  ASSUME NEW w \in Worker, Handle(w) \/ Abort(w)
  PROVE  \/ UNCHANGED order
         \/ \E s \in OrderStatus : order' = [order EXCEPT ![OrderOf[req[w].tx]] = s]
<1>1. CASE CreateStep(w) \/ Abort(w)
  BY <1>1 DEF CreateStep, FilterTransaction, InsertTransaction, OrderPending, CloseOrder,
     ExpireTransaction, OrderTimeout, Abort, OrderStatus
<1>2. CASE PerformStep(w)
  BY <1>2 DEF PerformStep, Pay, ChatPaid, ChatHistory, FindUserCourse, Enrol, JoinGroup,
     CourseHistory, OrderPaid, CloseOrder, OrderStatus
<1>3. CASE CancelStep(w)
  BY <1>3 DEF CancelStep, CancelTx, CancelOrder, CancelChat, CancelTariff, CancelClose,
     CloseOrder, OrderStatus
<1>4. QED
  BY <1>1, <1>2, <1>3 DEF Handle

\* A step of handler w leaves what the other handlers suppose.
LEMMA OthersAgree ==
  ASSUME ContractInv, NEW w \in Worker, Handle(w) \/ Abort(w),
         NEW v \in Worker, v # w
  PROVE  Agrees(v)'
<1> DEFINE t == req[w].tx
<1>1. TypeOK /\ OneHandler
  BY DEF ContractInv, OrderlyInv
<1>2. req[w].step # "idle" /\ t \in Tx /\ t # NoTx
  BY <1>1, HandlerRecord, PaymentsAssumption DEF TypeOK
<1>3. req'[v] = req[v] /\ req[v].tx # t
  BY <1>1, <1>2, HandlerRecord DEF OneHandler
<1>4. CASE req[v].step = "idle"
  BY <1>3, <1>4 DEF Agrees, Delivering, Canceling
<1>5. CASE req[v].step # "idle"
  <2>1. PICK u \in Tx, o \in Order : u = req[v].tx /\ o = OrderOf[u]
    BY <1>1, <1>5, PaymentsAssumption DEF TypeOK
  <2>2. tx'[u] = tx[u]
    BY <1>1, <1>2, <1>3, <2>1, HandlerEffects DEF HandlerEffect, TypeOK
  <2>3. HandedOver(o) => HandedOver(o)'
    <3>1. CASE CourseHistory(w)
      BY <1>1, <3>1 DEF TypeOK, HandedOver, CourseHistory
    <3>2. CASE ChatHistory(w)
      BY <1>1, <3>2 DEF TypeOK, HandedOver, ChatHistory
    <3>3. QED
      BY <3>1, <3>2, LedgerEffect DEF HandedOver
  <2>4. order[o] # "none" => order'[o] # "none"
    BY <1>1, OrderEffect DEF TypeOK, OrderStatus
  <2>5. QED
    BY <1>3, <2>1, <2>2, <2>3, <2>4 DEF ContractInv, Agrees
<1>6. QED
  BY <1>4, <1>5

-----------------------------------------------------------------------------
(***************************************************************************)
(* What each step of a handler is to the contract.                         *)
(***************************************************************************)
Public == <<[t \in Tx |-> PublicState(tx[t])],
            {o \in Order : courseHistory[o] \cup chatHistory[o] # {}},
            [o \in Order |-> PublicStatus(order[o])]>>

\* A step of handler w that the contract allows and that leaves w consistent.
Kept(w) == Agrees(w)' /\ [Contract!Next]_Public

\* The contract sees the rows, the history and the status only.
LEMMA Invisible ==
  ASSUME UNCHANGED <<tx, order, courseHistory, chatHistory>>
  PROVE  UNCHANGED Public
  BY DEF Public, PublicState, PublicStatus

\* A write of a row is a write of its public state.
LEMMA RowWritten ==
  ASSUME TypeOK, NEW t \in Tx, NEW s \in TxState, tx' = [tx EXCEPT ![t] = s]
  PROVE  [u \in Tx |-> PublicState(tx'[u])]
           = [[u \in Tx |-> PublicState(tx[u])] EXCEPT ![t] = PublicState(s)]
  BY DEF TypeOK

\* A write of an order's status is a write of its public status.
LEMMA StatusWritten ==
  ASSUME TypeOK, NEW o \in Order, NEW s \in OrderStatus, order' = [order EXCEPT ![o] = s]
  PROVE  [p \in Order |-> PublicStatus(order'[p])]
           = [[p \in Order |-> PublicStatus(order[p])] EXCEPT ![o] = PublicStatus(s)]
  BY DEF TypeOK

\* What a busy handler knows.
LEMMA Busy ==
  ASSUME ContractInv, NEW w \in Worker, req[w].step # "idle"
  PROVE  /\ TypeOK /\ Agrees(w)
         /\ req[w].tx \in Tx /\ OrderOf[req[w].tx] \in Order
  BY PaymentsAssumption DEF ContractInv, OrderlyInv, TypeOK

\* The steps that the contract does not see.
LEMMA KeptInvisible ==
  ASSUME ContractInv, NEW w \in Worker,
         \/ FilterTransaction(w) \/ ChatPaid(w) \/ FindUserCourse(w) \/ Enrol(w)
         \/ JoinGroup(w) \/ CancelChat(w) \/ CancelTariff(w) \/ Abort(w)
  PROVE  Kept(w)
<1> DEFINE s == req[w].step
<1>1. /\ UNCHANGED <<tx, order, courseHistory, chatHistory>>
      /\ s # "idle"
  BY DEF FilterTransaction, ChatPaid, FindUserCourse, Enrol, JoinGroup, CancelChat,
     CancelTariff, Abort, ledger
<1>2. TypeOK /\ Agrees(w)
  BY <1>1, Busy
<1>3. \/ req'[w].step = "idle"
      \/ /\ req'[w].tx = req[w].tx
         /\ \/ s = "filter" /\ req'[w].step = "insert"
            \/ s \in Delivering /\ req'[w].step \in Delivering \ {"orderPaid"}
            \/ s \in Canceling /\ req'[w].step \in Canceling
  <2>1. CASE Finish(w)
    BY <1>2, <2>1, FinishFrame
  <2>2. CASE FindUserCourse(w)
    BY <1>2, <2>2 DEF FindUserCourse, TypeOK, Request, Delivering
  <2>3. CASE ~Finish(w) /\ ~FindUserCourse(w)
    <3>1. PICK n : /\ Goto(w, n)
                   /\ \/ s = "filter" /\ n = "insert"
                      \/ s \in Delivering /\ n \in Delivering \ {"orderPaid"}
                      \/ s \in Canceling /\ n \in Canceling
      BY <2>3 DEF FilterTransaction, ChatPaid, Enrol, JoinGroup, CancelChat, CancelTariff,
         Abort, Delivering, Canceling, AfterCancelChat
    <3>2. QED
      BY <1>2, <3>1, GotoFrame
  <2>4. QED
    BY <2>1, <2>2, <2>3
<1>4. Agrees(w)'
  BY <1>1, <1>2, <1>3 DEF Agrees, HandedOver, Delivering, Canceling
<1>5. QED
  BY <1>1, <1>4, Invisible DEF Kept

\* The write of a row creates, pays or cancels its transaction.
LEMMA KeptRow ==
  ASSUME ContractInv, NEW w \in Worker,
         InsertTransaction(w) \/ ExpireTransaction(w) \/ Pay(w) \/ CancelTx(w)
  PROVE  Kept(w)
<1> DEFINE s == req[w].step
           t == req[w].tx
           o == OrderOf[t]
<1>1. /\ UNCHANGED <<order, courseHistory, chatHistory>>
      /\ s \in {"insert", "createExpire", "performExpire", "pay", "cancelTx"}
  BY DEF InsertTransaction, ExpireTransaction, Pay, CancelTx, ledger
<1>2. TypeOK /\ Agrees(w) /\ t \in Tx /\ o \in Order
  BY <1>1, Busy
<1>3. FreshRead
  BY DEF ContractInv, OrderlyInv
<1>4. CASE InsertTransaction(w)
  <2>1. /\ tx' = [tx EXCEPT ![t] = "PENDING"]
        /\ req'[w].step = "orderPending" /\ req'[w].tx = t
    BY <1>2, <1>4, GotoFrame DEF InsertTransaction
  <2>2. Agrees(w)'
    BY <1>2, <2>1 DEF Agrees, TypeOK, Delivering, Canceling
  <2>3. tx[t] = "none" /\ order[o] # "none"
    BY <1>2, <1>3, <1>4 DEF FreshRead, Agrees, InsertTransaction
  <2>4. Contract!Create(t)
    BY <1>1, <1>2, <2>1, <2>3, RowWritten
    DEF Contract!Create, PublicState, PublicStatus, TxState, TransactionState, TypeOK,
        Canceled, OrderStatus
  <2>5. QED
    BY <1>2, <2>2, <2>4 DEF Kept, Contract!Next
<1>5. CASE ExpireTransaction(w) \/ CancelTx(w)
  <2>1. /\ \E r \in Canceled : tx' = [tx EXCEPT ![t] = r]
        /\ req'[w].step \in Canceling \ Delivering /\ req'[w].tx = t
    BY <1>2, <1>5, GotoFrame
    DEF ExpireTransaction, CancelTx, Canceled, Negated, Canceling, Delivering
  <2>2. Agrees(w)'
    BY <1>2, <2>1 DEF Agrees, TypeOK, Canceling, Delivering
  <2>3. tx[t] \in {"PENDING", "PAID"}
    BY <1>3, <1>5 DEF FreshRead, ExpireTransaction, CancelTx
  <2>4. Contract!Cancel(t)
    BY <1>1, <1>2, <2>1, <2>3, RowWritten
    DEF Contract!Cancel, PublicState, PublicStatus, TxState, TransactionState, Canceled
  <2>5. QED
    BY <1>2, <2>2, <2>4 DEF Kept, Contract!Next
<1>6. CASE Pay(w)
  <2>1. /\ tx' = [tx EXCEPT ![t] = "PAID"]
        /\ req'[w].step = AfterPay(o) /\ req'[w].tx = t
    BY <1>2, <1>6, GotoFrame DEF Pay
  <2>2. /\ req'[w].step \in Delivering
        /\ req'[w].step = "orderPaid" => Goods[o] = {}
    BY <1>2, <2>1, PaymentsAssumption DEF AfterPay, AfterChat, Delivering
  <2>3. Agrees(w)'
    BY <1>2, <2>1, <2>2 DEF Agrees, TypeOK, Canceling, Delivering
  <2>4. tx[t] = "PENDING"
    BY <1>3, <1>6 DEF FreshRead, Pay
  <2>5. Contract!Perform(t)
    BY <1>1, <1>2, <2>1, <2>4, RowWritten
    DEF Contract!Perform, PublicState, PublicStatus, TxState, TransactionState, Canceled
  <2>6. QED
    BY <1>2, <2>3, <2>5 DEF Kept, Contract!Next
<1>7. QED
  BY <1>4, <1>5, <1>6

\* A history row hands the goods over.
LEMMA KeptHistory ==
  ASSUME ContractInv, NEW w \in Worker, ChatHistory(w) \/ CourseHistory(w)
  PROVE  Kept(w)
<1> DEFINE t == req[w].tx
           o == OrderOf[t]
<1>1. UNCHANGED <<tx, order>> /\ req[w].step \in Delivering
  BY DEF ChatHistory, CourseHistory, Delivering
<1>2. TypeOK /\ Agrees(w) /\ t \in Tx /\ o \in Order
  BY <1>1, Busy DEF Delivering
<1>3. tx[t] = "PAID"
  BY <1>1, <1>2 DEF Agrees
<1>4. /\ req'[w].tx = t /\ req'[w].step \in {"findCourse", "orderPaid"}
      /\ HandedOver(o)'
      /\ \A p \in Order : p # o => (HandedOver(p)' <=> HandedOver(p))
  <2>1. CASE ChatHistory(w)
    <3>1. req'[w].tx = t /\ req'[w].step \in {"findCourse", "orderPaid"}
      BY <1>2, <2>1, GotoFrame DEF ChatHistory, AfterChat
    <3>2. UNCHANGED courseHistory /\ chatHistory' = [chatHistory EXCEPT ![o] = @ \cup {req[w].id}]
      BY <2>1 DEF ChatHistory
    <3>3. QED
      BY <1>2, <3>1, <3>2 DEF HandedOver, TypeOK
  <2>2. CASE CourseHistory(w)
    <3>1. req'[w].tx = t /\ req'[w].step = "orderPaid"
      BY <1>2, <2>2, GotoFrame DEF CourseHistory
    <3>2. UNCHANGED chatHistory /\ courseHistory' = [courseHistory EXCEPT ![o] = @ \cup {req[w].id}]
      BY <2>2 DEF CourseHistory
    <3>3. QED
      BY <1>2, <3>1, <3>2 DEF HandedOver, TypeOK
  <2>3. QED
    BY <2>1, <2>2
<1>5. Agrees(w)'
  BY <1>1, <1>3, <1>4 DEF Agrees, Delivering, Canceling
<1>6. PICK p \in Order : p = o
  BY <1>2
<1>7. Contract!Deliver(p)
  <2>1. {q \in Order : courseHistory'[q] \cup chatHistory'[q] # {}}
          = {q \in Order : courseHistory[q] \cup chatHistory[q] # {}} \cup {p}
    BY <1>2, <1>4, <1>6 DEF HandedOver
  <2>2. Contract!Has(p, "paid")
    BY <1>2, <1>3, <1>6 DEF Contract!Has, PublicState, Canceled
  <2>3. QED
    BY <1>1, <2>1, <2>2 DEF Contract!Deliver, PublicState, PublicStatus
<1>8. QED
  BY <1>5, <1>7 DEF Kept, Contract!Next

\* A status that agrees with the handler's own transaction is one the contract allows.
LEMMA StatusFollows ==
  ASSUME TypeOK, NEW w \in Worker, NEW t \in Tx, NEW s \in OrderStatus,
         OrderOf[t] \in Order, UNCHANGED <<tx, courseHistory, chatHistory>>,
         order' = [order EXCEPT ![OrderOf[t]] = s],
         \/ s = "PENDING" /\ tx[t] = "PENDING"
         \/ s = "PAID" /\ tx[t] = "PAID" /\ (Goods[OrderOf[t]] = {} \/ HandedOver(OrderOf[t]))
         \/ s \in {"CANCELED", "TIMEOUT"} /\ tx[t] \in Canceled
  PROVE  [Contract!Next]_Public
<1> DEFINE o == OrderOf[t]
<1>1. [p \in Order |-> PublicStatus(order'[p])]
        = [[p \in Order |-> PublicStatus(order[p])] EXCEPT ![o] = PublicStatus(s)]
  BY StatusWritten
<1>2. /\ [u \in Tx |-> PublicState(tx'[u])] = [u \in Tx |-> PublicState(tx[u])]
      /\ {p \in Order : courseHistory'[p] \cup chatHistory'[p] # {}}
           = {p \in Order : courseHistory[p] \cup chatHistory[p] # {}}
  OBVIOUS
<1>3. CASE s = "PENDING"
  <2>1. Contract!Has(o, "pending")
    BY <1>3 DEF Contract!Has, PublicState, Canceled
  <2>2. Contract!Reopen(o)
    BY <1>1, <1>2, <1>3, <2>1 DEF Contract!Reopen, PublicStatus
  <2>3. QED
    BY <2>2 DEF Contract!Next
<1>4. CASE s = "PAID"
  <2>1. Contract!Has(o, "paid")
    BY <1>4 DEF Contract!Has, PublicState, Canceled
  <2>2. Contract!Settle(o)
    BY <1>1, <1>2, <1>4, <2>1 DEF Contract!Settle, PublicStatus, HandedOver
  <2>3. QED
    BY <2>2 DEF Contract!Next
<1>5. CASE s \in {"CANCELED", "TIMEOUT"}
  <2>1. Contract!Has(o, "canceled")
    BY <1>5 DEF Contract!Has, PublicState, Canceled
  <2>2. Contract!Close(o)
    BY <1>1, <1>2, <1>5, <2>1 DEF Contract!Close, PublicStatus
  <2>3. QED
    BY <2>2 DEF Contract!Next
<1>6. QED
  BY <1>3, <1>4, <1>5 DEF OrderStatus

\* The writes of an order's status.
LEMMA KeptStatus ==
  ASSUME ContractInv, NEW w \in Worker,
         OrderPending(w) \/ OrderTimeout(w) \/ OrderPaid(w) \/ CancelOrder(w) \/ CancelClose(w)
  PROVE  Kept(w)
<1> DEFINE t == req[w].tx
           o == OrderOf[t]
<1>1. /\ UNCHANGED <<tx, courseHistory, chatHistory>>
      /\ \E s \in OrderStatus :
            /\ order' = [order EXCEPT ![o] = s]
            /\ \/ s = "PENDING" /\ req[w].step = "orderPending"
               \/ s = "PAID" /\ req[w].step = "orderPaid"
               \/ s \in {"CANCELED", "TIMEOUT"} /\ req[w].step \in Canceling
      /\ req[w].step # "idle"
  BY DEF OrderPending, OrderTimeout, OrderPaid, CancelOrder, CancelClose, CloseOrder,
     OrderStatus, Canceling, ledger
<1>2. TypeOK /\ Agrees(w) /\ t \in Tx /\ o \in Order
  BY <1>1, Busy
<1>3. [Contract!Next]_Public
  BY <1>1, <1>2, StatusFollows DEF Agrees, Delivering
<1>4. Agrees(w)'
  <2>1. CASE Finish(w)
    BY <1>2, <2>1, FinishFrame DEF Agrees, Delivering, Canceling
  <2>2. CASE CancelOrder(w)
    <3>1. req'[w].tx = t /\ req'[w].step \in Canceling \ Delivering
      BY <1>2, <2>2, GotoFrame
      DEF CancelOrder, AfterCancel, AfterCancelChat, Canceling, Delivering
    <3>2. tx[t] \in Canceled
      BY <1>2, <2>2 DEF CancelOrder, Agrees, Canceling
    <3>3. QED
      BY <1>1, <3>1, <3>2 DEF Agrees, Canceling, Delivering
  <2>3. QED
    BY <2>1, <2>2 DEF OrderPending, OrderTimeout, OrderPaid, CancelClose, CloseOrder
<1>5. QED
  BY <1>3, <1>4 DEF Kept

LEMMA KeptByHandler ==
  ASSUME ContractInv, NEW w \in Worker, Handle(w) \/ Abort(w)
  PROVE  Kept(w)
  BY KeptInvisible, KeptRow, KeptHistory, KeptStatus
  DEF Handle, CreateStep, PerformStep, CancelStep

\* The invariant is inductive and every step is one of the contract.
LEMMA ContractStep ==
  ASSUME ~Overlap, ContractInv, [Next]_vars
  PROVE  ContractInv' /\ [Contract!Next]_Public
<1>1. OrderlyInv' /\ TypeOK
  BY OrderlyStep DEF ContractInv, OrderlyInv
<1>2. ASSUME NEW w \in Worker, Accept(w) PROVE ContractInv' /\ [Contract!Next]_Public
  <2>1. UNCHANGED <<tx, order, courseHistory, chatHistory>>
    BY <1>2 DEF Accept, CreateTransaction, PerformTransaction, CancelTransaction, Begin, ledger
  <2>2. QED
    BY <1>2, <2>1, ContractAccept, Invisible
<1>3. ASSUME NEW w \in Worker, Handle(w) \/ Abort(w)
      PROVE  ContractInv' /\ [Contract!Next]_Public
  BY <1>1, <1>3, KeptByHandler, OthersAgree DEF ContractInv, Kept
<1>4. ASSUME NEW o \in Order, CreateOrder(o) PROVE ContractInv' /\ [Contract!Next]_Public
  <2>1. /\ order[o] = "none" /\ order' = [order EXCEPT ![o] = "PENDING"]
        /\ UNCHANGED <<tx, courseHistory, chatHistory, req>>
    BY <1>4 DEF CreateOrder, ledger
  <2>2. \A p : order[p] # "none" => order'[p] # "none"
    BY <1>1, <2>1 DEF TypeOK
  <2>3. ContractInv'
    BY <1>1, <2>1, <2>2 DEF ContractInv, Agrees, HandedOver
  <2>4. Contract!Place(o)
    <3>1. PublicStatus(order[o]) = "none" /\ PublicStatus("PENDING") = "open"
      BY <2>1 DEF PublicStatus
    <3>2. [p \in Order |-> PublicStatus(order'[p])]
            = [[p \in Order |-> PublicStatus(order[p])] EXCEPT ![o] = "open"]
      BY <1>1, <2>1, <3>1, StatusWritten DEF OrderStatus
    <3>3. QED
      BY <2>1, <3>1, <3>2 DEF Contract!Place
  <2>5. QED
    BY <2>3, <2>4 DEF Contract!Next
<1>5. ASSUME UNCHANGED <<tx, order, courseHistory, chatHistory, req>>
      PROVE  ContractInv' /\ [Contract!Next]_Public
  BY <1>1, <1>5, Invisible DEF ContractInv, Agrees, HandedOver
<1>6. QED
  BY <1>2, <1>3, <1>4, <1>5 DEF Next, Expire, vars, ledger

\* If the gateway waits for its answers, the handlers implement the contract: for any number
\* of transactions, orders, requests and failures the rows, the goods and the order's status
\* move as PaymentContract says.
THEOREM ContractCorrect == ASSUME ~Overlap PROVE Spec => ImplementsContract
<1>1. Init => Contract!Init
  BY DEF Init, Contract!Init, PublicState, PublicStatus, Canceled
<1>2. ContractInv /\ [Next]_vars => ContractInv'
  BY ContractStep
<1>3. ContractInv /\ [Next]_vars => [Contract!Next]_(Contract!vars)
  BY ContractStep DEF Contract!vars, Public
<1>4. QED
  BY <1>1, <1>2, <1>3, ContractInit, PTL DEF Spec, ImplementsContract, Contract!Spec

-----------------------------------------------------------------------------
(***************************************************************************)
(* The three records of a payment.  While nothing was abandoned, the step  *)
(* of the one handler of an order says how far apart transaction, order,   *)
(* live chat and payment history are; with no handler they agree.          *)
(***************************************************************************)
Solo(t) == \A u \in Tx : OrderOf[u] = OrderOf[t] => u = t

ChatIs(o, s) == "liveChat" \in Goods[o] => chat[o] = s
Delivered(o) == Goods[o] = {} \/ HandedOver(o)
Closed(o) == order[o] \in {"CANCELED", "TIMEOUT"}

Agree(t) ==
  LET o == OrderOf[t] IN
    /\ tx[t] = "PAID" <=> order[o] = "PAID"
    /\ tx[t] = "PAID" => Delivered(o)
    /\ ChatIs(o, IF tx[t] = "PAID" THEN "PAID" ELSE "UNPAID")
    /\ tx[t] \in Canceled => Closed(o)

\* What the records of t are while its handler is at step s.
Between(t, s) ==
  LET o == OrderOf[t] IN
    /\ s \in TxWriter => Agree(t)
    /\ s = "orderPending" => tx[t] = "PENDING" /\ ChatIs(o, "UNPAID")
    /\ s \in {"createTimeout", "performTimeout"} =>
         tx[t] = "PENDING_CANCELED" /\ ChatIs(o, "UNPAID")
    /\ s \in Delivering => tx[t] = "PAID"
    /\ s \in {"chatPaid", "chatHistory", "cancelChat"} => "liveChat" \in Goods[o]
    /\ s \in Delivering \ {"chatPaid"} => ChatIs(o, "PAID")
    /\ s \in Delivering \ {"chatPaid", "chatHistory", "orderPaid"} => "tariff" \in Goods[o]
    /\ s = "orderPaid" => Delivered(o)
    /\ s \in {"cancelOrder", "cancelChat", "cancelTariff", "cancelClose"} =>
         tx[t] \in Canceled
    /\ s \in {"cancelChat", "cancelTariff", "cancelClose"} => Closed(o)
    /\ s \in {"cancelTariff", "cancelClose"} => ChatIs(o, "UNPAID")

Following(t) ==
  /\ (\A w \in Worker : req[w].tx # t) => Agree(t)
  /\ \A w \in Worker : req[w].tx = t => Between(t, req[w].step)

RecordsFollow == aborts = 0 => \A t \in Tx : Solo(t) => Following(t)

RecordInv == OrderlyInv /\ RecordsFollow

\* The records that belong to transaction t.
Records(t) ==
  LET o == OrderOf[t] IN <<tx[t], order[o], chat[o], courseHistory[o], chatHistory[o]>>

LEMMA SameRecords ==
  ASSUME NEW t, Records(t)' = Records(t)
  PROVE  Agree(t)' = Agree(t) /\ \A s : Between(t, s)' = Between(t, s)
  BY DEF Records, Agree, Between, ChatIs, Delivered, HandedOver, Closed

\* A handler leaves the records of other orders alone.
LEMMA OtherRecords ==
  ASSUME TypeOK, NEW w \in Worker, Handle(w), NEW t \in Tx, OrderOf[req[w].tx] # OrderOf[t]
  PROVE  Records(t)' = Records(t)
<1>1. OrderOf[t] \in Order /\ req[w].tx # t
  BY PaymentsAssumption
<1>2. CASE CreateStep(w)
  BY <1>1, <1>2 DEF CreateStep, FilterTransaction, InsertTransaction, OrderPending,
     CloseOrder, ExpireTransaction, OrderTimeout, Records, TypeOK, ledger
<1>3. CASE PerformStep(w)
  BY <1>1, <1>3 DEF PerformStep, Pay, ChatPaid, ChatHistory, FindUserCourse, Enrol, JoinGroup,
     CourseHistory, OrderPaid, CloseOrder, Records, TypeOK, ledger
<1>4. CASE CancelStep(w)
  BY <1>1, <1>4 DEF CancelStep, CancelTx, CancelOrder, CancelChat, CancelTariff, CancelClose,
     CloseOrder, Records, TypeOK, ledger
<1>5. QED
  BY <1>2, <1>3, <1>4 DEF Handle

\* What the handler w of t leaves behind: the records its next step needs, or an agreement.
Stands(w, t) == IF req[w].step = "idle" THEN Agree(t) ELSE Between(t, req[w].step)

LEMMA CreateRecords ==
  ASSUME OrderlyInv, NEW w \in Worker, NEW t \in Tx, req[w].tx = t, CreateStep(w),
         Between(t, req[w].step)
  PROVE  Stands(w, t)'
<1> DEFINE o == OrderOf[t]
<1>0. TypeOK /\ o \in Order
  BY PaymentsAssumption DEF OrderlyInv
<1>1. ASSUME NEW s, Goto(w, s) PROVE req'[w].step = s
  BY <1>0, <1>1, GotoFrame
<1>2. ASSUME Finish(w) PROVE req'[w].step = "idle"
  BY <1>0, <1>2, FinishFrame
<1>3. CASE FilterTransaction(w)
  <2>1. Records(t)' = Records(t) /\ Agree(t)
    BY <1>3 DEF FilterTransaction, Records, ledger, Between, TxWriter
  <2>2. req'[w].step \in {"idle", "insert"}
    BY <1>1, <1>2, <1>3 DEF FilterTransaction
  <2>3. Agree(t)'
    BY <2>1, SameRecords
  <2>4. QED
    BY <2>2, <2>3 DEF Stands, Between, TxWriter, Delivering
<1>4. CASE InsertTransaction(w)
  <2>1. tx[t] = "none" /\ Agree(t)
    BY <1>4 DEF InsertTransaction, OrderlyInv, FreshRead, Between, TxWriter
  <2>2. tx'[t] = "PENDING" /\ chat' = chat /\ req'[w].step = "orderPending"
    BY <1>0, <1>1, <1>4 DEF InsertTransaction, TypeOK
  <2>3. QED
    BY <2>1, <2>2 DEF Stands, Between, TxWriter, Delivering, Agree, ChatIs
<1>5. CASE OrderPending(w)
  BY <1>0, <1>2, <1>5 DEF OrderPending, CloseOrder, Stands, Between, Agree, ChatIs, TypeOK,
     Canceled
<1>6. CASE ExpireTransaction(w)
  <2>1. tx[t] = "PENDING" /\ Agree(t)
    BY <1>6 DEF ExpireTransaction, OrderlyInv, FreshRead, Between, TxWriter
  <2>2. /\ tx'[t] = "PENDING_CANCELED" /\ chat' = chat
        /\ req'[w].step \in {"createTimeout", "performTimeout"}
    BY <1>0, <1>1, <1>6 DEF ExpireTransaction, TypeOK
  <2>3. QED
    BY <2>1, <2>2 DEF Stands, Between, TxWriter, Delivering, Agree, ChatIs
<1>7. CASE OrderTimeout(w)
  BY <1>0, <1>2, <1>7 DEF OrderTimeout, CloseOrder, Stands, Between, Agree, ChatIs, Closed,
     TypeOK
<1>8. QED
  BY <1>3, <1>4, <1>5, <1>6, <1>7 DEF CreateStep

LEMMA PerformRecords ==
  ASSUME OrderlyInv, NEW w \in Worker, NEW t \in Tx, req[w].tx = t, PerformStep(w),
         Between(t, req[w].step)
  PROVE  Stands(w, t)'
<1> DEFINE o == OrderOf[t]
<1>0. TypeOK /\ o \in Order /\ Goods[o] \subseteq {"tariff", "liveChat"}
  BY PaymentsAssumption DEF OrderlyInv
<1>1. ASSUME NEW s, Goto(w, s) PROVE req'[w].step = s
  BY <1>0, <1>1, GotoFrame
<1>2. CASE Pay(w)
  <2>1. tx'[t] = "PAID" /\ req'[w].step = AfterPay(o)
    BY <1>0, <1>1, <1>2 DEF Pay, TypeOK
  <2>2. QED
    BY <1>0, <2>1
    DEF Stands, Between, TxWriter, Delivering, AfterPay, AfterChat, ChatIs, Delivered, HandedOver
<1>3. CASE ChatPaid(w)
  BY <1>0, <1>1, <1>3 DEF ChatPaid, Stands, Between, TxWriter, Delivering, ChatIs, TypeOK
<1>4. CASE ChatHistory(w)
  <2>1. /\ req'[w].step = AfterChat(o) /\ UNCHANGED <<tx, chat, order>>
        /\ req[w].id \in chatHistory'[o]
    BY <1>0, <1>1, <1>4 DEF ChatHistory, TypeOK
  <2>2. QED
    BY <1>4, <2>1
    DEF ChatHistory, Stands, Between, TxWriter, Delivering, AfterChat, ChatIs, Delivered,
        HandedOver
<1>5. CASE FindUserCourse(w) \/ Enrol(w) \/ JoinGroup(w)
  <2>1. /\ UNCHANGED <<tx, chat, order>>
        /\ req[w].step \in {"findCourse", "enrol", "joinGroup"}
        /\ req'[w].step \in {"enrol", "joinGroup", "courseHistory"}
    BY <1>0, <1>1, <1>5 DEF FindUserCourse, Enrol, JoinGroup, TypeOK, Request
  <2>2. QED
    BY <2>1 DEF Stands, Between, TxWriter, Delivering, ChatIs
<1>6. CASE CourseHistory(w)
  <2>1. /\ req'[w].step = "orderPaid" /\ UNCHANGED <<tx, chat, order>>
        /\ req[w].id \in courseHistory'[o]
    BY <1>0, <1>1, <1>6 DEF CourseHistory, TypeOK
  <2>2. QED
    BY <1>6, <2>1
    DEF CourseHistory, Stands, Between, TxWriter, Delivering, ChatIs, Delivered, HandedOver
<1>7. CASE OrderPaid(w)
  <2>1. /\ req'[w].step = "idle" /\ order'[o] = "PAID"
        /\ UNCHANGED <<tx, chat, courseHistory, chatHistory>>
    BY <1>0, <1>7, FinishFrame DEF OrderPaid, CloseOrder, TypeOK, ledger
  <2>2. QED
    BY <1>7, <2>1 DEF OrderPaid, CloseOrder, Stands, Between, Delivering, Agree, ChatIs,
       Delivered, HandedOver, Canceled
<1>8. QED
  BY <1>2, <1>3, <1>4, <1>5, <1>6, <1>7 DEF PerformStep

LEMMA CancelRecords ==
  ASSUME OrderlyInv, NEW w \in Worker, NEW t \in Tx, req[w].tx = t, CancelStep(w),
         Between(t, req[w].step)
  PROVE  Stands(w, t)'
<1> DEFINE o == OrderOf[t]
<1>0. TypeOK /\ o \in Order
  BY PaymentsAssumption DEF OrderlyInv
<1>1. ASSUME NEW s, Goto(w, s) PROVE req'[w].step = s
  BY <1>0, <1>1, GotoFrame
<1>2. ASSUME Finish(w) PROVE req'[w].step = "idle"
  BY <1>0, <1>2, FinishFrame
<1>3. CASE CancelTx(w)
  <2>1. tx'[t] \in Canceled /\ req'[w].step = "cancelOrder"
    BY <1>0, <1>1, <1>3 DEF CancelTx, TypeOK, Negated, Canceled
  <2>2. QED
    BY <2>1 DEF Stands, Between, TxWriter, Delivering
<1>4. CASE CancelOrder(w)
  <2>1. /\ UNCHANGED <<tx, chat>> /\ order'[o] = "CANCELED"
        /\ req'[w].step = AfterCancel(o)
    BY <1>0, <1>1, <1>4 DEF CancelOrder, TypeOK
  <2>2. QED
    BY <1>4, <2>1 DEF CancelOrder, Stands, Between, TxWriter, Delivering, AfterCancel,
       AfterCancelChat, ChatIs, Closed
<1>5. CASE CancelChat(w)
  <2>1. /\ UNCHANGED <<tx, order>> /\ chat'[o] = "UNPAID"
        /\ req'[w].step = AfterCancelChat(o)
    BY <1>0, <1>1, <1>5 DEF CancelChat, TypeOK
  <2>2. QED
    BY <1>5, <2>1 DEF CancelChat, Stands, Between, TxWriter, Delivering, AfterCancelChat,
       ChatIs, Closed
<1>6. CASE CancelTariff(w)
  <2>1. /\ UNCHANGED <<tx, order, chat>>
        /\ req[w].step = "cancelTariff" /\ req'[w].step \in {"idle", "cancelClose"}
    BY <1>1, <1>2, <1>6 DEF CancelTariff
  <2>2. QED
    BY <2>1 DEF Stands, Between, TxWriter, Delivering, Agree, ChatIs, Closed, Canceled
<1>7. CASE CancelClose(w)
  <2>1. /\ UNCHANGED <<tx, chat>> /\ order'[o] = "CANCELED" /\ req'[w].step = "idle"
    BY <1>0, <1>2, <1>7 DEF CancelClose, CloseOrder, TypeOK
  <2>2. QED
    BY <1>7, <2>1 DEF CancelClose, CloseOrder, Stands, Between, Agree, ChatIs, Closed, Canceled
<1>8. QED
  BY <1>3, <1>4, <1>5, <1>6, <1>7 DEF CancelStep

\* A step of a handler takes its own transaction on, and no other one that is alone.
LEMMA RecordHandle ==
  ASSUME RecordInv, NEW w \in Worker, Handle(w), aborts' = aborts
  PROVE  RecordsFollow'
<1> SUFFICES ASSUME aborts = 0, NEW t \in Tx, Solo(t)
             PROVE  Following(t)'
  BY DEF RecordsFollow, Solo
<1>0. /\ TypeOK /\ OrderlyInv /\ req[w].tx \in Tx /\ req[w].tx # NoTx
      /\ \A v \in Worker : v # w => req'[v] = req[v]
      /\ \/ req'[w].step = "idle" /\ req'[w].tx = NoTx
         \/ req'[w].step # "idle" /\ req'[w].tx = req[w].tx
  BY HandlerRecord, PaymentsAssumption DEF RecordInv, OrderlyInv, TypeOK
<1>1. /\ (\A v \in Worker : req[v].tx # t) => Agree(t)
      /\ \A v \in Worker : req[v].tx = t => Between(t, req[v].step)
  BY DEF RecordInv, RecordsFollow, Following
<1>2. CASE req[w].tx = t
  <2>1. Stands(w, t)'
    BY <1>0, <1>1, <1>2, CreateRecords, PerformRecords, CancelRecords DEF Handle
  <2>2. \A v \in Worker : v # w => req'[v].tx # t
    BY <1>0, <1>2 DEF OrderlyInv, OneHandler
  <2>3. t # NoTx
    BY PaymentsAssumption
  <2>4. QED
    BY <1>0, <1>2, <2>1, <2>2, <2>3 DEF Stands, Following
<1>3. CASE req[w].tx # t
  <2>1. OrderOf[req[w].tx] # OrderOf[t]
    BY <1>0, <1>3 DEF Solo
  <2>2. Records(t)' = Records(t)
    BY <1>0, <2>1, OtherRecords
  <2>3. Agree(t)' = Agree(t) /\ \A s : Between(t, s)' = Between(t, s)
    BY <2>2, SameRecords
  <2>4. t # NoTx
    BY PaymentsAssumption
  <2>5. \A v \in Worker : req'[v].tx = t => req[v].tx = t /\ req'[v] = req[v]
    BY <1>0, <1>3, <2>4
  <2>6. (\A v \in Worker : req'[v].tx # t) => (\A v \in Worker : req[v].tx # t)
    BY <1>0, <1>3
  <2>7. QED
    BY <1>1, <2>3, <2>5, <2>6 DEF Following
<1>4. QED
  BY <1>2, <1>3

\* A request starts from records that agree.
LEMMA RecordAccept ==
  ASSUME ~Overlap, RecordInv, NEW w \in Worker, Accept(w)
  PROVE  RecordsFollow'
<1> SUFFICES ASSUME aborts' = 0, NEW t \in Tx, Solo(t)
             PROVE  Following(t)'
  BY DEF RecordsFollow, Solo
<1>1. PICK u \in Tx, s \in Step :
        /\ Begin(w, u, s)
        /\ \/ s \in TxWriter
           \/ tx[u] \in Canceled /\ s = AfterCancel(OrderOf[u])
  BY DEF Accept, CreateTransaction, PerformTransaction, CancelTransaction, Step, TxWriter,
     AfterCancel, AfterCancelChat
<1>2. /\ UNCHANGED <<tx, order, chat, courseHistory, chatHistory, aborts>>
      /\ \A v \in Worker : v # w => req'[v] = req[v]
      /\ req'[w].tx = u /\ req'[w].step = s
      /\ \A v \in Worker : req[v].tx # u
      /\ req[w].step = "idle"
  BY <1>1 DEF Begin, RecordInv, OrderlyInv, TypeOK, ledger
<1>3. Agree(t)' = Agree(t) /\ \A x : Between(t, x)' = Between(t, x)
  BY <1>2, SameRecords DEF Records
<1>4. /\ (\A v \in Worker : req[v].tx # t) => Agree(t)
      /\ \A v \in Worker : req[v].tx = t => Between(t, req[v].step)
  BY <1>2 DEF RecordInv, RecordsFollow, Following
<1>5. CASE u = t
  <2>1. Agree(t)
    BY <1>2, <1>4, <1>5
  <2>2. Between(t, s)
    BY <1>1, <1>5, <2>1 DEF Between, TxWriter, Delivering, AfterCancel, AfterCancelChat, Agree,
       ChatIs, Canceled
  <2>3. QED
    BY <1>2, <1>3, <1>5, <2>2 DEF Following
<1>6. CASE u # t
  <2>1. req[w].tx # t
    BY <1>2, PaymentsAssumption DEF RecordInv, OrderlyInv, OneHandler
  <2>2. QED
    BY <1>2, <1>3, <1>4, <1>6, <2>1 DEF Following
<1>7. QED
  BY <1>5, <1>6

\* The client creates an order that has no transaction yet.
LEMMA RecordCreateOrder ==
  ASSUME RecordInv, NEW o \in Order, CreateOrder(o)
  PROVE  RecordsFollow'
<1> SUFFICES ASSUME aborts' = 0, NEW t \in Tx, Solo(t)
             PROVE  Following(t)'
  BY DEF RecordsFollow, Solo
<1>1. /\ UNCHANGED <<tx, chat, courseHistory, chatHistory, req, aborts>>
      /\ \/ order'[OrderOf[t]] = order[OrderOf[t]]
         \/ order[OrderOf[t]] = "none" /\ order'[OrderOf[t]] = "PENDING"
  BY PaymentsAssumption DEF CreateOrder, RecordInv, OrderlyInv, TypeOK, ledger
<1>2. Agree(t) => Agree(t)'
  BY <1>1 DEF Agree, ChatIs, Delivered, HandedOver, Closed
<1>3. ASSUME NEW s, Between(t, s) PROVE Between(t, s)'
  BY <1>1, <1>2, <1>3 DEF Between, ChatIs, Delivered, HandedOver, Closed
<1>4. QED
  BY <1>1, <1>2, <1>3 DEF RecordInv, RecordsFollow, Following

LEMMA RecordInit == Init => RecordInv
<1> SUFFICES ASSUME Init PROVE RecordsFollow
  BY OrderlyInit DEF RecordInv
<1>1. \A t \in Tx : OrderOf[t] \in Order /\ t # NoTx
  BY PaymentsAssumption
<1>2. \A t \in Tx : Agree(t)
  BY <1>1 DEF Init, Agree, ChatIs, Delivered, HandedOver, Closed, Canceled
<1>3. \A w \in Worker : req[w].tx = NoTx
  BY DEF Init, Idle
<1>4. QED
  BY <1>1, <1>2, <1>3 DEF RecordsFollow, Following

LEMMA RecordStep == ASSUME ~Overlap, RecordInv, [Next]_vars PROVE RecordInv'
<1>0. OrderlyInv' /\ TypeOK
  BY OrderlyStep DEF RecordInv, OrderlyInv
<1>1. ASSUME NEW w \in Worker, Accept(w) PROVE RecordsFollow'
  BY <1>1, RecordAccept
<1>2. ASSUME NEW w \in Worker, Handle(w) PROVE RecordsFollow'
  <2>1. aborts' = aborts
    BY <1>2 DEF Handle, CreateStep, PerformStep, CancelStep, FilterTransaction,
       InsertTransaction, OrderPending, CloseOrder, ExpireTransaction, OrderTimeout, Pay,
       ChatPaid, ChatHistory, FindUserCourse, Enrol, JoinGroup, CourseHistory, OrderPaid,
       CancelTx, CancelOrder, CancelChat, CancelTariff, CancelClose
  <2>2. QED
    BY <1>2, <2>1, RecordHandle
<1>3. ASSUME NEW w \in Worker, Abort(w) PROVE RecordsFollow'
  <2>1. aborts' # 0
    BY <1>0, <1>3 DEF Abort, TypeOK
  <2>2. QED
    BY <2>1 DEF RecordsFollow, Following
<1>4. ASSUME NEW t \in Tx, Expire(t) PROVE RecordsFollow'
  <2>1. /\ UNCHANGED <<req, aborts>>
        /\ \A u \in Tx : Records(u)' = Records(u)
    BY <1>4 DEF Expire, Records, ledger
  <2>2. QED
    BY <2>1, SameRecords DEF RecordInv, RecordsFollow, Following, Solo
<1>5. ASSUME UNCHANGED vars PROVE RecordsFollow'
  <2>1. /\ UNCHANGED <<req, aborts>>
        /\ \A u \in Tx : Records(u)' = Records(u)
    BY <1>5 DEF vars, Records
  <2>2. QED
    BY <2>1, SameRecords DEF RecordInv, RecordsFollow, Following, Solo
<1>6. QED
  BY <1>0, <1>1, <1>2, <1>3, <1>4, <1>5, RecordCreateOrder DEF Next, RecordInv

\* With one transaction for an order, requests on it one at a time and nothing abandoned,
\* transaction, order, live chat and payment history agree whenever no handler is at work,
\* for any number of orders and handlers of other transactions.
THEOREM RecordsAgreeCorrect == ASSUME ~Overlap PROVE Spec => []RecordsAgree
<1>1. RecordInv => RecordsAgree
  <2> SUFFICES ASSUME RecordInv, NEW t \in Tx, Settled(OrderOf[t]), Solo(t)
               PROVE  Agree(t)
    BY DEF RecordsAgree, Solo, Agree, ChatIs, Delivered, HandedOver, Closed
  <2>1. t # NoTx
    BY PaymentsAssumption
  <2>2. \A w \in Worker : req[w].tx # t
    BY <2>1 DEF Settled, RecordInv, OrderlyInv, OneHandler
  <2>3. QED
    BY <2>2 DEF Settled, RecordInv, RecordsFollow, Following
<1>2. RecordInv /\ [Next]_vars => RecordInv'
  BY RecordStep
<1>3. QED
  BY <1>1, <1>2, RecordInit, PTL DEF Spec
=============================================================================
