------------------------------ MODULE Payments ------------------------------
(***************************************************************************)
(* The Payme merchant API of src/src/modules/transactions and the orders   *)
(* it settles.  The payment gateway calls CreateTransaction,               *)
(* PerformTransaction and CancelTransaction; every handler is a sequence   *)
(* of awaited database calls without a database transaction around them,   *)
(* so the handlers of several requests interleave at every await and a     *)
(* failed call or a restart abandons a handler where it stands.            *)
(*                                                                         *)
(* A handler is a record in req: the step it will take next and what it    *)
(* read before.  Calls that only answer an error or repeat a stored reply  *)
(* change nothing and are not steps.                                       *)
(***************************************************************************)
EXTENDS Naturals

CONSTANTS
  Tx,            \* transaction ids chosen by the gateway
  NoTx,          \* the transaction of an idle handler
  Order,         \* order ids
  Subscription,  \* (user, course) pairs, the logical key of user_courses
  Worker,        \* handlers that may be in flight at the same time
  OrderOf,       \* the account.order_id the gateway sends with a transaction
  SubOf,         \* the (user, course) an order's tariff is for
  Goods,         \* what an order sells: a tariff, a live chat, or both
  Overlap,       \* may the gateway overlap two requests on one transaction?
  MaxRequests,   \* bound: requests sent by the gateway
  MaxAborts      \* bound: handlers abandoned by an exception or a restart

ASSUME PaymentsAssumption ==
  /\ NoTx \notin Tx
  /\ OrderOf \in [Tx -> Order]
  /\ SubOf \in [Order -> Subscription]
  /\ Goods \in [Order -> SUBSET {"tariff", "liveChat"}]
  /\ Overlap \in BOOLEAN
  /\ MaxRequests \in Nat
  /\ MaxAborts \in Nat

VARIABLES
  order,          \* orders.status, "none" before createOrder
  tx,             \* transactions.state, "none" when the row does not exist
  expired,        \* transactions created 12 minutes ago or more
  chat,           \* live_chats.status of the order's live chat
  enrolments,     \* number of user_courses rows of a subscription
  joins,          \* receipts whose addStudentToGroup call went through
  courseHistory,  \* receipts in course_payment_history, by order
  chatHistory,    \* receipts in livechat_payment_history, by order
  payments,       \* history: every write of PAID, with the request that did it
  req,            \* the handlers in flight
  requests,       \* requests accepted so far
  aborts          \* handlers abandoned so far

ledger == <<joins, courseHistory, chatHistory>>
vars == <<order, tx, expired, chat, enrolments, joins, courseHistory,
          chatHistory, payments, req, requests, aborts>>

(***************************************************************************)
(* States.                                                                 *)
(***************************************************************************)
TransactionState == {"PENDING", "PAID", "PENDING_CANCELED", "PAID_CANCELED"}
Canceled == {"PENDING_CANCELED", "PAID_CANCELED"}
TxState == TransactionState \cup {"none"}
OrderStatus == {"PAID", "PENDING", "CANCELED", "TIMEOUT"}

Step == {"idle", "filter", "insert", "orderPending",
         "createExpire", "createTimeout", "performExpire", "performTimeout",
         "pay", "chatPaid", "chatHistory", "findCourse", "enrol", "joinGroup",
         "courseHistory", "orderPaid",
         "cancelTx", "cancelOrder", "cancelChat", "cancelTariff", "cancelClose"}

\* The steps that are about to write a transaction row from an earlier read.
TxWriter == {"filter", "insert", "createExpire", "performExpire", "pay",
             "cancelTx"}

Request == [step : Step, tx : Tx \cup {NoTx}, seen : TxState, enrolled : BOOLEAN,
            id : Nat]
Idle == [step |-> "idle", tx |-> NoTx, seen |-> "none", enrolled |-> FALSE,
         id |-> 0]

Payment == [id : Nat, tx : Tx]

(***************************************************************************)
(* -|state| for a positive state: PENDING -> PENDING_CANCELED and          *)
(* PAID -> PAID_CANCELED.                                                  *)
(***************************************************************************)
Negated(s) == IF s = "PAID" THEN "PAID_CANCELED" ELSE "PENDING_CANCELED"

Goto(w, step) == req' = [req EXCEPT ![w].step = step]
Finish(w) == req' = [req EXCEPT ![w] = Idle]

\* What performTransaction does next, once the live chat part is behind it.
AfterChat(o) == IF "tariff" \in Goods[o] THEN "findCourse" ELSE "orderPaid"
\* Mutant: an order without a live chat is closed without its tariff.
BuggyAfterPay(o) == IF "liveChat" \in Goods[o] THEN "chatPaid" ELSE "orderPaid"
AfterPay(o) == IF "liveChat" \in Goods[o] THEN "chatPaid" ELSE AfterChat(o)

\* What cancelTransaction does next, once the transaction is written.
AfterCancelChat(o) == IF "tariff" \in Goods[o] THEN "cancelTariff" ELSE "cancelClose"
AfterCancel(o) == IF "liveChat" \in Goods[o] THEN "cancelChat" ELSE AfterCancelChat(o)

Init ==
  /\ order = [o \in Order |-> "none"]
  /\ tx = [t \in Tx |-> "none"]
  /\ expired = {}
  /\ chat = [o \in Order |-> "UNPAID"]
  /\ enrolments = [s \in Subscription |-> 0]
  /\ joins = [o \in Order |-> {}]
  /\ courseHistory = [o \in Order |-> {}]
  /\ chatHistory = [o \in Order |-> {}]
  /\ payments = {}
  /\ req = [w \in Worker |-> Idle]
  /\ requests = 0
  /\ aborts = 0

-----------------------------------------------------------------------------
(***************************************************************************)
(* The client's order and the clock.                                       *)
(***************************************************************************)
CreateOrder(o) ==
  /\ order[o] = "none"
  /\ order' = [order EXCEPT ![o] = "PENDING"]
  /\ UNCHANGED <<tx, expired, chat, enrolments, ledger, payments, req, requests,
                 aborts>>

\* Twelve minutes pass since the gateway's createTime of t.
Expire(t) ==
  /\ tx[t] # "none"
  /\ t \notin expired
  /\ expired' = expired \cup {t}
  /\ UNCHANGED <<order, tx, chat, enrolments, ledger, payments, req, requests,
                 aborts>>

(***************************************************************************)
(* A request reaches an idle handler, which reads the transaction row and  *)
(* branches on it.  When Overlap is FALSE the gateway waits for the answer *)
(* (or the failure) of a request before it sends another for the same id.  *)
(***************************************************************************)
Begin(w, t, step) ==
  /\ req[w].step = "idle"
  /\ requests < MaxRequests
  /\ Overlap \/ \A v \in Worker : req[v].tx # t
  /\ requests' = requests + 1
  /\ req' = [req EXCEPT ![w] = [step |-> step, tx |-> t, seen |-> tx[t],
                                enrolled |-> FALSE, id |-> requests + 1]]
  /\ UNCHANGED <<order, tx, expired, chat, enrolments, ledger, payments, aborts>>

\* Mutant: any row that is not PENDING is taken for a missing one.
BuggyCreateTransaction(w, t) ==
  /\ order[OrderOf[t]] # "none"
  /\ \/ tx[t] # "PENDING" /\ Begin(w, t, "filter")
     \/ tx[t] = "PENDING" /\ t \in expired /\ Begin(w, t, "createExpire")

CreateTransaction(w, t) ==
  /\ order[OrderOf[t]] # "none"
  /\ \/ tx[t] = "none" /\ Begin(w, t, "filter")
     \/ tx[t] = "PENDING" /\ t \in expired /\ Begin(w, t, "createExpire")

\* Mutant: the delivery starts before the transaction is marked PAID.
EarlyPerformTransaction(w, t) ==
  /\ tx[t] = "PENDING"
  /\ \/ t \in expired /\ Begin(w, t, "performExpire")
     \/ t \notin expired /\ Begin(w, t, AfterPay(OrderOf[t]))

PerformTransaction(w, t) ==
  /\ tx[t] = "PENDING"
  /\ \/ t \in expired /\ Begin(w, t, "performExpire")
     \/ t \notin expired /\ Begin(w, t, "pay")

CancelTransaction(w, t) ==
  \/ tx[t] \in {"PENDING", "PAID"} /\ Begin(w, t, "cancelTx")
  \/ tx[t] \in Canceled /\ Begin(w, t, AfterCancel(OrderOf[t]))

-----------------------------------------------------------------------------
(***************************************************************************)
(* createTransaction.  getByFilter is a findOne without an ORDER BY: it    *)
(* returns any one row of the user and order.                              *)
(***************************************************************************)
RowsOf(o) == {u \in Tx : OrderOf[u] = o /\ tx[u] # "none"}

FilterTransaction(w) ==
  LET o == OrderOf[req[w].tx] IN
  /\ req[w].step = "filter"
  /\ \/ RowsOf(o) = {} /\ Goto(w, "insert")
     \/ \E u \in RowsOf(o) :
          \/ tx[u] \in {"PAID", "PENDING"} /\ Finish(w)
          \/ tx[u] \in Canceled /\ Goto(w, "insert")
  /\ UNCHANGED <<order, tx, expired, chat, enrolments, ledger, payments, requests,
                 aborts>>

\* repository.save: an INSERT, or an UPDATE of the row that has appeared since.
InsertTransaction(w) ==
  /\ req[w].step = "insert"
  /\ tx' = [tx EXCEPT ![req[w].tx] = "PENDING"]
  /\ Goto(w, "orderPending")
  /\ UNCHANGED <<order, expired, chat, enrolments, ledger, payments, requests,
                 aborts>>

\* The last write of a handler: the order's status, then the answer.
CloseOrder(w, step, status) ==
  /\ req[w].step = step
  /\ order' = [order EXCEPT ![OrderOf[req[w].tx]] = status]
  /\ Finish(w)
  /\ UNCHANGED <<tx, expired, chat, enrolments, ledger, payments, requests, aborts>>

OrderPending(w) == CloseOrder(w, "orderPending", "PENDING")

\* A retried create, or a perform, that finds the 12 minutes gone.
ExpireTransaction(w) ==
  /\ \/ req[w].step = "createExpire" /\ Goto(w, "createTimeout")
     \/ req[w].step = "performExpire" /\ Goto(w, "performTimeout")
  /\ tx' = [tx EXCEPT ![req[w].tx] = "PENDING_CANCELED"]
  /\ UNCHANGED <<order, expired, chat, enrolments, ledger, payments, requests,
                 aborts>>

\* Mutant: a timed out perform closes the order as PAID.
BuggyOrderTimeout(w) ==
  \/ CloseOrder(w, "createTimeout", "TIMEOUT")
  \/ CloseOrder(w, "performTimeout", "PAID")

OrderTimeout(w) ==
  \/ CloseOrder(w, "createTimeout", "TIMEOUT")
  \/ CloseOrder(w, "performTimeout", "TIMEOUT")

(***************************************************************************)
(* performTransaction.                                                     *)
(***************************************************************************)
Pay(w) ==
  /\ req[w].step = "pay"
  /\ tx' = [tx EXCEPT ![req[w].tx] = "PAID"]
  /\ payments' = payments \cup {[id |-> req[w].id, tx |-> req[w].tx]}
  /\ Goto(w, AfterPay(OrderOf[req[w].tx]))
  /\ UNCHANGED <<order, expired, chat, enrolments, ledger, requests, aborts>>

ChatPaid(w) ==
  /\ req[w].step = "chatPaid"
  /\ chat' = [chat EXCEPT ![OrderOf[req[w].tx]] = "PAID"]
  /\ Goto(w, "chatHistory")
  /\ UNCHANGED <<order, tx, expired, enrolments, ledger, payments, requests, aborts>>

ChatHistory(w) ==
  LET o == OrderOf[req[w].tx] IN
  /\ req[w].step = "chatHistory"
  /\ chatHistory' = [chatHistory EXCEPT ![o] = @ \cup {req[w].id}]
  /\ Goto(w, AfterChat(o))
  /\ UNCHANGED <<order, tx, expired, chat, enrolments, joins, courseHistory,
                 payments, requests, aborts>>

FindUserCourse(w) ==
  /\ req[w].step = "findCourse"
  /\ req' = [req EXCEPT ![w].step = "enrol",
                        ![w].enrolled = enrolments[SubOf[OrderOf[req[w].tx]]] > 0]
  /\ UNCHANGED <<order, tx, expired, chat, enrolments, ledger, payments, requests,
                 aborts>>

\* Renew the row found before, or create one.
Enrol(w) ==
  /\ req[w].step = "enrol"
  /\ IF req[w].enrolled
     THEN UNCHANGED enrolments
     ELSE enrolments' = [enrolments EXCEPT ![SubOf[OrderOf[req[w].tx]]] = @ + 1]
  /\ Goto(w, "joinGroup")
  /\ UNCHANGED <<order, tx, expired, chat, ledger, payments, requests, aborts>>

\* groupService.addStudentToGroup inside a try/catch that swallows its failure.
JoinGroup(w) ==
  LET o == OrderOf[req[w].tx] IN
  /\ req[w].step = "joinGroup"
  /\ joins' \in {joins, [joins EXCEPT ![o] = @ \cup {req[w].id}]}
  /\ Goto(w, "courseHistory")
  /\ UNCHANGED <<order, tx, expired, chat, enrolments, courseHistory, chatHistory,
                 payments, requests, aborts>>

\* The AI limit reset that follows touches no state of this module.
CourseHistory(w) ==
  LET o == OrderOf[req[w].tx] IN
  /\ req[w].step = "courseHistory"
  /\ courseHistory' = [courseHistory EXCEPT ![o] = @ \cup {req[w].id}]
  /\ Goto(w, "orderPaid")
  /\ UNCHANGED <<order, tx, expired, chat, enrolments, joins, chatHistory, payments,
                 requests, aborts>>

OrderPaid(w) == CloseOrder(w, "orderPaid", "PAID")

(***************************************************************************)
(* cancelTransaction.  The state written is computed from the row read at  *)
(* the start of the handler.                                               *)
(***************************************************************************)
CancelTx(w) ==
  /\ req[w].step = "cancelTx"
  /\ tx' = [tx EXCEPT ![req[w].tx] = Negated(req[w].seen)]
  /\ Goto(w, "cancelOrder")
  /\ UNCHANGED <<order, expired, chat, enrolments, ledger, payments, requests,
                 aborts>>

CancelOrder(w) ==
  LET o == OrderOf[req[w].tx] IN
  /\ req[w].step = "cancelOrder"
  /\ order' = [order EXCEPT ![o] = "CANCELED"]
  /\ Goto(w, AfterCancel(o))
  /\ UNCHANGED <<tx, expired, chat, enrolments, ledger, payments, requests, aborts>>

\* Mutant: the live chat is left as it was.
BuggyCancelChat(w) ==
  LET o == OrderOf[req[w].tx] IN
  /\ req[w].step = "cancelChat"
  /\ Goto(w, AfterCancelChat(o))
  /\ UNCHANGED <<order, tx, expired, chat, enrolments, ledger, payments, requests,
                 aborts>>

CancelChat(w) ==
  LET o == OrderOf[req[w].tx] IN
  /\ req[w].step = "cancelChat"
  /\ chat' = [chat EXCEPT ![o] = "UNPAID"]
  /\ Goto(w, AfterCancelChat(o))
  /\ UNCHANGED <<order, tx, expired, enrolments, ledger, payments, requests, aborts>>

(***************************************************************************)
(* findOneByTariffId returns somebody's user_tariffs row, which is deleted,*)
(* or null, and then delete(null) throws and the handler answers 500.      *)
(***************************************************************************)
CancelTariff(w) ==
  /\ req[w].step = "cancelTariff"
  /\ Goto(w, "cancelClose") \/ Finish(w)
  /\ UNCHANGED <<order, tx, expired, chat, enrolments, ledger, payments, requests,
                 aborts>>

CancelClose(w) == CloseOrder(w, "cancelClose", "CANCELED")

\* An awaited call throws outside any catch, or the process restarts.
Abort(w) ==
  /\ req[w].step # "idle"
  /\ aborts < MaxAborts
  /\ aborts' = aborts + 1
  /\ Finish(w)
  /\ UNCHANGED <<order, tx, expired, chat, enrolments, ledger, payments, requests>>

-----------------------------------------------------------------------------
Accept(w) ==
  \E t \in Tx : \/ CreateTransaction(w, t)
                \/ PerformTransaction(w, t)
                \/ CancelTransaction(w, t)

CreateStep(w) ==
  \/ FilterTransaction(w) \/ InsertTransaction(w) \/ OrderPending(w)
  \/ ExpireTransaction(w) \/ OrderTimeout(w)

PerformStep(w) ==
  \/ Pay(w) \/ ChatPaid(w) \/ ChatHistory(w) \/ FindUserCourse(w) \/ Enrol(w)
  \/ JoinGroup(w) \/ CourseHistory(w) \/ OrderPaid(w)

CancelStep(w) ==
  \/ CancelTx(w) \/ CancelOrder(w) \/ CancelChat(w) \/ CancelTariff(w)
  \/ CancelClose(w)

Handle(w) == CreateStep(w) \/ PerformStep(w) \/ CancelStep(w)

Next ==
  \/ \E o \in Order : CreateOrder(o)
  \/ \E t \in Tx : Expire(t)
  \/ \E w \in Worker : Accept(w) \/ Handle(w) \/ Abort(w)

Spec == Init /\ [][Next]_vars

\* The event loop resumes a handler whose awaited call has been answered.
FairSpec == Spec /\ \A w \in Worker : WF_vars(Handle(w))

-----------------------------------------------------------------------------
(***************************************************************************)
(* Properties.                                                             *)
(***************************************************************************)

\* Type invariant: rows hold values of their enums and every handler in flight
\* belongs to a transaction.
TypeOK ==
  /\ order \in [Order -> OrderStatus \cup {"none"}]
  /\ tx \in [Tx -> TxState]
  /\ expired \subseteq Tx
  /\ chat \in [Order -> {"PAID", "UNPAID"}]
  /\ enrolments \in [Subscription -> Nat]
  /\ joins \in [Order -> SUBSET Nat]
  /\ courseHistory \in [Order -> SUBSET Nat]
  /\ chatHistory \in [Order -> SUBSET Nat]
  /\ payments \subseteq Payment
  /\ req \in [Worker -> Request]
  /\ \A w \in Worker : req[w].step # "idle" => req[w].tx \in Tx
  /\ requests \in Nat
  /\ aborts \in Nat

\* The receipts of the requests that wrote PAID on a transaction of order o.
ReceiptsOf(o) == {p.id : p \in {q \in payments : OrderOf[q.tx] = o}}

\* performTransaction delivers (group seat, payment history rows) only after it
\* wrote PAID for a transaction of that very order: however requests interleave,
\* fail or expire, every delivery has its own payment.
DeliveredOnlyWhenPaid ==
  \A o \in Order :
    courseHistory[o] \cup chatHistory[o] \cup joins[o] \subseteq ReceiptsOf(o)

\* An order is marked PAID only by a handler that wrote PAID for one of its
\* transactions.
PaidOrderHasReceipt ==
  \A o \in Order : order[o] = "PAID" => ReceiptsOf(o) # {}

\* A canceled transaction with no handler left that read it earlier.
CanceledAndQuiet(t) ==
  /\ tx[t] \in Canceled
  /\ \A w \in Worker : req[w].tx = t => req[w].step \notin TxWriter

\* Once a transaction is canceled and the handlers that read it earlier are gone,
\* no later request (retry, perform, second cancel) revives or changes it.
CancelIsFinal ==
  [][\A t \in Tx : CanceledAndQuiet(t) =>
        CanceledAndQuiet(t)' /\ tx'[t] = tx[t]]_vars

\* If the gateway never overlaps two requests on one transaction, a transaction
\* moves only along PENDING -> PAID -> PAID_CANCELED or PENDING ->
\* PENDING_CANCELED, also when handlers of other transactions interleave and
\* handlers are abandoned half way.
Lifecycle ==
  {<<"none", "PENDING">>, <<"PENDING", "PAID">>,
   <<"PENDING", "PENDING_CANCELED">>, <<"PAID", "PAID_CANCELED">>}

OrderlyLifecycle ==
  [][\A t \in Tx : tx'[t] # tx[t] => <<tx[t], tx'[t]>> \in Lifecycle]_vars

\* A transaction is performed once: a repeated PerformTransaction is answered from
\* the stored row and never pays and delivers again.
PerformedOnce ==
  \A p, q \in payments : p.tx = q.tx => p = q

\* No handler works on order o, and no handler has been abandoned.
Settled(o) ==
  /\ aborts = 0
  /\ \A w \in Worker : req[w].step # "idle" => OrderOf[req[w].tx] # o

\* With one transaction per order and nothing abandoned, the three records of a
\* payment agree whenever no handler is at work: transaction, order and live chat.
RecordsAgree ==
  \A t \in Tx :
    LET o == OrderOf[t] IN
      (Settled(o) /\ \A u \in Tx : OrderOf[u] = o => u = t) =>
        /\ tx[t] = "PAID" <=> order[o] = "PAID"
        /\ tx[t] = "PAID" => Goods[o] = {} \/ courseHistory[o] \cup chatHistory[o] # {}
        /\ "liveChat" \in Goods[o] => (tx[t] = "PAID" <=> chat[o] = "PAID")
        /\ tx[t] \in Canceled => order[o] \in {"CANCELED", "TIMEOUT"}

\* Every payment is eventually delivered, unless a handler was abandoned: its receipt
\* reaches the history of everything the order sells.
EveryPaymentDelivered ==
  \A i \in 1..MaxRequests : \A o \in Order :
    i \in ReceiptsOf(o)
      ~> \/ aborts > 0
         \/ /\ "tariff" \in Goods[o] => i \in courseHistory[o]
            /\ "liveChat" \in Goods[o] => i \in chatHistory[o]
=============================================================================
