-------------------------- MODULE PaymentContract --------------------------
(***************************************************************************)
(* What the Payme merchant API promises the gateway and the client, with   *)
(* no handlers, retries or failures: a transaction is created, paid and    *)
(* canceled, an order receives its goods while a transaction of its own is *)
(* paid, and its status only ever says what one of its transactions says.  *)
(***************************************************************************)
CONSTANTS Tx, Order, OrderOf, Goods

VARIABLES
  state,      \* of each transaction
  delivered,  \* the orders whose goods have been handed over
  status      \* of each order

vars == <<state, delivered, status>>

Init ==
  /\ state = [t \in Tx |-> "none"]
  /\ delivered = {}
  /\ status = [o \in Order |-> "none"]

\* Order o has a transaction in state s.
Has(o, s) == \E t \in Tx : OrderOf[t] = o /\ state[t] = s

Place(o) ==
  /\ status[o] = "none"
  /\ status' = [status EXCEPT ![o] = "open"]
  /\ UNCHANGED <<state, delivered>>

Create(t) ==
  /\ state[t] = "none"
  /\ status[OrderOf[t]] # "none"
  /\ state' = [state EXCEPT ![t] = "pending"]
  /\ UNCHANGED <<delivered, status>>

Perform(t) ==
  /\ state[t] = "pending"
  /\ state' = [state EXCEPT ![t] = "paid"]
  /\ UNCHANGED <<delivered, status>>

Cancel(t) ==
  /\ state[t] \in {"pending", "paid"}
  /\ state' = [state EXCEPT ![t] = "canceled"]
  /\ UNCHANGED <<delivered, status>>

Deliver(o) ==
  /\ Has(o, "paid")
  /\ delivered' = delivered \cup {o}
  /\ UNCHANGED <<state, status>>

\* The goods come before the word that the order is paid.
Settle(o) ==
  /\ Has(o, "paid")
  /\ o \in delivered \/ Goods[o] = {}
  /\ status' = [status EXCEPT ![o] = "paid"]
  /\ UNCHANGED <<state, delivered>>

Reopen(o) ==
  /\ Has(o, "pending")
  /\ status' = [status EXCEPT ![o] = "open"]
  /\ UNCHANGED <<state, delivered>>

Close(o) ==
  /\ Has(o, "canceled")
  /\ status' = [status EXCEPT ![o] = "closed"]
  /\ UNCHANGED <<state, delivered>>

Next ==
  \/ \E t \in Tx : Create(t) \/ Perform(t) \/ Cancel(t)
  \/ \E o \in Order : Place(o) \/ Deliver(o) \/ Settle(o) \/ Reopen(o) \/ Close(o)

Spec == Init /\ [][Next]_vars
=============================================================================
