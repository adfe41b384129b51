-------------------------- MODULE PaymentsContract -------------------------
(***************************************************************************)
(* The handlers of Payments implement PaymentContract when the gateway     *)
(* waits for each answer on a transaction.                                 *)
(***************************************************************************)
EXTENDS Payments

\* What the contract calls the state of a row.
PublicState(s) ==
  CASE s = "PENDING" -> "pending"
    [] s = "PAID" -> "paid"
    [] s \in Canceled -> "canceled"
    [] OTHER -> "none"

PublicStatus(s) ==
  CASE s = "PENDING" -> "open"
    [] s = "PAID" -> "paid"
    [] s \in {"CANCELED", "TIMEOUT"} -> "closed"
    [] OTHER -> "none"

Contract == INSTANCE PaymentContract WITH
  state     <- [t \in Tx |-> PublicState(tx[t])],
  delivered <- {o \in Order : courseHistory[o] \cup chatHistory[o] # {}},
  status    <- [o \in Order |-> PublicStatus(order[o])]

\* Every step of the handlers, of however many transactions and whatever is abandoned half
\* way, is a step the contract allows, or changes nothing of what it speaks of. The order's
\* status follows the transaction, goods come only while it is paid and before the order says
\* so. (transactions.service.ts, the order of the writes of each handler.)
ImplementsContract == Contract!Spec
=============================================================================
