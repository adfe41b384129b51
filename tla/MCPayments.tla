----------------------------- MODULE MCPayments -----------------------------
(***************************************************************************)
(* Two orders of one user and course: the first sells a tariff, the second *)
(* a tariff and a live chat.                                               *)
(***************************************************************************)
EXTENDS PaymentsContract, TLC

CONSTANTS t1, t2, t3, o1, o2, w1, w2

MCGoods == o1 :> {"tariff"} @@ o2 :> {"tariff", "liveChat"}
MCSubOf == [o \in {o1, o2} |-> "user-course"]
\* One transaction for each order.
MCOnePerOrder == t1 :> o1 @@ t2 :> o2
\* A second transaction for the first order.
MCTwoPerOrder == t1 :> o1 @@ t2 :> o2 @@ t3 :> o1
=============================================================================
