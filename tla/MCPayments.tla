------------------------------ MODULE MCPayments ------------------------------
(***************************************************************************)
(* Instance of Payments: two payments by one transaction and one by        *)
(* another, and a seen set of one, so that the second transaction evicts.  *)
(***************************************************************************)
EXTENDS Payments, TLC

SharedTx  == "p1" :> "t1" @@ "p2" :> "t1"
MCTx      == SharedTx @@ "p3" :> "t2"
==============================================================================
