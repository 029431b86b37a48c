----------------------------- MODULE MCPayments -----------------------------
(* A small instance of Payments: two sessions, one wallet, and two orders  *)
(* of which its deposit can pay for either but not for both.               *)
EXTENDS Payments, TLC

CONSTANTS s1, s2, u1, d1, o1, o2

OneDeposit == d1 :> u1
TwoUnits == d1 :> 2
OneAndTwo == (o1 :> 1) @@ (o2 :> 2)
=============================================================================
