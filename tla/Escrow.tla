------------------------------- MODULE Escrow -------------------------------
(***************************************************************************)
(* What the payments promise: accounts of money, moved by one transaction  *)
(* at a time.  Deposits are credited to wallets, a wallet is charged for   *)
(* an order, and the suppliers of a charged order are paid.                *)
(*                                                                         *)
(* Of the sessions that do it only their overlaps are left: `crossed` are  *)
(* the deposits, `raced` the users and `disturbed` the orders that two of  *)
(* them have worked on at once, or that somebody has overruled.  Each step *)
(* says what it keeps to, and which of these excuses it.                   *)
(***************************************************************************)
EXTENDS Integers, FiniteSets, Sequences

CONSTANTS User, Deposit, Order, Depositor, Worth, Cost

VARIABLES
    credited,   \* deposits that count as money
    charges,    \* the users charged for each order, oldest first
    payouts,    \* how often the suppliers of each order were paid
    crossed, raced, disturbed

money == <<credited, charges, payouts>>
overlaps == <<crossed, raced, disturbed>>
accounts == <<money, overlaps>>

(* The units of money that a user's deposits have brought, and those that  *)
(* the user was charged.                                                   *)
Brought(u) == UNION {{d} \X (1..Worth[d]) : d \in {e \in credited : Depositor[e] = u}}
Taken(u) ==
    UNION {{o} \X ({k \in DOMAIN charges[o] : charges[o][k] = u} \X (1..Cost[o])) :
              o \in Order}
Balance(u) == Cardinality(Brought(u)) - Cardinality(Taken(u))

Init ==
    /\ credited = {}
    /\ charges = [o \in Order |-> <<>>]
    /\ payouts = [o \in Order |-> 0]
    /\ crossed = {} /\ raced = {} /\ disturbed = {}

Credit(d) ==
    /\ d \notin credited
    /\ credited' = credited \cup {d}
    /\ UNCHANGED <<charges, payouts, overlaps>>

(* Money that was credited is withdrawn only by sessions that overlap.     *)
Withdraw(d) ==
    /\ d \in credited \cap crossed
    /\ credited' = credited \ {d}
    /\ UNCHANGED <<charges, payouts, overlaps>>

Overlapped(u) == u \in raced \/ \E d \in crossed : Depositor[d] = u

(* An order is charged once, to a wallet that can afford it.               *)
Charge(u, o) ==
    /\ charges[o] = <<>>
    /\ Balance(u) >= Cost[o] \/ Overlapped(u)
    /\ charges' = [charges EXCEPT ![o] = <<u>>]
    /\ UNCHANGED <<credited, payouts, overlaps>>

(* The suppliers of orders are paid with what was charged, once.           *)
PayOut(O) ==
    /\ \A o \in O : charges[o] # <<>> /\ (payouts[o] = 0 \/ o \in disturbed)
    /\ payouts' = [o \in Order |-> IF o \in O THEN payouts[o] + 1 ELSE payouts[o]]
    /\ UNCHANGED <<credited, charges, overlaps>>

(* Sessions overlap; no money moves.                                       *)
Overlap ==
    /\ crossed \subseteq crossed' /\ crossed' \subseteq Deposit
    /\ raced \subseteq raced' /\ raced' \subseteq User
    /\ disturbed \subseteq disturbed' /\ disturbed' \subseteq Order
    /\ UNCHANGED money

Next ==
    \/ \E d \in Deposit : Credit(d) \/ Withdraw(d)
    \/ \E u \in User, o \in Order : Charge(u, o)
    \/ \E O \in SUBSET Order : PayOut(O)
    \/ Overlap

Spec == Init /\ [][Next]_accounts
=============================================================================
