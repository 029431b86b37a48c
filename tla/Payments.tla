------------------------------ MODULE Payments ------------------------------
(***************************************************************************)
(* Wallet deposits, wallet payments and the release of the escrow.         *)
(*                                                                         *)
(* A Session is one database session: a gateway callback, a payment        *)
(* request, a request or webhook that moves an order, or one run of        *)
(* auto_confirm_deliveries.  Each is one transaction at READ COMMITTED     *)
(* that reads first, without locks except in pay_order_from_wallet, and    *)
(* writes by its commit, so a session is a start that reads and a commit   *)
(* that writes, with the rest of the world in between.                     *)
(***************************************************************************)
EXTENDS Integers, FiniteSets, Sequences, OrderLifecycle

CONSTANTS
    Session,    \* concurrent database sessions
    User,       \* owners of wallets
    Deposit,    \* wallet deposits that will ever be initiated
    Order,      \* orders that will ever exist
    Depositor,  \* the user of a deposit
    Worth,      \* the amount of a deposit
    Cost,       \* items, shipping and commission of an order
    Target,     \* statuses that requests ask for (bound of the run)
    Reported,   \* statuses that the platform reports (bound of the run)
    MaxReports, \* reports of the platform and forced cancellations (bound)
    Mortal      \* operations whose sessions may die (bound of the run)

ASSUME AmountAssumption ==
    /\ IsFiniteSet(Deposit) /\ IsFiniteSet(Order)
    /\ Depositor \in [Deposit -> User]
    /\ Worth \in [Deposit -> Nat \ {0}]
    /\ Cost \in [Order -> Nat]

(* The statuses that order_sync, the order and the payment webhooks write. *)
PlatformStatus == OrderStatus \ {"completed", "disputed"}

Doing == {"idle", "verifying", "crediting", "failing", "paying",
          "moving", "marking", "confirming"}

ASSUME BoundAssumption ==
    /\ Target \subseteq OrderStatus
    /\ Reported \subseteq PlatformStatus
    /\ MaxReports \in Nat
    /\ Mortal \subseteq Doing

VARIABLES
    (* the database, as committed *)
    deposit,    \* wallet_transactions.status of each deposit
    payments,   \* the users charged for each order, oldest first
    status,     \* orders.status
    paidAt,     \* orders whose paid_at is set
    delivered,  \* how long ago delivered_at was, if it is set
    payouts,    \* completed supplier_payouts of each order
    (* the gateway *)
    accepted,   \* deposits whose verification it has answered with success
    (* the sessions *)
    op,         \* what a session is doing
    tx,         \* the deposit it works on
    user,       \* the user it charges
    ord,        \* the order it works on
    to,         \* the status it will write
    eligible,   \* the orders that auto_confirm_deliveries has loaded
    (* history and bound *)
    crossed,    \* deposits that two sessions have worked on at once
    raced,      \* users that two payments have charged at once
    contested,  \* orders that two sessions have worked on at once
    overruled,  \* orders that the platform or an administrator has moved
    reports

walletVars == <<deposit, payments, payouts>>
orderVars == <<status, paidAt, delivered>>
plan == <<tx, user, ord, to, eligible>>
history == <<crossed, raced, contested, overruled>>
vars == <<walletVars, orderVars, accepted, op, plan, history, reports>>

-----------------------------------------------------------------------------

(* The units of money that completed deposits have brought user u, and     *)
(* those that the charges of u, each of its order's cost, have taken.      *)
Credited(u) ==
    UNION {{d} \X (1..Worth[d]) :
        d \in {e \in Deposit : Depositor[e] = u /\ deposit[e] = "completed"}}
Charges(u, o) == {k \in DOMAIN payments[o] : payments[o][k] = u}
Charged(u) == UNION {{o} \X (Charges(u, o) \X (1..Cost[o])) : o \in Order}

(* get_balance: completed transactions, deposits less payments.            *)
Balance(u) == Cardinality(Credited(u)) - Cardinality(Charged(u))

(* Mutant: the order is read without FOR UPDATE. *)
RowFree_Unlocked(s, o) == o \in Order

(* Nobody else holds the row lock that pay_order_from_wallet takes.        *)
RowFree(s, o) ==
    \A t \in Session \ {s} : ~(op[t] = "paying" /\ ord[t] = o)

Init ==
    /\ deposit = [d \in Deposit |-> "none"]
    /\ payments = [o \in Order |-> <<>>]
    /\ status = [o \in Order |-> "absent"]
    /\ paidAt = {}
    /\ delivered = [o \in Order |-> "never"]
    /\ payouts = [o \in Order |-> 0]
    /\ accepted = {}
    /\ op = [s \in Session |-> "idle"]
    /\ tx = [s \in Session |-> "none"]
    /\ user = [s \in Session |-> "none"]
    /\ ord = [s \in Session |-> "none"]
    /\ to = [s \in Session |-> "absent"]
    /\ eligible = [s \in Session |-> {}]
    /\ crossed = {}
    /\ raced = {}
    /\ contested = {}
    /\ overruled = {}
    /\ reports = 0

(* The orders that session s has read and may write.                       *)
WorksOn(s) == {ord[s]} \cup eligible[s]

(* A session begins to work on these deposits, users and orders; which of  *)
(* them another session has in hand, goes down in the history.             *)
Begin(s, deposits, users, orders) ==
    /\ op[s] = "idle"
    /\ crossed' = crossed \cup {d \in deposits : \E t \in Session : tx[t] = d}
    /\ raced' = raced \cup {u \in users : \E t \in Session : user[t] = u}
    /\ contested' = contested \cup
            {o \in orders : \E t \in Session : o \in WorksOn(t)}

(* The session ends and forgets what it has read.                          *)
End(s) ==
    /\ UNCHANGED history
    /\ op' = [op EXCEPT ![s] = "idle"]
    /\ tx' = [tx EXCEPT ![s] = "none"]
    /\ user' = [user EXCEPT ![s] = "none"]
    /\ ord' = [ord EXCEPT ![s] = "none"]
    /\ to' = [to EXCEPT ![s] = "absent"]
    /\ eligible' = [eligible EXCEPT ![s] = {}]

-----------------------------------------------------------------------------
(* Deposits *)

(* initiate_wallet_deposit, once the gateway has given a token.            *)
InitiateDeposit(d) ==
    /\ deposit[d] = "none"
    /\ deposit' = [deposit EXCEPT ![d] = "pending"]
    /\ UNCHANGED <<payments, payouts, orderVars, accepted, op, plan, history, reports>>

(* payment_gateway_callback with Status=OK: the pending transaction is     *)
(* found, and the gateway is asked about it.                               *)
StartCallback(s, d) ==
    /\ Begin(s, {d}, {}, {})
    /\ deposit[d] = "pending"
    /\ op' = [op EXCEPT ![s] = "verifying"]
    /\ tx' = [tx EXCEPT ![s] = d]
    /\ UNCHANGED <<walletVars, orderVars, accepted, user, ord, to, eligible,
                   overruled, reports>>

(* Mutant: whatever the state of the deposit. *)
Cancellable_Any(d) == deposit[d] # "none"

(* fail_deposit looks for a pending transaction.                           *)
Cancellable(d) == deposit[d] = "pending"

(* payment_gateway_callback with another Status.                           *)
StartCancel(s, d) ==
    /\ Begin(s, {d}, {}, {})
    /\ Cancellable(d)
    /\ op' = [op EXCEPT ![s] = "failing"]
    /\ tx' = [tx EXCEPT ![s] = d]
    /\ UNCHANGED <<walletVars, orderVars, accepted, user, ord, to, eligible,
                   overruled, reports>>

(* verify_payment is answered with a code that counts as success.          *)
Accept(s) ==
    /\ op[s] = "verifying"
    /\ accepted' = accepted \cup {tx[s]}
    /\ op' = [op EXCEPT ![s] = "crediting"]
    /\ UNCHANGED <<walletVars, orderVars, plan, history, reports>>

(* Mutant: the refusal is taken for a success. *)
Refuse_Credits(s) ==
    /\ op[s] = "verifying"
    /\ tx[s] \notin accepted
    /\ op' = [op EXCEPT ![s] = "crediting"]
    /\ UNCHANGED <<walletVars, orderVars, accepted, plan, history, reports>>

(* It is answered with another code: the deposit is failed, if it is still *)
(* pending.                                                                *)
Refuse(s) ==
    /\ op[s] = "verifying"
    /\ tx[s] \notin accepted
    /\ Cancellable(tx[s])
    /\ op' = [op EXCEPT ![s] = "failing"]
    /\ UNCHANGED <<walletVars, orderVars, accepted, plan, history, reports>>

(* The gateway cannot be reached, or there is nothing left to fail.        *)
GiveUp(s) ==
    /\ op[s] = "verifying"
    /\ End(s)
    /\ UNCHANGED <<walletVars, orderVars, accepted, reports>>

(* Both writes are UPDATEs by primary key of the row as first loaded.      *)
CommitDeposit(s) ==
    /\ op[s] \in {"crediting", "failing"}
    /\ deposit' = [deposit EXCEPT ![tx[s]] =
            IF op[s] = "crediting" THEN "completed" ELSE "failed"]
    /\ End(s)
    /\ UNCHANGED <<payments, payouts, orderVars, accepted, reports>>

-----------------------------------------------------------------------------
(* Payments *)

(* Mutant: any money will do. *)
Affordable_Any(u, o) == Balance(u) > 0 /\ o \in Order

Affordable(u, o) == Balance(u) >= Cost[o]

(* pay_order_from_wallet: the order is locked, then validated; the balance *)
(* is a SUM over committed rows.                                           *)
StartPay(s, u, o) ==
    /\ Begin(s, {}, {u}, {o})
    /\ RowFree(s, o)
    /\ status[o] \in {"pending", "confirmed"}
    /\ o \notin paidAt
    /\ Affordable(u, o)
    /\ op' = [op EXCEPT ![s] = "paying"]
    /\ user' = [user EXCEPT ![s] = u]
    /\ ord' = [ord EXCEPT ![s] = o]
    /\ UNCHANGED <<walletVars, orderVars, accepted, tx, to, eligible, overruled, reports>>

CommitPay(s) ==
    /\ op[s] = "paying"
    /\ payments' = [payments EXCEPT ![ord[s]] = Append(@, user[s])]
    /\ status' = [status EXCEPT ![ord[s]] = "paid"]
    /\ paidAt' = paidAt \cup {ord[s]}
    /\ End(s)
    /\ UNCHANGED <<deposit, payouts, delivered, accepted, reports>>

-----------------------------------------------------------------------------
(* Orders: who else writes orders.status, paid_at and delivered_at *)

(* create_order; and order_sync, which takes over the platform's status    *)
(* and leaves the timestamps empty.                                        *)
Create(o, st) ==
    /\ status[o] = "absent"
    /\ st \in {"pending"} \cup (Reported \ {"paid", "refunded"})
    /\ status' = [status EXCEPT ![o] = st]
    /\ UNCHANGED <<walletVars, paidAt, delivered, accepted, op, plan, history, reports>>

(* A session has read order o and will write status st; "moving" stamps    *)
(* the timestamp that goes with the status, "marking" does not.            *)
Plan(s, o, st, how) ==
    /\ op' = [op EXCEPT ![s] = how]
    /\ ord' = [ord EXCEPT ![s] = o]
    /\ to' = [to EXCEPT ![s] = st]
    /\ UNCHANGED <<walletVars, orderVars, accepted, tx, user, eligible>>

(* transition_status, from the order endpoints.                            *)
StartTransition(s, o, st) ==
    /\ Begin(s, {}, {}, {o})
    /\ status[o] # "absent"
    /\ CanTransition(status[o], st)
    /\ Plan(s, o, st, "moving")
    /\ UNCHANGED <<overruled, reports>>

(* order_sync writes the platform's status and its timestamp, and the      *)
(* payment webhook "paid" and paid_at, whatever the status was; the order  *)
(* webhook writes the status only.                                         *)
StartReport(s, o, st) ==
    /\ Begin(s, {}, {}, {o})
    /\ status[o] # "absent"
    /\ reports < MaxReports
    /\ reports' = reports + 1
    /\ overruled' = overruled \cup {o}
    /\ \/ st # "refunded" /\ st # status[o] /\ Plan(s, o, st, "moving")
       \/ st \notin {"confirmed", "paid"} /\ Plan(s, o, st, "marking")

(* force_cancel_order.                                                     *)
StartForce(s, o) ==
    /\ Begin(s, {}, {}, {o})
    /\ status[o] \notin {"absent", "completed", "refunded"}
    /\ reports < MaxReports
    /\ reports' = reports + 1
    /\ overruled' = overruled \cup {o}
    /\ Plan(s, o, "cancelled", "marking")

(* The UPDATE waits for the row lock and is unconditional.                 *)
CommitMove(s) ==
    /\ op[s] \in {"moving", "marking"}
    /\ RowFree(s, ord[s])
    /\ status' = [status EXCEPT ![ord[s]] = to[s]]
    /\ paidAt' = IF op[s] = "moving" /\ to[s] = "paid"
                 THEN paidAt \cup {ord[s]} ELSE paidAt
    /\ delivered' = IF op[s] = "moving" /\ to[s] = "delivered"
                    THEN [delivered EXCEPT ![ord[s]] = "recent"] ELSE delivered
    /\ End(s)
    /\ UNCHANGED <<walletVars, accepted, reports>>

-----------------------------------------------------------------------------
(* auto_confirm_deliveries *)

(* Time passes: 72 hours after the delivery.  High-value orders, which are *)
(* given a later dispute_window_ends_at, are confirmed by the same cutoff. *)
Elapse(o) ==
    /\ delivered[o] = "recent"
    /\ delivered' = [delivered EXCEPT ![o] = "past"]
    /\ UNCHANGED <<walletVars, status, paidAt, accepted, op, plan, history, reports>>

(* Mutants: the status is not looked at; only while the window is open.    *)
Confirmable_AnyStatus == {o \in Order : delivered[o] = "past"}
Confirmable_Open == {o \in Order : status[o] = "delivered" /\ delivered[o] = "recent"}

(* Delivered orders past the window of NORMAL_DISPUTE_WINDOW_HOURS.        *)
Confirmable ==
    {o \in Order : status[o] = "delivered" /\ delivered[o] = "past"}

StartConfirm(s) ==
    /\ Begin(s, {}, {}, Confirmable)
    /\ Confirmable # {}
    /\ op' = [op EXCEPT ![s] = "confirming"]
    /\ eligible' = [eligible EXCEPT ![s] = Confirmable]
    /\ UNCHANGED <<walletVars, orderVars, accepted, tx, user, ord, to, overruled, reports>>

(* scalar_one_or_none: none pays nothing, several raise.                   *)
HasPayment(o) == Len(payments[o]) = 1

(* Every loaded order becomes completed; an order whose event cannot be    *)
(* published is left at that, the others have their suppliers paid.  The   *)
(* rows are locked one by one, and the payments read under the lock.       *)
CommitConfirm(s) ==
    /\ op[s] = "confirming"
    /\ \A o \in eligible[s] : RowFree(s, o)
    /\ status' = [o \in Order |->
            IF o \in eligible[s] THEN "completed" ELSE status[o]]
    /\ \E unpublished \in SUBSET eligible[s] :
          payouts' = [o \in Order |->
              IF o \in eligible[s] \ unpublished /\ HasPayment(o)
              THEN payouts[o] + 1 ELSE payouts[o]]
    /\ End(s)
    /\ UNCHANGED <<deposit, payments, paidAt, delivered, accepted, reports>>

(* The process dies or the transaction fails; nothing was committed.       *)
Crash(s) ==
    /\ op[s] # "idle"
    /\ op[s] \in Mortal
    /\ End(s)
    /\ UNCHANGED <<walletVars, orderVars, accepted, reports>>

-----------------------------------------------------------------------------

Start(s) ==
    \/ \E d \in Deposit : StartCallback(s, d) \/ StartCancel(s, d)
    \/ \E u \in User, o \in Order : StartPay(s, u, o)
    \/ \E o \in Order, st \in Target : StartTransition(s, o, st)
    \/ \E o \in Order, st \in Reported : StartReport(s, o, st)
    \/ \E o \in Order : StartForce(s, o)
    \/ StartConfirm(s)

Step(s) ==
    \/ Accept(s)
    \/ Refuse(s)
    \/ GiveUp(s)
    \/ CommitDeposit(s)
    \/ CommitPay(s)
    \/ CommitMove(s)
    \/ CommitConfirm(s)

Next ==
    \/ \E s \in Session : Start(s) \/ Step(s) \/ Crash(s)
    \/ \E d \in Deposit : InitiateDeposit(d)
    \/ \E o \in Order : Elapse(o) \/ \E st \in OrderStatus : Create(o, st)

Spec == Init /\ [][Next]_vars

(* Every session goes on; celery beat starts auto_confirm_deliveries every *)
(* hour, whatever else the workers do.                                     *)
Fairness ==
    /\ \A s \in Session : WF_vars(Step(s))
    /\ SF_vars(\E s \in Session : StartConfirm(s))

FairSpec == Spec /\ Fairness

-----------------------------------------------------------------------------
(* Properties *)

Types ==
    /\ deposit \in [Deposit -> {"none", "pending", "completed", "failed"}]
    /\ payments \in [Order -> Seq(User)]
    /\ status \in [Order -> OrderStatus \cup {"absent"}]
    /\ paidAt \subseteq Order
    /\ delivered \in [Order -> {"never", "recent", "past"}]
    /\ payouts \in [Order -> Nat]
    /\ accepted \subseteq Deposit
    /\ op \in [Session -> Doing]
    /\ tx \in [Session -> Deposit \cup {"none"}]
    /\ user \in [Session -> User \cup {"none"}]
    /\ ord \in [Session -> Order \cup {"none"}]
    /\ to \in [Session -> OrderStatus \cup {"absent"}]
    /\ eligible \in [Session -> SUBSET Order]
    /\ reports \in Nat

TypeOK ==
    /\ Types
    /\ crossed \subseteq Deposit
    /\ raced \subseteq User
    /\ contested \cup overruled \subseteq Order

(* However many payment requests, status changes and platform reports      *)
(* overlap, an order is charged to at most one wallet, once.               *)
ChargedOnce == \A o \in Order : Len(payments[o]) <= 1

(* A deposit counts as money only after the gateway has accepted it, in    *)
(* whatever order callbacks, cancellations and answers arrive.             *)
CreditedIsAccepted ==
    \A d \in Deposit : deposit[d] = "completed" => d \in accepted

(* Suppliers are paid only for orders whose seller was charged.            *)
PayoutIsFunded == \A o \in Order : payouts[o] > 0 => payments[o] # <<>>

(* No wallet is overdrawn, whatever other wallets and orders go through,   *)
(* unless two payments from this very wallet have overlapped (the balance  *)
(* is a sum that nothing locks) or two sessions one of its deposits.       *)
NoOverdraft ==
    \A u \in User \ raced :
        (\A d \in crossed : Depositor[d] # u) => Balance(u) >= 0

(* A credited deposit stays credited: no later cancellation or answer of   *)
(* the gateway withdraws it, unless two sessions have overlapped on it.    *)
DepositsStay ==
    [][\A d \in Deposit \ crossed :
            deposit[d] = "completed" => deposit'[d] = "completed"]_vars

(* Suppliers are paid at most once for an order that no two sessions have  *)
(* had in hand at once and that only its endpoints, its payment and the    *)
(* task have moved, whatever happens to other orders meanwhile.            *)
PayoutOnce ==
    \A o \in Order \ (contested \cup overruled) : payouts[o] <= 1

(* The accounts promised in Escrow: every transaction that touches money,  *)
(* whatever overlaps with it, credits one deposit, charges one order to a  *)
(* wallet that can afford it, or pays the suppliers of charged orders, and *)
(* what it may do wrong is excused only by an overlap on the very deposit, *)
(* wallet or order.                                                        *)
Accounts == INSTANCE Escrow WITH
    credited <- {d \in Deposit : deposit[d] = "completed"},
    charges <- payments,
    disturbed <- contested \cup overruled
KeepsAccounts == Accounts!Spec

(* An order delivered long enough ago does not stay delivered.             *)
WindowEnds ==
    \A o \in Order :
        (status[o] = "delivered" /\ delivered[o] = "past")
            ~> ~(status[o] = "delivered" /\ delivered[o] = "past")
=============================================================================
