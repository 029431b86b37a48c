--------------------------- MODULE PaymentsProofs ---------------------------
(***************************************************************************)
(* What Payments guarantees for any number of sessions, users, deposits    *)
(* and orders: an order is charged once, credit comes from the gateway,    *)
(* and payouts come from a payment; and what it guarantees of the wallets, *)
(* deposits and orders on which no two sessions have overlapped.           *)
(***************************************************************************)
EXTENDS Payments, FiniteSetTheorems, TLAPS

(* A session at work on a deposit has one; the one that credits it has the *)
(* gateway's answer.                                                       *)
WorksOnItsDeposit ==
    \A s \in Session : op[s] \in {"verifying", "crediting", "failing"} =>
        /\ tx[s] \in Deposit
        /\ op[s] = "crediting" => tx[s] \in accepted

(* The order that a session pays for is unpaid, and nobody else pays for   *)
(* it: the session holds the lock of its row.                              *)
PaysAlone ==
    \A s \in Session : op[s] = "paying" =>
        /\ user[s] \in User
        /\ ord[s] \in Order
        /\ ord[s] \notin paidAt
        /\ \A t \in Session : op[t] = "paying" /\ ord[t] = ord[s] => t = s

MovesAnOrder ==
    \A s \in Session : op[s] \in {"moving", "marking"} =>
        ord[s] \in Order /\ to[s] \in OrderStatus

ChargedIsPaid == \A o \in Order : payments[o] # <<>> => o \in paidAt

Inv ==
    /\ Types
    /\ WorksOnItsDeposit
    /\ PaysAlone
    /\ MovesAnOrder
    /\ ChargedIsPaid
    /\ ChargedOnce
    /\ CreditedIsAccepted
    /\ PayoutIsFunded

-----------------------------------------------------------------------------

LEMMA InvInit == Init => Inv
<1> SUFFICES ASSUME Init PROVE Inv
  OBVIOUS
<1>1. Types
  BY BoundAssumption DEF Init, Types, Doing
<1>2. QED
  BY <1>1 DEF Init, Inv, WorksOnItsDeposit, PaysAlone, MovesAnOrder,
     ChargedIsPaid, ChargedOnce, CreditedIsAccepted, PayoutIsFunded

(* What the end of a session does to its variables.                        *)
LEMMA EndTypes ==
    ASSUME Types, NEW s \in Session, End(s)
    PROVE  /\ op' \in [Session -> Doing]
           /\ tx' \in [Session -> Deposit \cup {"none"}]
           /\ user' \in [Session -> User \cup {"none"}]
           /\ ord' \in [Session -> Order \cup {"none"}]
           /\ to' \in [Session -> OrderStatus \cup {"absent"}]
           /\ eligible' \in [Session -> SUBSET Order]
           /\ op'[s] = "idle"
           /\ \A t \in Session \ {s} :
                 /\ op'[t] = op[t] /\ tx'[t] = tx[t] /\ user'[t] = user[t]
                 /\ ord'[t] = ord[t] /\ to'[t] = to[t]
  BY DEF End, Types, Doing

(* A start only reads, and keeps to what it may work on.                   *)
LEMMA InvStart ==
    ASSUME Inv, NEW s \in Session, Start(s)
    PROVE  Inv'
<1> USE DEF Inv, walletVars, orderVars, plan, history
<1> USE DEF WorksOnItsDeposit, PaysAlone, MovesAnOrder, ChargedIsPaid,
            ChargedOnce, CreditedIsAccepted, PayoutIsFunded
<1>1. ASSUME NEW d \in Deposit, StartCallback(s, d) \/ StartCancel(s, d)
      PROVE  Inv'
  <2>1. CASE StartCallback(s, d)
    BY <2>1 DEF StartCallback, Types, Doing
  <2>2. CASE StartCancel(s, d)
    BY <2>2 DEF StartCancel, Types, Doing
  <2>3. QED
    BY <1>1, <2>1, <2>2
<1>2. ASSUME NEW u \in User, NEW o \in Order, StartPay(s, u, o)
      PROVE  Inv'
  BY <1>2 DEF StartPay, RowFree, Types, Doing
<1>3. ASSUME NEW o \in Order, NEW st \in OrderStatus, NEW how \in {"moving", "marking"},
             op[s] = "idle", Plan(s, o, st, how), reports' \in Nat
      PROVE  Inv'
  BY <1>3 DEF Plan, Types, Doing
<1>4. ASSUME NEW o \in Order, NEW st \in Target, StartTransition(s, o, st)
      PROVE  Inv'
  BY <1>3, <1>4, BoundAssumption DEF Begin, StartTransition, Types
<1>5. ASSUME NEW o \in Order, NEW st \in Reported, StartReport(s, o, st)
      PROVE  Inv'
  BY <1>3, <1>5, BoundAssumption DEF Begin, StartReport, PlatformStatus, Types
<1>6. ASSUME NEW o \in Order, StartForce(s, o)
      PROVE  Inv'
  BY <1>3, <1>6 DEF Begin, StartForce, OrderStatus, Types
<1>7. CASE StartConfirm(s)
  BY <1>7 DEF StartConfirm, Confirmable, Types, Doing
<1>8. QED
  BY <1>1, <1>2, <1>4, <1>5, <1>6, <1>7 DEF Start

(* The conversation with the gateway.                                      *)
LEMMA InvGateway ==
    ASSUME Inv, NEW s \in Session,
           Accept(s) \/ Refuse(s) \/ GiveUp(s) \/ CommitDeposit(s)
    PROVE  Inv'
<1> USE DEF Inv, walletVars, orderVars, plan, history
<1> USE DEF WorksOnItsDeposit, PaysAlone, MovesAnOrder, ChargedIsPaid,
            ChargedOnce, CreditedIsAccepted, PayoutIsFunded
<1>1. CASE Accept(s)
  BY <1>1 DEF Accept, Types, Doing
<1>2. CASE Refuse(s)
  BY <1>2 DEF Refuse, Types, Doing
<1>3. CASE GiveUp(s)
  <2>1. Types'
    BY <1>3, EndTypes DEF GiveUp, Types
  <2>2. QED
    BY <1>3, <2>1, EndTypes DEF GiveUp
<1>4. CASE CommitDeposit(s)
  <2>1. tx[s] \in Deposit /\ End(s)
        /\ UNCHANGED <<payments, payouts, orderVars, accepted, reports>>
    BY <1>4 DEF CommitDeposit
  <2>2. deposit' \in [Deposit -> {"none", "pending", "completed", "failed"}]
    BY <1>4 DEF CommitDeposit, Types
  <2>3. Types'
    BY <2>1, <2>2, EndTypes DEF Types
  <2>4. CreditedIsAccepted'
    BY <1>4 DEF CommitDeposit, Types
  <2>5. QED
    BY <2>1, <2>3, <2>4, EndTypes
<1>5. QED
  BY <1>1, <1>2, <1>3, <1>4

(* The payment is committed while its session holds the row.               *)
LEMMA InvPay ==
    ASSUME Inv, NEW s \in Session, CommitPay(s)
    PROVE  Inv'
<1> USE DEF Inv, walletVars, orderVars, plan, history
<1> DEFINE o == ord[s]
<1>1. /\ o \in Order /\ o \notin paidAt /\ user[s] \in User
      /\ \A t \in Session : op[t] = "paying" /\ ord[t] = o => t = s
  BY DEF CommitPay, PaysAlone
<1>2. payments[o] = <<>>
  BY <1>1 DEF ChargedIsPaid
<1>3. /\ payments' = [payments EXCEPT ![o] = Append(payments[o], user[s])]
      /\ paidAt' = paidAt \cup {o}
      /\ status' = [status EXCEPT ![o] = "paid"]
      /\ End(s)
      /\ UNCHANGED <<deposit, payouts, delivered, accepted, reports>>
  BY DEF CommitPay
<1> HIDE DEF o
<1>4. payments[o] \in Seq(User)
  BY <1>1 DEF Types
<1>5. Append(payments[o], user[s]) \in Seq(User)
      /\ Len(Append(payments[o], user[s])) = 1
      /\ Append(payments[o], user[s]) # <<>>
  BY <1>1, <1>2, <1>4
<1>6. Types'
  BY <1>1, <1>3, <1>5, EndTypes DEF Types, OrderStatus
<1>7. \A p \in Order : payments'[p] = IF p = o THEN Append(payments[o], user[s])
                                              ELSE payments[p]
  BY <1>3 DEF Types
<1>8. ChargedOnce' /\ ChargedIsPaid' /\ PayoutIsFunded'
  BY <1>3, <1>5, <1>7 DEF ChargedOnce, ChargedIsPaid, PayoutIsFunded
<1>9. PaysAlone'
  BY <1>1, <1>3, EndTypes DEF PaysAlone
<1>10. WorksOnItsDeposit' /\ MovesAnOrder' /\ CreditedIsAccepted'
  BY <1>3, EndTypes DEF WorksOnItsDeposit, MovesAnOrder, CreditedIsAccepted
<1>11. QED
  BY <1>6, <1>8, <1>9, <1>10

(* Whoever else writes an order waits for the row of a payment.            *)
LEMMA InvMove ==
    ASSUME Inv, NEW s \in Session, CommitMove(s)
    PROVE  Inv'
<1> USE DEF Inv, walletVars, orderVars, plan, history
<1>1. /\ ord[s] \in Order /\ to[s] \in OrderStatus
      /\ \A t \in Session \ {s} : ~(op[t] = "paying" /\ ord[t] = ord[s])
      /\ End(s)
      /\ UNCHANGED <<walletVars, accepted, reports>>
      /\ paidAt' = paidAt \/ paidAt' = paidAt \cup {ord[s]}
  BY DEF CommitMove, MovesAnOrder, RowFree
<1>2. /\ status' \in [Order -> OrderStatus \cup {"absent"}]
      /\ delivered' \in [Order -> {"never", "recent", "past"}]
  BY <1>1 DEF CommitMove, Types
<1>3. Types'
  BY <1>1, <1>2, EndTypes DEF Types
<1>4. PaysAlone'
  <2> SUFFICES ASSUME NEW t \in Session, op'[t] = "paying"
               PROVE  /\ user'[t] \in User
                      /\ ord'[t] \in Order
                      /\ ord'[t] \notin paidAt'
                      /\ \A r \in Session :
                            op'[r] = "paying" /\ ord'[r] = ord'[t] => r = t
    BY DEF PaysAlone
  <2>1. t # s /\ op[t] = "paying" /\ user'[t] = user[t] /\ ord'[t] = ord[t]
    BY <1>1, EndTypes
  <2>2. ord[t] # ord[s]
    BY <1>1, <2>1
  <2>3. QED
    BY <1>1, <2>1, <2>2, EndTypes DEF PaysAlone
<1>5. QED
  BY <1>1, <1>3, <1>4, EndTypes DEF WorksOnItsDeposit, MovesAnOrder,
     ChargedIsPaid, ChargedOnce, CreditedIsAccepted, PayoutIsFunded

LEMMA InvConfirm ==
    ASSUME Inv, NEW s \in Session, CommitConfirm(s)
    PROVE  Inv'
<1> USE DEF Inv, walletVars, orderVars, plan, history
<1>1. End(s) /\ UNCHANGED <<deposit, payments, paidAt, delivered, accepted, reports>>
  BY DEF CommitConfirm
<1>2. PICK unpublished \in SUBSET eligible[s] :
        payouts' = [o \in Order |->
              IF o \in eligible[s] \ unpublished /\ HasPayment(o)
              THEN payouts[o] + 1 ELSE payouts[o]]
  BY DEF CommitConfirm
<1>3. payouts' \in [Order -> Nat]
  BY <1>2 DEF Types
<1>4. status' \in [Order -> OrderStatus \cup {"absent"}]
  BY DEF CommitConfirm, Types, OrderStatus
<1>5. Types'
  BY <1>1, <1>3, <1>4, EndTypes DEF Types
<1>6. \A o \in Order : HasPayment(o) => payments[o] # <<>>
  <2> SUFFICES ASSUME NEW o \in Order, payments[o] = <<>>
               PROVE  Len(payments[o]) # 1
    BY DEF HasPayment
  <2>1. Len(<<>>) = 0
    OBVIOUS
  <2>2. Len(payments[o]) = Len(<<>>)
    BY Zenon
  <2>3. QED
    BY <2>1, <2>2
<1>7. PayoutIsFunded'
  BY <1>1, <1>2, <1>6 DEF PayoutIsFunded, Types
<1>8. QED
  BY <1>1, <1>5, <1>7, EndTypes DEF WorksOnItsDeposit, PaysAlone, MovesAnOrder,
     ChargedIsPaid, ChargedOnce, CreditedIsAccepted

LEMMA InvOthers ==
    ASSUME Inv,
           \/ \E s \in Session : Crash(s)
           \/ \E d \in Deposit : InitiateDeposit(d)
           \/ \E o \in Order : Elapse(o) \/ \E st \in OrderStatus : Create(o, st)
           \/ UNCHANGED vars
    PROVE  Inv'
<1> USE DEF Inv, walletVars, orderVars, plan, history
<1> USE DEF WorksOnItsDeposit, PaysAlone, MovesAnOrder, ChargedIsPaid,
            ChargedOnce, CreditedIsAccepted, PayoutIsFunded
<1>1. ASSUME NEW s \in Session, Crash(s)
      PROVE  Inv'
  <2>1. Types'
    BY <1>1, EndTypes DEF Crash, Types
  <2>2. QED
    BY <1>1, <2>1, EndTypes DEF Crash
<1>2. ASSUME NEW d \in Deposit, InitiateDeposit(d)
      PROVE  Inv'
  BY <1>2 DEF InitiateDeposit, Types
<1>3. ASSUME NEW o \in Order, Elapse(o)
      PROVE  Inv'
  BY <1>3 DEF Elapse, Types
<1>4. ASSUME NEW o \in Order, NEW st \in OrderStatus, Create(o, st)
      PROVE  Inv'
  BY <1>4 DEF Create, Types
<1>5. CASE UNCHANGED vars
  BY <1>5 DEF vars, Types
<1>6. QED
  BY <1>1, <1>2, <1>3, <1>4, <1>5

LEMMA InvStep == Inv /\ [Next]_vars => Inv'
  BY InvStart, InvGateway, InvPay, InvMove, InvConfirm, InvOthers DEF Next, Step

(* The inductive invariant: sessions hold what they may, and money moves   *)
(* only where the row lock and the gateway's answer allow it.              *)
THEOREM InvHolds == Spec => []Inv
  BY InvInit, InvStep, PTL DEF Spec

-----------------------------------------------------------------------------
(* What the history knows                                                  *)

LEMMA HistoryInit == Init => crossed = {} /\ raced = {} /\ contested = {} /\ overruled = {}
  BY DEF Init

(* The history forgets nothing, and only a start adds to it.               *)
LEMMA HistoryGrows ==
    ASSUME [Next]_vars
    PROVE  /\ crossed \subseteq crossed'
           /\ raced \subseteq raced'
           /\ contested \subseteq contested'
           /\ overruled \subseteq overruled'
           /\ (\E s \in Session : Start(s)) \/ UNCHANGED history
<1>1. ASSUME NEW s \in Session, Start(s)
      PROVE  /\ crossed \subseteq crossed'
             /\ raced \subseteq raced'
             /\ contested \subseteq contested'
             /\ overruled \subseteq overruled'
  BY <1>1 DEF Start, Begin, StartCallback, StartCancel, StartPay, StartTransition,
     StartReport, StartForce, StartConfirm
<1>2. ASSUME NEW s \in Session, Step(s) \/ Crash(s)
      PROVE  UNCHANGED history
  BY <1>2 DEF Step, Crash, Accept, Refuse, GiveUp, CommitDeposit, CommitPay, CommitMove,
     CommitConfirm, End, history
<1>3. (\E s \in Session : Start(s)) \/ UNCHANGED history
  BY <1>2 DEF Next, InitiateDeposit, Elapse, Create, vars
<1>4. QED
  BY <1>1, <1>3 DEF history

HistoryTypes ==
    /\ crossed \subseteq Deposit
    /\ raced \subseteq User
    /\ contested \subseteq Order
    /\ overruled \subseteq Order

LEMMA HistoryTypesInit == Init => HistoryTypes
  BY HistoryInit DEF HistoryTypes

LEMMA HistoryTypesNext == HistoryTypes /\ [Next]_vars => HistoryTypes'
<1> SUFFICES ASSUME HistoryTypes, [Next]_vars PROVE HistoryTypes'
  OBVIOUS
<1> USE DEF HistoryTypes
<1>1. ASSUME NEW s \in Session, Start(s)
      PROVE  HistoryTypes'
  <2>1. ASSUME NEW D \in SUBSET Deposit, NEW U \in SUBSET User, NEW O \in SUBSET Order,
               Begin(s, D, U, O)
        PROVE  crossed' \subseteq Deposit /\ raced' \subseteq User /\ contested' \subseteq Order
    BY <2>1 DEF Begin
  <2>2. Confirmable \subseteq Order
    BY DEF Confirmable
  <2>3. crossed' \subseteq Deposit /\ raced' \subseteq User /\ contested' \subseteq Order
    <3>1. ASSUME NEW d \in Deposit, Begin(s, {d}, {}, {})
          PROVE  crossed' \subseteq Deposit /\ raced' \subseteq User /\ contested' \subseteq Order
      BY <2>1, <3>1
    <3>2. ASSUME NEW u \in User, NEW o \in Order, Begin(s, {}, {u}, {o})
          PROVE  crossed' \subseteq Deposit /\ raced' \subseteq User /\ contested' \subseteq Order
      BY <2>1, <3>2
    <3>3. ASSUME NEW o \in Order, Begin(s, {}, {}, {o})
          PROVE  crossed' \subseteq Deposit /\ raced' \subseteq User /\ contested' \subseteq Order
      BY <2>1, <3>3
    <3>4. CASE StartConfirm(s)
      BY <2>1, <2>2, <3>4 DEF StartConfirm
    <3>5. QED
      BY <1>1, <3>1, <3>2, <3>3, <3>4 DEF Start, StartCallback, StartCancel, StartPay,
         StartTransition, StartReport, StartForce
  <2>4. overruled' \subseteq Order
    BY <1>1 DEF Start, StartCallback, StartCancel, StartPay, StartTransition, StartReport,
       StartForce, StartConfirm
  <2>5. QED
    BY <2>3, <2>4
<1>2. QED
  BY <1>1, HistoryGrows DEF history

-----------------------------------------------------------------------------
(* A deposit on which sessions have not overlapped                         *)

Depositing(s) == op[s] \in {"verifying", "crediting", "failing"}

(* It is still pending while a session works on it, and no other does.     *)
DepositsInHand ==
    \A s \in Session : Depositing(s) /\ tx[s] \notin crossed =>
        /\ deposit[tx[s]] = "pending"
        /\ \A t \in Session : Depositing(t) /\ tx[t] = tx[s] => t = s

LEMMA DepositsInit == Init => DepositsInHand
  BY DEF Init, DepositsInHand, Depositing

LEMMA DepositsStart ==
    ASSUME Inv, DepositsInHand, NEW s \in Session, Start(s)
    PROVE  DepositsInHand'
<1> USE DEF Inv, Types, walletVars, orderVars, plan, DepositsInHand, Depositing
<1>1. ASSUME NEW d \in Deposit, StartCallback(s, d) \/ StartCancel(s, d)
      PROVE  DepositsInHand'
  <2>1. /\ deposit[d] = "pending" /\ deposit' = deposit
        /\ op' \in {[op EXCEPT ![s] = "verifying"], [op EXCEPT ![s] = "failing"]}
        /\ tx' = [tx EXCEPT ![s] = d]
        /\ crossed' = crossed \cup {e \in {d} : \E t \in Session : tx[t] = e}
    BY <1>1 DEF StartCallback, StartCancel, Cancellable, Begin
  <2>2. QED
    BY <2>1
<1>2. ASSUME NEW x \in {"paying", "moving", "marking", "confirming"},
             op' = [op EXCEPT ![s] = x], tx' = tx, deposit' = deposit
      PROVE  DepositsInHand'
  BY <1>2, HistoryGrows DEF Next
<1>3. ASSUME NEW u \in User, NEW o \in Order, StartPay(s, u, o)
      PROVE  DepositsInHand'
  BY <1>2, <1>3 DEF StartPay
<1>4. ASSUME NEW o \in Order, NEW st \in Target, StartTransition(s, o, st)
      PROVE  DepositsInHand'
  BY <1>2, <1>4 DEF StartTransition, Plan
<1>5. ASSUME NEW o \in Order, NEW st \in Reported, StartReport(s, o, st)
      PROVE  DepositsInHand'
  BY <1>2, <1>5 DEF StartReport, Plan
<1>6. ASSUME NEW o \in Order, StartForce(s, o)
      PROVE  DepositsInHand'
  BY <1>2, <1>6 DEF StartForce, Plan
<1>7. CASE StartConfirm(s)
  BY <1>2, <1>7 DEF StartConfirm
<1>8. QED
  BY <1>1, <1>3, <1>4, <1>5, <1>6, <1>7 DEF Start

LEMMA DepositsNext == Inv /\ DepositsInHand /\ [Next]_vars => DepositsInHand'
<1> SUFFICES ASSUME Inv, DepositsInHand, [Next]_vars PROVE DepositsInHand'
  OBVIOUS
<1> USE DEF Inv, Types, walletVars, orderVars, plan, history, DepositsInHand, Depositing
<1>1. ASSUME NEW s \in Session, Accept(s) \/ Refuse(s)
      PROVE  DepositsInHand'
  <2>1. /\ Depositing(s) /\ UNCHANGED <<deposit, tx, crossed>>
        /\ op' \in {[op EXCEPT ![s] = "crediting"], [op EXCEPT ![s] = "failing"]}
    BY <1>1 DEF Accept, Refuse
  <2>2. QED
    BY <2>1
<1>2. ASSUME NEW s \in Session, End(s), deposit' = deposit
      PROVE  DepositsInHand'
  BY <1>2, EndTypes DEF End
<1>3. ASSUME NEW s \in Session, CommitDeposit(s)
      PROVE  DepositsInHand'
  <2>1. Depositing(s) /\ End(s) /\ \A d \in Deposit \ {tx[s]} : deposit'[d] = deposit[d]
    BY <1>3 DEF CommitDeposit
  <2>2. \A t \in Session : Depositing(t) => tx[t] \in Deposit
    BY DEF WorksOnItsDeposit
  <2>3. QED
    BY <2>1, <2>2, EndTypes DEF End
<1>4. ASSUME NEW s \in Session, Step(s) \/ Crash(s)
      PROVE  DepositsInHand'
  BY <1>1, <1>2, <1>3, <1>4 DEF Step, Crash, GiveUp, CommitPay, CommitMove, CommitConfirm
<1>5. ASSUME NEW d \in Deposit, InitiateDeposit(d)
      PROVE  DepositsInHand'
  BY <1>5 DEF InitiateDeposit, WorksOnItsDeposit
<1>6. CASE UNCHANGED <<deposit, op, tx, crossed>>
  BY <1>6
<1>7. QED
  BY <1>4, <1>5, <1>6, DepositsStart DEF Next, Elapse, Create, vars

(* A step withdraws no credit of a deposit on which nothing has overlapped.*)
LEMMA CreditStep ==
    ASSUME Inv, DepositsInHand, [Next]_vars, NEW d \in Deposit \ crossed,
           deposit[d] = "completed"
    PROVE  deposit'[d] = "completed"
<1>1. CASE UNCHANGED deposit
  BY <1>1
<1>2. ASSUME NEW s \in Session, CommitDeposit(s)
      PROVE  deposit'[d] = "completed"
  <2>1. tx[s] \notin crossed => deposit[tx[s]] = "pending"
    BY <1>2 DEF CommitDeposit, DepositsInHand, Depositing
  <2>2. QED
    BY <1>2, <2>1 DEF CommitDeposit, Inv, Types
<1>3. ASSUME NEW e \in Deposit, InitiateDeposit(e)
      PROVE  deposit'[d] = "completed"
  BY <1>3 DEF InitiateDeposit, Inv, Types
<1>4. ASSUME NEW s \in Session, Start(s)
      PROVE  UNCHANGED deposit
  BY <1>4 DEF Start, StartCallback, StartCancel, StartPay, StartTransition, StartReport,
     StartForce, StartConfirm, Plan, walletVars
<1>5. ASSUME NEW s \in Session, Step(s) \/ Crash(s), ~CommitDeposit(s)
      PROVE  UNCHANGED deposit
  BY <1>5 DEF Step, Crash, Accept, Refuse, GiveUp, CommitPay, CommitMove, CommitConfirm,
     walletVars
<1>6. ASSUME NEW o \in Order, Elapse(o) \/ \E st \in OrderStatus : Create(o, st)
      PROVE  UNCHANGED deposit
  BY <1>6 DEF Elapse, Create, walletVars
<1>7. CASE UNCHANGED vars
  BY <1>7 DEF vars, walletVars
<1>8. QED
  BY <1>1, <1>2, <1>3, <1>4, <1>5, <1>6, <1>7 DEF Next

-----------------------------------------------------------------------------
(* An order on which sessions have not overlapped                          *)

(* Session s has order o in hand, or among those it is about to confirm.   *)
Handles(s, o) ==
    \/ op[s] \in {"paying", "moving", "marking"} /\ ord[s] = o
    \/ op[s] = "confirming" /\ o \in eligible[s]

Undisturbed(o) == o \notin contested /\ o \notin overruled

(* If its suppliers were paid it is completed, and no session is about to  *)
(* write its status or to pay them again.                                  *)
Settled(o) ==
    /\ payouts[o] > 0 => payouts[o] = 1 /\ status[o] = "completed"
    /\ \A s \in Session : Handles(s, o) =>
          /\ op[s] # "marking"
          /\ op[s] \in {"paying", "moving"} => status[o] # "completed"
          /\ op[s] = "confirming" => status[o] = "delivered"
          /\ \A t \in Session : Handles(t, o) => t = s

OrdersInHand == \A o \in Order : Undisturbed(o) => Settled(o)

LEMMA OrdersInit == Init => OrdersInHand
  BY DEF Init, OrdersInHand, Settled, Handles

LEMMA Completed == \A st : ~CanTransition("completed", st)
  BY DEF CanTransition, ValidNext, OrderStatus

(* A start that takes the orders of O in hand.                             *)
Takes(s, O) ==
    /\ O \subseteq Order
    /\ op[s] = "idle"
    /\ contested' = contested \cup {o \in O : \E t \in Session : o \in WorksOn(t)}
    /\ overruled \subseteq overruled'
    /\ UNCHANGED <<payouts, status>>
    /\ \A t \in Session \ {s} :
          op'[t] = op[t] /\ ord'[t] = ord[t] /\ eligible'[t] = eligible[t]
    /\ \A o \in Order : Handles(s, o)' => o \in O
    /\ \A o \in O : o \notin overruled' =>
          /\ op'[s] # "marking"
          /\ op'[s] \in {"paying", "moving"} => status[o] # "completed"
          /\ op'[s] = "confirming" => status[o] = "delivered"

LEMMA OrdersBegin ==
    ASSUME Inv, OrdersInHand, NEW s \in Session, NEW O, Takes(s, O)
    PROVE  OrdersInHand'
<1> USE DEF Takes
<1> SUFFICES ASSUME NEW o \in Order, Undisturbed(o)' PROVE Settled(o)'
  BY DEF OrdersInHand, Settled, Undisturbed, Handles
<1>1. Settled(o)
  BY DEF OrdersInHand, Undisturbed
<1>2. \A t \in Session \ {s} : Handles(t, o)' <=> Handles(t, o)
  BY DEF Handles
<1>3. \A t \in Session : Handles(t, o) => o \in WorksOn(t) /\ t # s
  BY DEF Handles, WorksOn
<1>4. CASE o \in O
  <2>1. \A t \in Session : ~Handles(t, o)
    BY <1>3, <1>4 DEF Undisturbed
  <2>2. \A t \in Session : Handles(t, o)' => t = s
    BY <1>2, <2>1
  <2>3. QED
    BY <1>1, <1>4, <2>2 DEF Settled, Undisturbed
<1>5. CASE o \notin O
  BY <1>1, <1>2, <1>3, <1>5 DEF Settled
<1>6. QED
  BY <1>4, <1>5

LEMMA OrdersStart ==
    ASSUME Inv, OrdersInHand, NEW s \in Session, Start(s)
    PROVE  OrdersInHand'
<1> SUFFICES \E O : Takes(s, O)
  BY OrdersBegin
<1> USE DEF Inv, Types, walletVars, orderVars, plan, Begin, Handles, Takes
<1>1. ASSUME NEW d \in Deposit, StartCallback(s, d) \/ StartCancel(s, d)
      PROVE  Takes(s, {})
  BY <1>1 DEF StartCallback, StartCancel
<1>2. ASSUME NEW u \in User, NEW o \in Order, StartPay(s, u, o)
      PROVE  Takes(s, {o})
  BY <1>2 DEF StartPay
<1>3. ASSUME NEW o \in Order, NEW st \in Target, StartTransition(s, o, st)
      PROVE  Takes(s, {o})
  BY <1>3, Completed DEF StartTransition, Plan
<1>4. ASSUME NEW o \in Order, NEW st \in Reported, StartReport(s, o, st)
      PROVE  Takes(s, {o})
  <2>1. PICK how \in {"moving", "marking"} : Plan(s, o, st, how)
    BY <1>4 DEF StartReport
  <2>2. overruled' = overruled \cup {o} /\ Begin(s, {}, {}, {o})
    BY <1>4 DEF StartReport
  <2>3. QED
    BY <2>1, <2>2 DEF Plan
<1>5. ASSUME NEW o \in Order, StartForce(s, o)
      PROVE  Takes(s, {o})
  BY <1>5 DEF StartForce, Plan
<1>6. ASSUME StartConfirm(s)
      PROVE  Takes(s, Confirmable)
  BY <1>6 DEF StartConfirm, Confirmable
<1> HIDE DEF Inv, Types, Begin, Handles, Takes
<1>7. CASE \E d \in Deposit : StartCallback(s, d) \/ StartCancel(s, d)
  BY <1>1, <1>7
<1>8. CASE \E u \in User, o \in Order : StartPay(s, u, o)
  BY <1>2, <1>8
<1>9. CASE \E o \in Order : StartForce(s, o) \/ (\E st \in Target : StartTransition(s, o, st))
                \/ \E st \in Reported : StartReport(s, o, st)
  BY <1>3, <1>4, <1>5, <1>9
<1>10. QED
  BY <1>6, <1>7, <1>8, <1>9 DEF Start

(* A session that ends has written at most the orders it had in hand.      *)
LEMMA OrdersEnd ==
    ASSUME Inv, OrdersInHand, NEW s \in Session, End(s),
           \A o \in Order : ~Handles(s, o) => payouts'[o] = payouts[o] /\ status'[o] = status[o],
           \A o \in Order : Undisturbed(o) /\ Handles(s, o) =>
               (payouts'[o] > 0 => payouts'[o] = 1 /\ status'[o] = "completed")
    PROVE  OrdersInHand'
<1> SUFFICES ASSUME NEW o \in Order, Undisturbed(o)' PROVE Settled(o)'
  BY DEF OrdersInHand, Settled, Undisturbed, Handles
<1>1. Undisturbed(o)
  BY DEF End, history, Undisturbed
<1>2. Settled(o)
  BY <1>1 DEF OrdersInHand
<1>3. op'[s] = "idle" /\ \A t \in Session \ {s} :
          op'[t] = op[t] /\ ord'[t] = ord[t] /\ eligible'[t] = eligible[t]
  BY DEF End, Inv, Types
<1>4. \A t \in Session : Handles(t, o)' => Handles(t, o) /\ t # s
  BY <1>3 DEF Handles
<1>5. CASE Handles(s, o)
  BY <1>1, <1>2, <1>4, <1>5 DEF Settled
<1>6. CASE ~Handles(s, o)
  BY <1>2, <1>3, <1>4, <1>6 DEF Settled
<1>7. QED
  BY <1>5, <1>6

LEMMA OrdersStep ==
    ASSUME Inv, OrdersInHand, NEW s \in Session, Step(s) \/ Crash(s)
    PROVE  OrdersInHand'
<1> USE DEF walletVars, orderVars, plan, history
<1>1. CASE Accept(s) \/ Refuse(s)
  <2>1. /\ UNCHANGED <<payouts, status, ord, eligible, contested, overruled>>
        /\ op[s] = "verifying"
        /\ op' \in {[op EXCEPT ![s] = "crediting"], [op EXCEPT ![s] = "failing"]}
    BY <1>1 DEF Accept, Refuse
  <2>2. \A o \in Order, t \in Session :
            (Handles(t, o)' <=> Handles(t, o)) /\ (Handles(t, o) => op'[t] = op[t])
    BY <2>1 DEF Handles, Inv, Types
  <2>3. QED
    BY <2>1, <2>2 DEF OrdersInHand, Settled, Undisturbed
<1>2. CASE GiveUp(s) \/ CommitDeposit(s)
  BY <1>2, OrdersEnd DEF GiveUp, CommitDeposit, Handles
<1>3. CASE Crash(s)
  BY <1>3, OrdersEnd DEF Crash, OrdersInHand, Settled
<1>4. CASE CommitPay(s) \/ CommitMove(s)
  <2>1. /\ op[s] \in {"paying", "moving", "marking"} /\ End(s) /\ payouts' = payouts
        /\ \A o \in Order : o # ord[s] => status'[o] = status[o]
    BY <1>4 DEF CommitPay, CommitMove, Inv, Types
  <2>2. ASSUME NEW o \in Order, Undisturbed(o), Handles(s, o)
        PROVE  payouts'[o] > 0 => payouts'[o] = 1 /\ status'[o] = "completed"
    BY <2>1, <2>2 DEF OrdersInHand, Settled, Handles
  <2>3. QED
    BY <2>1, <2>2, OrdersEnd DEF Handles
<1>5. CASE CommitConfirm(s)
  <2>1. op[s] = "confirming" /\ End(s)
    BY <1>5 DEF CommitConfirm
  <2>2. ASSUME NEW o \in Order
        PROVE  /\ o \in eligible[s] =>
                     status'[o] = "completed" /\ payouts'[o] \in {payouts[o], payouts[o] + 1}
               /\ o \notin eligible[s] =>
                     status'[o] = status[o] /\ payouts'[o] = payouts[o]
    BY <1>5, <2>2 DEF CommitConfirm, Inv, Types
  <2>3. ASSUME NEW o \in Order, Undisturbed(o), Handles(s, o)
        PROVE  payouts'[o] > 0 => payouts'[o] = 1 /\ status'[o] = "completed"
    <3>1. o \in eligible[s] /\ payouts[o] \in Nat
      BY <2>1, <2>3 DEF Handles, Inv, Types
    <3>2. payouts[o] = 0
      BY <2>1, <2>3, <3>1 DEF OrdersInHand, Settled
    <3>3. QED
      BY <2>2, <3>1, <3>2
  <2>4. QED
    BY <2>1, <2>2, <2>3, OrdersEnd DEF Handles
<1>6. QED
  BY <1>1, <1>2, <1>3, <1>4, <1>5 DEF Step

LEMMA OrdersNext == Inv /\ OrdersInHand /\ [Next]_vars => OrdersInHand'
<1> SUFFICES ASSUME Inv, OrdersInHand, [Next]_vars PROVE OrdersInHand'
  OBVIOUS
<1> USE DEF walletVars, orderVars, plan, history
<1>1. ASSUME UNCHANGED <<payouts, status, op, ord, eligible, contested, overruled>>
      PROVE  OrdersInHand'
  BY <1>1 DEF OrdersInHand, Settled, Undisturbed, Handles
<1>2. ASSUME NEW o \in Order, NEW st \in OrderStatus, Create(o, st)
      PROVE  OrdersInHand'
  <2>1. st # "completed"
    BY <1>2, BoundAssumption DEF Create, PlatformStatus
  <2>2. status[o] = "absent" /\ \A q \in Order : status'[q] = IF q = o THEN st ELSE status[q]
    BY <1>2 DEF Create, Inv, Types
  <2>3. UNCHANGED <<payouts, op, ord, eligible, contested, overruled>>
    BY <1>2 DEF Create
  <2>4. QED
    BY <2>1, <2>2, <2>3 DEF OrdersInHand, Settled, Undisturbed, Handles
<1>3. QED
  BY <1>1, <1>2, OrdersStart, OrdersStep DEF Next, InitiateDeposit, Elapse, vars

-----------------------------------------------------------------------------
(* What follows, whatever overlaps elsewhere                               *)

THEOREM HandsHold == Spec => [](HistoryTypes /\ DepositsInHand /\ OrdersInHand)
  BY InvHolds, HistoryTypesInit, HistoryTypesNext, DepositsInit, DepositsNext, OrdersInit,
     OrdersNext, PTL DEF Spec

(* The variables of every instance keep their types.                       *)
THEOREM TypeCorrect == Spec => []TypeOK
<1>1. Inv /\ HistoryTypes => TypeOK
  BY DEF Inv, HistoryTypes, TypeOK
<1>2. QED
  BY <1>1, InvHolds, HandsHold, PTL

(* No order is charged twice, to one wallet or to two, however payments,   *)
(* status changes and reports of the platform overlap.                     *)
THEOREM ChargesOnce == Spec => []ChargedOnce
  BY InvHolds, PTL DEF Inv

(* No deposit becomes money before the gateway has accepted it.            *)
THEOREM CreditIsAccepted == Spec => []CreditedIsAccepted
  BY InvHolds, PTL DEF Inv

(* No supplier is paid for an order that no wallet was charged for.        *)
THEOREM PayoutsAreFunded == Spec => []PayoutIsFunded
  BY InvHolds, PTL DEF Inv

(* The suppliers of an order are paid at most once, unless two sessions    *)
(* had this order in hand at once or the platform or an administrator has  *)
(* moved it.                                                               *)
THEOREM PaysOutOnce == Spec => []PayoutOnce
<1>1. Inv /\ OrdersInHand => PayoutOnce
  <2> SUFFICES ASSUME Inv, OrdersInHand, NEW o \in Order \ (contested \cup overruled)
               PROVE  payouts[o] <= 1
    BY DEF PayoutOnce
  <2>1. payouts[o] \in Nat
    BY DEF Inv, Types
  <2>2. payouts[o] > 0 => payouts[o] = 1
    BY DEF OrdersInHand, Undisturbed, Settled
  <2>3. QED
    BY <2>1, <2>2
<1>2. QED
  BY <1>1, InvHolds, HandsHold, PTL

(* Callbacks and cancellations withdraw no credit of a deposit on which    *)
(* they have not overlapped.                                               *)
THEOREM CreditStays == Spec => DepositsStay
<1>1. Inv /\ DepositsInHand /\ [Next]_vars =>
        \A d \in Deposit \ crossed : deposit[d] = "completed" => deposit'[d] = "completed"
  BY CreditStep
<1>2. QED
  BY <1>1, InvHolds, HandsHold, PTL DEF Spec, DepositsStay

-----------------------------------------------------------------------------
(* Money                                                                   *)

LEMMA UpToFinite ==
    ASSUME NEW n \in Nat
    PROVE  IsFiniteSet(1..n) /\ Cardinality(1..n) = n
<1>1. \A m \in Nat : (IF 1 > m THEN 0 ELSE m - 1 + 1) = m
  OBVIOUS
<1>. QED BY <1>1, FS_Interval

LEMMA WorthFinite ==
    ASSUME NEW D \in SUBSET Deposit
    PROVE  IsFiniteSet(UNION {{d} \X (1..Worth[d]) : d \in D})
<1> DEFINE T == {{d} \X (1..Worth[d]) : d \in D}
           f == [d \in D |-> {d} \X (1..Worth[d])]
<1>1. IsFiniteSet(D)
  BY AmountAssumption, FS_Subset
<1>2. f \in Surjection(D, T)
  BY DEF Surjection
<1>3. IsFiniteSet(T)
  BY <1>1, <1>2, FS_Surjection
<1>4. \A d \in D : IsFiniteSet({d} \X (1..Worth[d]))
  BY AmountAssumption, UpToFinite, FS_Singleton, FS_Product
<1>. QED BY <1>3, <1>4, FS_UNION

LEMMA CreditedFinite ==
    ASSUME NEW u
    PROVE  IsFiniteSet(Credited(u)) /\ Cardinality(Credited(u)) \in Nat
<1> DEFINE D == {e \in Deposit : Depositor[e] = u /\ deposit[e] = "completed"}
<1>1. IsFiniteSet(UNION {{d} \X (1..Worth[d]) : d \in D})
  BY WorthFinite
<1>2. IsFiniteSet(Credited(u))
  BY <1>1 DEF Credited
<1>. QED BY <1>2, FS_CardinalityType

LEMMA ChargedFinite ==
    ASSUME Types, NEW u
    PROVE  IsFiniteSet(Charged(u)) /\ Cardinality(Charged(u)) \in Nat
<1> DEFINE X(o) == {o} \X (Charges(u, o) \X (1..Cost[o]))
           T == {X(o) : o \in Order}
           f == [o \in Order |-> X(o)]
<1>1. f \in Surjection(Order, T)
  BY DEF Surjection
<1>2. IsFiniteSet(T)
  BY <1>1, FS_Surjection, AmountAssumption
<1>3. ASSUME NEW o \in Order PROVE IsFiniteSet(X(o))
  <2>1. Len(payments[o]) \in Nat /\ DOMAIN payments[o] = 1..Len(payments[o])
    BY DEF Types
  <2>2. IsFiniteSet(Charges(u, o))
    BY <2>1, UpToFinite, FS_Subset DEF Charges
  <2>3. IsFiniteSet(1..Cost[o])
    BY UpToFinite, AmountAssumption
  <2>. QED BY <2>2, <2>3, FS_Singleton, FS_Product
<1>4. IsFiniteSet(UNION T)
  BY <1>2, <1>3, FS_UNION
<1>5. IsFiniteSet(Charged(u))
  BY <1>4 DEF Charged
<1>. QED BY <1>5, FS_CardinalityType

IntBalances == \A u \in User : Balance(u) \in Int

LEMMA BalanceIsInt == Types => IntBalances
<1> SUFFICES ASSUME Types, NEW u \in User PROVE Balance(u) \in Int
  BY DEF IntBalances
<1>. QED BY CreditedFinite, ChargedFinite DEF Balance

(* A payment takes the cost of its order from the wallet it charges.       *)
LEMMA PaymentTakesCost ==
    ASSUME Types, Types', NEW o \in Order, NEW v \in User, NEW u,
           payments' = [payments EXCEPT ![o] = Append(@, v)],
           deposit' = deposit
    PROVE  /\ u # v => Balance(u)' = Balance(u)
           /\ u = v => Balance(u)' = Balance(u) - Cost[o]
<1>1. Credited(u)' = Credited(u)
  BY DEF Credited
<1> DEFINE n == Len(payments[o]) + 1
           New == {o} \X ({n} \X (1..Cost[o]))
<1>2. \A p \in Order : Charges(u, p)' =
          IF p = o /\ u = v THEN Charges(u, p) \cup {n} ELSE Charges(u, p)
  BY DEF Charges, Types
<1>3. ASSUME u # v PROVE Balance(u)' = Balance(u)
  <2>1. Charged(u)' = Charged(u)
    BY <1>2, <1>3 DEF Charged
  <2>. QED BY <1>1, <2>1 DEF Balance
<1>4. ASSUME u = v PROVE Balance(u)' = Balance(u) - Cost[o]
  <2>1. Charged(u)' = Charged(u) \cup New
    BY <1>2, <1>4 DEF Charged
  <2>2. n \notin Charges(u, o)
    BY DEF Charges, Types
  <2>3. Charged(u) \cap New = {}
    BY <2>2 DEF Charged
  <2>4. Cost[o] \in Nat
    BY AmountAssumption
  <2>5. IsFiniteSet(1..Cost[o]) /\ Cardinality(1..Cost[o]) = Cost[o]
    BY <2>4, UpToFinite
  <2>6. IsFiniteSet({n} \X (1..Cost[o]))
        /\ Cardinality({n} \X (1..Cost[o])) = 1 * Cost[o]
    <3>1. IsFiniteSet({n}) /\ Cardinality({n}) = 1
      BY FS_Singleton
    <3> HIDE DEF n
    <3>. QED BY <2>5, <3>1, FS_Product
  <2>7. IsFiniteSet(New) /\ Cardinality(New) = 1 * (1 * Cost[o])
    <3>1. IsFiniteSet({o}) /\ Cardinality({o}) = 1
      BY FS_Singleton
    <3> HIDE DEF n
    <3>. QED BY <2>6, <3>1, FS_Product
  <2>8. Cardinality(New) = Cost[o]
    BY <2>4, <2>7
  <2>9. Cardinality(Charged(u) \cap New) = 0
    BY <2>3, FS_EmptySet
  <2>10. Cardinality(Charged(u) \cup New) = Cardinality(Charged(u))
            + Cardinality(New) - Cardinality(Charged(u) \cap New)
    BY <2>7, ChargedFinite, FS_Union
  <2>11. /\ Cardinality(Charged(u)) \in Nat
         /\ Cardinality(Credited(u)) \in Nat
    BY ChargedFinite, CreditedFinite
  <2>12. Cardinality(Charged(u) \cup New) = Cardinality(Charged(u)) + Cost[o]
    <3> HIDE DEF New
    <3>. QED BY <2>4, <2>8, <2>9, <2>10, <2>11
  <2>13. Cardinality(Charged(u)') = Cardinality(Charged(u)) + Cost[o]
    BY <2>1, <2>12, Zenon
  <2>. QED BY <1>1, <2>4, <2>11, <2>13 DEF Balance
<1>. QED BY <1>3, <1>4

(* Deposits that stay credited take nothing from a wallet.                 *)
LEMMA DepositsAdd ==
    ASSUME Types, payments' = payments, NEW u,
           \A d \in Deposit : Depositor[d] = u /\ deposit[d] = "completed"
               => deposit'[d] = "completed"
    PROVE  Balance(u) <= Balance(u)'
<1>1. Charged(u)' = Charged(u)
  BY DEF Charged, Charges
<1>2. Credited(u) \subseteq Credited(u)'
  BY DEF Credited
<1>3. IsFiniteSet(Credited(u)')
  <2> DEFINE D == {e \in Deposit : Depositor[e] = u /\ deposit'[e] = "completed"}
  <2>1. IsFiniteSet(UNION {{d} \X (1..Worth[d]) : d \in D})
    BY WorthFinite
  <2>. QED BY <2>1 DEF Credited
<1>4. Cardinality(Credited(u)) <= Cardinality(Credited(u)')
  BY <1>2, <1>3, FS_Subset
<1>5. /\ Cardinality(Credited(u)) \in Nat
      /\ Cardinality(Credited(u)') \in Nat
      /\ Cardinality(Charged(u)) \in Nat
  BY <1>3, CreditedFinite, ChargedFinite, FS_CardinalityType
<1>. QED BY <1>1, <1>4, <1>5 DEF Balance

(* A wallet that no two payments have charged at once and none of whose    *)
(* deposits two sessions have worked on at once.                           *)
Sound(u) == u \notin raced /\ \A d \in crossed : Depositor[d] # u

(* Its money is not negative; who charges it is alone, and can still pay   *)
(* what it has found affordable.                                           *)
WalletsInHand ==
    \A u \in User : Sound(u) =>
        /\ Balance(u) >= 0
        /\ \A s \in Session : op[s] = "paying" /\ user[s] = u =>
              /\ Balance(u) >= Cost[ord[s]]
              /\ \A t \in Session : op[t] = "paying" /\ user[t] = u => t = s

LEMMA WalletsInit == Init => WalletsInHand
<1> SUFFICES ASSUME Init, NEW u \in User PROVE Balance(u) >= 0
  BY DEF Init, WalletsInHand
<1>1. Credited(u) = {}
  BY DEF Init, Credited
<1>2. Charged(u) = {}
  BY DEF Init, Charged, Charges
<1>. QED BY <1>1, <1>2, FS_EmptySet DEF Balance

(* Who pays after a step was paying before it, or has just found the order *)
(* affordable and nobody else charging the wallet.                         *)
LEMMA WhoPays ==
    ASSUME Inv, [Next]_vars, NEW t \in Session, op'[t] = "paying"
    PROVE  \/ op[t] = "paying" /\ user'[t] = user[t] /\ ord'[t] = ord[t]
           \/ /\ Balance(user'[t]) >= Cost[ord'[t]]
              /\ user'[t] \notin raced' =>
                    \A r \in Session : op'[r] = "paying" /\ user'[r] = user'[t] => r = t
<1> USE DEF Inv, Types, walletVars, orderVars, plan, history
<1> DEFINE Same == op[t] = "paying" /\ user'[t] = user[t] /\ ord'[t] = ord[t]
<1>1. ASSUME NEW s \in Session, End(s)
      PROVE  Same
  BY <1>1 DEF End
<1>2. ASSUME NEW s \in Session, NEW u \in User, NEW o \in Order, StartPay(s, u, o), s = t
      PROVE  /\ Balance(user'[t]) >= Cost[ord'[t]]
             /\ user'[t] \notin raced' =>
                   \A r \in Session : op'[r] = "paying" /\ user'[r] = user'[t] => r = t
  <2>1. /\ op' = [op EXCEPT ![t] = "paying"]
        /\ user' = [user EXCEPT ![t] = u]
        /\ ord' = [ord EXCEPT ![t] = o]
        /\ Balance(u) >= Cost[o]
        /\ raced' = raced \cup {v \in {u} : \E r \in Session : user[r] = v}
    BY <1>2 DEF StartPay, Affordable, Begin
  <2>2. user'[t] = u /\ ord'[t] = o
    BY <2>1
  <2>. QED BY <2>1, <2>2
<1>3. ASSUME NEW s \in Session, NEW u \in User, NEW o \in Order, StartPay(s, u, o), s # t
      PROVE  Same
  BY <1>3 DEF StartPay
<1>4. ASSUME NEW s \in Session,
             \/ \E d \in Deposit : StartCallback(s, d) \/ StartCancel(s, d)
             \/ \E o \in Order, st \in Target : StartTransition(s, o, st)
             \/ \E o \in Order, st \in Reported : StartReport(s, o, st)
             \/ \E o \in Order : StartForce(s, o)
             \/ StartConfirm(s)
      PROVE  Same
  <2>1. \E x \in Doing \ {"paying"} :
            /\ op' = [op EXCEPT ![s] = x]
            /\ user' = user
            /\ ord' = ord \/ \E o \in Order : ord' = [ord EXCEPT ![s] = o]
    BY <1>4 DEF StartCallback, StartCancel, StartTransition, StartReport,
       StartForce, StartConfirm, Plan, Doing
  <2>. QED BY <2>1
<1>5. ASSUME NEW s \in Session, Accept(s) \/ Refuse(s)
      PROVE  Same
  BY <1>5 DEF Accept, Refuse
<1>6. ASSUME NEW s \in Session, Step(s) \/ Crash(s)
      PROVE  Same
  BY <1>1, <1>5, <1>6 DEF Step, Crash, GiveUp, CommitDeposit, CommitPay, CommitMove,
     CommitConfirm
<1>7. CASE UNCHANGED <<op, user, ord>>
  BY <1>7
<1>8. CASE \E s \in Session : Start(s)
  <2>1. PICK s \in Session : Start(s)
    BY <1>8
  <2>2. CASE \E u \in User, o \in Order : StartPay(s, u, o)
    BY <1>2, <1>3, <2>2
  <2>3. CASE ~\E u \in User, o \in Order : StartPay(s, u, o)
    BY <1>4, <2>1, <2>3 DEF Start
  <2>. QED BY <2>2, <2>3
<1>9. \/ \E s \in Session : Start(s) \/ Step(s) \/ Crash(s)
      \/ UNCHANGED <<op, user, ord>>
  BY DEF Next, InitiateDeposit, Elapse, Create, vars
<1>. QED BY <1>6, <1>7, <1>8, <1>9

LEMMA WalletsNext ==
    ASSUME Inv, Inv', IntBalances, IntBalances', DepositsInHand, WalletsInHand, [Next]_vars
    PROVE  WalletsInHand'
<1> SUFFICES ASSUME NEW u \in User, Sound(u)'
             PROVE  /\ Balance(u)' >= 0
                    /\ \A s \in Session : op'[s] = "paying" /\ user'[s] = u =>
                          /\ Balance(u)' >= Cost[ord'[s]]
                          /\ \A t \in Session : op'[t] = "paying" /\ user'[t] = u => t = s
  BY DEF WalletsInHand, Balance, Credited, Charged, Charges
<1>1. Sound(u)
  BY HistoryGrows DEF Sound
<1>2. /\ Balance(u) >= 0
      /\ \A s \in Session : op[s] = "paying" /\ user[s] = u =>
            /\ Balance(u) >= Cost[ord[s]]
            /\ \A t \in Session : op[t] = "paying" /\ user[t] = u => t = s
  BY <1>1 DEF WalletsInHand
<1>3. Balance(u) \in Int /\ Balance(u)' \in Int
  BY DEF IntBalances
<1>4. ASSUME NEW s \in Session, CommitPay(s)
      PROVE  /\ Balance(u)' >= 0
             /\ \A t \in Session : op'[t] = "paying" /\ user'[t] = u =>
                   /\ Balance(u)' >= Cost[ord'[t]]
                   /\ \A r \in Session : op'[r] = "paying" /\ user'[r] = u => r = t
  <2>1. op[s] = "paying" /\ user[s] \in User /\ ord[s] \in Order
    BY <1>4 DEF CommitPay, Inv, PaysAlone
  <2>2. /\ payments' = [payments EXCEPT ![ord[s]] = Append(@, user[s])]
        /\ deposit' = deposit
        /\ End(s)
    BY <1>4 DEF CommitPay
  <2>3. /\ u # user[s] => Balance(u)' = Balance(u)
        /\ u = user[s] => Balance(u)' = Balance(u) - Cost[ord[s]]
    BY <2>1, <2>2, PaymentTakesCost DEF Inv
  <2>4. u = user[s] => Balance(u) >= Cost[ord[s]]
    BY <1>2, <2>1
  <2>5. Cost[ord[s]] \in Nat
    BY <2>1, AmountAssumption
  <2>6. Balance(u)' >= 0
    BY <1>2, <1>3, <2>3, <2>4, <2>5
  <2>7. \A t \in Session : op'[t] = "paying" =>
            t # s /\ op[t] = "paying" /\ user'[t] = user[t] /\ ord'[t] = ord[t]
    BY <2>2, EndTypes DEF Inv
  <2>8. ASSUME NEW t \in Session, op'[t] = "paying", user'[t] = u
        PROVE  /\ Balance(u)' >= Cost[ord'[t]]
               /\ \A r \in Session : op'[r] = "paying" /\ user'[r] = u => r = t
    <3>1. t # s /\ op[t] = "paying" /\ user[t] = u /\ ord'[t] = ord[t]
      BY <2>7, <2>8
    <3>2. u # user[s]
      BY <1>2, <2>1, <3>1
    <3>. QED BY <1>2, <2>3, <2>7, <3>1, <3>2
  <2>. QED BY <2>6, <2>8
<1>5. ASSUME payments' = payments
      PROVE  /\ Balance(u)' >= 0
             /\ \A t \in Session : op'[t] = "paying" /\ user'[t] = u =>
                   /\ Balance(u)' >= Cost[ord'[t]]
                   /\ \A r \in Session : op'[r] = "paying" /\ user'[r] = u => r = t
  <2>1. \A d \in Deposit : Depositor[d] = u /\ deposit[d] = "completed"
            => deposit'[d] = "completed"
    BY <1>1, CreditStep DEF Sound
  <2>2. Balance(u) <= Balance(u)'
    BY <1>5, <2>1, DepositsAdd DEF Inv
  <2>3. ASSUME NEW t \in Session, op'[t] = "paying", user'[t] = u
        PROVE  Balance(u)' >= Cost[ord'[t]]
    <3>1. Balance(u) >= Cost[ord'[t]]
      BY <1>2, <2>3, WhoPays
    <3>2. Cost[ord'[t]] \in Nat
      BY <2>3, AmountAssumption DEF Inv, PaysAlone
    <3>. QED BY <1>3, <2>2, <3>1, <3>2
  <2>4. ASSUME NEW t \in Session, op'[t] = "paying", user'[t] = u,
               NEW r \in Session, op'[r] = "paying", user'[r] = u
        PROVE  r = t
    <3>1. u \notin raced'
      BY DEF Sound
    <3>2. \/ op[t] = "paying" /\ user[t] = u
          \/ r = t
      BY <2>4, <3>1, WhoPays
    <3>3. \/ op[r] = "paying" /\ user[r] = u
          \/ r = t
      BY <2>4, <3>1, WhoPays
    <3>. QED BY <1>2, <3>2, <3>3
  <2>. QED BY <1>2, <1>3, <2>2, <2>3, <2>4
<1>6. payments' = payments \/ \E s \in Session : CommitPay(s)
  <2>1. ASSUME NEW s \in Session, Start(s)
        PROVE  payments' = payments
    BY <2>1 DEF Start, StartCallback, StartCancel, StartPay, StartTransition, StartReport,
       StartForce, StartConfirm, Plan, walletVars
  <2>2. ASSUME NEW s \in Session, Step(s) \/ Crash(s)
        PROVE  payments' = payments \/ CommitPay(s)
    BY <2>2 DEF Step, Crash, Accept, Refuse, GiveUp, CommitDeposit, CommitMove,
       CommitConfirm, walletVars
  <2>. QED BY <2>1, <2>2 DEF Next, InitiateDeposit, Elapse, Create, walletVars, vars
<1>. QED BY <1>4, <1>5, <1>6

LEMMA WalletsHold == Spec => []WalletsInHand
<1>1. Inv => IntBalances
  BY BalanceIsInt DEF Inv
<1>2. Inv /\ Inv' /\ IntBalances /\ IntBalances' /\ DepositsInHand /\ WalletsInHand
        /\ [Next]_vars => WalletsInHand'
  BY WalletsNext
<1>3. QED
  BY <1>1, <1>2, WalletsInit, InvHolds, HandsHold, PTL DEF Spec

(* No wallet is overdrawn, for any number of wallets, deposits and orders  *)
(* and whatever they are worth, unless two payments from it, or two        *)
(* sessions on a deposit of it, have overlapped.                           *)
THEOREM NoWalletOverdrawn == Spec => []NoOverdraft
<1>1. WalletsInHand => NoOverdraft
  BY DEF WalletsInHand, NoOverdraft, Sound
<1>2. QED
  BY <1>1, WalletsHold, PTL

-----------------------------------------------------------------------------
(* The accounts                                                            *)

LEMMA SameBalance == \A u \in User : Accounts!Balance(u) = Balance(u)
<1> SUFFICES ASSUME NEW u \in User PROVE Accounts!Balance(u) = Balance(u)
  OBVIOUS
<1>1. Accounts!Brought(u) = Credited(u)
  BY DEF Accounts!Brought, Credited
<1>2. Accounts!Taken(u) = Charged(u)
  BY DEF Accounts!Taken, Charged, Charges
<1>3. \A S : Accounts!Cardinality(S) = Cardinality(S)
  BY DEF Accounts!Cardinality, Cardinality
<1>. QED BY <1>1, <1>2, <1>3 DEF Accounts!Balance, Balance

(* Starts, and whatever else touches no money.                             *)
LEMMA OverlapsOnly ==
    ASSUME HistoryTypes', [Next]_vars, UNCHANGED <<deposit, payments, payouts>>
    PROVE  Accounts!Next
<1>1. Accounts!Overlap
  BY HistoryGrows DEF Accounts!Overlap, Accounts!money, HistoryTypes
<1>. QED BY <1>1 DEF Accounts!Next

LEMMA DepositMaps ==
    ASSUME Inv, DepositsInHand, NEW s \in Session, CommitDeposit(s)
    PROVE  [Accounts!Next]_(Accounts!accounts)
<1> DEFINE Before == {e \in Deposit : deposit[e] = "completed"}
           After == {e \in Deposit : deposit'[e] = "completed"}
<1>0. PICK d \in Deposit : d = tx[s]
  BY DEF CommitDeposit, Inv, WorksOnItsDeposit
<1>1. /\ op[s] \in {"crediting", "failing"}
      /\ UNCHANGED <<payments, payouts, crossed, raced, contested, overruled>>
  BY DEF CommitDeposit, End, history, Inv, WorksOnItsDeposit
<1>2. /\ op[s] = "crediting" => After = Before \cup {d}
      /\ op[s] = "failing" => After = Before \ {d}
  BY <1>0, <1>1 DEF CommitDeposit, Inv, Types
<1>3. d \in Before /\ op[s] = "failing" => d \in crossed
  BY <1>0, <1>1 DEF DepositsInHand, Depositing
<1>4. CASE After = Before
  BY <1>1, <1>4 DEF Accounts!accounts, Accounts!money, Accounts!overlaps
<1>5. CASE op[s] = "crediting" /\ d \notin Before
  <2>1. Accounts!Credit(d)
    BY <1>1, <1>2, <1>5 DEF Accounts!Credit, Accounts!overlaps
  <2>. QED BY <2>1 DEF Accounts!Next
<1>6. CASE op[s] = "failing" /\ d \in Before
  <2>1. Accounts!Withdraw(d)
    BY <1>1, <1>2, <1>3, <1>6 DEF Accounts!Withdraw, Accounts!overlaps
  <2>. QED BY <2>1 DEF Accounts!Next
<1>. QED BY <1>1, <1>2, <1>4, <1>5, <1>6

LEMMA PayMaps ==
    ASSUME Inv, WalletsInHand, NEW s \in Session, CommitPay(s)
    PROVE  Accounts!Next
<1> DEFINE o == ord[s]
           u == user[s]
<1>1. /\ o \in Order /\ u \in User /\ o \notin paidAt /\ op[s] = "paying"
      /\ payments' = [payments EXCEPT ![o] = Append(@, u)]
      /\ UNCHANGED <<deposit, payouts, crossed, raced, contested, overruled>>
  BY DEF CommitPay, End, history, Inv, PaysAlone
<1>2. payments[o] = <<>>
  BY <1>1 DEF Inv, ChargedIsPaid
<1>3. payments' = [payments EXCEPT ![o] = <<u>>]
  BY <1>1, <1>2
<1>4. Sound(u) => Balance(u) >= Cost[o]
  BY <1>1 DEF WalletsInHand
<1>5. Accounts!Balance(u) >= Cost[o] \/ Accounts!Overlapped(u)
  BY <1>1, <1>4, SameBalance DEF Sound, Accounts!Overlapped
<1>6. Accounts!Charge(u, o)
  BY <1>1, <1>2, <1>3, <1>5 DEF Accounts!Charge, Accounts!overlaps
<1>. QED BY <1>1, <1>6 DEF Accounts!Next

LEMMA ConfirmMaps ==
    ASSUME Inv, OrdersInHand, NEW s \in Session, CommitConfirm(s)
    PROVE  Accounts!Next
<1>1. /\ op[s] = "confirming" /\ eligible[s] \subseteq Order
      /\ UNCHANGED <<deposit, payments, crossed, raced, contested, overruled>>
  BY DEF CommitConfirm, End, history, Inv, Types
<1>2. PICK unpublished \in SUBSET eligible[s] :
        payouts' = [o \in Order |->
              IF o \in eligible[s] \ unpublished /\ HasPayment(o)
              THEN payouts[o] + 1 ELSE payouts[o]]
  BY DEF CommitConfirm
<1> DEFINE O == {o \in eligible[s] \ unpublished : HasPayment(o)}
<1>3. payouts' = [o \in Order |-> IF o \in O THEN payouts[o] + 1 ELSE payouts[o]]
  BY <1>2
<1>4. ASSUME NEW o \in O
      PROVE  payments[o] # <<>> /\ (payouts[o] = 0 \/ o \in contested \cup overruled)
  <2>1. Handles(s, o) /\ o \in Order
    BY <1>1 DEF Handles
  <2>2. Undisturbed(o) => status[o] = "delivered" /\ ~(payouts[o] > 0)
    BY <1>1, <2>1 DEF OrdersInHand, Settled
  <2>3. Undisturbed(o) => payouts[o] = 0
    BY <2>1, <2>2 DEF Inv, Types
  <2>4. payments[o] # <<>>
    <3>1. Len(payments[o]) = 1
      BY DEF HasPayment
    <3>2. Len(<<>>) = 0
      OBVIOUS
    <3>. QED BY <3>1, <3>2
  <2>. QED BY <2>1, <2>3, <2>4 DEF Undisturbed
<1>5. Accounts!PayOut(O)
  BY <1>1, <1>3, <1>4 DEF Accounts!PayOut, Accounts!overlaps
<1>6. O \in SUBSET Order
  BY <1>1
<1>. QED BY <1>5, <1>6 DEF Accounts!Next

LEMMA InitiateMaps ==
    ASSUME Inv, NEW d \in Deposit, InitiateDeposit(d)
    PROVE  UNCHANGED (Accounts!accounts)
<1>1. {e \in Deposit : deposit'[e] = "completed"} = {e \in Deposit : deposit[e] = "completed"}
  BY DEF InitiateDeposit, Inv, Types
<1>2. UNCHANGED <<payments, payouts, crossed, raced, contested, overruled>>
  BY DEF InitiateDeposit, history
<1>. QED BY <1>1, <1>2 DEF Accounts!accounts, Accounts!money, Accounts!overlaps

LEMMA AccountsNext ==
    ASSUME Inv, HistoryTypes', DepositsInHand, OrdersInHand, WalletsInHand, [Next]_vars
    PROVE  [Accounts!Next]_(Accounts!accounts)
<1>1. ASSUME NEW s \in Session, Start(s)
      PROVE  UNCHANGED <<deposit, payments, payouts>>
  BY <1>1 DEF Start, StartCallback, StartCancel, StartPay, StartTransition, StartReport,
     StartForce, StartConfirm, Plan, walletVars
<1>2. ASSUME NEW s \in Session, Accept(s) \/ Refuse(s) \/ GiveUp(s) \/ CommitMove(s) \/ Crash(s)
      PROVE  UNCHANGED <<deposit, payments, payouts>>
  BY <1>2 DEF Accept, Refuse, GiveUp, CommitMove, Crash, walletVars
<1>3. ASSUME NEW o \in Order, Elapse(o) \/ \E st \in OrderStatus : Create(o, st)
      PROVE  UNCHANGED <<deposit, payments, payouts>>
  BY <1>3 DEF Elapse, Create, walletVars
<1>4. CASE UNCHANGED vars
  BY <1>4, OverlapsOnly DEF vars, walletVars
<1>. QED BY <1>1, <1>2, <1>3, <1>4, OverlapsOnly, DepositMaps, PayMaps, ConfirmMaps,
         InitiateMaps DEF Next, Step

(* Every behaviour of the sessions is one of the accounts in Escrow: money *)
(* moves as if one transaction after the other had moved it, and only an   *)
(* overlap on the same deposit, wallet or order excuses an exception.      *)
THEOREM ImplementsEscrow == Spec => KeepsAccounts
<1>1. Init => Accounts!Init
  BY DEF Init, Accounts!Init
<1>2. Inv /\ HistoryTypes' /\ DepositsInHand /\ OrdersInHand /\ WalletsInHand /\ [Next]_vars
        => [Accounts!Next]_(Accounts!accounts)
  BY AccountsNext
<1>. QED BY <1>1, <1>2, InvHolds, HandsHold, WalletsHold, PTL
         DEF Spec, KeepsAccounts, Accounts!Spec
=============================================================================
