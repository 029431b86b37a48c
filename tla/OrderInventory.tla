--------------------------- MODULE OrderInventory ---------------------------
(***************************************************************************)
(* Orders and the stock they reserve, at the grain of database statements. *)
(*                                                                         *)
(* Every API request and every cleanup task is a Session: one SQLAlchemy   *)
(* session, one PostgreSQL transaction at READ COMMITTED.  What a session  *)
(* writes is invisible to the others until it commits, and the rows it has *)
(* written stay locked until then, so its writes are kept in `done` (the   *)
(* items it has reserved, released or consumed so far) and applied by its  *)
(* commit; a rollback forgets them.  The counter updates are relative      *)
(* (SET reserved = reserved + q), so applying them at the commit gives the *)
(* row every other session would see.                                      *)
(*                                                                         *)
(* A quantity of stock is counted in units: item i stands for the units    *)
(* <<i, 1>> .. <<i, Qty[i]>>, and an amount is the cardinality of a set of *)
(* units.                                                                  *)
(***************************************************************************)
EXTENDS Integers, FiniteSets, OrderLifecycle

CONSTANTS
    Session,    \* concurrent database sessions (requests and tasks)
    Order,      \* orders that will ever be created
    Item,       \* order items
    Variant,    \* supplier variants
    OrderOf,    \* the order of an item
    VariantOf,  \* the variant an item asks for
    Qty,        \* the quantity of an item
    MaxQty,     \* largest quantity (the width of the Integer column)
    Stock,      \* inventory of each variant before the first order
    Ops,        \* operations that sessions start (bound of the run)
    Target,     \* statuses that requests ask for (bound of the run)
    Reported,   \* statuses that the platform reports (bound of the run)
    Mortal      \* operations whose sessions may die (bound of the run)

ASSUME ItemAssumption ==
    /\ IsFiniteSet(Item)
    /\ "none" \notin Order
    /\ MaxQty \in Nat
    /\ OrderOf \in [Item -> Order]
    /\ VariantOf \in [Item -> Variant]
    /\ Qty \in [Item -> 1..MaxQty]
    /\ Stock \in [Variant -> Nat]

Op == {"create", "cancel", "transition", "cleanup", "wallet", "force", "report"}

(* What the poll and the webhooks of the platform map their words to.      *)
PlatformStatus == OrderStatus \ {"completed", "disputed"}

ASSUME BoundAssumption ==
    /\ Ops \subseteq Op /\ Mortal \subseteq Op
    /\ Target \subseteq OrderStatus
    /\ Reported \subseteq PlatformStatus

VARIABLES
    (* the database, as committed *)
    inventory,    \* supplier_variants.inventory
    reserved,     \* supplier_variants.reserved_inventory
    reservation,  \* inventory_reservations.status of each item
    expired,      \* items whose reservation is past expires_at
    status,       \* orders.status
    paidAt,       \* orders whose paid_at is set
    (* the sessions *)
    op,           \* the operation a session is running
    ord,          \* the order it works on
    from,         \* the order status it validated (never re-read)
    to,           \* the status it will write
    pinned,       \* create: the variant whose row it still holds in memory
    seen,         \* create: that variant's availability when first read
    todo,         \* items it has still to look at
    active,       \* items it has found reserved and will release or consume
    done,         \* items it has reserved, released or consumed
    row,          \* it holds the lock of its order's row
    (* history *)
    taken,        \* items whose units have left the inventory
    leaked,       \* items that a forced cancellation marked released
    paidOutside,  \* orders that a wallet or the platform has paid
    contested,    \* orders that two sessions have worked on at once
    raced         \* variants that two create_orders have wanted at once

dbVars == <<inventory, reserved, reservation, expired, status, paidAt>>
plan == <<ord, from, to, pinned, seen>>
progress == <<todo, active, done, row>>
history == <<taken, leaked, paidOutside, contested, raced>>
vars == <<dbVars, op, plan, progress, history>>

-----------------------------------------------------------------------------

(* transition_status consumes the stock when the order becomes paid.       *)
(* Mutant: when it starts being processed. *)
Consumes_Late(new) == new = "processing"

Consumes(new) == new = "paid"

ItemsOf(o) == {i \in Item : OrderOf[i] = o}

(* The units of variant v that the items of S ask for, and how many. *)
UnitsOf(S, v) ==
    {u \in Item \X (1..MaxQty) :
        u[1] \in S /\ VariantOf[u[1]] = v /\ u[2] <= Qty[u[1]]}
Amount(S, v) == Cardinality(UnitsOf(S, v))

(* Mutant: any reservation of the item counts, whatever its status. *)
LooksActive_Any(i) == reservation[i] # "none"

(* The filter status == "reserved" on the reservations of an item. *)
LooksActive(i) == reservation[i] = "reserved"

(* Items whose committed reservation row says "reserved". *)
Reserved == {i \in Item : reservation[i] = "reserved"}

(* Items whose units the reserved counters should be counting.             *)
Counted == Reserved \cup leaked

(* Mutant: only the reservations of pending orders. *)
Overdue_PendingOnly == {i \in expired \cap Reserved : status[OrderOf[i]] = "pending"}

(* InventoryReservationRepository.get_expired *)
Overdue == expired \cap Reserved

(***************************************************************************)
(* Row locks.  A session has locked a variant once one of its items there  *)
(* is done, and its order's row once `row` holds; both until it commits or *)
(* rolls back.                                                             *)
(***************************************************************************)
HoldsVariant(s, v) == \E i \in done[s] : VariantOf[i] = v
HoldsRow(s, o) == row[s] /\ ord[s] = o
VariantFree(s, v) == \A t \in Session \ {s} : ~HoldsVariant(t, v)
RowFree(s, o) == \A t \in Session \ {s} : ~HoldsRow(t, o)

NeedsRow(s) ==
    /\ op[s] \in {"cancel", "transition", "force", "report"}
    /\ ~row[s] /\ todo[s] = {} /\ active[s] = {}

(* The reservations of order o that t is about to change. *)
HoldsReservation(t, o) == \E i \in done[t] \cap Reserved : OrderOf[i] = o

(* s can be waiting for a lock that t holds. *)
WaitsFor(s, t) ==
    \/ \E i \in active[s] : HoldsVariant(t, VariantOf[i])
    \/ op[s] = "create" /\ \E i \in todo[s] : HoldsVariant(t, VariantOf[i])
    \/ NeedsRow(s) /\ HoldsRow(t, ord[s])
    \/ op[s] = "force" /\ row[s] /\ HoldsReservation(t, ord[s])

Deadlocked(s) ==
    \E C \in SUBSET Session :
        /\ s \in C
        /\ \A t \in C : \E u \in C \ {t} : WaitsFor(t, u)

-----------------------------------------------------------------------------

Init ==
    /\ inventory = Stock
    /\ reserved = [v \in Variant |-> 0]
    /\ reservation = [i \in Item |-> "none"]
    /\ expired = {}
    /\ status = [o \in Order |-> "absent"]
    /\ paidAt = {}
    /\ op = [s \in Session |-> "idle"]
    /\ ord = [s \in Session |-> "none"]
    /\ from = [s \in Session |-> "absent"]
    /\ to = [s \in Session |-> "absent"]
    /\ pinned = [s \in Session |-> "none"]
    /\ seen = [s \in Session |-> 0]
    /\ todo = [s \in Session |-> {}]
    /\ active = [s \in Session |-> {}]
    /\ done = [s \in Session |-> {}]
    /\ row = [s \in Session |-> FALSE]
    /\ taken = {}
    /\ leaked = {}
    /\ paidOutside = {}
    /\ contested = {}
    /\ raced = {}

(* The orders a session reads or writes, and the variants it orders.       *)
WorksOn(t, o) == ord[t] = o \/ \E i \in active[t] \cup done[t] : OrderOf[i] = o
Wants(t, v) == op[t] = "create" /\ \E i \in todo[t] \cup done[t] : VariantOf[i] = v

(* A session begins: to work on `orders`, or to order `variants`.          *)
Begin(s, orders, variants) ==
    /\ op[s] = "idle"
    /\ contested' = contested \cup
            {o \in orders : \E t \in Session : WorksOn(t, o)}
    /\ raced' = raced \cup {v \in variants : \E t \in Session : Wants(t, v)}
    /\ UNCHANGED <<taken, leaked, paidOutside>>

(* The session ends: its locks are released and its buffers forgotten. *)
End(s) ==
    /\ UNCHANGED <<contested, raced>>
    /\ op' = [op EXCEPT ![s] = "idle"]
    /\ ord' = [ord EXCEPT ![s] = "none"]
    /\ pinned' = [pinned EXCEPT ![s] = "none"]
    /\ from' = [from EXCEPT ![s] = "absent"]
    /\ to' = [to EXCEPT ![s] = "absent"]
    /\ seen' = [seen EXCEPT ![s] = 0]
    /\ todo' = [todo EXCEPT ![s] = {}]
    /\ active' = [active EXCEPT ![s] = {}]
    /\ done' = [done EXCEPT ![s] = {}]
    /\ row' = [row EXCEPT ![s] = FALSE]

Rollback(s) == End(s) /\ UNCHANGED <<dbVars, taken, leaked, paidOutside>>

(***************************************************************************)
(* create_order.  The variants are first read without a lock; the object   *)
(* of the last one stays referenced, so the identity map returns it, with  *)
(* the values of that first read, when the row is locked later.            *)
(***************************************************************************)
StartCreate(s, o) ==
    /\ Begin(s, {o}, {VariantOf[i] : i \in ItemsOf(o)})
    /\ status[o] = "absent"
    /\ \A t \in Session : ~(op[t] = "create" /\ ord[t] = o)
    /\ \E i \in ItemsOf(o) :
         /\ pinned' = [pinned EXCEPT ![s] = VariantOf[i]]
         /\ seen' = [seen EXCEPT ![s] =
                        inventory[VariantOf[i]] - reserved[VariantOf[i]]]
    /\ op' = [op EXCEPT ![s] = "create"]
    /\ ord' = [ord EXCEPT ![s] = o]
    /\ todo' = [todo EXCEPT ![s] = ItemsOf(o)]
    /\ UNCHANGED <<dbVars, from, to, active, done, row>>

(* Mutant: stock promised to others counts as available. *)
Available_Promised(s, v) == inventory[v] - Amount(done[s], v)

(* What reserve_inventory takes for the available stock of v. *)
Available(s, v) ==
    (IF v = pinned[s] THEN seen[s] ELSE inventory[v] - reserved[v])
        - Amount(done[s], v)

ReserveItem(s, i) ==
    /\ op[s] = "create"
    /\ i \in todo[s]
    /\ VariantFree(s, VariantOf[i])
    /\ Available(s, VariantOf[i]) >= Qty[i]
    /\ todo' = [todo EXCEPT ![s] = @ \ {i}]
    /\ done' = [done EXCEPT ![s] = @ \cup {i}]
    /\ UNCHANGED <<dbVars, op, plan, active, row, history>>

(* Insufficient stock: the items reserved so far are released and the      *)
(* session rolled back.                                                    *)
ReserveFails(s, i) ==
    /\ op[s] = "create"
    /\ i \in todo[s]
    /\ VariantFree(s, VariantOf[i])
    /\ Available(s, VariantOf[i]) < Qty[i]
    /\ Rollback(s)

CommitCreate(s) ==
    /\ op[s] = "create"
    /\ todo[s] = {}
    /\ status' = [status EXCEPT ![ord[s]] = "pending"]
    /\ reservation' = [i \in Item |->
            IF i \in done[s] THEN "reserved" ELSE reservation[i]]
    /\ reserved' = [v \in Variant |-> reserved[v] + Amount(done[s], v)]
    /\ End(s)
    /\ UNCHANGED <<inventory, expired, paidAt, history>>

(***************************************************************************)
(* release_inventory and consume_inventory: the reservation is read first, *)
(* without a lock (FindActive), then the variant row is locked and updated *)
(* (Apply).                                                                *)
(***************************************************************************)
FindActive(s, i) ==
    /\ op[s] = "cancel" \/ (op[s] = "transition" /\ row[s])
    /\ i \in todo[s]
    /\ active[s] = {}
    /\ todo' = [todo EXCEPT ![s] = @ \ {i}]
    /\ active' = [active EXCEPT ![s] =
                    IF LooksActive(i) THEN {i} ELSE {}]
    /\ UNCHANGED <<dbVars, op, plan, done, row, history>>

Apply(s, i) ==
    /\ i \in active[s]
    /\ VariantFree(s, VariantOf[i])
    /\ active' = [active EXCEPT ![s] = @ \ {i}]
    /\ done' = [done EXCEPT ![s] = @ \cup {i}]
    /\ UNCHANGED <<dbVars, op, plan, todo, row, history>>

(* Mutant: the counter is not given back. *)
Release_NoCounter(S) ==
    /\ reservation' = [i \in Item |->
            IF i \in S THEN "released" ELSE reservation[i]]
    /\ UNCHANGED <<reserved, inventory, taken>>

(* The committed effect of releasing, or consuming, the items of S.        *)
Release(S) ==
    /\ reservation' = [i \in Item |->
            IF i \in S THEN "released" ELSE reservation[i]]
    /\ reserved' = [v \in Variant |-> reserved[v] - Amount(S, v)]
    /\ UNCHANGED <<inventory, taken>>

Consume(S) ==
    /\ reservation' = [i \in Item |->
            IF i \in S THEN "consumed" ELSE reservation[i]]
    /\ reserved' = [v \in Variant |-> reserved[v] - Amount(S, v)]
    /\ inventory' = [v \in Variant |-> inventory[v] - Amount(S, v)]
    /\ taken' = taken \cup S

(***************************************************************************)
(* cancel_order: releases the items, then transition_status to cancelled,  *)
(* which validates the status read at the start.                           *)
(***************************************************************************)
StartCancel(s, o) ==
    /\ Begin(s, {o}, {})
    /\ status[o] \notin {"absent", "shipped", "delivered", "completed"}
    /\ op' = [op EXCEPT ![s] = "cancel"]
    /\ ord' = [ord EXCEPT ![s] = o]
    /\ from' = [from EXCEPT ![s] = status[o]]
    /\ to' = [to EXCEPT ![s] = "cancelled"]
    /\ todo' = [todo EXCEPT ![s] = ItemsOf(o)]
    /\ UNCHANGED <<dbVars, pinned, seen, active, done, row>>

(* Mutant: the refusal leaves the transaction open. *)
RejectCancel_Hangs(s) == FALSE

RejectCancel(s) ==
    /\ op[s] = "cancel"
    /\ todo[s] = {} /\ active[s] = {}
    /\ ~CanTransition(from[s], to[s])
    /\ Rollback(s)

(***************************************************************************)
(* transition_status, from the PATCH handler and the confirm, mark-paid,   *)
(* mark-shipped, mark-delivered and complete handlers: the order is read   *)
(* without a lock and its status validated once; a refused transition      *)
(* changes nothing.                                                        *)
(***************************************************************************)
StartTransition(s, o, new) ==
    /\ Begin(s, {o}, {})
    /\ status[o] # "absent"
    /\ CanTransition(status[o], new)
    /\ op' = [op EXCEPT ![s] = "transition"]
    /\ ord' = [ord EXCEPT ![s] = o]
    /\ from' = [from EXCEPT ![s] = status[o]]
    /\ to' = [to EXCEPT ![s] = new]
    /\ UNCHANGED <<dbVars, pinned, seen, progress>>

(* UPDATE orders SET status: unconditional, and it locks the row. Only     *)
(* then are the items of a paid order looked up.                           *)
UpdateOrder(s) ==
    /\ NeedsRow(s)
    /\ op[s] \in {"cancel", "transition"} => CanTransition(from[s], to[s])
    /\ RowFree(s, ord[s])
    /\ row' = [row EXCEPT ![s] = TRUE]
    /\ todo' = [todo EXCEPT ![s] =
                    IF op[s] = "transition" /\ Consumes(to[s])
                    THEN ItemsOf(ord[s]) ELSE {}]
    /\ UNCHANGED <<dbVars, op, plan, active, done, history>>

CommitStatus(s) ==
    /\ op[s] \in {"cancel", "transition"}
    /\ row[s] /\ todo[s] = {} /\ active[s] = {}
    /\ status' = [status EXCEPT ![ord[s]] = to[s]]
    /\ paidAt' = IF to[s] = "paid" THEN paidAt \cup {ord[s]} ELSE paidAt
    /\ IF op[s] = "cancel" THEN Release(done[s]) ELSE Consume(done[s])
    /\ End(s)
    /\ UNCHANGED <<expired, leaked, paidOutside>>

(***************************************************************************)
(* cleanup_expired_reservations: one unlocked query for the expired        *)
(* reservations, whose objects stay in the session, so every later look at *)
(* them still says "reserved"; one commit at the end.                      *)
(***************************************************************************)
Expire(i) ==
    /\ reservation[i] = "reserved"
    /\ i \notin expired
    /\ expired' = expired \cup {i}
    /\ UNCHANGED <<inventory, reserved, reservation, status, paidAt,
                   op, plan, progress, history>>

StartCleanup(s) ==
    /\ Begin(s, {OrderOf[i] : i \in Overdue}, {})
    /\ Overdue # {}
    /\ op' = [op EXCEPT ![s] = "cleanup"]
    /\ active' = [active EXCEPT ![s] = Overdue]
    /\ UNCHANGED <<dbVars, plan, todo, done, row>>

CommitCleanup(s) ==
    /\ op[s] = "cleanup"
    /\ active[s] = {}
    /\ Release(done[s])
    /\ End(s)
    /\ UNCHANGED <<expired, status, paidAt, leaked, paidOutside>>

(***************************************************************************)
(* pay_order_from_wallet, as far as the order goes: the row is locked when *)
(* it is read, and the reservation is left alone.                          *)
(***************************************************************************)
StartWallet(s, o) ==
    /\ Begin(s, {o}, {})
    /\ RowFree(s, o)
    /\ status[o] \in {"pending", "confirmed"}
    /\ o \notin paidAt
    /\ ItemsOf(o) # {}
    /\ op' = [op EXCEPT ![s] = "wallet"]
    /\ ord' = [ord EXCEPT ![s] = o]
    /\ row' = [row EXCEPT ![s] = TRUE]
    /\ UNCHANGED <<dbVars, from, to, pinned, seen, todo, active, done>>

WalletRefused(s) ==
    /\ op[s] = "wallet"
    /\ Rollback(s)

CommitWallet(s) ==
    /\ op[s] = "wallet"
    /\ status' = [status EXCEPT ![ord[s]] = "paid"]
    /\ paidAt' = paidAt \cup {ord[s]}
    /\ paidOutside' = paidOutside \cup {ord[s]}
    /\ End(s)
    /\ UNCHANGED <<inventory, reserved, reservation, expired, taken, leaked>>

(***************************************************************************)
(* force_cancel_order, for administrators: the status is checked on an     *)
(* unlocked read, and one UPDATE of the reservation rows marks them        *)
(* released; it leaves the counters of the variants as they are.           *)
(***************************************************************************)
StartForce(s, o) ==
    /\ Begin(s, {o}, {})
    /\ status[o] \notin {"absent", "completed", "refunded"}
    /\ op' = [op EXCEPT ![s] = "force"]
    /\ ord' = [ord EXCEPT ![s] = o]
    /\ from' = [from EXCEPT ![s] = status[o]]
    /\ to' = [to EXCEPT ![s] = "cancelled"]
    /\ UNCHANGED <<dbVars, pinned, seen, progress>>

CommitForce(s) ==
    /\ op[s] = "force"
    /\ row[s]
    /\ \A t \in Session \ {s} : ~HoldsReservation(t, ord[s])
    /\ status' = [status EXCEPT ![ord[s]] = "cancelled"]
    /\ reservation' = [i \in Item |->
            IF i \in ItemsOf(ord[s]) \cap Reserved THEN "released"
            ELSE reservation[i]]
    /\ leaked' = leaked \cup (ItemsOf(ord[s]) \cap Reserved)
    /\ End(s)
    /\ UNCHANGED <<inventory, reserved, expired, paidAt, taken, paidOutside>>

(***************************************************************************)
(* The platform moves an order that exists here: the poll (each order of a *)
(* page) and the order and payment webhooks set the status they are told,  *)
(* past the transition table and whatever the reservations are.  An equal  *)
(* status is no UPDATE.  Only the payment webhook says "paid".             *)
(***************************************************************************)
StartReport(s, o, st) ==
    /\ Begin(s, {o}, {})
    /\ status[o] \notin {"absent", st}
    /\ op' = [op EXCEPT ![s] = "report"]
    /\ ord' = [ord EXCEPT ![s] = o]
    /\ to' = [to EXCEPT ![s] = st]
    /\ UNCHANGED <<dbVars, from, pinned, seen, progress>>

CommitReport(s) ==
    /\ op[s] = "report"
    /\ row[s]
    /\ status' = [status EXCEPT ![ord[s]] = to[s]]
    /\ IF to[s] = "paid"
       THEN /\ paidAt' = paidAt \cup {ord[s]}
            /\ paidOutside' = paidOutside \cup {ord[s]}
       ELSE UNCHANGED <<paidAt, paidOutside>>
    /\ End(s)
    /\ UNCHANGED <<inventory, reserved, reservation, expired, taken, leaked>>

(***************************************************************************)
(* The process dies or loses its connection before the commit; and         *)
(* PostgreSQL picks a victim among sessions that wait for one another.     *)
(***************************************************************************)
Crash(s) ==
    /\ op[s] # "idle" /\ op[s] \in Mortal
    /\ Rollback(s)

DeadlockAbort(s) ==
    /\ op[s] # "idle"
    /\ Deadlocked(s)
    /\ Rollback(s)

-----------------------------------------------------------------------------

Start(s) ==
    \/ \E o \in Order :
        \/ "create" \in Ops /\ StartCreate(s, o)
        \/ "cancel" \in Ops /\ StartCancel(s, o)
        \/ "wallet" \in Ops /\ StartWallet(s, o)
        \/ "force" \in Ops /\ StartForce(s, o)
        \/ \E new \in Target :
              "transition" \in Ops /\ StartTransition(s, o, new)
        \/ \E st \in Reported : "report" \in Ops /\ StartReport(s, o, st)
    \/ "cleanup" \in Ops /\ StartCleanup(s)

Step(s) ==
    \/ \E i \in Item :
        \/ ReserveItem(s, i)
        \/ ReserveFails(s, i)
        \/ FindActive(s, i)
        \/ Apply(s, i)
    \/ CommitCreate(s)
    \/ RejectCancel(s)
    \/ UpdateOrder(s)
    \/ CommitStatus(s)
    \/ CommitCleanup(s)
    \/ WalletRefused(s)
    \/ CommitWallet(s)
    \/ CommitForce(s)
    \/ CommitReport(s)
    \/ DeadlockAbort(s)

Next ==
    \/ \E s \in Session : Start(s) \/ Step(s) \/ Crash(s)
    \/ \E i \in Item : Expire(i)

Spec == Init /\ [][Next]_vars

-----------------------------------------------------------------------------
(* Properties *)

TypeOK ==
    /\ inventory \in [Variant -> Int]
    /\ reserved \in [Variant -> Int]
    /\ reservation \in [Item -> {"none", "reserved", "released", "consumed"}]
    /\ expired \subseteq Item
    /\ status \in [Order -> OrderStatus \cup {"absent"}]
    /\ paidAt \subseteq Order
    /\ op \in [Session -> Op \cup {"idle"}]
    /\ ord \in [Session -> Order \cup {"none"}]
    /\ from \in [Session -> OrderStatus \cup {"absent"}]
    /\ to \in [Session -> OrderStatus \cup {"absent"}]
    /\ pinned \in [Session -> Variant \cup {"none"}]
    /\ seen \in [Session -> Int]
    /\ todo \in [Session -> SUBSET Item]
    /\ active \in [Session -> SUBSET Item]
    /\ done \in [Session -> SUBSET Item]
    /\ row \in [Session -> BOOLEAN]
    /\ taken \subseteq Item
    /\ leaked \subseteq Item
    /\ paidOutside \subseteq Order
    /\ contested \subseteq Order
    /\ raced \subseteq Variant

(***************************************************************************)
(* Stock is never locked away: whatever the interleaving, crash or         *)
(* deadlock, the reserved counter never exceeds what live reservations and *)
(* forced cancellations account for, so no lost reservation keeps units    *)
(* from being sold.                                                        *)
(***************************************************************************)
NoReservationLeak == \A v \in Variant : reserved[v] <= Amount(Counted, v)

(***************************************************************************)
(* Each item's units leave the inventory at most once, however many        *)
(* mark-paid requests, cancellations and cleanups overlap: transition_status *)
(* locks the order row before consume_inventory reads the reservations.    *)
(***************************************************************************)
StockConservation ==
    \A v \in Variant : inventory[v] = Stock[v] - Amount(taken, v)

(***************************************************************************)
(* An order marked paid has no reservation left for the cleanup to give    *)
(* back, whatever the platform reports of it meanwhile.  Only true of      *)
(* orders paid through transition_status: neither pay_order_from_wallet    *)
(* nor the payment webhook consumes anything.                              *)
(***************************************************************************)
PaidIsSettled ==
    \A i \in Item :
        OrderOf[i] \in paidAt \ paidOutside => reservation[i] # "reserved"

(***************************************************************************)
(* The reserved counter of a variant is exactly what its live reservations *)
(* ask for and what forced cancellations have left in it, whatever else    *)
(* happens, fails or dies: as long as no two sessions have worked at once  *)
(* on one of the orders that ask for the variant.                          *)
(***************************************************************************)
Quiet(v) == \A i \in Item : VariantOf[i] = v => OrderOf[i] \notin contested

ReservedExact ==
    \A v \in Variant : Quiet(v) => reserved[v] = Amount(Counted, v)

(* No more units are promised than there are: what reserve_inventory is    *)
(* documented to ensure, and ...                                           *)
NoOversell == \A v \in Variant : reserved[v] <= inventory[v]

(* ... what it does ensure, of every variant that no two create_orders     *)
(* have wanted at once, whatever the other sessions do.                    *)
PromisesKept == \A v \in Variant \ raced : reserved[v] <= inventory[v]

(* A reservation that was released or consumed never changes again, as     *)
(* long as no two sessions work on its order at once.                      *)
SettledStays ==
    [][\A i \in Item :
         /\ OrderOf[i] \notin contested
         /\ reservation[i] \in {"released", "consumed"}
         => reservation'[i] = reservation[i]]_vars

(***************************************************************************)
(* The lifecycle is the platform's to break and nobody else's.  Once       *)
(* created, an order changes status only along VALID_TRANSITIONS, from     *)
(* pending to paid when pay_order_from_wallet pays it, to cancelled when   *)
(* an administrator forces it before it is completed or refunded, or to    *)
(* the very status that a poll or a webhook has been told: as long as no   *)
(* two sessions work on it at once, since the status is read unlocked and  *)
(* written unconditionally.                                                *)
(***************************************************************************)
ForcedToCancel(o) ==
    /\ status[o] \notin {"completed", "refunded"}
    /\ status'[o] = "cancelled"
    /\ \E s \in Session : op[s] = "force" /\ ord[s] = o

ToldByPlatform(o) ==
    \E s \in Session : op[s] = "report" /\ ord[s] = o /\ to[s] = status'[o]

FollowsLifecycle ==
    [][\A o \in Order \ contested : status[o] \notin {"absent", status'[o]}
            => \/ status'[o] \in ValidNext[status[o]]
               \/ status[o] = "pending" /\ status'[o] = "paid"
               \/ ForcedToCancel(o)
               \/ ToldByPlatform(o)]_vars

(***************************************************************************)
(* The sessions together keep a ledger of stock, as if each commit were    *)
(* the only one at work: a new order is promised all it asks for, a paid   *)
(* one is sold all it holds, each item is settled once and counted right,  *)
(* but where two sessions have worked on one order, or two create_orders   *)
(* have wanted one variant, at once.                                       *)
(***************************************************************************)
Ledger == INSTANCE StockLedger

KeepsLedger == Ledger!Spec

(* The units reserved for a paid order are not given back to sale.         *)
PaidKeepsItsStock ==
    [][\A i \in Item : status[OrderOf[i]] = "paid" /\ reservation[i] = "reserved"
            => reservation'[i] # "released"]_vars

(***************************************************************************)
(* Liveness.  Every session that has a statement to run eventually runs    *)
(* it; PostgreSQL queues lock requests in order, hence strong fairness of  *)
(* the steps that wait for a lock; deadlocks are detected; and celery beat *)
(* starts the cleanup again and again.                                     *)
(***************************************************************************)
Fairness ==
    /\ \A s \in Session : SF_vars(Step(s))
    /\ SF_vars(\E s \in Session : StartCleanup(s))

FairSpec == Spec /\ Fairness

(* Every request or task ends: it commits, is refused or is rolled back.   *)
RequestsEnd == \A s \in Session : (op[s] # "idle") ~> (op[s] = "idle")

(***************************************************************************)
(* Stock held by a reservation that has expired is eventually given back   *)
(* or sold, also when the order was cancelled by PATCH, which releases     *)
(* nothing.  Where the items of an order share one variant: with several,  *)
(* the cleanup can be the victim of a deadlock each time it is started.    *)
(***************************************************************************)
ExpiredIsFreed ==
    \A i \in Item :
        (i \in expired /\ reservation[i] = "reserved")
            ~> (reservation[i] # "reserved")
=============================================================================
