---------------------------- MODULE StockWriters ----------------------------
(***************************************************************************)
(* The writers of one row of supplier_variants, and of its log: the        *)
(* orders, which lock the row and change its counters by an amount, and    *)
(* the manual adjustments, overrides, forced updates and inventory         *)
(* webhooks, which write an absolute inventory.                            *)
(*                                                                         *)
(* They all decide on what they have read without a lock, and that reading *)
(* is a step of its own.  What a session writes is one step, its commit:   *)
(* between the lock and the commit nobody else writes the row, and others  *)
(* read what it was.  No operation here touches the row of another         *)
(* variant.                                                                *)
(***************************************************************************)
EXTENDS Integers

CONSTANTS
    Writer,      \* sessions of the absolute writers
    Clerk,       \* sessions of the orders
    Item,        \* order items that ask for the variant
    NoItem,      \* what a session has when it has no item
    Qty,         \* the quantity of an item
    Stock,       \* inventory before the first operation
    Level,       \* inventories that absolute requests ask for
    Delta,       \* changes that adjustments ask for
    MaxRequests  \* requests of absolute writers (bound of the run)

ASSUME StockAssumption ==
    /\ NoItem \notin Item
    /\ Qty \in [Item -> Nat \ {0}]
    /\ Stock \in Nat /\ Level \subseteq Int /\ Delta \subseteq Int
    /\ MaxRequests \in Nat

Kind == {"override", "adjust", "force", "webhook"}

(* The writers that leave a row in inventory_logs. *)
Logged == {"override", "adjust"}

VARIABLES
    (* the row, and the reservations that count on it *)
    inventory, reserved,
    reservation,  \* inventory_reservations.status of each item
    (* the sessions of the orders *)
    task,         \* what a session does to its item, or "idle"
    item,
    seen,         \* the available inventory it has read
    (* the sessions of the absolute writers *)
    kind,         \* the request a session runs, or "idle"
    old,          \* the inventory it has read
    amount,       \* the inventory, or the change, it was asked for
    (* history and bounds *)
    due,          \* what the inventory would be, had requests not overlapped
    sold,         \* the units sold so far
    noted,        \* the opening stock and the change of every log row
    undone,       \* a write has undone another one's (see LedgerHolds)
    drifted,      \* the log has lost track (see AuditTells)
    requests

stock == <<inventory, reserved, reservation>>
desk == <<task, item, seen>>
plan == <<kind, old, amount>>
history == <<due, sold, noted, undone, drifted>>
vars == <<stock, desk, plan, history, requests>>

Task == {"reserve", "release", "consume"}

Flags == undone \in BOOLEAN /\ drifted \in BOOLEAN

Types ==
    /\ inventory \in Int /\ reserved \in Int
    /\ reservation \in [Item -> {"none", "reserved", "released", "consumed"}]
    /\ task \in [Clerk -> Task \cup {"idle"}]
    /\ item \in [Clerk -> Item \cup {NoItem}] /\ seen \in [Clerk -> Int]
    /\ kind \in [Writer -> Kind \cup {"idle"}]
    /\ old \in [Writer -> Int] /\ amount \in [Writer -> Int]
    /\ due \in Int /\ sold \in Nat /\ noted \in Int
    /\ requests \in 0..MaxRequests

TypeOK == Types /\ Flags

Init ==
    /\ inventory = Stock /\ reserved = 0
    /\ reservation = [i \in Item |-> "none"]
    /\ task = [c \in Clerk |-> "idle"]
    /\ item = [c \in Clerk |-> NoItem] /\ seen = [c \in Clerk |-> 0]
    /\ kind = [s \in Writer |-> "idle"]
    /\ old = [s \in Writer |-> 0] /\ amount = [s \in Writer |-> 0]
    /\ due = Stock /\ sold = 0 /\ noted = Stock
    /\ undone = FALSE /\ drifted = FALSE
    /\ requests = 0

-----------------------------------------------------------------------------
(***************************************************************************)
(* The orders.  What a session has found out before it locks the row may   *)
(* no longer be so when it has the lock; OrderInventory has the orders     *)
(* themselves.                                                             *)
(***************************************************************************)

(* Some session is about to do k to the item. *)
InHand(i, k) == \E c \in Clerk : task[c] = k /\ item[c] = i

(* A session reads the row without a lock. *)
TakeUp(c, i, k) ==
    /\ task[c] = "idle"
    /\ task' = [task EXCEPT ![c] = k]
    /\ item' = [item EXCEPT ![c] = i]
    /\ seen' = [seen EXCEPT ![c] = inventory - reserved]
    /\ UNCHANGED <<stock, plan, history, requests>>

(* create_order loads the variant; the item is its own.                    *)
Load(c, i) ==
    /\ reservation[i] = "none" /\ ~InHand(i, "reserve")
    /\ TakeUp(c, i, "reserve")

(* Two releases find one reservation active, or a release and a sale; two  *)
(* sales do not, since mark-paid has the lock of the order.                *)
FindActive(c, i, k) ==
    /\ k \in {"release", "consume"}
    /\ reservation[i] = "reserved"
    /\ k = "consume" => ~InHand(i, k)
    /\ TakeUp(c, i, k)

(* The session of an order ends. *)
Leaves(c) ==
    /\ task' = [task EXCEPT ![c] = "idle"]
    /\ item' = [item EXCEPT ![c] = NoItem]
    /\ seen' = [seen EXCEPT ![c] = 0]
    /\ UNCHANGED <<plan, undone, drifted, requests>>

(* The item gets its new status. *)
Settles(c, k, mark) ==
    /\ task[c] = k
    /\ reservation' = [reservation EXCEPT ![item[c]] = mark]
    /\ Leaves(c)

(* available_inventory covers the item: of the object loaded before, if    *)
(* the identity map still has it, and of the row otherwise.                *)
Suffices(c) ==
    \E available \in {seen[c], inventory - reserved} : available >= Qty[item[c]]

(* Each of the three writes a log row.                                     *)
Reserve(c) ==
    /\ Settles(c, "reserve", "reserved")
    /\ Suffices(c)
    /\ reserved' = reserved + Qty[item[c]]
    /\ noted' = noted - Qty[item[c]]
    /\ UNCHANGED <<inventory, due, sold>>

Release(c) ==
    /\ Settles(c, "release", "released")
    /\ reserved' = reserved - Qty[item[c]]
    /\ noted' = noted + Qty[item[c]]
    /\ UNCHANGED <<inventory, due, sold>>

(* Mutant: a sale leaves the reserved counter. *)
Consume_OneCounter(c) ==
    /\ Settles(c, "consume", "consumed")
    /\ inventory' = inventory - Qty[item[c]]
    /\ due' = due - Qty[item[c]]
    /\ sold' = sold + Qty[item[c]]
    /\ noted' = noted - Qty[item[c]]
    /\ UNCHANGED reserved

Consume(c) ==
    /\ Settles(c, "consume", "consumed")
    /\ inventory' = inventory - Qty[item[c]]
    /\ reserved' = reserved - Qty[item[c]]
    /\ due' = due - Qty[item[c]]
    /\ sold' = sold + Qty[item[c]]
    /\ noted' = noted - Qty[item[c]]

(* force_cancel_order leaves the counter, and no log row.                  *)
ForceCancel(i) ==
    /\ reservation[i] = "reserved"
    /\ reservation' = [reservation EXCEPT ![i] = "released"]
    /\ UNCHANGED <<inventory, reserved, desk, plan, history, requests>>

(* Too little is available, something else fails, or the process dies.     *)
GiveUp(c) ==
    /\ task[c] # "idle"
    /\ Leaves(c)
    /\ UNCHANGED <<stock, due, sold, noted>>

-----------------------------------------------------------------------------
(***************************************************************************)
(* The absolute writers.                                                   *)
(***************************************************************************)

Begin(s, k, n) ==
    /\ kind[s] = "idle"
    /\ requests < MaxRequests
    /\ kind' = [kind EXCEPT ![s] = k]
    /\ old' = [old EXCEPT ![s] = inventory]
    /\ amount' = [amount EXCEPT ![s] = n]
    /\ requests' = requests + 1
    /\ UNCHANGED <<stock, desk, history>>

Override(s, n) == Begin(s, "override", n)
ForceUpdate(s, n) == n >= 0 /\ Begin(s, "force", n)
Webhook(s, n) == Begin(s, "webhook", n)

(* One that would leave less than nothing is refused. *)
Adjust(s, d) == inventory + d >= 0 /\ Begin(s, "adjust", d)

(* Mutant: an adjustment is taken for an absolute value. *)
New_Absolute(s) == amount[s]

(* The inventory the request assigns. *)
New(s) == IF kind[s] = "adjust" THEN old[s] + amount[s] ELSE amount[s]

(* Its UPDATE is sent only for a value that differs from the one it has    *)
(* read, and overwrites whatever is there by then.                         *)
Sends(s) == New(s) # old[s]

(* What was due, and what was asked for now. *)
Asked(s) == IF kind[s] = "adjust" THEN due + amount[s] ELSE amount[s]

(* inventory_logs.change *)
Change(s) == IF kind[s] = "adjust" THEN amount[s] ELSE New(s) - old[s]

(* The inventory is not the one the session has read. *)
Stale(s) == inventory # old[s]

(* An adjustment of a stale inventory undoes what came between; an         *)
(* absolute request is written whatever came between, unless the value it  *)
(* had read was the one it asks for: then it is dropped.                   *)
Undoes(s) ==
    IF kind[s] = "adjust" THEN undone \/ (Sends(s) /\ Stale(s))
    ELSE Stale(s) /\ ~Sends(s)

Done(s) ==
    /\ kind' = [kind EXCEPT ![s] = "idle"]
    /\ old' = [old EXCEPT ![s] = 0] /\ amount' = [amount EXCEPT ![s] = 0]
    /\ UNCHANGED requests

Store(s) ==
    /\ kind[s] # "idle"
    /\ inventory' = IF Sends(s) THEN New(s) ELSE inventory
    /\ due' = Asked(s)
    /\ noted' = IF kind[s] \in Logged THEN noted + Change(s) ELSE noted
    /\ undone' = Undoes(s)
    /\ drifted' = (drifted \/ (Sends(s) /\ (Stale(s) \/ kind[s] \notin Logged)))
    /\ Done(s)
    /\ UNCHANGED <<reserved, reservation, desk, sold>>

(* An exception rolls the transaction back; the webhook swallows it. *)
Fail(s) == kind[s] # "idle" /\ Done(s) /\ UNCHANGED <<stock, desk, history>>

-----------------------------------------------------------------------------

Orders ==
    \/ \E c \in Clerk :
          \/ \E i \in Item : Load(c, i) \/ \E k \in Task : FindActive(c, i, k)
          \/ Reserve(c) \/ Release(c) \/ Consume(c) \/ GiveUp(c)
    \/ \E i \in Item : ForceCancel(i)

Requests ==
    \E s \in Writer :
        \/ \E n \in Level : Override(s, n) \/ ForceUpdate(s, n) \/ Webhook(s, n)
        \/ \E d \in Delta : Adjust(s, d)
        \/ Store(s)
        \/ Fail(s)

Next == Orders \/ Requests

Spec == Init /\ [][Next]_vars

-----------------------------------------------------------------------------
(* Properties *)

(* The inventory is what the requests asked for: the last absolute value,  *)
(* and every adjustment and sale since.  It is not (`undone`) once an      *)
(* adjustment overwrites an inventory other than the one it has read, or   *)
(* an absolute request is dropped because it asks for the value it has     *)
(* read, until the next absolute value is written.                         *)
LedgerHolds == ~undone => inventory = due

(***************************************************************************)
(* What the log ("Audit trail for all inventory changes") adds up to.      *)
(* Reservations are logged as changes of what is available, and sales as   *)
(* changes of the inventory: so the opening stock and all rows together    *)
(* are the available inventory less the units sold, each of which is there *)
(* twice.  That is so however the orders overlap, settle an item twice,    *)
(* are cancelled by force or find too much available, since each writes    *)
(* its row by the amount by which it moves the counters.  It is not so any *)
(* more (`drifted`) once a forced update or a webhook has changed the      *)
(* inventory, which write no row, or a writer has overwritten one that it  *)
(* had not read.                                                           *)
(***************************************************************************)
AuditTells == ~drifted => noted = inventory - reserved - sold
=============================================================================
