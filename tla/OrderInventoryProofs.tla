------------------------ MODULE OrderInventoryProofs ------------------------
(***************************************************************************)
(* What OrderInventory guarantees for any number of sessions, orders,      *)
(* items and variants: type correctness, and the two accounting invariants *)
(* that survive every interleaving.                                        *)
(***************************************************************************)
EXTENDS OrderInventory, FiniteSetTheorems, TLAPS

(***************************************************************************)
(* What each kind of session may be holding.                               *)
(***************************************************************************)
IdleHoldsNothing ==
    \A s \in Session : op[s] = "idle" =>
        done[s] = {} /\ active[s] = {} /\ todo[s] = {} /\ ~row[s] /\ ord[s] = "none"

(* A session creating an order works on an order nobody else can see.      *)
CreatesFreshOrder ==
    \A s \in Session : op[s] = "create" =>
        /\ ord[s] \in Order
        /\ status[ord[s]] = "absent"
        /\ todo[s] \cup done[s] \subseteq ItemsOf(ord[s])
        /\ active[s] = {} /\ ~row[s]
        /\ \A t \in Session : op[t] = "create" /\ ord[t] = ord[s] => t = s

(* Before its order is committed, an item has no reservation.              *)
AbsentHasNone ==
    \A i \in Item : status[OrderOf[i]] = "absent" =>
        reservation[i] = "none" /\ OrderOf[i] \notin paidAt

(* A session on an existing order works on that order's items.             *)
WorksOnItsOrder ==
    \A s \in Session : op[s] \in {"cancel", "transition", "wallet", "force", "report"} =>
        /\ ord[s] \in Order
        /\ status[ord[s]] # "absent"
        /\ todo[s] \cup active[s] \cup done[s] \subseteq ItemsOf(ord[s])
        /\ op[s] \in {"wallet", "force", "report"} =>
              todo[s] = {} /\ active[s] = {} /\ done[s] = {}
        /\ op[s] = "transition" /\ ~row[s] =>
              todo[s] = {} /\ active[s] = {} /\ done[s] = {}
        /\ op[s] \in {"cancel", "transition", "report"} => to[s] \in OrderStatus
        /\ op[s] = "transition" => CanTransition(from[s], to[s])
        /\ op[s] = "force" => to[s] = "cancelled"

(* A cleanup holds no order, and only items that are, or were, reserved.   *)
CleansReserved ==
    \A s \in Session : op[s] = "cleanup" =>
        /\ ~row[s] /\ todo[s] = {} /\ ord[s] = "none"
        /\ \A i \in active[s] \cup done[s] : status[OrderOf[i]] # "absent"

RowMutex ==
    \A s, t \in Session : row[s] /\ row[t] /\ ord[s] = ord[t] => s = t

(* What has been taken from the inventory, or leaked, is never reserved    *)
(* again, and no session that is about to consume holds an item taken      *)
(* already.                                                                *)
TakenIsSettled ==
    \A i \in taken \cup leaked : reservation[i] \in {"released", "consumed"}

ConsumesOnce ==
    \A s \in Session : op[s] = "transition" =>
        (active[s] \cup done[s]) \cap taken = {}

Structure ==
    /\ IdleHoldsNothing
    /\ CreatesFreshOrder
    /\ AbsentHasNone
    /\ WorksOnItsOrder
    /\ CleansReserved
    /\ RowMutex
    /\ TakenIsSettled
    /\ ConsumesOnce

-----------------------------------------------------------------------------
(* Amounts of stock *)

LEMMA UnitsFinite ==
    ASSUME NEW S, NEW v
    PROVE  IsFiniteSet(UnitsOf(S, v)) /\ Amount(S, v) \in Nat
<1>1. IsFiniteSet(1..MaxQty)
  BY FS_Interval, ItemAssumption
<1>2. IsFiniteSet(Item \X (1..MaxQty))
  BY <1>1, FS_Product, ItemAssumption
<1>3. UnitsOf(S, v) \subseteq Item \X (1..MaxQty)
  BY DEF UnitsOf
<1>4. QED
  BY <1>2, <1>3, FS_Subset, FS_CardinalityType DEF Amount

(* Disjoint sets of items ask for disjoint sets of units.                  *)
LEMMA AmountUnion ==
    ASSUME NEW S, NEW T, NEW v, S \cap T = {}
    PROVE  Amount(S \cup T, v) = Amount(S, v) + Amount(T, v)
<1>1. UnitsOf(S \cup T, v) = UnitsOf(S, v) \cup UnitsOf(T, v)
  BY DEF UnitsOf
<1>2. UnitsOf(S, v) \cap UnitsOf(T, v) = {}
  BY DEF UnitsOf
<1>3. Amount(S \cup T, v) = Amount(S, v) + Amount(T, v)
            - Cardinality(UnitsOf(S, v) \cap UnitsOf(T, v))
  BY <1>1, UnitsFinite, FS_Union DEF Amount
<1>4. Cardinality(UnitsOf(S, v) \cap UnitsOf(T, v)) = 0
  BY <1>2, FS_EmptySet
<1>5. Amount(S, v) \in Nat /\ Amount(T, v) \in Nat
  BY UnitsFinite
<1>6. QED
  BY <1>3, <1>4, <1>5

(* Taking the items of D away frees at most what they ask for.             *)
LEMMA AmountDifference ==
    ASSUME NEW S, NEW D, NEW v
    PROVE  Amount(S, v) - Amount(D, v) <= Amount(S \ D, v)
<1>1. (S \ D) \cap (D \cap S) = {}
  OBVIOUS
<1>2. S = (S \ D) \cup (D \cap S)
  OBVIOUS
<1>3. Amount(S, v) = Amount(S \ D, v) + Amount(D \cap S, v)
  BY <1>1, <1>2, AmountUnion
<1>4. UnitsOf(D \cap S, v) \subseteq UnitsOf(D, v)
  BY DEF UnitsOf
<1>5. Amount(D \cap S, v) <= Amount(D, v)
  BY <1>4, UnitsFinite, FS_Subset DEF Amount
<1>6. QED
  BY <1>3, <1>5, UnitsFinite

(* More items ask for no fewer units.                                      *)
LEMMA AmountMonotone ==
    ASSUME NEW S, NEW T, NEW v, S \subseteq T
    PROVE  Amount(S, v) <= Amount(T, v)
<1>1. UnitsOf(S, v) \subseteq UnitsOf(T, v)
  BY DEF UnitsOf
<1>. QED BY <1>1, UnitsFinite, FS_Subset DEF Amount

LEMMA NothingHasNoUnits ==
    ASSUME NEW v
    PROVE  Amount({}, v) = 0
<1>1. UnitsOf({}, v) = {}
  BY DEF UnitsOf
<1>. QED BY <1>1, FS_EmptySet DEF Amount

(* One item asks for as many units of its variant as its quantity says.    *)
LEMMA UnitsOfOne ==
    ASSUME NEW i \in Item
    PROVE  Amount({i}, VariantOf[i]) = Qty[i] /\ Qty[i] \in Nat
<1>1. Qty[i] \in Nat /\ Qty[i] > 0 /\ Qty[i] <= MaxQty
  BY ItemAssumption
<1>2. UnitsOf({i}, VariantOf[i]) = {i} \X (1..Qty[i])
  <2>1. \A n \in 1..Qty[i] : n \in 1..MaxQty
    BY <1>1, ItemAssumption
  <2>2. \A n \in 1..MaxQty : n <= Qty[i] <=> n \in 1..Qty[i]
    BY <1>1, ItemAssumption
  <2>. QED BY <2>1, <2>2 DEF UnitsOf
<1>3. IsFiniteSet(1..Qty[i]) /\ Cardinality(1..Qty[i]) = Qty[i]
  <2>1. \A n \in Nat \ {0} :
            /\ IsFiniteSet(1..n)
            /\ Cardinality(1..n) = IF 1 > n THEN 0 ELSE n - 1 + 1
    BY FS_Interval
  <2>2. \A n \in Nat \ {0} : (IF 1 > n THEN 0 ELSE n - 1 + 1) = n
    OBVIOUS
  <2>. QED BY <1>1, <2>1, <2>2
<1>4. IsFiniteSet({i}) /\ Cardinality({i}) = 1
  BY FS_Singleton
<1>5. Cardinality({i} \X (1..Qty[i])) = 1 * Qty[i]
  BY <1>3, <1>4, FS_Product
<1>6. Cardinality({i} \X (1..Qty[i])) = Qty[i]
  BY <1>1, <1>5
<1>7. Amount({i}, VariantOf[i]) = Qty[i]
  BY <1>2, <1>6, Zenon DEF Amount
<1>. QED BY <1>1, <1>7

(* A promise made for one more item asks for at most its quantity more, of *)
(* its own variant only.                                                   *)
LEMMA AmountAdd ==
    ASSUME NEW S, NEW i \in Item, NEW v
    PROVE  /\ v = VariantOf[i] => Amount(S \cup {i}, v) <= Amount(S, v) + Qty[i]
           /\ v # VariantOf[i] => Amount(S \cup {i}, v) = Amount(S, v)
<1>1. ASSUME v # VariantOf[i]
      PROVE  Amount(S \cup {i}, v) = Amount(S, v)
  <2>1. UnitsOf(S \cup {i}, v) = UnitsOf(S, v)
    BY <1>1 DEF UnitsOf
  <2>. QED BY <2>1 DEF Amount
<1>2. CASE i \in S
  <2>1. S \cup {i} = S
    BY <1>2
  <2>2. Amount(S, v) \in Nat /\ Qty[i] \in Nat
    BY UnitsFinite, UnitsOfOne
  <2>3. Amount(S, v) <= Amount(S, v) + Qty[i]
    BY <2>2
  <2>. QED BY <1>1, <2>1, <2>3, Zenon
<1>3. CASE i \notin S
  <2>1. Amount(S \cup {i}, v) = Amount(S, v) + Amount({i}, v)
    BY <1>3, AmountUnion
  <2>2. Amount(S, v) \in Nat /\ Qty[i] \in Nat
    BY UnitsFinite, UnitsOfOne
  <2>3. v = VariantOf[i] => Amount({i}, v) = Qty[i]
    BY UnitsOfOne
  <2>. QED BY <1>1, <2>1, <2>2, <2>3
<1>. QED BY <1>2, <1>3

-----------------------------------------------------------------------------
(* Type correctness *)

LEMMA AmountChangesInt ==
    ASSUME NEW f \in [Variant -> Int], NEW S
    PROVE  /\ [v \in Variant |-> f[v] + Amount(S, v)] \in [Variant -> Int]
           /\ [v \in Variant |-> f[v] - Amount(S, v)] \in [Variant -> Int]
  BY UnitsFinite

LEMMA EndTypes ==
    ASSUME TypeOK, NEW s \in Session, End(s)
    PROVE  /\ op' \in [Session -> Op \cup {"idle"}]
           /\ ord' \in [Session -> Order \cup {"none"}]
           /\ from' \in [Session -> OrderStatus \cup {"absent"}]
           /\ to' \in [Session -> OrderStatus \cup {"absent"}]
           /\ pinned' \in [Session -> Variant \cup {"none"}]
           /\ seen' \in [Session -> Int]
           /\ todo' \in [Session -> SUBSET Item]
           /\ active' \in [Session -> SUBSET Item]
           /\ done' \in [Session -> SUBSET Item]
           /\ row' \in [Session -> BOOLEAN]
           /\ contested' \subseteq Order
           /\ raced' \subseteq Variant
  BY DEF TypeOK, End

LEMMA TypeInductive == TypeOK /\ WorksOnItsOrder /\ [Next]_vars => TypeOK'
<1> SUFFICES ASSUME TypeOK, WorksOnItsOrder, [Next]_vars PROVE TypeOK'
  OBVIOUS
<1> USE DEF dbVars, plan, progress, history, Begin
<1>1. ASSUME NEW s \in Session, NEW o \in Order, StartCreate(s, o)
      PROVE  TypeOK'
  <2>1. /\ \A i \in ItemsOf(o) : i \in Item /\ VariantOf[i] \in Variant
        /\ raced' \subseteq Variant
    BY <1>1, ItemAssumption DEF StartCreate, ItemsOf, TypeOK
  <2>. QED BY <1>1, <2>1 DEF TypeOK, StartCreate, Op, ItemsOf
<1>2. ASSUME NEW s \in Session, NEW o \in Order, StartCancel(s, o)
      PROVE  TypeOK'
  BY <1>2 DEF TypeOK, StartCancel, Op, ItemsOf, OrderStatus
<1>3. ASSUME NEW s \in Session, NEW o \in Order, StartWallet(s, o)
      PROVE  TypeOK'
  BY <1>3 DEF TypeOK, StartWallet, Op
<1>4. ASSUME NEW s \in Session, NEW o \in Order, NEW new \in Target,
             StartTransition(s, o, new)
      PROVE  TypeOK'
  BY <1>4, BoundAssumption DEF TypeOK, StartTransition, Op
<1>16. ASSUME NEW s \in Session, NEW o \in Order, StartForce(s, o)
       PROVE  TypeOK'
  BY <1>16 DEF TypeOK, StartForce, Op, OrderStatus
<1>17. ASSUME NEW s \in Session, CommitForce(s)
       PROVE  TypeOK'
  <2>1. status' \in [Order -> OrderStatus \cup {"absent"}]
        /\ reservation' \in
              [Item -> {"none", "reserved", "released", "consumed"}]
        /\ leaked' \subseteq Item
    BY <1>17 DEF CommitForce, TypeOK, OrderStatus, Reserved
  <2>2. QED
    BY <1>17, <2>1, EndTypes DEF CommitForce, TypeOK
<1>18. ASSUME NEW s \in Session, NEW o \in Order, NEW st \in Reported,
              StartReport(s, o, st)
       PROVE  TypeOK'
  BY <1>18, BoundAssumption DEF TypeOK, StartReport, Op, PlatformStatus
<1>19. ASSUME NEW s \in Session, CommitReport(s)
       PROVE  TypeOK'
  <2>1. status' \in [Order -> OrderStatus \cup {"absent"}]
        /\ paidAt' \subseteq Order /\ paidOutside' \subseteq Order
    BY <1>19 DEF CommitReport, TypeOK, WorksOnItsOrder
  <2>2. QED
    BY <1>19, <2>1, EndTypes DEF CommitReport, TypeOK
<1>5. ASSUME NEW s \in Session, StartCleanup(s)
      PROVE  TypeOK'
  BY <1>5, ItemAssumption DEF TypeOK, StartCleanup, Op, Overdue
<1>6. ASSUME NEW s \in Session, NEW i \in Item,
             ReserveItem(s, i) \/ FindActive(s, i) \/ Apply(s, i)
      PROVE  TypeOK'
  BY <1>6 DEF TypeOK, ReserveItem, FindActive, Apply
<1>7. ASSUME NEW s \in Session, UpdateOrder(s)
      PROVE  TypeOK'
  BY <1>7 DEF TypeOK, UpdateOrder, ItemsOf
<1>8. ASSUME NEW s \in Session, Rollback(s)
      PROVE  TypeOK'
  BY <1>8, EndTypes DEF TypeOK, Rollback
<1>9. ASSUME NEW s \in Session, CommitCreate(s)
      PROVE  TypeOK'
  <2>1. End(s) /\ reserved' \in [Variant -> Int]
    BY <1>9, AmountChangesInt DEF CommitCreate, TypeOK
  <2>2. status' \in [Order -> OrderStatus \cup {"absent"}]
    BY <1>9 DEF CommitCreate, TypeOK, OrderStatus
  <2>3. QED
    BY <1>9, <2>1, <2>2, EndTypes DEF CommitCreate, TypeOK
<1>10. ASSUME NEW s \in Session, CommitStatus(s)
       PROVE  TypeOK'
  <2>1. End(s) /\ UNCHANGED <<expired, leaked, paidOutside>>
    BY <1>10 DEF CommitStatus
  <2>2. Release(done[s]) \/ Consume(done[s])
    BY <1>10 DEF CommitStatus
  <2>3. /\ reserved' \in [Variant -> Int]
        /\ inventory' \in [Variant -> Int]
        /\ reservation' \in
              [Item -> {"none", "reserved", "released", "consumed"}]
        /\ taken' \subseteq Item
    BY <2>2, AmountChangesInt DEF Release, Consume, TypeOK
  <2>4. status' \in [Order -> OrderStatus \cup {"absent"}]
        /\ paidAt' \subseteq Order
    BY <1>10 DEF CommitStatus, TypeOK, WorksOnItsOrder
  <2>5. QED
    BY <2>1, <2>3, <2>4, EndTypes DEF TypeOK
<1>11. ASSUME NEW s \in Session, CommitCleanup(s)
       PROVE  TypeOK'
  <2>1. /\ reserved' \in [Variant -> Int]
        /\ reservation' \in
              [Item -> {"none", "reserved", "released", "consumed"}]
    BY <1>11, AmountChangesInt DEF CommitCleanup, Release, TypeOK
  <2>2. QED
    BY <1>11, <2>1, EndTypes DEF CommitCleanup, Release, TypeOK
<1>12. ASSUME NEW s \in Session, CommitWallet(s)
       PROVE  TypeOK'
  <2>1. status' \in [Order -> OrderStatus \cup {"absent"}]
        /\ paidAt' \subseteq Order /\ paidOutside' \subseteq Order
    BY <1>12 DEF CommitWallet, TypeOK, OrderStatus, WorksOnItsOrder
  <2>2. QED
    BY <1>12, <2>1, EndTypes DEF CommitWallet, TypeOK
<1>13. ASSUME NEW i \in Item, Expire(i)
       PROVE  TypeOK'
  BY <1>13 DEF TypeOK, Expire
<1>14. CASE UNCHANGED vars
  BY <1>14 DEF TypeOK, vars
<1>15. QED
  BY <1>1, <1>2, <1>3, <1>4, <1>5, <1>6, <1>7, <1>8, <1>9, <1>10, <1>11,
     <1>12, <1>13, <1>14, <1>16, <1>17, <1>18, <1>19
     DEF Next, Start, Step, ReserveFails, RejectCancel, WalletRefused,
         Crash, DeadlockAbort, TypeOK

-----------------------------------------------------------------------------
(* The structure of sessions, locks and reservations is inductive.         *)

(* Starting an operation, looking at an item, locking a row.               *)
LEMMA StructureStarts ==
    ASSUME TypeOK, Structure, NEW s \in Session, Start(s)
    PROVE  Structure'
<1> USE DEF dbVars, plan, progress, history, Begin
<1> USE DEF Structure, IdleHoldsNothing, CreatesFreshOrder, AbsentHasNone,
            WorksOnItsOrder, CleansReserved, RowMutex, TakenIsSettled,
            ConsumesOnce
<1>1. ASSUME NEW o \in Order, StartCreate(s, o)
      PROVE  Structure'
  BY <1>1 DEF TypeOK, StartCreate
<1>2. ASSUME NEW o \in Order, StartCancel(s, o)
      PROVE  Structure'
  BY <1>2 DEF TypeOK, StartCancel, OrderStatus
<1>3. ASSUME NEW o \in Order, StartWallet(s, o)
      PROVE  Structure'
  BY <1>3 DEF TypeOK, StartWallet, RowFree, HoldsRow
<1>4. ASSUME NEW o \in Order, NEW new \in Target, StartTransition(s, o, new)
      PROVE  Structure'
  BY <1>4, BoundAssumption DEF TypeOK, StartTransition
<1>5. CASE StartCleanup(s)
  BY <1>5 DEF TypeOK, StartCleanup, Overdue, Reserved
<1>6. ASSUME NEW o \in Order, StartForce(s, o)
      PROVE  Structure'
  BY <1>6 DEF TypeOK, StartForce
<1>8. ASSUME NEW o \in Order, NEW st \in Reported, StartReport(s, o, st)
      PROVE  Structure'
  BY <1>8, BoundAssumption DEF TypeOK, StartReport, PlatformStatus
<1>7. QED
  BY <1>1, <1>2, <1>3, <1>4, <1>5, <1>6, <1>8 DEF Start

LEMMA StructureItems ==
    ASSUME TypeOK, Structure, NEW s \in Session, NEW i \in Item,
           ReserveItem(s, i) \/ FindActive(s, i) \/ Apply(s, i)
    PROVE  Structure'
<1> USE DEF dbVars, plan, progress, history, Begin
<1> USE DEF Structure, IdleHoldsNothing, CreatesFreshOrder, AbsentHasNone,
            WorksOnItsOrder, CleansReserved, RowMutex, TakenIsSettled,
            ConsumesOnce
<1>1. CASE ReserveItem(s, i)
  BY <1>1 DEF TypeOK, ReserveItem
<1>2. CASE FindActive(s, i)
  BY <1>2 DEF TypeOK, FindActive, LooksActive
<1>3. CASE Apply(s, i)
  BY <1>3 DEF TypeOK, Apply
<1>4. QED
  BY <1>1, <1>2, <1>3

LEMMA StructureRow ==
    ASSUME TypeOK, Structure, NEW s \in Session, UpdateOrder(s)
    PROVE  Structure'
  BY DEF dbVars, plan, progress, history, Structure, IdleHoldsNothing,
         CreatesFreshOrder, AbsentHasNone, WorksOnItsOrder, CleansReserved,
         RowMutex, TakenIsSettled, ConsumesOnce, TypeOK, UpdateOrder, NeedsRow, Consumes,
         RowFree, HoldsRow, ItemsOf

(* The end of a session leaves nothing of it behind.                       *)
LEMMA StructureRollback ==
    ASSUME TypeOK, Structure, NEW s \in Session, Rollback(s)
    PROVE  Structure'
  BY DEF dbVars, Structure, IdleHoldsNothing,
         CreatesFreshOrder, AbsentHasNone, WorksOnItsOrder, CleansReserved,
         RowMutex, TakenIsSettled, ConsumesOnce, TypeOK, Rollback, End

LEMMA StructureCommits ==
    ASSUME TypeOK, Structure, NEW s \in Session,
           \/ CommitCreate(s) \/ CommitStatus(s)
           \/ CommitCleanup(s) \/ CommitWallet(s) \/ CommitForce(s)
           \/ CommitReport(s)
    PROVE  Structure'
<1> USE DEF dbVars, plan, progress, history, Begin
<1> USE DEF Structure, IdleHoldsNothing, CreatesFreshOrder, AbsentHasNone,
            WorksOnItsOrder, CleansReserved, RowMutex, TakenIsSettled,
            ConsumesOnce, End
<1>1. CASE CommitCreate(s)
  <2>1. End(s) /\ UNCHANGED <<inventory, expired, paidAt, history>>
    BY <1>1 DEF CommitCreate
  <2>2. ord[s] \in Order /\ status' = [status EXCEPT ![ord[s]] = "pending"]
    BY <1>1 DEF CommitCreate
  <2>3. \A i \in done[s] : OrderOf[i] = ord[s] /\ reservation[i] = "none"
    BY <1>1 DEF CommitCreate, ItemsOf, TypeOK
  <2>4. /\ \A i \in done[s] : reservation'[i] = "reserved"
        /\ \A i \in Item \ done[s] : reservation'[i] = reservation[i]
    BY <1>1 DEF CommitCreate, TypeOK
  <2>5. IdleHoldsNothing' /\ WorksOnItsOrder' /\ CleansReserved' /\ RowMutex'
    BY <2>1, <2>2, ItemAssumption DEF TypeOK
  <2>6. CreatesFreshOrder'
    BY <1>1, <2>1, <2>2 DEF TypeOK, CommitCreate
  <2>7. AbsentHasNone'
    BY <2>1, <2>2, <2>3, <2>4, ItemAssumption DEF TypeOK
  <2>8. TakenIsSettled' /\ ConsumesOnce'
    BY <2>1, <2>3, <2>4 DEF TypeOK
  <2>9. QED
    BY <2>5, <2>6, <2>7, <2>8
<1>2. CASE CommitStatus(s)
  <2>1. End(s) /\ op[s] \in {"cancel", "transition"} /\ row[s]
    BY <1>2 DEF CommitStatus
  <2>2. /\ ord[s] \in Order /\ status[ord[s]] # "absent"
        /\ to[s] \in OrderStatus
        /\ status' = [status EXCEPT ![ord[s]] = to[s]]
        /\ paidAt' \subseteq paidAt \cup {ord[s]}
    BY <1>2 DEF CommitStatus
  <2>3. \A o \in Order : status'[o] = "absent" <=> status[o] = "absent"
    BY <2>2 DEF TypeOK, OrderStatus
  <2>4. \A i \in done[s] : OrderOf[i] = ord[s]
    BY <2>1 DEF ItemsOf
  <2>5. /\ \A i \in done[s] : reservation'[i] \in {"released", "consumed"}
        /\ \A i \in Item \ done[s] : reservation'[i] = reservation[i]
        /\ taken' = taken \/ (op[s] = "transition" /\ taken' = taken \cup done[s])
        /\ leaked' = leaked
    BY <1>2 DEF CommitStatus, Release, Consume, TypeOK
  <2>6. IdleHoldsNothing' /\ RowMutex'
    BY <2>1 DEF TypeOK
  <2>7. WorksOnItsOrder' /\ CleansReserved' /\ CreatesFreshOrder'
    BY <2>1, <2>3, ItemAssumption DEF TypeOK
  <2>8. AbsentHasNone'
    BY <2>2, <2>3, <2>4, <2>5, ItemAssumption
  <2>9. TakenIsSettled'
    BY <2>5 DEF TypeOK
  <2>10. ConsumesOnce'
    <3> SUFFICES ASSUME NEW t \in Session, op'[t] = "transition"
                 PROVE  (active'[t] \cup done'[t]) \cap taken' = {}
      OBVIOUS
    <3>1. t # s /\ op[t] = "transition"
          /\ active'[t] = active[t] /\ done'[t] = done[t]
      BY <2>1 DEF TypeOK
    <3>2. \A i \in active[t] \cup done[t] : OrderOf[i] = ord[t] /\ row[t]
      BY <3>1 DEF ItemsOf
    <3>3. (active[t] \cup done[t]) \cap done[s] = {}
      BY <2>1, <2>4, <3>1, <3>2
    <3>4. QED
      BY <2>5, <3>1, <3>3
  <2>11. QED
    BY <2>6, <2>7, <2>8, <2>9, <2>10
<1>3. CASE CommitCleanup(s)
  BY <1>3 DEF TypeOK, CommitCleanup, Release
<1>4. CASE CommitWallet(s)
  BY <1>4 DEF TypeOK, CommitWallet
<1>5. CASE CommitForce(s)
  <2>1. End(s) /\ UNCHANGED <<inventory, reserved, expired, paidAt, taken>>
    BY <1>5 DEF CommitForce
  <2>2. /\ ord[s] \in Order /\ status[ord[s]] # "absent"
        /\ status' = [status EXCEPT ![ord[s]] = "cancelled"]
    BY <1>5 DEF CommitForce
  <2>3. \A o \in Order : status'[o] = "absent" <=> status[o] = "absent"
    BY <2>2 DEF TypeOK
  <2>4. /\ \A i \in Item :
              \/ reservation'[i] = reservation[i]
              \/ OrderOf[i] = ord[s] /\ reservation'[i] = "released"
        /\ \A i \in leaked' \ leaked : reservation'[i] = "released"
    BY <1>5 DEF CommitForce, ItemsOf, TypeOK
  <2>5. IdleHoldsNothing' /\ RowMutex'
    BY <2>1 DEF TypeOK
  <2>6. WorksOnItsOrder' /\ CleansReserved' /\ CreatesFreshOrder'
    BY <2>1, <2>3, ItemAssumption DEF TypeOK
  <2>7. AbsentHasNone'
    BY <2>1, <2>2, <2>3, <2>4, ItemAssumption
  <2>8. TakenIsSettled'
    <3> SUFFICES ASSUME NEW i \in taken' \cup leaked'
                 PROVE  reservation'[i] \in {"released", "consumed"}
      OBVIOUS
    <3>1. CASE i \in taken \cup leaked
      BY <2>4, <3>1 DEF TypeOK
    <3>2. CASE i \in leaked' \ leaked
      BY <2>4, <3>2
    <3>. QED BY <2>1, <3>1, <3>2
  <2>9. ConsumesOnce'
    BY <2>1 DEF TypeOK
  <2>10. QED
    BY <2>5, <2>6, <2>7, <2>8, <2>9
<1>7. CASE CommitReport(s)
  <2>1. /\ ord[s] \in Order /\ status[ord[s]] # "absent"
        /\ to[s] \in OrderStatus
        /\ status' = [status EXCEPT ![ord[s]] = to[s]]
        /\ paidAt' \subseteq paidAt \cup {ord[s]}
    BY <1>7 DEF CommitReport
  <2>2. \A o \in Order : status'[o] = "absent" <=> status[o] = "absent"
    BY <2>1 DEF TypeOK, OrderStatus
  <2>3. End(s) /\ UNCHANGED <<inventory, reserved, reservation, expired, taken, leaked>>
    BY <1>7 DEF CommitReport
  <2>4. IdleHoldsNothing' /\ RowMutex' /\ TakenIsSettled' /\ ConsumesOnce'
    BY <2>3 DEF TypeOK
  <2>5. WorksOnItsOrder' /\ CleansReserved' /\ CreatesFreshOrder'
    BY <2>2, <2>3, ItemAssumption DEF TypeOK
  <2>6. AbsentHasNone'
    BY <2>1, <2>2, <2>3, ItemAssumption
  <2>. QED BY <2>4, <2>5, <2>6
<1>6. QED
  BY <1>1, <1>2, <1>3, <1>4, <1>5, <1>7

LEMMA Inductive == TypeOK /\ Structure /\ [Next]_vars => TypeOK' /\ Structure'
<1> SUFFICES ASSUME TypeOK, Structure, [Next]_vars PROVE TypeOK' /\ Structure'
  OBVIOUS
<1>1. TypeOK'
  BY TypeInductive DEF Structure
<1>2. Structure'
  <2>1. ASSUME NEW s \in Session, Start(s) PROVE Structure'
    BY <2>1, StructureStarts
  <2>2. ASSUME NEW s \in Session, Step(s) \/ Crash(s) PROVE Structure'
    BY <2>2, StructureItems, StructureRow, StructureRollback, StructureCommits
       DEF Step, Crash, ReserveFails, RejectCancel, WalletRefused, DeadlockAbort
  <2>3. ASSUME NEW i \in Item, Expire(i) PROVE Structure'
    BY <2>3 DEF Expire, dbVars, plan, progress, history, Structure,
         IdleHoldsNothing, CreatesFreshOrder, AbsentHasNone, WorksOnItsOrder,
         CleansReserved, RowMutex, TakenIsSettled, ConsumesOnce
  <2>4. CASE UNCHANGED vars
    BY <2>4 DEF vars, dbVars, plan, progress, history, Structure,
         IdleHoldsNothing, CreatesFreshOrder, AbsentHasNone, WorksOnItsOrder,
         CleansReserved, RowMutex, TakenIsSettled, ConsumesOnce
  <2>5. QED
    BY <2>1, <2>2, <2>3, <2>4 DEF Next
<1>3. QED
  BY <1>1, <1>2

LEMMA Initially == Init => TypeOK /\ Structure
<1> SUFFICES ASSUME Init PROVE TypeOK /\ Structure
  OBVIOUS
<1>1. TypeOK
  BY BoundAssumption, ItemAssumption DEF Init, TypeOK
<1>2. Structure
  BY ItemAssumption DEF Init, Structure, IdleHoldsNothing, CreatesFreshOrder,
     AbsentHasNone, WorksOnItsOrder, CleansReserved, RowMutex,
     TakenIsSettled, ConsumesOnce
<1>3. QED
  BY <1>1, <1>2

(* In every reachable state of any instance, each session holds locks and  *)
(* items only as its operation allows, an order's row is locked by at most *)
(* one session, and the variables have their types.                        *)
THEOREM StructureHolds == Spec => [](TypeOK /\ Structure)
  BY Initially, Inductive, PTL DEF Spec

(* The variables of every instance keep their types: reservations only     *)
(* ever say reserved, released or consumed.                                *)
THEOREM TypeCorrect == Spec => []TypeOK
  BY StructureHolds, PTL

-----------------------------------------------------------------------------
(* The accounting of reserved and taken units.                             *)

(* Steps other than the commits leave the accounts alone.                  *)
AccountsUnchanged == UNCHANGED <<inventory, reserved, reservation, taken, leaked>>

LEMMA StepKinds ==
    ASSUME [Next]_vars
    PROVE  \/ AccountsUnchanged
           \/ \E s \in Session : \/ CommitCreate(s) \/ CommitStatus(s)
                                 \/ CommitCleanup(s) \/ CommitForce(s)
  BY DEF Next, Begin, Start, Step, AccountsUnchanged, vars, dbVars, history, Rollback,
         StartCreate, StartCancel, StartWallet, StartTransition, StartCleanup,
         ReserveItem, ReserveFails, FindActive, Apply, RejectCancel, UpdateOrder,
         WalletRefused, CommitWallet, DeadlockAbort, Crash, Expire, StartForce,
         StartReport, CommitReport

(* What the counters should count: a settling session takes the items that *)
(* it has in hand, and only them, out of it; a forced cancellation takes   *)
(* out nothing; and a new order puts its items in.                         *)
LEMMA CountedSteps ==
    ASSUME TypeOK, Structure, NEW s \in Session
    PROVE  /\ CommitCreate(s) =>
                /\ Counted' = Counted \cup done[s]
                /\ Counted \cap done[s] = {}
           /\ CommitStatus(s) \/ CommitCleanup(s) =>
                Counted' = (Reserved \ done[s]) \cup leaked
           /\ CommitForce(s) => Counted' = Counted
<1>1. ASSUME CommitCreate(s)
      PROVE  /\ Counted' = Counted \cup done[s]
             /\ Counted \cap done[s] = {}
  <2>1. \A i \in done[s] : i \in Item /\ reservation[i] = "none" /\ i \notin leaked
    BY <1>1 DEF CommitCreate, Structure, CreatesFreshOrder, AbsentHasNone,
                TakenIsSettled, ItemsOf
  <2>2. leaked' = leaked /\ Reserved' = Reserved \cup done[s]
    BY <1>1, <2>1 DEF CommitCreate, Reserved, TypeOK, history
  <2>. QED BY <2>1, <2>2 DEF Counted, Reserved
<1>2. ASSUME CommitStatus(s) \/ CommitCleanup(s)
      PROVE  Counted' = (Reserved \ done[s]) \cup leaked
  <2>1. leaked' = leaked /\ (Release(done[s]) \/ Consume(done[s]))
    BY <1>2 DEF CommitStatus, CommitCleanup
  <2>. QED BY <2>1 DEF Release, Consume, Counted, Reserved, TypeOK
<1>3. ASSUME CommitForce(s)
      PROVE  Counted' = Counted
  BY <1>3 DEF CommitForce, Counted, Reserved, TypeOK
<1>. QED BY <1>1, <1>2, <1>3

(* What a commit adds to the counters, or takes from them.                 *)
LEMMA CounterSteps ==
    ASSUME TypeOK, NEW s \in Session, NEW v \in Variant
    PROVE  /\ CommitCreate(s) => reserved'[v] = reserved[v] + Amount(done[s], v)
           /\ CommitStatus(s) \/ CommitCleanup(s) =>
                reserved'[v] = reserved[v] - Amount(done[s], v)
           /\ CommitForce(s) => reserved'[v] = reserved[v]
           /\ reserved[v] \in Int /\ Amount(done[s], v) \in Nat
           /\ Amount(Counted, v) \in Nat /\ Amount(Counted', v) \in Nat
  BY UnitsFinite DEF TypeOK, CommitCreate, CommitStatus, CommitCleanup, CommitForce,
                     Release, Consume

LEMMA NoLeakInductive ==
    TypeOK /\ Structure /\ NoReservationLeak /\ [Next]_vars => NoReservationLeak'
<1> SUFFICES ASSUME TypeOK, Structure, NoReservationLeak, [Next]_vars,
                    NEW v \in Variant
             PROVE  reserved'[v] <= Amount(Counted', v)
  BY DEF NoReservationLeak, Amount, UnitsOf
<1>0. reserved[v] <= Amount(Counted, v)
  BY DEF NoReservationLeak
<1>1. CASE AccountsUnchanged
  BY <1>0, <1>1 DEF AccountsUnchanged, Counted, Reserved
<1>2. ASSUME NEW s \in Session, CommitStatus(s) \/ CommitCleanup(s)
      PROVE  reserved'[v] <= Amount(Counted', v)
  <2>1. Counted \ done[s] \subseteq Counted'
    BY <1>2, CountedSteps DEF Counted
  <2>2. Amount(Counted \ done[s], v) <= Amount(Counted', v)
    BY <2>1, AmountMonotone
  <2>3. Amount(Counted, v) - Amount(done[s], v) <= Amount(Counted \ done[s], v)
    BY AmountDifference
  <2>4. Amount(Counted \ done[s], v) \in Nat
    BY UnitsFinite
  <2>. QED BY <1>0, <1>2, <2>2, <2>3, <2>4, CounterSteps
<1>3. ASSUME NEW s \in Session, CommitCreate(s)
      PROVE  reserved'[v] <= Amount(Counted', v)
  <2>1. Amount(Counted', v) = Amount(Counted, v) + Amount(done[s], v)
    BY <1>3, CountedSteps, AmountUnion
  <2>. QED BY <1>0, <1>3, <2>1, CounterSteps
<1>4. ASSUME NEW s \in Session, CommitForce(s)
      PROVE  reserved'[v] <= Amount(Counted', v)
  BY <1>0, <1>4, CounterSteps, CountedSteps
<1>. QED BY <1>1, <1>2, <1>3, <1>4, StepKinds

LEMMA ConservationInductive ==
    TypeOK /\ Structure /\ StockConservation /\ [Next]_vars => StockConservation'
<1> SUFFICES ASSUME TypeOK, Structure, StockConservation, [Next]_vars
             PROVE  StockConservation'
  OBVIOUS
<1>1. CASE UNCHANGED <<inventory, taken>>
  BY <1>1 DEF StockConservation, Amount, UnitsOf
<1>2. ASSUME NEW s \in Session, op[s] = "transition", Consume(done[s])
      PROVE  StockConservation'
  <2>1. taken' = taken \cup done[s] /\ taken \cap done[s] = {}
    BY <1>2 DEF Consume, Structure, ConsumesOnce
  <2> SUFFICES ASSUME NEW v \in Variant
               PROVE  inventory'[v] = Stock[v] - Amount(taken', v)
    BY DEF StockConservation, Amount, UnitsOf
  <2>2. inventory'[v] = inventory[v] - Amount(done[s], v)
    BY <1>2 DEF Consume
  <2>3. inventory[v] = Stock[v] - Amount(taken, v) /\ Stock[v] \in Int
    BY ItemAssumption DEF StockConservation
  <2>4. Amount(taken', v) = Amount(taken, v) + Amount(done[s], v)
    BY <2>1, AmountUnion
  <2>5. Amount(done[s], v) \in Nat /\ Amount(taken, v) \in Nat
    BY UnitsFinite
  <2>6. QED
    BY <2>2, <2>3, <2>4, <2>5
<1>3. QED
  BY <1>1, <1>2, StepKinds DEF AccountsUnchanged, CommitCreate, CommitStatus,
     CommitCleanup, CommitForce, Release, history

(* However requests, cleanups, crashes and deadlocks interleave, no unit   *)
(* stays counted as reserved without a live reservation that will give it  *)
(* back, or a forced cancellation that never will.                         *)
THEOREM NoLeak == Spec => []NoReservationLeak
<1>1. Init => NoReservationLeak
  BY UnitsFinite DEF Init, NoReservationLeak
<1>. QED BY <1>1, NoLeakInductive, StructureHolds, PTL DEF Spec

(* The inventory is what the stock was, less the units of the items sold:  *)
(* no item is ever consumed twice.                                         *)
THEOREM Conservation == Spec => []StockConservation
<1>1. Init => StockConservation
  <2> SUFFICES ASSUME Init, NEW v \in Variant
               PROVE  inventory[v] = Stock[v] - Amount(taken, v)
    BY DEF StockConservation
  <2>1. UnitsOf(taken, v) = {}
    BY DEF Init, UnitsOf
  <2>2. Amount(taken, v) = 0
    BY <2>1, FS_EmptySet DEF Amount
  <2>3. QED
    BY <2>2, ItemAssumption DEF Init
<1>2. QED
  BY <1>1, ConservationInductive, StructureHolds, PTL DEF Spec

-----------------------------------------------------------------------------
(* Orders paid through transition_status only.                             *)

(* A cancellation only ever cancels, and a request that marks its order    *)
(* paid has in hand every item of the order that is still reserved.        *)
PaysWhatItSettles ==
    /\ \A s \in Session : op[s] = "cancel" => to[s] = "cancelled"
    /\ \A s \in Session : op[s] = "transition" /\ row[s] /\ to[s] = "paid" =>
          \A i \in ItemsOf(ord[s]) :
             reservation[i] = "reserved" => i \in todo[s] \cup active[s] \cup done[s]

LEMMA SettledStarts ==
    ASSUME TypeOK, Structure, PaysWhatItSettles, PaidIsSettled,
           NEW s \in Session, Start(s)
    PROVE  PaysWhatItSettles' /\ PaidIsSettled'
<1> USE DEF dbVars, plan, progress, history, Begin, PaysWhatItSettles, PaidIsSettled,
            TypeOK, ItemsOf
<1>1. CASE \E o \in Order : StartCreate(s, o) \/ StartCancel(s, o)
  BY <1>1 DEF StartCreate, StartCancel
<1>2. CASE \E o \in Order, new \in Target : StartTransition(s, o, new)
  BY <1>2 DEF StartTransition, Structure, IdleHoldsNothing
<1>3. CASE StartCleanup(s) \/ \E o \in Order : StartForce(s, o) \/ StartWallet(s, o)
  BY <1>3 DEF StartCleanup, StartForce, StartWallet
<1>5. CASE \E o \in Order, st \in Reported : StartReport(s, o, st)
  BY <1>5 DEF StartReport
<1>4. QED
  BY <1>1, <1>2, <1>3, <1>5 DEF Start

LEMMA SettledSteps ==
    ASSUME TypeOK, Structure, PaysWhatItSettles, PaidIsSettled,
           NEW s \in Session, Step(s) \/ Crash(s)
    PROVE  PaysWhatItSettles' /\ PaidIsSettled'
<1> USE DEF dbVars, plan, progress, history, Begin, PaysWhatItSettles, PaidIsSettled,
            ItemsOf
<1>1. ASSUME NEW i \in Item, ReserveItem(s, i) \/ FindActive(s, i) \/ Apply(s, i)
      PROVE  PaysWhatItSettles' /\ PaidIsSettled'
  BY <1>1 DEF TypeOK, ReserveItem, FindActive, Apply, LooksActive
<1>2. CASE UpdateOrder(s)
  BY <1>2 DEF TypeOK, UpdateOrder, Consumes
<1>3. CASE Rollback(s)
  BY <1>3 DEF TypeOK, Rollback, End
<1>4. CASE CommitCreate(s)
  BY <1>4 DEF TypeOK, CommitCreate, End, Structure, CreatesFreshOrder,
              WorksOnItsOrder, AbsentHasNone
<1>5. CASE CommitStatus(s)
  BY <1>5 DEF TypeOK, CommitStatus, End, Release, Consume
<1>6. CASE CommitCleanup(s)
  BY <1>6 DEF TypeOK, CommitCleanup, End, Release
<1>7. CASE CommitForce(s)
  BY <1>7 DEF TypeOK, CommitForce, End, Reserved
<1>8. CASE CommitWallet(s)
  BY <1>8 DEF TypeOK, CommitWallet, End
<1>10. CASE CommitReport(s)
  BY <1>10 DEF TypeOK, CommitReport, End
<1>9. QED
  BY <1>1, <1>2, <1>3, <1>4, <1>5, <1>6, <1>7, <1>8, <1>10
     DEF Step, Crash, ReserveFails, RejectCancel, DeadlockAbort, WalletRefused

(* A request that marks its order paid has in hand all that the order      *)
(* still holds, in every reachable state.                                  *)
THEOREM PaysFromHand == Spec => [](PaysWhatItSettles /\ PaidIsSettled)
<1>1. Init => PaysWhatItSettles /\ PaidIsSettled
  BY DEF Init, PaysWhatItSettles, PaidIsSettled
<1>2. TypeOK /\ Structure /\ PaysWhatItSettles /\ PaidIsSettled /\ [Next]_vars
        => PaysWhatItSettles' /\ PaidIsSettled'
  <2> SUFFICES ASSUME TypeOK, Structure, PaysWhatItSettles, PaidIsSettled, [Next]_vars
               PROVE  PaysWhatItSettles' /\ PaidIsSettled'
    OBVIOUS
  <2>1. ASSUME NEW i \in Item, Expire(i)
        PROVE  PaysWhatItSettles' /\ PaidIsSettled'
    BY <2>1 DEF Expire, plan, progress, history, PaysWhatItSettles, PaidIsSettled, ItemsOf
  <2>2. CASE UNCHANGED vars
    BY <2>2 DEF vars, dbVars, plan, progress, history, PaysWhatItSettles, PaidIsSettled,
                ItemsOf
  <2>3. QED
    BY <2>1, <2>2, SettledStarts, SettledSteps DEF Next
<1>3. QED
  BY <1>1, <1>2, StructureHolds, PTL DEF Spec

(* An order paid through transition_status has no reservation left for the *)
(* cleanup to release.                                                     *)
THEOREM PaidSettled == Spec => []PaidIsSettled
  BY PaysFromHand, PTL

-----------------------------------------------------------------------------
(***************************************************************************)
(* Orders that no two sessions work on at once, and variants that no two   *)
(* create_orders want at once.                                             *)
(***************************************************************************)
OneAtWork ==
    \A s, t \in Session : \A o \in Order \ contested :
        op[s] # "idle" /\ op[t] # "idle" /\ WorksOn(s, o) /\ WorksOn(t, o) => s = t

OneWants ==
    \A s, t \in Session : \A v \in Variant \ raced :
        Wants(s, v) /\ Wants(t, v) => s = t

(* What a request is about to release or consume is still reserved.        *)
SettlesReserved ==
    \A s \in Session : op[s] \in {"cancel", "transition", "cleanup"} =>
        \A i \in active[s] \cup done[s] :
            OrderOf[i] \notin contested => reservation[i] = "reserved"

(* The status a request has read, and validated, is still the order's.     *)
StatusIsCurrent ==
    \A s \in Session : ord[s] \notin contested =>
        /\ op[s] \in {"cancel", "transition", "force"} =>
              from[s] = status[ord[s]]
        /\ op[s] \in {"cancel", "transition"} /\ row[s] =>
              CanTransition(from[s], to[s])
        /\ op[s] = "wallet" => status[ord[s]] \in {"pending", "confirmed"}
        /\ op[s] = "force" => from[s] \notin {"completed", "refunded"}

(* The steps that end a session, ...                                       *)
Ending(s) ==
    \/ CommitCreate(s) \/ CommitStatus(s) \/ CommitCleanup(s)
    \/ CommitWallet(s) \/ CommitForce(s) \/ CommitReport(s)
    \/ (op[s] # "idle" /\ Rollback(s))

LEMMA Ends ==
    ASSUME NEW s \in Session, Ending(s)
    PROVE  op[s] # "idle" /\ End(s)
  BY DEF Ending, CommitCreate, CommitStatus, CommitCleanup, CommitWallet, CommitForce,
         CommitReport, Rollback

(* ... and the others.                                                     *)
Handles(s, i) == ReserveItem(s, i) \/ FindActive(s, i) \/ Apply(s, i)

LEMMA NextKinds ==
    ASSUME [Next]_vars
    PROVE  \/ \E s \in Session :
                \/ Start(s) \/ UpdateOrder(s) \/ Ending(s)
                \/ \E i \in Item : Handles(s, i)
           \/ \E i \in Item : Expire(i)
           \/ UNCHANGED vars
<1>1. ASSUME NEW s \in Session, Step(s) \/ Crash(s)
      PROVE  UpdateOrder(s) \/ Ending(s) \/ \E i \in Item : Handles(s, i)
  BY <1>1 DEF Step, Crash, ReserveFails, RejectCancel, WalletRefused, DeadlockAbort,
              Ending, Handles
<1>. QED BY <1>1 DEF Next

(* A session that begins finds out whose work it joins.                    *)
LEMMA Starts ==
    ASSUME TypeOK, Structure, NEW s \in Session, Start(s)
    PROVE  /\ op[s] = "idle" /\ op' = [op EXCEPT ![s] = op'[s]]
           /\ \A t \in Session \ {s} :
                /\ ord'[t] = ord[t] /\ from'[t] = from[t] /\ to'[t] = to[t]
                /\ pinned'[t] = pinned[t] /\ seen'[t] = seen[t]
                /\ todo'[t] = todo[t] /\ active'[t] = active[t]
                /\ done'[t] = done[t] /\ row'[t] = row[t]
           /\ UNCHANGED <<dbVars, taken, leaked, paidOutside>>
           /\ done'[s] = {} /\ (op'[s] = "cleanup" \/ active'[s] = {})
           /\ contested \subseteq contested' /\ raced \subseteq raced'
           /\ op'[s] \in Op
  BY DEF Start, StartCreate, StartCancel, StartWallet, StartForce, StartTransition,
         StartReport, StartCleanup, Begin, dbVars, plan, progress, TypeOK, Structure,
         IdleHoldsNothing, Op

(* The operation it begins tells how it began.                             *)
LEMMA StartKinds ==
    ASSUME TypeOK, NEW s \in Session, Start(s)
    PROVE  \/ op'[s] = "create" /\ \E o \in Order : StartCreate(s, o)
           \/ op'[s] = "cleanup" /\ StartCleanup(s)
           \/ op'[s] \notin {"create", "cleanup"}
<1>1. ASSUME NEW o \in Order, StartCreate(s, o) PROVE op'[s] = "create"
  BY <1>1 DEF StartCreate, TypeOK
<1>2. ASSUME NEW o \in Order,
             \/ StartCancel(s, o) \/ StartWallet(s, o) \/ StartForce(s, o)
             \/ \E new \in Target : StartTransition(s, o, new)
             \/ \E st \in Reported : StartReport(s, o, st)
      PROVE  op'[s] \notin {"create", "cleanup"}
  BY <1>2 DEF StartCancel, StartWallet, StartForce, StartTransition, StartReport, TypeOK
<1>3. ASSUME StartCleanup(s) PROVE op'[s] = "cleanup"
  BY <1>3 DEF StartCleanup, TypeOK
<1>. QED BY <1>1, <1>2, <1>3 DEF Start

LEMMA Joins ==
    ASSUME TypeOK, Structure, NEW s \in Session, Start(s), NEW t \in Session, t # s
    PROVE  /\ \A o \in Order : WorksOn(s, o)' /\ WorksOn(t, o) => o \in contested'
           /\ \A v \in Variant : Wants(s, v)' /\ Wants(t, v) => v \in raced'
<1> USE DEF TypeOK, Structure, IdleHoldsNothing, Begin, plan, progress, WorksOn, Wants
<1>1. ASSUME NEW o \in Order, StartCreate(s, o)
      PROVE  /\ \A p \in Order : WorksOn(s, p)' /\ WorksOn(t, p) => p \in contested'
             /\ \A v \in Variant : Wants(s, v)' /\ Wants(t, v) => v \in raced'
  BY <1>1 DEF StartCreate
<1>2. ASSUME NEW o \in Order,
             \/ StartCancel(s, o) \/ StartWallet(s, o) \/ StartForce(s, o)
             \/ \E new \in Target : StartTransition(s, o, new)
             \/ \E st \in Reported : StartReport(s, o, st)
      PROVE  /\ \A p \in Order : WorksOn(s, p)' /\ WorksOn(t, p) => p \in contested'
             /\ op'[s] # "create"
  BY <1>2 DEF StartCancel, StartWallet, StartForce, StartTransition, StartReport
<1>3. ASSUME StartCleanup(s)
      PROVE  /\ \A p \in Order : WorksOn(s, p)' /\ WorksOn(t, p) => p \in contested'
             /\ op'[s] # "create"
  BY <1>3, ItemAssumption DEF StartCleanup
<1>. QED BY <1>1, <1>2, <1>3 DEF Start

(* The others stay on the orders and variants they began with.             *)
LEMMA StaysOnItsOrders ==
    ASSUME TypeOK, Structure, NEW s \in Session,
           \/ UpdateOrder(s) \/ Ending(s) \/ \E i \in Item : Handles(s, i)
    PROVE  /\ UNCHANGED <<contested, raced>>
           /\ \A t \in Session : op'[t] # "idle" =>
                /\ op'[t] = op[t] /\ UNCHANGED <<ord[t], from[t], to[t], pinned[t], seen[t]>>
                /\ \A o \in Order : WorksOn(t, o)' => WorksOn(t, o)
                /\ \A v \in Variant : Wants(t, v)' => Wants(t, v)
<1> USE DEF TypeOK, plan, progress, WorksOn, Wants
<1>1. CASE UpdateOrder(s)
  BY <1>1 DEF UpdateOrder, NeedsRow, history
<1>2. CASE Ending(s)
  BY <1>2, Ends DEF End
<1>3. ASSUME NEW i \in Item, ReserveItem(s, i)
      PROVE  /\ UNCHANGED <<contested, raced, op, plan, active>>
             /\ todo' = [todo EXCEPT ![s] = @ \ {i}]
             /\ done' = [done EXCEPT ![s] = @ \cup {i}]
             /\ i \in todo[s] /\ OrderOf[i] = ord[s]
  BY <1>3 DEF ReserveItem, history, Structure, CreatesFreshOrder, ItemsOf
<1>4. ASSUME NEW i \in Item, FindActive(s, i)
      PROVE  /\ UNCHANGED <<contested, raced, op, plan, done>>
             /\ op[s] # "create"
             /\ \A t \in Session : todo'[t] \subseteq todo[t]
             /\ \A t \in Session : active'[t] \subseteq active[t] \cup
                                        (IF t = s THEN {i} ELSE {})
             /\ OrderOf[i] = ord[s]
  BY <1>4 DEF FindActive, history, Structure, WorksOnItsOrder, ItemsOf
<1>5. ASSUME NEW i \in Item, Apply(s, i)
      PROVE  /\ UNCHANGED <<contested, raced, op, plan, todo>>
             /\ op[s] # "create"
             /\ \A t \in Session : active'[t] \cup done'[t] \subseteq active[t] \cup done[t]
             /\ \A t \in Session : t # s => done'[t] = done[t]
  BY <1>5 DEF Apply, history, Structure, CreatesFreshOrder
<1>. QED BY <1>1, <1>2, <1>3, <1>4, <1>5 DEF Handles

LEMMA OneAtWorkInductive ==
    ASSUME TypeOK, Structure, OneAtWork, OneWants, [Next]_vars
    PROVE  OneAtWork' /\ OneWants'
<1>1. ASSUME NEW s \in Session, Start(s) PROVE OneAtWork' /\ OneWants'
  <2>1. ASSUME NEW t \in Session \ {s}
        PROVE  /\ op'[t] = op[t] /\ \A o \in Order : WorksOn(t, o)' <=> WorksOn(t, o)
               /\ \A v \in Variant : Wants(t, v)' <=> Wants(t, v)
    BY <1>1, Starts DEF WorksOn, Wants, TypeOK
  <2>2. contested \subseteq contested' /\ raced \subseteq raced'
    BY <1>1, Starts
  <2>3. ASSUME NEW t \in Session \ {s}
        PROVE  /\ \A o \in Order : WorksOn(s, o)' /\ WorksOn(t, o) => o \in contested'
               /\ \A v \in Variant : Wants(s, v)' /\ Wants(t, v) => v \in raced'
    BY <1>1, Joins
  <2>. QED BY <2>1, <2>2, <2>3 DEF OneAtWork, OneWants
<1>2. ASSUME NEW s \in Session,
             UpdateOrder(s) \/ Ending(s) \/ \E i \in Item : Handles(s, i)
      PROVE  OneAtWork' /\ OneWants'
  <2>1. \A t \in Session, v \in Variant : Wants(t, v)' => Wants(t, v)
    BY <1>2, StaysOnItsOrders DEF Wants
  <2>2. /\ UNCHANGED <<contested, raced>>
        /\ \A t \in Session : op'[t] # "idle" =>
              op'[t] = op[t] /\ \A o \in Order : WorksOn(t, o)' => WorksOn(t, o)
    BY <1>2, StaysOnItsOrders
  <2>. QED BY <2>1, <2>2 DEF OneAtWork, OneWants
<1>3. CASE UNCHANGED vars \/ \E i \in Item : Expire(i)
  BY <1>3 DEF Expire, vars, plan, progress, history, OneAtWork, OneWants, WorksOn, Wants
<1>. QED BY <1>1, <1>2, <1>3, NextKinds

(* A session that commits changes only its own orders and their items.     *)
LEMMA ChangesItsOrders ==
    ASSUME TypeOK, Structure, NEW s \in Session, Ending(s)
    PROVE  /\ \A i \in Item : reservation'[i] # reservation[i] => WorksOn(s, OrderOf[i])
           /\ \A o \in Order : status'[o] # status[o] => WorksOn(s, o)
<1> USE DEF TypeOK, WorksOn, ItemsOf
<1>1. CASE CommitCreate(s)
  BY <1>1 DEF CommitCreate, Structure, CreatesFreshOrder
<1>2. CASE CommitStatus(s)
  BY <1>2 DEF CommitStatus, Release, Consume
<1>3. CASE CommitCleanup(s)
  BY <1>3 DEF CommitCleanup, Release
<1>4. CASE CommitWallet(s)
  BY <1>4 DEF CommitWallet
<1>5. CASE CommitForce(s)
  BY <1>5 DEF CommitForce, Reserved
<1>6. CASE Rollback(s)
  BY <1>6 DEF Rollback, dbVars
<1>7. CASE CommitReport(s)
  BY <1>7 DEF CommitReport
<1>. QED BY <1>1, <1>2, <1>3, <1>4, <1>5, <1>6, <1>7 DEF Ending

LEMMA SettlesReservedInductive ==
    ASSUME TypeOK, Structure, OneAtWork, SettlesReserved, [Next]_vars
    PROVE  SettlesReserved'
<1> USE DEF SettlesReserved
<1>1. ASSUME NEW s \in Session, Start(s) PROVE SettlesReserved'
  <2>1. op'[s] = "cleanup" => \A i \in active'[s] : reservation[i] = "reserved"
    <3>1. CASE StartCleanup(s)
      BY <3>1 DEF StartCleanup, Overdue, Reserved, TypeOK
    <3>. QED BY <1>1, <3>1, StartKinds
  <2>2. reservation' = reservation
    BY <1>1, Starts DEF dbVars
  <2>. QED BY <1>1, <2>1, <2>2, Starts DEF TypeOK
<1>2. ASSUME NEW s \in Session, UpdateOrder(s) PROVE SettlesReserved'
  BY <1>2 DEF UpdateOrder, TypeOK, dbVars, history
<1>3. ASSUME NEW s \in Session, NEW i \in Item, Handles(s, i)
      PROVE  SettlesReserved'
  <2>1. CASE ReserveItem(s, i)
    BY <2>1 DEF ReserveItem, TypeOK, dbVars, history
  <2>2. CASE FindActive(s, i)
    BY <2>2 DEF FindActive, LooksActive, TypeOK, dbVars, history
  <2>3. CASE Apply(s, i)
    BY <2>3 DEF Apply, TypeOK, dbVars, history
  <2>. QED BY <1>3, <2>1, <2>2, <2>3 DEF Handles
<1>4. ASSUME NEW s \in Session, Ending(s) PROVE SettlesReserved'
  <2> SUFFICES ASSUME NEW t \in Session, NEW i \in active'[t] \cup done'[t],
                      op'[t] \in {"cancel", "transition", "cleanup"},
                      OrderOf[i] \notin contested'
               PROVE  reservation'[i] = "reserved"
    OBVIOUS
  <2>1. /\ op[s] # "idle" /\ t # s /\ op'[t] = op[t] /\ contested' = contested
        /\ active'[t] = active[t] /\ done'[t] = done[t]
    BY <1>4, Ends DEF End, TypeOK
  <2>2. i \in Item /\ OrderOf[i] \in Order /\ WorksOn(t, OrderOf[i])
    BY <2>1, ItemAssumption DEF TypeOK, WorksOn
  <2>3. ~WorksOn(s, OrderOf[i])
    BY <2>1, <2>2 DEF OneAtWork
  <2>4. reservation'[i] = reservation[i]
    BY <1>4, <2>2, <2>3, ChangesItsOrders
  <2>. QED BY <2>1, <2>4
<1>5. CASE UNCHANGED vars \/ \E i \in Item : Expire(i)
  BY <1>5 DEF Expire, vars, dbVars, plan, progress, history
<1>. QED BY <1>1, <1>2, <1>3, <1>4, <1>5, NextKinds

LEMMA StatusIsCurrentInductive ==
    ASSUME TypeOK, Structure, OneAtWork, StatusIsCurrent, [Next]_vars
    PROVE  StatusIsCurrent'
<1> USE DEF StatusIsCurrent
<1>1. ASSUME NEW s \in Session, Start(s) PROVE StatusIsCurrent'
  <2>1. /\ op'[s] \in {"cancel", "transition", "force"} =>
              from'[s] = status[ord'[s]]
        /\ op'[s] \in {"cancel", "transition"} => ~row'[s]
        /\ op'[s] = "wallet" => status[ord'[s]] \in {"pending", "confirmed"}
        /\ op'[s] = "force" => from'[s] \notin {"completed", "refunded"}
    BY <1>1, Starts DEF Start, StartCreate, StartCancel, StartWallet, StartForce,
       StartTransition, StartReport, StartCleanup, Begin, plan, progress, TypeOK,
       Structure, IdleHoldsNothing
  <2>2. status' = status
    BY <1>1, Starts DEF dbVars
  <2>. QED BY <1>1, <2>1, <2>2, Starts DEF TypeOK
<1>2. ASSUME NEW s \in Session, UpdateOrder(s) PROVE StatusIsCurrent'
  BY <1>2 DEF UpdateOrder, TypeOK, dbVars, plan, history
<1>3. ASSUME NEW s \in Session, NEW i \in Item, Handles(s, i)
      PROVE  StatusIsCurrent'
  BY <1>3 DEF Handles, ReserveItem, FindActive, Apply, TypeOK, dbVars, plan, history
<1>4. ASSUME NEW s \in Session, Ending(s) PROVE StatusIsCurrent'
  <2> SUFFICES ASSUME NEW t \in Session, ord'[t] \notin contested',
                      op'[t] \in {"cancel", "transition", "force", "wallet", "report"}
               PROVE  /\ UNCHANGED <<op[t], ord[t], from[t], to[t], row[t]>>
                      /\ contested' = contested /\ status'[ord[t]] = status[ord[t]]
    BY Zenon
  <2>1. /\ op[s] # "idle" /\ t # s /\ contested' = contested
        /\ UNCHANGED <<op[t], ord[t], from[t], to[t], row[t]>>
    BY <1>4, Ends DEF End, TypeOK
  <2>2. ord[t] \in Order /\ WorksOn(t, ord[t])
    BY <2>1 DEF Structure, WorksOnItsOrder, WorksOn
  <2>3. ~WorksOn(s, ord[t])
    BY <2>1, <2>2 DEF OneAtWork
  <2>. QED BY <1>4, <2>1, <2>2, <2>3, ChangesItsOrders
<1>5. CASE UNCHANGED vars \/ \E i \in Item : Expire(i)
  BY <1>5 DEF Expire, vars, dbVars, plan, progress, history
<1>. QED BY <1>1, <1>2, <1>3, <1>4, <1>5, NextKinds

(* What each session does on an order is what it would do alone, while no  *)
(* other works on it.                                                      *)
Undisturbed == OneAtWork /\ OneWants /\ SettlesReserved /\ StatusIsCurrent

THEOREM UndisturbedHolds == Spec => []Undisturbed
<1>1. Init => Undisturbed
  BY DEF Init, Undisturbed, OneAtWork, OneWants, SettlesReserved, StatusIsCurrent, Wants
<1>2. TypeOK /\ Structure /\ Undisturbed /\ [Next]_vars => Undisturbed'
  BY OneAtWorkInductive, SettlesReservedInductive, StatusIsCurrentInductive DEF Undisturbed
<1>. QED BY <1>1, <1>2, StructureHolds, PTL DEF Spec

-----------------------------------------------------------------------------
(* The reserved counter of a variant whose orders are left to one session. *)

(* Two sets of items that agree on a variant ask for the same amount of it.*)
LEMMA AmountOfItsItems ==
    ASSUME NEW S, NEW T, NEW v \in Variant,
           \A i \in Item : VariantOf[i] = v => (i \in S <=> i \in T)
    PROVE  Amount(S, v) = Amount(T, v)
<1>1. UnitsOf(S, v) = UnitsOf(T, v)
  BY DEF UnitsOf
<1>. QED BY <1>1 DEF Amount

(* A settling session takes out of Counted exactly what it takes off the   *)
(* counter.                                                                *)
LEMMA SettlingIsExact ==
    ASSUME TypeOK, Structure, SettlesReserved, NEW v \in Variant, Quiet(v),
           NEW s \in Session, CommitStatus(s) \/ CommitCleanup(s)
    PROVE  Amount(Counted', v) = Amount(Counted, v) - Amount(done[s], v)
<1> DEFINE D == done[s] \cap Reserved
<1>1. op[s] \in {"cancel", "transition", "cleanup"}
  BY DEF CommitStatus, CommitCleanup
<1>2. \A i \in Item : VariantOf[i] = v => (i \in done[s] <=> i \in D)
  BY <1>1 DEF SettlesReserved, Quiet, Reserved
<1>3. Amount(done[s], v) = Amount(D, v)
  BY <1>2, AmountOfItsItems
<1>4. D \cap leaked = {}
  BY DEF Structure, TakenIsSettled, Reserved
<1>5. Counted' = (Reserved \ D) \cup leaked
  BY CountedSteps
<1>6. Counted = Counted' \cup D /\ Counted' \cap D = {}
  BY <1>4, <1>5 DEF Counted
<1>7. Amount(Counted, v) = Amount(Counted', v) + Amount(D, v)
  BY <1>6, AmountUnion
<1>8. Amount(Counted', v) \in Nat /\ Amount(D, v) \in Nat
  BY UnitsFinite
<1>. QED BY <1>3, <1>7, <1>8

LEMMA ContestedGrows ==
    ASSUME TypeOK, Structure, [Next]_vars
    PROVE  contested \subseteq contested' /\ raced \subseteq raced'
<1>1. CASE UNCHANGED vars \/ \E i \in Item : Expire(i)
  BY <1>1 DEF vars, Expire, history
<1>. QED BY <1>1, NextKinds, Starts, StaysOnItsOrders

LEMMA ExactInductive ==
    ASSUME TypeOK, Structure, SettlesReserved, ReservedExact, [Next]_vars
    PROVE  ReservedExact'
<1> SUFFICES ASSUME NEW v \in Variant, Quiet(v)'
             PROVE  reserved'[v] = Amount(Counted', v)
  BY DEF ReservedExact, Amount, UnitsOf
<1>0. Quiet(v) /\ reserved[v] = Amount(Counted, v)
  BY ContestedGrows DEF ReservedExact, Quiet
<1>1. CASE AccountsUnchanged
  BY <1>0, <1>1 DEF AccountsUnchanged, Counted, Reserved
<1>2. ASSUME NEW s \in Session, CommitStatus(s) \/ CommitCleanup(s)
      PROVE  reserved'[v] = Amount(Counted', v)
  BY <1>0, <1>2, CounterSteps, SettlingIsExact
<1>3. ASSUME NEW s \in Session, CommitCreate(s)
      PROVE  reserved'[v] = Amount(Counted', v)
  <2>1. Amount(Counted', v) = Amount(Counted, v) + Amount(done[s], v)
    BY <1>3, CountedSteps, AmountUnion
  <2>. QED BY <1>0, <1>3, <2>1, CounterSteps
<1>4. ASSUME NEW s \in Session, CommitForce(s)
      PROVE  reserved'[v] = Amount(Counted', v)
  BY <1>0, <1>4, CounterSteps, CountedSteps
<1>. QED BY <1>1, <1>2, <1>3, <1>4, StepKinds

(* The reserved counter of a variant is exactly what its live reservations *)
(* ask for and what forced cancellations have left in it, whatever dies on *)
(* the way and whatever happens to other variants' orders, as long as no   *)
(* order that asks for the variant is worked on by two sessions at once.   *)
THEOREM CounterIsExact == Spec => []ReservedExact
<1>1. Init => ReservedExact
  <2> SUFFICES ASSUME Init, NEW v \in Variant
               PROVE  reserved[v] = Amount(Counted, v)
    BY DEF ReservedExact
  <2>1. Counted = {} /\ reserved[v] = 0
    BY DEF Init, Counted, Reserved
  <2>. QED BY <2>1, NothingHasNoUnits
<1>2. TypeOK /\ Structure /\ Undisturbed /\ ReservedExact /\ [Next]_vars => ReservedExact'
  BY ExactInductive DEF Undisturbed
<1>. QED BY <1>1, <1>2, StructureHolds, UndisturbedHolds, PTL DEF Spec

-----------------------------------------------------------------------------
(* No more units are promised than there are, of a variant that no two     *)
(* create_orders want at once.                                             *)

(* What a request has promised so far is there, and there is as much of    *)
(* the variant it remembers as it remembers, or more: what the others do   *)
(* meanwhile only gives units back.                                        *)
PromisesCovered ==
    \A s \in Session : op[s] = "create" => \A v \in Variant \ raced :
        /\ Wants(s, v) => Amount(done[s], v) <= inventory[v] - reserved[v]
        /\ v = pinned[s] => Wants(s, v) /\ seen[s] <= inventory[v] - reserved[v]

Covered == PromisesKept /\ PromisesCovered

(* The units of a variant that are free to be promised.                    *)
Free(v) == inventory[v] - reserved[v]

LEMMA FreeIsInt ==
    ASSUME TypeOK, NEW v \in Variant
    PROVE  Free(v) \in Int /\ (reserved[v] <= inventory[v] <=> Free(v) >= 0)
  BY DEF TypeOK, Free

(* Nothing but a create_order takes from the free units.                   *)
LEMMA FreeSteps ==
    ASSUME TypeOK, Structure, [Next]_vars, NEW v \in Variant
    PROVE  \/ Free(v)' >= Free(v)
           \/ \E s \in Session : CommitCreate(s) /\ Wants(s, v)
                /\ Free(v)' = Free(v) - Amount(done[s], v)
<1>0. Free(v) \in Int
  BY FreeIsInt
<1>1. CASE AccountsUnchanged
  BY <1>0, <1>1 DEF AccountsUnchanged, Free
<1>2. ASSUME NEW s \in Session, CommitStatus(s) \/ CommitCleanup(s)
      PROVE  Free(v)' >= Free(v)
  <2>1. inventory'[v] = inventory[v] \/ inventory'[v] = inventory[v] - Amount(done[s], v)
    BY <1>2 DEF CommitStatus, CommitCleanup, Release, Consume
  <2>2. inventory[v] \in Int
    BY DEF TypeOK
  <2>. QED BY <1>2, <2>1, <2>2, CounterSteps DEF Free
<1>3. ASSUME NEW s \in Session, CommitForce(s)
      PROVE  Free(v)' >= Free(v)
  BY <1>0, <1>3 DEF CommitForce, Free
<1>4. ASSUME NEW s \in Session, CommitCreate(s)
      PROVE  \/ Free(v)' >= Free(v)
             \/ Wants(s, v) /\ Free(v)' = Free(v) - Amount(done[s], v)
  <2>1. /\ reserved'[v] = reserved[v] + Amount(done[s], v) /\ inventory' = inventory
        /\ inventory[v] \in Int /\ reserved[v] \in Int /\ Amount(done[s], v) \in Nat
    BY <1>4, CounterSteps DEF CommitCreate, TypeOK
  <2>2. Free(v)' = Free(v) - Amount(done[s], v)
    BY <2>1 DEF Free
  <2>3. CASE ~Wants(s, v)
    <3>1. \A i \in Item : VariantOf[i] = v => (i \in done[s] <=> i \in {})
      BY <1>4, <2>3 DEF Wants, CommitCreate
    <3>2. Amount(done[s], v) = 0
      BY <3>1, AmountOfItsItems, NothingHasNoUnits
    <3>. QED BY <1>0, <2>2, <3>2
  <2>. QED BY <2>2, <2>3
<1>. QED BY <1>1, <1>2, <1>3, <1>4, StepKinds

(* A promise stays covered while its order is at work, whatever the others *)
(* do.                                                                     *)
LEMMA StaysCovered ==
    ASSUME TypeOK, Structure, OneWants, Covered, [Next]_vars,
           NEW t \in Session, op[t] = "create", op'[t] = "create",
           NEW v \in Variant, v \notin raced', Wants(t, v)
    PROVE  Free(v)' >= Free(v)
<1>1. v \notin raced
  BY ContestedGrows
<1>2. ASSUME NEW s \in Session, CommitCreate(s), Wants(s, v)
      PROVE  FALSE
  <2>1. s = t
    BY <1>1, <1>2 DEF OneWants
  <2>. QED BY <1>2, <2>1 DEF CommitCreate, End, TypeOK
<1>. QED BY <1>2, FreeSteps

LEMMA KeptInductive ==
    ASSUME TypeOK, TypeOK', Structure, Covered, [Next]_vars
    PROVE  PromisesKept'
<1> SUFFICES ASSUME NEW v \in Variant, v \notin raced'
             PROVE  reserved'[v] <= inventory'[v]
  BY DEF PromisesKept
<1>1. v \notin raced /\ Free(v) \in Int /\ Free(v)' \in Int
  BY ContestedGrows, FreeIsInt DEF TypeOK, Free
<1>2. Free(v) >= 0
  BY <1>1, FreeIsInt DEF Covered, PromisesKept
<1>3. ASSUME NEW s \in Session, CommitCreate(s), Wants(s, v),
             Free(v)' = Free(v) - Amount(done[s], v)
      PROVE  Free(v)' >= 0
  <2>1. Amount(done[s], v) <= Free(v) /\ Amount(done[s], v) \in Nat
    BY <1>1, <1>3, UnitsFinite DEF Covered, PromisesCovered, CommitCreate, Free
  <2>. QED BY <1>1, <1>3, <2>1
<1>4. Free(v)' >= 0
  BY <1>1, <1>2, <1>3, FreeSteps
<1>. QED BY <1>4 DEF Free, TypeOK

(* A create_order begins with nothing promised, and reads what is free.    *)
LEMMA CoveredStarts ==
    ASSUME TypeOK, Structure, Covered, NEW s \in Session, Start(s),
           op'[s] = "create", NEW v \in Variant, v \notin raced'
    PROVE  /\ Wants(s, v)' => Amount(done'[s], v) <= Free(v)'
           /\ v = pinned'[s] => Wants(s, v)' /\ seen'[s] <= Free(v)'
<1>1. PICK o \in Order : StartCreate(s, o)
  BY StartKinds
<1>2. v \notin raced /\ Free(v)' = Free(v) /\ done'[s] = {}
  BY Starts DEF Free, dbVars
<1>3. Amount(done'[s], v) = 0
  BY <1>2, NothingHasNoUnits
<1>4. Free(v) \in Int /\ Free(v) >= 0
  BY <1>2, FreeIsInt DEF Covered, PromisesKept
<1>5. v = pinned'[s] => seen'[s] = Free(v) /\ Wants(s, v)'
  BY <1>1 DEF StartCreate, TypeOK, Free, Wants
<1>. QED BY <1>2, <1>3, <1>4, <1>5

(* An item is reserved only as far as the free units go.                   *)
LEMMA CoveredReserves ==
    ASSUME TypeOK, Covered, NEW s \in Session, NEW i \in Item, ReserveItem(s, i),
           NEW v \in Variant, v \notin raced, Wants(s, v)
    PROVE  Amount(done'[s], v) <= Free(v)
<1>1. done'[s] = done[s] \cup {i} /\ op[s] = "create"
  BY DEF ReserveItem, TypeOK
<1>2. /\ Amount(done[s], v) <= Free(v)
      /\ v = pinned[s] => seen[s] <= Free(v)
  BY <1>1 DEF Covered, PromisesCovered, Free
<1>3. /\ Free(v) \in Int /\ seen[s] \in Int /\ Qty[i] \in Nat
      /\ Amount(done[s], v) \in Nat /\ Amount(done'[s], v) \in Nat
  BY UnitsFinite, UnitsOfOne, FreeIsInt DEF TypeOK
<1>4. v = VariantOf[i] => Free(v) - Amount(done[s], v) >= Qty[i]
  BY <1>2, <1>3 DEF ReserveItem, Available, Free
<1>5. v = VariantOf[i] => Amount(done'[s], v) <= Amount(done[s], v) + Qty[i]
  BY <1>1, AmountAdd
<1>6. v # VariantOf[i] => Amount(done'[s], v) = Amount(done[s], v)
  BY <1>1, AmountAdd
<1>. QED BY <1>2, <1>3, <1>4, <1>5, <1>6

LEMMA CoveredInductive ==
    ASSUME TypeOK, TypeOK', Structure, OneWants, Covered, [Next]_vars
    PROVE  PromisesCovered'
<1> SUFFICES ASSUME NEW t \in Session, op'[t] = "create",
                    NEW v \in Variant, v \notin raced'
             PROVE  /\ Wants(t, v)' => Amount(done'[t], v) <= Free(v)'
                    /\ v = pinned'[t] => Wants(t, v)' /\ seen'[t] <= Free(v)'
  BY DEF PromisesCovered, Free, Amount, UnitsOf
<1>0. v \notin raced /\ Free(v) \in Int /\ Free(v)' \in Int
  BY ContestedGrows, FreeIsInt DEF TypeOK, Free
<1>1. ASSUME op[t] = "create", pinned'[t] = pinned[t], seen'[t] = seen[t],
             Wants(t, v)' <=> Wants(t, v),
             Wants(t, v) => Amount(done'[t], v) <= Free(v)
      PROVE  /\ Wants(t, v)' => Amount(done'[t], v) <= Free(v)'
             /\ v = pinned'[t] => Wants(t, v)' /\ seen'[t] <= Free(v)'
  <2>1. v = pinned[t] => Wants(t, v) /\ seen[t] <= Free(v)
    BY <1>0, <1>1 DEF Covered, PromisesCovered, Free
  <2>2. Wants(t, v) => Free(v)' >= Free(v)
    BY <1>1, StaysCovered
  <2>3. seen[t] \in Int /\ Amount(done'[t], v) \in Nat
    BY UnitsFinite DEF TypeOK
  <2>. QED BY <1>0, <1>1, <2>1, <2>2, <2>3
<1>2. ASSUME op[t] = "create",
             UNCHANGED <<pinned[t], seen[t], todo[t], done[t]>>
      PROVE  /\ Wants(t, v)' => Amount(done'[t], v) <= Free(v)'
             /\ v = pinned'[t] => Wants(t, v)' /\ seen'[t] <= Free(v)'
  <2>1. Wants(t, v) => Amount(done[t], v) <= Free(v)
    BY <1>0, <1>2 DEF Covered, PromisesCovered, Free
  <2>2. Wants(t, v)' <=> Wants(t, v)
    BY <1>2 DEF Wants
  <2>. QED BY <1>1, <1>2, <2>1, <2>2
<1>3. ASSUME NEW s \in Session, Start(s) PROVE
             /\ Wants(t, v)' => Amount(done'[t], v) <= Free(v)'
             /\ v = pinned'[t] => Wants(t, v)' /\ seen'[t] <= Free(v)'
  <2>1. CASE s = t
    BY <1>3, <2>1, CoveredStarts
  <2>2. CASE s # t
    BY <1>2, <1>3, <2>2, Starts DEF TypeOK
  <2>. QED BY <2>1, <2>2
<1>4. ASSUME NEW i \in Item, ReserveItem(t, i) PROVE
             /\ Wants(t, v)' => Amount(done'[t], v) <= Free(v)'
             /\ v = pinned'[t] => Wants(t, v)' /\ seen'[t] <= Free(v)'
  <2>1. /\ op[t] = "create" /\ pinned'[t] = pinned[t] /\ seen'[t] = seen[t]
        /\ Wants(t, v)' <=> Wants(t, v)
    BY <1>4 DEF ReserveItem, plan, Wants, TypeOK
  <2>2. Wants(t, v) => Amount(done'[t], v) <= Free(v)
    BY <1>0, <1>4, CoveredReserves
  <2>. QED BY <1>1, <2>1, <2>2
<1>5. ASSUME NEW s \in Session, NEW i \in Item, Handles(s, i), ~ReserveItem(t, i)
      PROVE  /\ Wants(t, v)' => Amount(done'[t], v) <= Free(v)'
             /\ v = pinned'[t] => Wants(t, v)' /\ seen'[t] <= Free(v)'
  <2>1. op[t] = "create" /\ UNCHANGED <<pinned[t], seen[t], todo[t], done[t]>>
    BY <1>5 DEF Handles, ReserveItem, FindActive, Apply, plan, TypeOK, Structure,
                CreatesFreshOrder
  <2>. QED BY <1>2, <2>1
<1>6. ASSUME NEW s \in Session, UpdateOrder(s) \/ Ending(s)
      PROVE  /\ Wants(t, v)' => Amount(done'[t], v) <= Free(v)'
             /\ v = pinned'[t] => Wants(t, v)' /\ seen'[t] <= Free(v)'
  <2>1. CASE UpdateOrder(s)
    BY <1>2, <2>1 DEF UpdateOrder, NeedsRow, plan, TypeOK
  <2>2. CASE Ending(s)
    BY <1>2, <2>2, Ends DEF End, TypeOK
  <2>. QED BY <1>6, <2>1, <2>2
<1>7. CASE UNCHANGED vars \/ \E i \in Item : Expire(i)
  BY <1>2, <1>7 DEF Expire, vars, plan, progress
<1>. QED BY <1>3, <1>4, <1>5, <1>6, <1>7, NextKinds

(* What each create_order has promised so far, and what it remembers of    *)
(* the stock, is covered in every reachable state.                         *)
THEOREM CoveredHolds == Spec => []Covered
<1>1. Init => Covered
  BY ItemAssumption DEF Init, Covered, PromisesKept, PromisesCovered
<1>2. TypeOK /\ TypeOK' /\ Structure /\ Undisturbed /\ Covered /\ [Next]_vars => Covered'
  BY KeptInductive, CoveredInductive DEF Covered, Undisturbed
<1>. QED BY <1>1, <1>2, StructureHolds, UndisturbedHolds, PTL DEF Spec

(* No more units of a variant are promised than there are, as long as no   *)
(* two create_orders want it at once, even if other sessions settle, force *)
(* and release orders of the variant at the same time, or die.             *)
THEOREM KeepsPromises == Spec => []PromisesKept
<1>1. Covered => PromisesKept
  BY DEF Covered
<1>. QED BY <1>1, CoveredHolds, PTL

(* Then the live reservations themselves, and not only the counter, ask    *)
(* for no more than the inventory has.                                     *)
NothingOversold ==
    \A v \in Variant \ raced : Quiet(v) => Amount(Reserved, v) <= inventory[v]

THEOREM NeverOversells == Spec => []NothingOversold
<1>1. TypeOK /\ ReservedExact /\ PromisesKept => NothingOversold
  <2> SUFFICES ASSUME TypeOK, ReservedExact, PromisesKept,
                      NEW v \in Variant, v \notin raced, Quiet(v)
               PROVE  Amount(Reserved, v) <= inventory[v]
    BY DEF NothingOversold
  <2>1. Amount(Reserved, v) <= Amount(Counted, v)
    BY AmountMonotone DEF Counted
  <2>2. Amount(Counted, v) <= inventory[v]
    BY DEF ReservedExact, PromisesKept
  <2>3. Amount(Reserved, v) \in Nat /\ Amount(Counted, v) \in Nat /\ inventory[v] \in Int
    BY UnitsFinite DEF TypeOK
  <2>. QED BY <2>1, <2>2, <2>3
<1>. QED BY <1>1, TypeCorrect, CounterIsExact, KeepsPromises, PTL

-----------------------------------------------------------------------------
(* What never changes back, as long as no two sessions work on the order.  *)

(* A reservation that was released or consumed stays so.                   *)
THEOREM SettledForGood == Spec => SettledStays
<1>1. ASSUME TypeOK, Structure, SettlesReserved, [Next]_vars,
             NEW i \in Item, OrderOf[i] \notin contested,
             reservation[i] \in {"released", "consumed"}
      PROVE  reservation'[i] = reservation[i]
  <2>1. CASE AccountsUnchanged
    BY <2>1 DEF AccountsUnchanged
  <2>2. ASSUME NEW s \in Session, CommitCreate(s)
        PROVE  reservation'[i] = reservation[i]
    BY <1>1, <2>2 DEF CommitCreate, Structure, CreatesFreshOrder, AbsentHasNone,
                      ItemsOf
  <2>3. ASSUME NEW s \in Session, CommitStatus(s) \/ CommitCleanup(s)
        PROVE  reservation'[i] = reservation[i]
    <3>1. i \notin done[s]
      BY <1>1, <2>3 DEF CommitStatus, CommitCleanup, SettlesReserved
    <3>. QED BY <2>3, <3>1 DEF CommitStatus, CommitCleanup, Release, Consume
  <2>4. ASSUME NEW s \in Session, CommitForce(s)
        PROVE  reservation'[i] = reservation[i]
    BY <1>1, <2>4 DEF CommitForce, Reserved
  <2>. QED BY <1>1, <2>1, <2>2, <2>3, <2>4, StepKinds
<1>2. TypeOK /\ Structure /\ Undisturbed /\ [Next]_vars =>
        \A i \in Item : /\ OrderOf[i] \notin contested
                        /\ reservation[i] \in {"released", "consumed"}
                        => reservation'[i] = reservation[i]
  BY <1>1 DEF Undisturbed
<1>. QED BY <1>2, StructureHolds, UndisturbedHolds, PTL DEF Spec, SettledStays

(* An order leaves its lifecycle only on the platform's word: the status   *)
(* that any other request validated is still the one it replaces, an       *)
(* administrator's check included.                                         *)
THEOREM LifecycleFollowed == Spec => FollowsLifecycle
<1> DEFINE Allowed(o) ==
        status[o] \notin {"absent", status'[o]}
            => \/ status'[o] \in ValidNext[status[o]]
               \/ status[o] = "pending" /\ status'[o] = "paid"
               \/ ForcedToCancel(o)
               \/ ToldByPlatform(o)
<1>1. ASSUME TypeOK, Structure, StatusIsCurrent, [Next]_vars,
             NEW o \in Order, o \notin contested
      PROVE  Allowed(o)
  <2>1. CASE UNCHANGED status
    BY <2>1
  <2>2. ASSUME NEW s \in Session, CommitCreate(s) PROVE Allowed(o)
    BY <1>1, <2>2 DEF CommitCreate, Structure, CreatesFreshOrder, TypeOK
  <2>3. ASSUME NEW s \in Session, CommitStatus(s) PROVE Allowed(o)
    <3>1. o = ord[s] => from[s] = status[o] /\ CanTransition(from[s], to[s])
      BY <1>1, <2>3 DEF CommitStatus, StatusIsCurrent
    <3>2. status' = [status EXCEPT ![ord[s]] = to[s]]
      BY <2>3 DEF CommitStatus
    <3>. QED BY <1>1, <3>1, <3>2 DEF CanTransition, TypeOK
  <2>4. ASSUME NEW s \in Session, CommitWallet(s) PROVE Allowed(o)
    <3>1. o = ord[s] => status[o] \in {"pending", "confirmed"}
      BY <1>1, <2>4 DEF CommitWallet, StatusIsCurrent
    <3>2. status' = [status EXCEPT ![ord[s]] = "paid"]
      BY <2>4 DEF CommitWallet
    <3>. QED BY <1>1, <3>1, <3>2 DEF TypeOK, ValidNext, OrderStatus
  <2>5. ASSUME NEW s \in Session, CommitForce(s) PROVE Allowed(o)
    <3>1. o = ord[s] => status[o] \notin {"completed", "refunded"}
      BY <1>1, <2>5 DEF CommitForce, StatusIsCurrent
    <3>. QED BY <1>1, <2>5, <3>1 DEF CommitForce, ForcedToCancel, TypeOK
  <2>8. ASSUME NEW s \in Session, CommitReport(s) PROVE Allowed(o)
    BY <1>1, <2>8 DEF CommitReport, ToldByPlatform, TypeOK
  <2>6. ASSUME NEW s \in Session,
               \/ Start(s) \/ UpdateOrder(s) \/ CommitCleanup(s) \/ Rollback(s)
               \/ \E i \in Item : Handles(s, i)
        PROVE  UNCHANGED status
    BY <2>6 DEF Start, StartCreate, StartCancel, StartWallet, StartTransition,
       StartReport, StartForce, StartCleanup, UpdateOrder, CommitCleanup, Rollback,
       Handles, ReserveItem, FindActive, Apply, dbVars
  <2>7. ASSUME (\E i \in Item : Expire(i)) \/ UNCHANGED vars
        PROVE  UNCHANGED status
    BY <2>7 DEF Expire, vars, dbVars
  <2>. QED BY <1>1, <2>1, <2>2, <2>3, <2>4, <2>5, <2>6, <2>7, <2>8, NextKinds
       DEF Ending
<1>2. TypeOK /\ Structure /\ Undisturbed /\ [Next]_vars
        => \A o \in Order \ contested : Allowed(o)
  BY <1>1 DEF Undisturbed
<1>. QED BY <1>2, StructureHolds, UndisturbedHolds, PTL DEF Spec, FollowsLifecycle

-----------------------------------------------------------------------------
(***************************************************************************)
(* Progress, as far as safety goes: a session that is at work has a step   *)
(* to take, or waits for another that has, or is in a deadlock.            *)
(***************************************************************************)

(* Session s can take one of its steps: the guards of Step(s), without the *)
(* abort of a deadlock.                                                    *)
Ready(s) ==
    \/ op[s] = "create" /\ todo[s] = {}
    \/ op[s] = "create" /\ \E i \in todo[s] : VariantFree(s, VariantOf[i])
    \/ op[s] \in {"cancel", "transition"} /\ active[s] = {} /\ todo[s] # {}
          /\ (op[s] = "transition" => row[s])
    \/ \E i \in active[s] : VariantFree(s, VariantOf[i])
    \/ op[s] = "cancel" /\ todo[s] = {} /\ active[s] = {} /\ ~CanTransition(from[s], to[s])
    \/ NeedsRow(s) /\ RowFree(s, ord[s])
          /\ (op[s] \in {"cancel", "transition"} => CanTransition(from[s], to[s]))
    \/ op[s] \in {"cancel", "transition"} /\ row[s] /\ todo[s] = {} /\ active[s] = {}
    \/ op[s] = "cleanup" /\ active[s] = {}
    \/ op[s] = "wallet"
    \/ op[s] = "report" /\ row[s]
    \/ op[s] = "force" /\ row[s] /\ \A t \in Session \ {s} : ~HoldsReservation(t, ord[s])

AtWork == {s \in Session : op[s] # "idle"}

NeverStuck ==
    \A s \in AtWork : Deadlocked(s) \/ \E t \in AtWork : Ready(t)

(* A session that cannot go on waits for a lock, and a session at work     *)
(* holds it.                                                               *)
LEMMA WaitsForSomeone ==
    ASSUME TypeOK, Structure, NEW s \in AtWork, ~Ready(s)
    PROVE  \E t \in AtWork \ {s} : WaitsFor(s, t)
<1> USE DEF Ready, WaitsFor
<1>1. \A t \in Session : done[t] # {} \/ row[t] => t \in AtWork
  BY DEF AtWork, Structure, IdleHoldsNothing
<1>2. \A t \in Session, v \in Variant : HoldsVariant(t, v) => t \in AtWork
  BY <1>1 DEF HoldsVariant
<1>3. s \in Session /\ op[s] \in Op
  BY DEF AtWork, TypeOK
<1>4. ASSUME NEW i \in active[s] PROVE \E t \in AtWork \ {s} : WaitsFor(s, t)
  <2>1. ~VariantFree(s, VariantOf[i]) /\ VariantOf[i] \in Variant
    BY <1>3, ItemAssumption DEF TypeOK
  <2>. QED BY <1>2, <2>1 DEF VariantFree
<1>5. CASE op[s] = "create"
  <2>1. PICK i \in todo[s] : ~VariantFree(s, VariantOf[i])
    BY <1>5
  <2>2. VariantOf[i] \in Variant
    BY <1>3, ItemAssumption DEF TypeOK
  <2>. QED BY <1>2, <1>5, <2>1, <2>2 DEF VariantFree
<1>6. ASSUME NeedsRow(s), op[s] \in {"cancel", "transition"} => CanTransition(from[s], to[s])
      PROVE  \E t \in AtWork \ {s} : WaitsFor(s, t)
  <2>1. ~RowFree(s, ord[s])
    BY <1>6
  <2>. QED BY <1>1, <1>6, <2>1 DEF RowFree, HoldsRow
<1>7. CASE op[s] = "cancel"
  BY <1>4, <1>6, <1>7 DEF NeedsRow
<1>8. CASE op[s] = "transition"
  <2>1. /\ ~row[s] => todo[s] = {} /\ active[s] = {}
        /\ CanTransition(from[s], to[s])
    BY <1>3, <1>8 DEF Structure, WorksOnItsOrder
  <2>. QED BY <1>4, <1>6, <1>8, <2>1 DEF NeedsRow
<1>9. CASE op[s] = "force"
  <2>1. todo[s] = {} /\ active[s] = {}
    BY <1>3, <1>9 DEF Structure, WorksOnItsOrder
  <2>2. ASSUME row[s] PROVE \E t \in AtWork \ {s} : WaitsFor(s, t)
    <3>1. PICK t \in Session \ {s} : HoldsReservation(t, ord[s])
      BY <1>9, <2>2
    <3>. QED BY <1>1, <1>9, <2>2, <3>1 DEF HoldsReservation
  <2>. QED BY <1>6, <1>9, <2>1, <2>2 DEF NeedsRow
<1>10. CASE op[s] = "cleanup"
  BY <1>4, <1>10
<1>11. CASE op[s] = "report"
  <2>1. todo[s] = {} /\ active[s] = {}
    BY <1>3, <1>11 DEF Structure, WorksOnItsOrder
  <2>. QED BY <1>6, <1>11, <2>1 DEF NeedsRow
<1>. QED BY <1>3, <1>5, <1>7, <1>8, <1>9, <1>10, <1>11 DEF Op

(* Whatever locks the sessions hold, one of those at work can go on, or    *)
(* PostgreSQL finds the deadlock that all of them are in: no request hangs *)
(* for a reason that nobody would clear.                                   *)
THEOREM SomeoneGoesOn == Spec => []NeverStuck
<1>1. TypeOK /\ Structure => NeverStuck
  <2> SUFFICES ASSUME TypeOK, Structure, NEW s \in AtWork,
                      \A t \in AtWork : ~Ready(t)
               PROVE  Deadlocked(s)
    BY DEF NeverStuck
  <2>1. \A t \in AtWork : \E u \in AtWork \ {t} : WaitsFor(t, u)
    BY WaitsForSomeone
  <2>2. AtWork \in SUBSET Session
    BY DEF AtWork
  <2>. QED BY <2>1, <2>2 DEF Deadlocked
<1>. QED BY <1>1, StructureHolds, PTL

-----------------------------------------------------------------------------
(***************************************************************************)
(* The refinement of StockLedger: what each commit does is one transaction *)
(* of the ledger.                                                          *)
(***************************************************************************)

(* An order is created with all of its items, and a request that does not  *)
(* mark its order paid settles none.                                       *)
WholeOrders ==
    /\ \A s \in Session : op[s] = "create" => ItemsOf(ord[s]) \subseteq todo[s] \cup done[s]
    /\ \A s \in Session : op[s] = "transition" /\ to[s] # "paid" =>
          todo[s] \cup active[s] \cup done[s] = {}

LEMMA WholeOrdersInductive ==
    ASSUME TypeOK, Structure, WholeOrders, [Next]_vars
    PROVE  WholeOrders'
<1> USE DEF WholeOrders, ItemsOf
<1>1. ASSUME NEW s \in Session, Start(s) PROVE WholeOrders'
  <2>1. op'[s] = "create" => ItemsOf(ord'[s]) \subseteq todo'[s]
    <3>1. ASSUME NEW o \in Order, StartCreate(s, o)
          PROVE  ord'[s] = o /\ todo'[s] = ItemsOf(o)
      BY <3>1 DEF StartCreate, TypeOK
    <3>. QED BY <1>1, <3>1, StartKinds
  <2>2. op'[s] = "transition" => todo'[s] \cup active'[s] \cup done'[s] = {}
    BY <1>1 DEF Start, StartCreate, StartCancel, StartWallet, StartForce, Begin,
       StartTransition, StartReport, StartCleanup, plan, progress, TypeOK, Structure, IdleHoldsNothing
  <2>. QED BY <1>1, <2>1, <2>2, Starts DEF TypeOK
<1>2. ASSUME NEW s \in Session, UpdateOrder(s) PROVE WholeOrders'
  BY <1>2 DEF UpdateOrder, NeedsRow, Consumes, TypeOK, plan
<1>3. ASSUME NEW s \in Session, NEW i \in Item, Handles(s, i) PROVE WholeOrders'
  <2>1. CASE ReserveItem(s, i)
    BY <2>1 DEF ReserveItem, TypeOK, plan
  <2>2. CASE FindActive(s, i)
    BY <2>2 DEF FindActive, TypeOK, plan
  <2>3. CASE Apply(s, i)
    BY <2>3 DEF Apply, TypeOK, plan
  <2>. QED BY <1>3, <2>1, <2>2, <2>3 DEF Handles
<1>4. ASSUME NEW s \in Session, Ending(s) PROVE WholeOrders'
  BY <1>4, Ends DEF End, TypeOK
<1>5. CASE UNCHANGED vars \/ \E i \in Item : Expire(i)
  BY <1>5 DEF Expire, vars, plan, progress
<1>. QED BY <1>1, <1>2, <1>3, <1>4, <1>5, NextKinds

THEOREM WholeOrdersHold == Spec => []WholeOrders
<1>1. Init => WholeOrders
  BY DEF Init, WholeOrders
<1>. QED BY <1>1, WholeOrdersInductive, StructureHolds, PTL DEF Spec

(* The ledger counts units as the counters do.                             *)
LEMMA SameAmount == \A S, v : Ledger!Units(S, v) = Amount(S, v)
<1> SUFFICES ASSUME NEW S, NEW v PROVE Ledger!Units(S, v) = Amount(S, v)
  OBVIOUS
<1> DEFINE U == UNION {{i} \X {n \in 1..MaxQty : n <= Qty[i]} :
                          i \in {j \in Item : j \in S /\ VariantOf[j] = v}}
<1>1. U = UnitsOf(S, v)
  <2>1. \A u \in U : u \in UnitsOf(S, v)
    BY DEF UnitsOf
  <2>2. ASSUME NEW u \in UnitsOf(S, v) PROVE u \in U
    <3>1. PICK i \in Item, n \in 1..MaxQty : u = <<i, n>>
      BY DEF UnitsOf
    <3>2. i \in S /\ VariantOf[i] = v /\ n <= Qty[i]
      BY <3>1 DEF UnitsOf
    <3>. QED BY <3>1, <3>2
  <2>. QED BY <2>1, <2>2
<1>2. \A T : Ledger!Cardinality(T) = Cardinality(T)
  BY DEF Ledger!Cardinality, Cardinality
<1>3. Ledger!Units(S, v) = Cardinality(U)
  BY <1>2 DEF Ledger!Units
<1>. QED BY <1>1, <1>3 DEF Amount

(* What sessions in the middle of their work do to the ledger.             *)
LEMMA OverlapsOnly ==
    ASSUME TypeOK, TypeOK', Structure, [Next]_vars, AccountsUnchanged
    PROVE  Ledger!Next
<1>1. Ledger!Overlap
  BY ContestedGrows DEF Ledger!Overlap, Ledger!counters, AccountsUnchanged, TypeOK
<1>. QED BY <1>1 DEF Ledger!Next

LEMMA CreateMaps ==
    ASSUME TypeOK, TypeOK', Structure, Covered, WholeOrders, [Next]_vars,
           NEW s \in Session, CommitCreate(s)
    PROVE  Ledger!Next
<1>1. PICK o \in Order : o = ord[s]
  BY DEF CommitCreate, Structure, CreatesFreshOrder
<1>2. done[s] = Ledger!Lines(o)
  BY <1>1 DEF CommitCreate, Structure, CreatesFreshOrder, WholeOrders, ItemsOf,
              Ledger!Lines
<1>3. \A i \in Ledger!Lines(o) : reservation[i] = "none"
  BY <1>1 DEF CommitCreate, Structure, CreatesFreshOrder, AbsentHasNone, Ledger!Lines
<1>4. Ledger!Mark(Ledger!Lines(o), "reserved")
  BY <1>2 DEF CommitCreate, Ledger!Mark
<1>5. reserved' = [v \in Variant |-> reserved[v] + Ledger!Units(Ledger!Lines(o), v)]
  BY <1>2, SameAmount DEF CommitCreate
<1>6. UNCHANGED <<inventory, taken, leaked, contested, raced>>
  BY DEF CommitCreate, history
<1>7. \A v \in Variant \ raced : reserved'[v] <= inventory[v]
  BY <1>6, KeptInductive DEF PromisesKept
<1>8. Ledger!Promise(o)
  BY <1>3, <1>4, <1>5, <1>6, <1>7 DEF Ledger!Promise, Ledger!overlaps
<1>. QED BY <1>8 DEF Ledger!Next

(* Items that a session has in hand and releases are given back ...        *)
LEMMA ReleaseMaps ==
    ASSUME TypeOK, SettlesReserved, NEW s \in Session, Release(done[s]),
           op[s] \in {"cancel", "cleanup"}, UNCHANGED <<leaked, contested, raced>>
    PROVE  Ledger!Next
<1>1. PICK S \in SUBSET Item : S = done[s]
  BY DEF TypeOK
<1>2. Ledger!InHand(S)
  BY <1>1 DEF SettlesReserved, Ledger!InHand
<1>3. Ledger!Mark(S, "released")
  BY <1>1 DEF Release, Ledger!Mark
<1>4. reserved' = [v \in Variant |-> reserved[v] - Ledger!Units(S, v)]
  BY <1>1, SameAmount DEF Release
<1>5. Ledger!GiveBack(S)
  BY <1>2, <1>3, <1>4 DEF Release, Ledger!GiveBack, Ledger!overlaps
<1>. QED BY <1>5 DEF Ledger!Next

(* ... and those of an order that it marks paid are sold.                  *)
LEMMA ConsumeMaps ==
    ASSUME TypeOK, Structure, SettlesReserved, PaysWhatItSettles, WholeOrders,
           NEW s \in Session, CommitStatus(s), op[s] = "transition"
    PROVE  [Ledger!Next]_(Ledger!ledger)
<1>1. PICK o \in Order : o = ord[s]
  BY DEF Structure, WorksOnItsOrder
<1>2. Consume(done[s]) /\ UNCHANGED <<leaked, contested, raced>>
  BY DEF CommitStatus, End
<1>3. CASE to[s] = "paid"
  <2>1. PICK S \in SUBSET Ledger!Lines(o) : S = done[s]
    BY <1>1 DEF Structure, WorksOnItsOrder, Ledger!Lines, ItemsOf
  <2>2. Ledger!Held(o) \subseteq S
    BY <1>1, <1>3, <2>1 DEF CommitStatus, PaysWhatItSettles, Ledger!Held, Ledger!Lines,
                            ItemsOf
  <2>3. Ledger!InHand(S)
    BY <2>1 DEF SettlesReserved, Ledger!InHand
  <2>4. S \cap taken = {}
    BY <2>1 DEF Structure, ConsumesOnce
  <2>5. Ledger!Mark(S, "consumed")
    BY <1>2, <2>1 DEF Consume, Ledger!Mark
  <2>6. /\ reserved' = [v \in Variant |-> reserved[v] - Ledger!Units(S, v)]
        /\ inventory' = [v \in Variant |-> inventory[v] - Ledger!Units(S, v)]
        /\ taken' = taken \cup S
    BY <1>2, <2>1, SameAmount DEF Consume
  <2>7. Ledger!Sell(o, S)
    BY <1>2, <2>2, <2>3, <2>4, <2>5, <2>6 DEF Ledger!Sell, Ledger!overlaps
  <2>. QED BY <2>7 DEF Ledger!Next
<1>4. CASE to[s] # "paid"
  <2>1. done[s] = {}
    BY <1>4 DEF WholeOrders
  <2>2. /\ reservation' = reservation /\ taken' = taken
        /\ \A v \in Variant : Amount(done[s], v) = 0
    BY <1>2, <2>1, NothingHasNoUnits DEF Consume, TypeOK
  <2>3. reserved' = reserved /\ inventory' = inventory
    BY <1>2, <2>2 DEF Consume, TypeOK
  <2>. QED BY <1>2, <2>2, <2>3 DEF Ledger!ledger, Ledger!counters, Ledger!overlaps
<1>. QED BY <1>3, <1>4

LEMMA ForceMaps ==
    ASSUME TypeOK, Structure, NEW s \in Session, CommitForce(s)
    PROVE  Ledger!Next
<1>1. PICK o \in Order : o = ord[s]
  BY DEF CommitForce, Structure, WorksOnItsOrder
<1>2. Ledger!Held(o) = ItemsOf(ord[s]) \cap Reserved
  BY <1>1 DEF Ledger!Held, Ledger!Lines, ItemsOf, Reserved
<1>3. Ledger!Mark(Ledger!Held(o), "released")
  BY <1>2 DEF CommitForce, Ledger!Mark
<1>4. Ledger!WriteOff(o)
  BY <1>2, <1>3 DEF CommitForce, End, Ledger!WriteOff, Ledger!counters, Ledger!overlaps
<1>. QED BY <1>4 DEF Ledger!Next

LEMMA LedgerNext ==
    ASSUME TypeOK, TypeOK', Structure, SettlesReserved, PaysWhatItSettles, Covered,
           WholeOrders, [Next]_vars
    PROVE  [Ledger!Next]_(Ledger!ledger)
<1>1. ASSUME NEW s \in Session, CommitStatus(s) PROVE [Ledger!Next]_(Ledger!ledger)
  <2>1. CASE op[s] = "transition"
    BY <1>1, <2>1, ConsumeMaps
  <2>2. CASE op[s] = "cancel"
    <3>1. Release(done[s]) /\ UNCHANGED <<leaked, contested, raced>>
      BY <1>1, <2>2 DEF CommitStatus, End
    <3>. QED BY <2>2, <3>1, ReleaseMaps
  <2>. QED BY <1>1, <2>1, <2>2 DEF CommitStatus
<1>2. ASSUME NEW s \in Session, CommitCleanup(s) PROVE Ledger!Next
  <2>1. Release(done[s]) /\ op[s] = "cleanup" /\ UNCHANGED <<leaked, contested, raced>>
    BY <1>2 DEF CommitCleanup, End
  <2>. QED BY <2>1, ReleaseMaps
<1>3. ASSUME NEW s \in Session, CommitCreate(s) PROVE Ledger!Next
  BY <1>3, CreateMaps
<1>4. ASSUME NEW s \in Session, CommitForce(s) PROVE Ledger!Next
  BY <1>4, ForceMaps
<1>. QED BY <1>1, <1>2, <1>3, <1>4, OverlapsOnly, StepKinds

(* Every behaviour of the sessions is one of the ledger in StockLedger:    *)
(* stock moves as if one commit after the other were alone with it, and    *)
(* only an overlap on the same order or variant excuses an exception.      *)
THEOREM ImplementsLedger == Spec => KeepsLedger
<1>1. Init => Ledger!Init
  BY DEF Init, Ledger!Init
<1>2. TypeOK /\ TypeOK' /\ Structure /\ Undisturbed /\ PaysWhatItSettles /\ Covered
        /\ WholeOrders /\ [Next]_vars => [Ledger!Next]_(Ledger!ledger)
  BY LedgerNext DEF Undisturbed
<1>. QED BY <1>1, <1>2, StructureHolds, UndisturbedHolds, PaysFromHand, CoveredHolds,
         WholeOrdersHold, PTL DEF Spec, KeepsLedger, Ledger!Spec
=============================================================================
