------------------------- MODULE StockWritersProofs -------------------------
(***************************************************************************)
(* Theorems about StockWriters, for any number of sessions and items.      *)
(*                                                                         *)
(* The invariant is the three properties, of which none needs another but  *)
(* the types: what a stale write does is in the flags.                     *)
(***************************************************************************)
EXTENDS StockWriters, TLAPS

-----------------------------------------------------------------------------

LEMMA TypesInit == Init => Types
  BY StockAssumption DEF Init, Types

(* A session of an order that starts, and one that ends, stays well typed. *)
LEMMA TakeUpTypes ==
    ASSUME Types, NEW c \in Clerk, NEW i \in Item, NEW k \in Task, TakeUp(c, i, k)
    PROVE  Types'
<1>1. inventory - reserved \in Int
  BY DEF Types
<1>2. /\ task' \in [Clerk -> Task \cup {"idle"}]
      /\ item' \in [Clerk -> Item \cup {NoItem}]
      /\ seen' \in [Clerk -> Int]
  BY <1>1 DEF Types, TakeUp
<1>. QED BY <1>2 DEF Types, TakeUp, stock, plan, history

LEMMA LeavesTypes ==
    ASSUME Types, NEW c \in Clerk, Leaves(c)
    PROVE  /\ task' \in [Clerk -> Task \cup {"idle"}]
           /\ item' \in [Clerk -> Item \cup {NoItem}]
           /\ seen' \in [Clerk -> Int]
           /\ UNCHANGED <<plan, requests>>
  BY DEF Types, Leaves

(* A session at work has an item. *)
AtWork == \A c \in Clerk : task[c] # "idle" => item[c] \in Item

LEMMA AtWorkNext == Types /\ AtWork /\ [Next]_vars => AtWork'
<1> SUFFICES ASSUME Types, AtWork, [Next]_vars PROVE AtWork'
  OBVIOUS
<1>1. ASSUME NEW c \in Clerk, NEW i \in Item, NEW k \in Task, TakeUp(c, i, k)
      PROVE  AtWork'
  BY <1>1 DEF TakeUp, AtWork, Types
<1>2. ASSUME NEW c \in Clerk, Leaves(c) PROVE AtWork'
  BY <1>2 DEF Leaves, AtWork, Types
<1>3. CASE UNCHANGED <<task, item>>
  BY <1>3 DEF AtWork
<1>4. "reserve" \in Task
  BY DEF Task
<1>. QED BY <1>1, <1>2, <1>3, <1>4 DEF Next, Orders, Requests, Load, FindActive,
         Reserve, Release, Consume, Settles, GiveUp, ForceCancel, Override,
         ForceUpdate, Webhook, Adjust, Begin, Store, Fail, vars, desk

LEMMA TypesNext == Types /\ AtWork /\ [Next]_vars => Types'
<1> SUFFICES ASSUME Types, AtWork, [Next]_vars PROVE Types'
  OBVIOUS
<1> USE StockAssumption
<1>1. ASSUME NEW c \in Clerk, NEW k \in Task, NEW mark \in {"reserved", "released", "consumed"},
             Settles(c, k, mark)
      PROVE  /\ reservation' \in [Item -> {"none", "reserved", "released", "consumed"}]
             /\ item[c] \in Item /\ Qty[item[c]] \in Nat
  <2>1. item[c] \in Item
    BY <1>1 DEF Settles, AtWork, Task
  <2>. QED BY <1>1, <2>1 DEF Settles, Types
<1>2. ASSUME NEW c \in Clerk, Reserve(c) \/ Release(c) \/ Consume(c) PROVE Types'
  <2>1. /\ Qty[item[c]] \in Nat
        /\ reservation' \in [Item -> {"none", "reserved", "released", "consumed"}]
        /\ Leaves(c)
    BY <1>1, <1>2 DEF Reserve, Release, Consume, Settles, Task
  <2>2. /\ inventory' \in Int /\ reserved' \in Int
        /\ due' \in Int /\ sold' \in Nat /\ noted' \in Int
    BY <1>2, <2>1 DEF Reserve, Release, Consume, Types
  <2>. QED BY <2>1, <2>2, LeavesTypes DEF Types, plan
<1>3. ASSUME NEW c \in Clerk, GiveUp(c) PROVE Types'
  BY <1>3, LeavesTypes DEF GiveUp, Types, plan, stock
<1>4. ASSUME NEW i \in Item, ForceCancel(i) PROVE Types'
  BY <1>4 DEF ForceCancel, Types, desk, plan, history
<1>5. ASSUME NEW s \in Writer, NEW k \in Kind, NEW n \in Int, Begin(s, k, n)
      PROVE  Types'
  BY <1>5 DEF Begin, Types, stock, desk, history
<1>6. ASSUME NEW s \in Writer, NEW n \in Level,
             Override(s, n) \/ ForceUpdate(s, n) \/ Webhook(s, n)
      PROVE  Types'
  BY <1>5, <1>6 DEF Override, ForceUpdate, Webhook, Kind
<1>7. ASSUME NEW s \in Writer, NEW d \in Delta, Adjust(s, d) PROVE Types'
  BY <1>5, <1>7 DEF Adjust, Kind
<1>8. ASSUME NEW s \in Writer, Done(s)
      PROVE  /\ kind' \in [Writer -> Kind \cup {"idle"}]
             /\ old' \in [Writer -> Int] /\ amount' \in [Writer -> Int]
             /\ requests' \in 0..MaxRequests
  BY <1>8 DEF Done, Types
<1>9. ASSUME NEW s \in Writer, Store(s) PROVE Types'
  <2>1. New(s) \in Int /\ Asked(s) \in Int /\ Change(s) \in Int
    BY DEF Types, New, Asked, Change
  <2>2. inventory' \in Int /\ due' \in Int /\ noted' \in Int
    BY <1>9, <2>1 DEF Store, Types
  <2>. QED BY <1>8, <1>9, <2>2 DEF Store, Types, desk
<1>10. ASSUME NEW s \in Writer, Fail(s) PROVE Types'
  BY <1>8, <1>10 DEF Fail, Types, stock, desk, history
<1>11. CASE UNCHANGED vars
  BY <1>11 DEF Types, vars, stock, desk, plan, history
<1>12. "reserve" \in Task
  BY DEF Task
<1>. QED BY <1>2, <1>3, <1>4, <1>6, <1>7, <1>9, <1>10, <1>11, <1>12, TakeUpTypes
         DEF Next, Orders, Requests, Load, FindActive

LEMMA FlagsNext == Flags /\ [Next]_vars => Flags'
<1> SUFFICES ASSUME Flags, [Next]_vars PROVE Flags'
  OBVIOUS
<1>1. ASSUME NEW s \in Writer, Store(s) PROVE Flags'
  <2>1. undone' \in BOOLEAN
    BY <1>1, Zenon DEF Store, Undoes, Flags
  <2>. QED BY <1>1, <2>1, Zenon DEF Store, Flags
<1>2. CASE UNCHANGED <<undone, drifted>>
  BY <1>2 DEF Flags
<1>. QED BY <1>1, <1>2 DEF Next, Orders, Requests, Load, FindActive, TakeUp, Reserve,
         Release, Consume, Settles, Leaves, GiveUp, ForceCancel, Override,
         ForceUpdate, Webhook, Adjust, Begin, Fail, vars, history

(* The invariant that the properties rest on. *)
Sound == Types /\ AtWork

LEMMA SoundInit == Init => Sound
  BY TypesInit DEF Init, AtWork, Sound

LEMMA SoundNext == Sound /\ [Next]_vars => Sound'
  BY TypesNext, AtWorkNext DEF Sound

(* Type correctness for any number of sessions, items and requests.        *)
THEOREM TypeCorrect == Spec => []TypeOK
<1>1. Init => Sound /\ Flags
  BY SoundInit DEF Init, Flags
<1>2. Sound /\ Flags /\ [Next]_vars => Sound' /\ Flags'
  BY SoundNext, FlagsNext
<1>3. Sound /\ Flags => TypeOK
  BY DEF Sound, TypeOK
<1>. QED BY <1>1, <1>2, <1>3, PTL DEF Spec

-----------------------------------------------------------------------------

LEMMA LedgerNext == Types /\ LedgerHolds /\ [Next]_vars => LedgerHolds'
<1> SUFFICES ASSUME Types, LedgerHolds, [Next]_vars, ~undone'
             PROVE  inventory' = due'
  BY DEF LedgerHolds
<1>1. ASSUME NEW c \in Clerk, Consume(c) PROVE inventory' = due'
  BY <1>1 DEF Consume, Settles, Leaves, LedgerHolds
<1>2. ASSUME NEW s \in Writer, Store(s) PROVE inventory' = due'
  <2>1. ~Undoes(s)
    BY <1>2 DEF Store
  <2>2. inventory' = (IF Sends(s) THEN New(s) ELSE inventory) /\ due' = Asked(s)
    BY <1>2 DEF Store
  <2>3. CASE kind[s] = "adjust"
    <3>1. ~undone /\ (Sends(s) => ~Stale(s))
      BY <2>1, <2>3 DEF Undoes
    <3>2. inventory = due /\ (Sends(s) => inventory = old[s])
      BY <3>1 DEF LedgerHolds, Stale
    <3>. QED BY <2>2, <2>3, <3>2 DEF New, Asked, Sends, Types
  <2>4. CASE kind[s] # "adjust"
    <3>1. Sends(s) \/ inventory = old[s]
      BY <2>1, <2>4 DEF Undoes, Stale
    <3>. QED BY <2>2, <2>4, <3>1 DEF New, Asked, Sends
  <2>. QED BY <2>3, <2>4
<1>3. CASE UNCHANGED <<inventory, due, undone>>
  BY <1>3 DEF LedgerHolds
<1>. QED BY <1>1, <1>2, <1>3 DEF Next, Orders, Requests, Load, FindActive, TakeUp,
         Reserve, Release, Settles, Leaves, GiveUp, ForceCancel, Override,
         ForceUpdate, Webhook, Adjust, Begin, Fail, vars, stock, history

(* The inventory is what requests asked for, unless a stale one undid it.  *)
THEOREM LedgerIsKept == Spec => []LedgerHolds
<1>1. Init => Sound /\ LedgerHolds
  BY SoundInit DEF Init, LedgerHolds
<1>2. Sound /\ LedgerHolds /\ [Next]_vars => Sound' /\ LedgerHolds'
  BY SoundNext, LedgerNext DEF Sound
<1>. QED BY <1>1, <1>2, PTL DEF Spec

-----------------------------------------------------------------------------

LEMMA AuditNext == Types /\ AtWork /\ AuditTells /\ [Next]_vars => AuditTells'
<1> SUFFICES ASSUME Types, AtWork, AuditTells, [Next]_vars, ~drifted'
             PROVE  noted' = inventory' - reserved' - sold'
  BY DEF AuditTells
<1>1. ASSUME NEW c \in Clerk, Reserve(c) \/ Release(c) \/ Consume(c)
      PROVE  noted' = inventory' - reserved' - sold'
  <2>1. item[c] \in Item
    BY <1>1 DEF Reserve, Release, Consume, Settles, AtWork
  <2>2. Qty[item[c]] \in Nat
    BY <2>1, StockAssumption
  <2>3. ~drifted
    BY <1>1 DEF Reserve, Release, Consume, Settles, Leaves
  <2>4. noted = inventory - reserved - sold
    BY <2>3 DEF AuditTells
  <2>. QED BY <1>1, <2>2, <2>4 DEF Reserve, Release, Consume, Types
<1>2. ASSUME NEW s \in Writer, Store(s)
      PROVE  noted' = inventory' - reserved' - sold'
  <2>1. /\ ~drifted
        /\ Sends(s) => ~Stale(s) /\ kind[s] \in Logged
    BY <1>2 DEF Store
  <2>2. noted = inventory - reserved - sold
    BY <2>1 DEF AuditTells
  <2>3. /\ inventory' = IF Sends(s) THEN New(s) ELSE inventory
        /\ noted' = IF kind[s] \in Logged THEN noted + Change(s) ELSE noted
        /\ reserved' = reserved /\ sold' = sold
    BY <1>2 DEF Store
  <2>4. CASE Sends(s)
    <3>1. inventory = old[s] /\ kind[s] \in Logged
      BY <2>1, <2>4 DEF Stale
    <3>2. Change(s) = New(s) - old[s] /\ New(s) \in Int
      BY DEF Change, New, Types
    <3>. QED BY <2>2, <2>3, <2>4, <3>1, <3>2 DEF Types
  <2>5. CASE ~Sends(s)
    <3>1. Change(s) = 0
      BY <2>5 DEF Sends, Change, New, Types
    <3>. QED BY <2>2, <2>3, <2>5, <3>1 DEF Types
  <2>. QED BY <2>4, <2>5
<1>3. CASE UNCHANGED <<inventory, reserved, sold, noted, drifted>>
  BY <1>3 DEF AuditTells
<1>. QED BY <1>1, <1>2, <1>3 DEF Next, Orders, Requests, Load, FindActive, TakeUp,
         Leaves, GiveUp, ForceCancel, Override, ForceUpdate, Webhook, Adjust, Begin,
         Fail, vars, stock, history

(* All rows of the log together are the available inventory less the units *)
(* sold, whatever the orders do at the same time, until a writer drifts.   *)
THEOREM LogExplains == Spec => []AuditTells
<1>1. Init => Sound /\ AuditTells
  BY SoundInit, StockAssumption DEF Init, AuditTells
<1>2. Sound /\ AuditTells /\ [Next]_vars => Sound' /\ AuditTells'
  BY SoundNext, AuditNext DEF Sound
<1>. QED BY <1>1, <1>2, PTL DEF Spec
=============================================================================
