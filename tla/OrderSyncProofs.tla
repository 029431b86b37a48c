--------------------------- MODULE OrderSyncProofs ---------------------------
(***************************************************************************)
(* Theorems about OrderSync, for any number of workers, integrations and   *)
(* orders.                                                                 *)
(*                                                                         *)
(* The inductive invariant adds to the properties what a run has in hand:  *)
(* an idle worker has nothing, the orders a run has inserted are announced *)
(* (or it failed to), and an order that is not contested is inserted by    *)
(* one run at most, and not stored yet if it is.                           *)
(***************************************************************************)
EXTENDS OrderSync, TLAPS

IdleIsEmpty ==
    \A r \in Run : phase[r] = "idle" => made[r] = {} /\ page[r] = {} /\ todo[r] = {}

MadeIsAnnounced == \A r \in Run : made[r] \subseteq told \cup silent

(* Of an order that no two runs have inserted at once. *)
OneRun ==
    \A o \in Order \ contested : \A r, q \in Run :
        o \in made[r] /\ o \in made[q] => r = q

MadeIsNew ==
    \A o \in Order \ contested : \A r \in Run : o \in made[r] => rows[o] = 0

IInv ==
    /\ TypeOK
    /\ IdleIsEmpty /\ MadeIsAnnounced /\ OneRun /\ MadeIsNew
    /\ NoDuplicates /\ StoredIsAnnounced /\ AnnouncedIsStored

-----------------------------------------------------------------------------

LEMMA TypesNext == TypeOK /\ [Next]_vars => TypeOK'
<1> SUFFICES ASSUME TypeOK, [Next]_vars PROVE TypeOK'
  OBVIOUS
<1> USE OrderSyncAssumption
<1>1. ASSUME NEW o \in Order, Place(o) PROVE TypeOK'
  <2>1. listed' \subseteq Order
    BY <1>1 DEF Place, OnPage, TypeOK
  <2>2. platform' \in [Order -> PlatformStatus \cup {"none"}]
    BY <1>1 DEF Place, TypeOK, PlatformStatus, Status
  <2>. QED BY <1>1, <2>1, <2>2 DEF Place, TypeOK, database, plan, events
<1>2. ASSUME NEW o \in Order, NEW status \in PlatformStatus, Move(o, status)
      PROVE  TypeOK'
  BY <1>2 DEF Move, TypeOK, database, plan, events
<1>3. ASSUME NEW o \in Order, NEW status \in PlatformStatus, Notify(o, status)
      PROVE  TypeOK'
  <2>1. Mapped(status) \in Status
    BY DEF Mapped, Status
  <2>2. local' \in [Order -> Status]
    BY <1>3, <2>1 DEF Notify, TypeOK
  <2>. QED BY <1>3, <2>2 DEF Notify, Fault, TypeOK, world, plan, events
<1>3a. ASSUME NEW o \in Order, NEW status \in Status, MoveHere(o, status)
       PROVE  TypeOK'
  BY <1>3a DEF MoveHere, Fault, TypeOK, world, plan, events
<1>4. ASSUME NEW r \in Run, Start(r) PROVE TypeOK'
  BY <1>4 DEF Start, TypeOK, world, database, events
<1>5. ASSUME NEW r \in Run, NEW i \in Integration, Fetch(r, i) PROVE TypeOK'
  <2>1. page' \in [Run -> SUBSET Order]
    BY <1>5 DEF Fetch, FirstPage, OnPage, TypeOK
  <2>2. \A o \in Order : Mapped(platform[o]) \in Status
    BY DEF Mapped, Status
  <2>3. snap' \in [Run -> [Order -> Status]]
    BY <1>5, <2>2 DEF Fetch, TypeOK
  <2>. QED BY <1>5, <2>1, <2>3 DEF Fetch, TypeOK, world, database, events
<1>6. ASSUME NEW r \in Run, NEW i \in Integration, Skip(r, i) PROVE TypeOK'
  BY <1>6 DEF Skip, Fault, TypeOK, world, database, events
<1>7. ASSUME NEW r \in Run, NEW o \in Order, Create(r, o) PROVE TypeOK'
  <2>1. told' \subseteq Order /\ silent' \subseteq Order /\ faults' \in 0..MaxFaults
    BY <1>7 DEF Create, Tell, Fault, TypeOK
  <2>. QED BY <1>7, <2>1 DEF Create, Look, TypeOK, world, database
<1>8. ASSUME NEW r \in Run, NEW o \in Order, Update(r, o) PROVE TypeOK'
  BY <1>8 DEF Update, Look, TypeOK, world, database, events
<1>9. ASSUME NEW r \in Run, End(r)
      PROVE  /\ phase' \in [Run -> {"idle", "polling"}]
             /\ todo' \in [Run -> SUBSET Integration]
             /\ page' \in [Run -> SUBSET Order]
             /\ snap' \in [Run -> [Order -> Status]]
             /\ made' \in [Run -> SUBSET Order]
             /\ moved' \in [Run -> SUBSET Order]
  BY <1>9 DEF End, TypeOK, Status
<1>10. ASSUME NEW r \in Run, Rollback(r), faults' \in 0..MaxFaults PROVE TypeOK'
  BY <1>9, <1>10 DEF Rollback, End, TypeOK, world, database
<1>11. ASSUME NEW r \in Run, Commit(r) PROVE TypeOK'
  <2>1. rows' \in [Order -> Nat] /\ local' \in [Order -> Status]
    BY <1>11 DEF Commit, TypeOK
  <2>a. ours' \subseteq Order
    BY <1>11 DEF Commit, TypeOK
  <2>2. End(r)
    BY <1>11 DEF Commit
  <2>. QED BY <1>9, <1>11, <2>1, <2>a, <2>2 DEF Commit, End, TypeOK, world, events
<1>12. ASSUME NEW r \in Run, NEW o \in Order, Refuse(r, o) PROVE TypeOK'
  BY <1>10, <1>12 DEF Refuse, TypeOK
<1>13. ASSUME NEW r \in Run, Crash(r) PROVE TypeOK'
  BY <1>10, <1>13 DEF Crash, Fault, TypeOK
<1>14. CASE UNCHANGED vars
  BY <1>14 DEF TypeOK, vars, world, database, plan, events
<1>. QED BY <1>1, <1>2, <1>3, <1>3a, <1>4, <1>5, <1>6, <1>7, <1>8, <1>11, <1>12, <1>13, <1>14
         DEF Next, World, Here, Faulty, Step

(* Type correctness; what is stored is always a status of this side. *)
THEOREM TypeCorrect == Spec => []TypeOK
<1>1. Init => TypeOK
  BY OrderSyncAssumption DEF Init, TypeOK, Status, PlatformStatus
<1>. QED BY <1>1, TypesNext, PTL DEF Spec

-----------------------------------------------------------------------------

(* What the steps of the world and the reading steps of a run leave alone. *)
Kept == <<rows, phase, made, told, silent, contested>>

(* A run without insertions, page or integrations to poll.                 *)
LEMMA EndEmpties ==
    ASSUME TypeOK, NEW r \in Run, End(r)
    PROVE  /\ made'[r] = {} /\ page'[r] = {} /\ todo'[r] = {} /\ phase'[r] = "idle"
           /\ \A q \in Run \ {r} :
                /\ made'[q] = made[q] /\ page'[q] = page[q]
                /\ todo'[q] = todo[q] /\ phase'[q] = phase[q]
BY DEF End, TypeOK

LEMMA RollbackKeeps ==
    ASSUME IInv, NEW r \in Run, Rollback(r)
    PROVE  /\ IdleIsEmpty' /\ MadeIsAnnounced' /\ OneRun' /\ MadeIsNew'
           /\ NoDuplicates' /\ StoredIsAnnounced' /\ AnnouncedIsStored'
<1>1. End(r) /\ told' = told \ Undone(r) /\ UNCHANGED <<rows, silent, contested>>
  BY DEF Rollback, End, database
<1>2. /\ made'[r] = {} /\ page'[r] = {} /\ todo'[r] = {} /\ phase'[r] = "idle"
      /\ \A q \in Run \ {r} :
            /\ made'[q] = made[q] /\ page'[q] = page[q]
            /\ todo'[q] = todo[q] /\ phase'[q] = phase[q]
  BY <1>1, EndEmpties DEF IInv
<1>3. IdleIsEmpty'
  BY <1>2 DEF IInv, IdleIsEmpty
<1>4. MadeIsAnnounced'
  <2> SUFFICES ASSUME NEW q \in Run, NEW o \in made'[q] PROVE o \in told' \cup silent'
    BY DEF MadeIsAnnounced
  <2>1. q # r /\ o \in made[q]
    BY <1>2
  <2>2. o \in told \cup silent
    BY <2>1 DEF IInv, MadeIsAnnounced
  <2>3. o \notin Undone(r)
    BY <2>1 DEF Undone
  <2>. QED BY <1>1, <2>2, <2>3
<1>5. OneRun'
  BY <1>1, <1>2 DEF IInv, OneRun
<1>6. MadeIsNew'
  BY <1>1, <1>2 DEF IInv, MadeIsNew
<1>7. NoDuplicates'
  BY <1>1 DEF IInv, NoDuplicates
<1>8. StoredIsAnnounced'
  <2> SUFFICES ASSUME NEW o \in Order, rows[o] > 0 PROVE o \in told' \cup silent'
    BY <1>1 DEF StoredIsAnnounced
  <2>1. o \notin Undone(r)
    BY DEF Undone, IInv, TypeOK
  <2>. QED BY <1>1, <2>1 DEF IInv, StoredIsAnnounced
<1>9. AnnouncedIsStored'
  <2> SUFFICES ASSUME NEW o \in told', ~(rows[o] > 0)
               PROVE  \E q \in Run : o \in made'[q]
    BY <1>1 DEF AnnouncedIsStored
  <2>1. o \in told /\ o \notin Undone(r) /\ o \in Order /\ rows[o] = 0
    BY <1>1 DEF IInv, TypeOK
  <2>2. PICK q \in Run : o \in made[q]
    BY <2>1 DEF IInv, AnnouncedIsStored
  <2>3. CASE q = r
    BY <1>2, <2>1, <2>2, <2>3 DEF Undone
  <2>4. CASE q # r
    BY <1>2, <2>2, <2>4
  <2>. QED BY <2>3, <2>4
<1>. QED BY <1>3, <1>4, <1>5, <1>6, <1>7, <1>8, <1>9

LEMMA CreateKeeps ==
    ASSUME IInv, NEW r \in Run, NEW o \in Order, Create(r, o)
    PROVE  /\ IdleIsEmpty' /\ MadeIsAnnounced' /\ OneRun' /\ MadeIsNew'
           /\ NoDuplicates' /\ StoredIsAnnounced' /\ AnnouncedIsStored'
<1>1. /\ o \in page[r] /\ page' = [page EXCEPT ![r] = @ \ {o}] /\ rows[o] = 0
      /\ made' = [made EXCEPT ![r] = @ \cup {o}]
      /\ UNCHANGED <<rows, phase, todo>>
      /\ contested' = IF \E q \in Run \ {r} : o \in made[q]
                      THEN contested \cup {o} ELSE contested
  BY DEF Create, Look, Unknown, database
<1>2. /\ told' \cup silent' = told \cup silent \cup {o}
      /\ told \subseteq told' /\ told' \subseteq told \cup {o}
      /\ silent \subseteq silent'
  BY DEF Create, Tell
<1>3. \A q \in Run : /\ made'[q] = IF q = r THEN made[r] \cup {o} ELSE made[q]
                     /\ page'[q] = IF q = r THEN page[r] \ {o} ELSE page[q]
  BY <1>1 DEF IInv, TypeOK
<1>4. IdleIsEmpty'
  BY <1>1, <1>3 DEF IInv, IdleIsEmpty
<1>5. MadeIsAnnounced'
  BY <1>2, <1>3 DEF IInv, MadeIsAnnounced
<1>6. OneRun'
  BY <1>1, <1>3 DEF IInv, OneRun
<1>7. MadeIsNew'
  BY <1>1, <1>3 DEF IInv, MadeIsNew
<1>8. NoDuplicates'
  BY <1>1 DEF IInv, NoDuplicates
<1>9. StoredIsAnnounced'
  BY <1>1, <1>2 DEF IInv, StoredIsAnnounced
<1>10. AnnouncedIsStored'
  BY <1>1, <1>2, <1>3 DEF IInv, AnnouncedIsStored
<1>. QED BY <1>4, <1>5, <1>6, <1>7, <1>8, <1>9, <1>10

LEMMA CommitKeeps ==
    ASSUME IInv, NEW r \in Run, Commit(r)
    PROVE  /\ IdleIsEmpty' /\ MadeIsAnnounced' /\ OneRun' /\ MadeIsNew'
           /\ NoDuplicates' /\ StoredIsAnnounced' /\ AnnouncedIsStored'
<1>1. /\ End(r) /\ phase[r] = "polling" /\ UNCHANGED <<told, silent, contested>>
      /\ rows' = [o \in Order |-> IF o \in made[r] THEN rows[o] + 1 ELSE rows[o]]
  BY DEF Commit, End, events
<1>2. /\ made'[r] = {} /\ page'[r] = {} /\ todo'[r] = {} /\ phase'[r] = "idle"
      /\ \A q \in Run \ {r} :
            /\ made'[q] = made[q] /\ page'[q] = page[q]
            /\ todo'[q] = todo[q] /\ phase'[q] = phase[q]
  BY <1>1, EndEmpties DEF IInv
<1>3. IdleIsEmpty'
  BY <1>2 DEF IInv, IdleIsEmpty
<1>4. MadeIsAnnounced'
  BY <1>1, <1>2 DEF IInv, MadeIsAnnounced
<1>5. OneRun'
  BY <1>1, <1>2 DEF IInv, OneRun
<1>6. MadeIsNew'
  <2> SUFFICES ASSUME NEW o \in Order \ contested, NEW q \in Run, o \in made'[q]
               PROVE  rows'[o] = 0
    BY <1>1 DEF MadeIsNew
  <2>1. q # r /\ o \in made[q]
    BY <1>2
  <2>2. o \notin made[r] /\ rows[o] = 0
    BY <2>1 DEF IInv, OneRun, MadeIsNew
  <2>. QED BY <1>1, <2>2
<1>7. NoDuplicates'
  <2> SUFFICES ASSUME NEW o \in Order \ contested PROVE rows'[o] <= 1
    BY <1>1 DEF NoDuplicates
  <2>1. rows[o] <= 1 /\ (o \in made[r] => rows[o] = 0)
    BY DEF IInv, NoDuplicates, MadeIsNew
  <2>. QED BY <1>1, <2>1 DEF IInv, TypeOK
<1>8. StoredIsAnnounced'
  <2> SUFFICES ASSUME NEW o \in Order, rows'[o] > 0 PROVE o \in told \cup silent
    BY <1>1 DEF StoredIsAnnounced
  <2>1. o \in made[r] \/ rows[o] > 0
    BY <1>1
  <2>. QED BY <2>1 DEF IInv, MadeIsAnnounced, StoredIsAnnounced
<1>9. AnnouncedIsStored'
  <2> SUFFICES ASSUME NEW o \in told
               PROVE  rows'[o] > 0 \/ \E q \in Run : o \in made'[q]
    BY <1>1 DEF AnnouncedIsStored
  <2>1. o \in Order /\ rows[o] \in Nat
    BY DEF IInv, TypeOK
  <2>2. CASE rows[o] > 0
    BY <1>1, <2>1, <2>2
  <2>3. CASE o \in made[r]
    BY <1>1, <2>1, <2>3
  <2>4. CASE \E q \in Run \ {r} : o \in made[q]
    BY <1>2, <2>4
  <2>. QED BY <2>2, <2>3, <2>4 DEF IInv, AnnouncedIsStored
<1>. QED BY <1>3, <1>4, <1>5, <1>6, <1>7, <1>8, <1>9

LEMMA StartKeeps ==
    ASSUME IInv, NEW r \in Run, Start(r)
    PROVE  /\ IdleIsEmpty' /\ MadeIsAnnounced' /\ OneRun' /\ MadeIsNew'
           /\ NoDuplicates' /\ StoredIsAnnounced' /\ AnnouncedIsStored'
<1>1. /\ phase' = [phase EXCEPT ![r] = "polling"]
      /\ todo' = [todo EXCEPT ![r] = Integration]
      /\ UNCHANGED <<rows, page, made, told, silent, contested>>
  BY DEF Start, database, events
<1>2. IdleIsEmpty'
  BY <1>1 DEF IInv, IdleIsEmpty, TypeOK
<1>3. MadeIsAnnounced' /\ StoredIsAnnounced' /\ AnnouncedIsStored'
  BY <1>1 DEF IInv, MadeIsAnnounced, StoredIsAnnounced, AnnouncedIsStored
<1>4. OneRun'
  BY <1>1 DEF IInv, OneRun
<1>5. MadeIsNew' /\ NoDuplicates'
  BY <1>1 DEF IInv, MadeIsNew, NoDuplicates
<1>. QED BY <1>2, <1>3, <1>4, <1>5

LEMMA IInvNext == IInv /\ [Next]_vars => IInv'
<1> SUFFICES ASSUME IInv, [Next]_vars PROVE IInv'
  OBVIOUS
<1>1. TypeOK'
  BY TypesNext DEF IInv
<1>2. ASSUME IdleIsEmpty', MadeIsAnnounced', OneRun', MadeIsNew', NoDuplicates',
             StoredIsAnnounced', AnnouncedIsStored'
      PROVE  IInv'
  BY <1>1, <1>2 DEF IInv
<1>3. ASSUME UNCHANGED Kept, IdleIsEmpty' PROVE IInv'
  BY <1>1, <1>3 DEF IInv, Kept, MadeIsAnnounced, OneRun, MadeIsNew, NoDuplicates,
                   StoredIsAnnounced, AnnouncedIsStored
<1>4. ASSUME UNCHANGED Kept, UNCHANGED <<page, todo>> PROVE IInv'
  <2>1. IdleIsEmpty'
    BY <1>4 DEF IInv, IdleIsEmpty, Kept
  <2>. QED BY <1>3, <1>4, <2>1
<1>5. ASSUME NEW o \in Order,
             \/ Place(o)
             \/ \E status \in PlatformStatus : Move(o, status) \/ Notify(o, status)
             \/ \E status \in Status : MoveHere(o, status)
      PROVE  IInv'
  BY <1>4, <1>5 DEF Place, Move, Notify, MoveHere, Kept, database, plan, events
<1>6. ASSUME NEW r \in Run, NEW i \in Integration, Fetch(r, i) PROVE IInv'
  <2>1. phase[r] # "idle"
    BY <1>6 DEF Fetch, IInv, IdleIsEmpty
  <2>2. IdleIsEmpty'
    BY <1>6, <2>1 DEF Fetch, IInv, IdleIsEmpty, TypeOK
  <2>. QED BY <1>3, <1>6, <2>2 DEF Fetch, Kept, database, events
<1>7. ASSUME NEW r \in Run, NEW i \in Integration, Skip(r, i) PROVE IInv'
  <2>1. IdleIsEmpty'
    BY <1>7 DEF Skip, IInv, IdleIsEmpty, TypeOK
  <2>. QED BY <1>3, <1>7, <2>1 DEF Skip, Kept, database, events
<1>8. ASSUME NEW r \in Run, NEW o \in Order, Update(r, o) PROVE IInv'
  <2>1. IdleIsEmpty'
    BY <1>8 DEF Update, Look, IInv, IdleIsEmpty, TypeOK
  <2>. QED BY <1>3, <1>8, <2>1 DEF Update, Kept, database, events
<1>9. ASSUME NEW r \in Run, Start(r) PROVE IInv'
  BY <1>2, <1>9, StartKeeps
<1>10. ASSUME NEW r \in Run, NEW o \in Order, Create(r, o) PROVE IInv'
  BY <1>2, <1>10, CreateKeeps
<1>11. ASSUME NEW r \in Run, Commit(r) PROVE IInv'
  BY <1>2, <1>11, CommitKeeps
<1>12. ASSUME NEW r \in Run, Rollback(r) PROVE IInv'
  BY <1>2, <1>12, RollbackKeeps
<1>13. CASE UNCHANGED vars
  BY <1>4, <1>13 DEF vars, Kept, database, plan, events
<1>. QED BY <1>5, <1>6, <1>7, <1>8, <1>9, <1>10, <1>11, <1>12, <1>13
         DEF Next, World, Here, Faulty, Step, Refuse, Crash

LEMMA IInvInit == Init => IInv
<1> SUFFICES ASSUME Init PROVE IInv
  OBVIOUS
<1>1. TypeOK
  BY OrderSyncAssumption DEF Init, TypeOK, Status, PlatformStatus
<1>2. \A r \in Run : made[r] = {} /\ page[r] = {} /\ todo[r] = {} /\ phase[r] = "idle"
  BY DEF Init
<1>3. told = {} /\ \A o \in Order : rows[o] = 0
  BY DEF Init
<1>. QED BY <1>1, <1>2, <1>3 DEF IInv, IdleIsEmpty, MadeIsAnnounced, OneRun, MadeIsNew,
         NoDuplicates, StoredIsAnnounced, AnnouncedIsStored

(* The inductive invariant holds for any number of workers and orders.     *)
THEOREM InvHolds == Spec => []IInv
BY IInvInit, IInvNext, PTL DEF Spec

(* No order is stored twice but one that two runs have inserted before     *)
(* either committed, whatever else overlaps, crashes or is repeated.       *)
THEOREM StoredOnce == Spec => []NoDuplicates
<1>1. IInv => NoDuplicates
  BY DEF IInv
<1>. QED BY <1>1, InvHolds, PTL

(* No order is in the table whose event nobody sent or failed to send, and *)
(* no announced order is lost but by a roll back of its whole run.         *)
THEOREM EventsAgreeHolds == Spec => []EventsAgree
<1>1. IInv => EventsAgree
  BY DEF IInv, EventsAgree
<1>. QED BY <1>1, InvHolds, PTL

-----------------------------------------------------------------------------
(* Stored statuses                                                         *)

(* The statuses of this side that the order has, or has had, over there.   *)
Seen(o) == {Mapped(status) : status \in Past(o)}

(* A stored status is one of these, however old the page it was read from  *)
(* or the webhook that brought it, unless this side wrote it last.         *)
StatusIsPast == \A o \in Order \ ours : rows[o] > 0 => local[o] \in Seen(o)

SnapsArePast ==
    \A r \in Run : \A o \in page[r] \cup made[r] \cup moved[r] : snap[r][o] \in Seen(o)

ListedIsPlaced == \A o \in listed : platform[o] # "none"

Witnessed == StatusIsPast /\ SnapsArePast /\ ListedIsPlaced

(* What a page says of an order on it.                                     *)
LEMMA PageIsSeen ==
    ASSUME TypeOK, NEW o \in Order, platform[o] # "none"
    PROVE  Mapped(platform[o]) \in Seen(o)
<1>1. platform[o] \in Past(o)
  BY DEF TypeOK, Past, PlatformStatus, Status
<1>. QED
  BY <1>1 DEF Seen

(* The platform does not go back: what was seen of an order stays seen.    *)
LEMMA SeenGrows ==
    ASSUME TypeOK, [Next]_vars, NEW o \in Order
    PROVE  Seen(o) \subseteq Seen(o)'
<1> USE DEF TypeOK, PlatformStatus, Status
<1>1. CASE platform' = platform
  BY <1>1 DEF Seen, Past, Mapped
<1>2. ASSUME NEW q \in Order, Place(q) PROVE Seen(o) \subseteq Seen(o)'
  <2>1. o # q => platform'[o] = platform[o]
    BY <1>2 DEF Place
  <2>2. o = q => Past(o) = {}
    BY <1>2 DEF Place, Past
  <2>3. Past(o) \subseteq Past(o)'
    BY <2>1, <2>2 DEF Past
  <2>. QED
    BY <2>3 DEF Seen, Mapped
<1>3. ASSUME NEW q \in Order, NEW status \in PlatformStatus, Move(q, status)
      PROVE  Seen(o) \subseteq Seen(o)'
  <2>1. \/ platform'[o] = platform[o]
        \/ platform[o] = "pending" /\ platform'[o] = "shipped"
        \/ platform[o] = "shipped" /\ platform'[o] = "returned"
    BY <1>3 DEF Move
  <2>2. Past(o) \subseteq Past(o)'
    BY <2>1 DEF Past
  <2>. QED
    BY <2>2 DEF Seen, Mapped
<1>4. platform' = platform \/ \E q \in Order :
         Place(q) \/ \E status \in PlatformStatus : Move(q, status)
  BY DEF Next, World, Here, Faulty, Step, Notify, MoveHere, Start, Fetch, Skip, Create, Update, Refuse,
     Crash, Rollback, Commit, End, world, vars
<1>. QED
  BY <1>1, <1>2, <1>3, <1>4

LEMMA WitnessedNext ==
    ASSUME TypeOK, Witnessed, [Next]_vars
    PROVE  Witnessed'
<1> USE DEF Witnessed, database, plan, world, events
<1>1. \A o \in Order : \A st \in Seen(o) : st \in Seen(o)'
  BY SeenGrows
<1>t. /\ \A r \in Run : page[r] \cup made[r] \cup moved[r] \subseteq Order
      /\ listed \subseteq Order
  BY DEF TypeOK
<1>2. ASSUME NEW q \in Order, Place(q) PROVE Witnessed'
  <2>1. ListedIsPlaced'
    BY <1>2, <1>t DEF Place, ListedIsPlaced, OnPage, TypeOK
  <2>2. StatusIsPast' /\ SnapsArePast'
    BY <1>1, <1>2, <1>t DEF Place, StatusIsPast, SnapsArePast
  <2>. QED
    BY <2>1, <2>2
<1>3. ASSUME NEW q \in Order, NEW status \in PlatformStatus, Move(q, status)
      PROVE  Witnessed'
  <2>1. ListedIsPlaced'
    BY <1>3, <1>t DEF Move, ListedIsPlaced, TypeOK
  <2>2. StatusIsPast' /\ SnapsArePast'
    BY <1>1, <1>3, <1>t DEF Move, StatusIsPast, SnapsArePast
  <2>. QED
    BY <2>1, <2>2
<1>4. ASSUME NEW q \in Order, NEW status \in PlatformStatus, Notify(q, status)
      PROVE  Witnessed'
  <2>1. Mapped(status) \in Seen(q)
    BY <1>4 DEF Notify, Seen
  <2>2. /\ local'[q] = Mapped(status)
        /\ \A o \in Order \ ours' : o # q => o \notin ours /\ local'[o] = local[o]
    BY <1>4 DEF Notify, TypeOK
  <2>3. StatusIsPast'
    BY <1>1, <1>4, <2>1, <2>2 DEF Notify, StatusIsPast
  <2>4. SnapsArePast' /\ ListedIsPlaced'
    BY <1>1, <1>4, <1>t DEF Notify, SnapsArePast, ListedIsPlaced
  <2>. QED
    BY <2>3, <2>4
<1>4a. ASSUME NEW q \in Order, NEW status \in Status, MoveHere(q, status)
       PROVE  Witnessed'
  <2>1. \A o \in Order \ ours' : o \notin ours /\ local'[o] = local[o]
    BY <1>4a DEF MoveHere, TypeOK
  <2>2. StatusIsPast'
    BY <1>1, <1>4a, <2>1 DEF MoveHere, StatusIsPast
  <2>3. SnapsArePast' /\ ListedIsPlaced'
    BY <1>1, <1>4a, <1>t DEF MoveHere, SnapsArePast, ListedIsPlaced
  <2>. QED
    BY <2>2, <2>3
(* The steps of one run that leave the tables and the platform alone.      *)
<1>5. ASSUME NEW r \in Run, UNCHANGED <<rows, local, ours, listed, platform>>,
             \A q \in Run \ {r} : /\ page'[q] = page[q] /\ snap'[q] = snap[q]
                                  /\ made'[q] = made[q] /\ moved'[q] = moved[q],
             \A o \in page'[r] \cup made'[r] \cup moved'[r] : snap'[r][o] \in Seen(o)'
      PROVE  Witnessed'
  <2>1. SnapsArePast'
    BY <1>1, <1>5, <1>t DEF SnapsArePast
  <2>2. StatusIsPast' /\ ListedIsPlaced'
    BY <1>1, <1>5 DEF StatusIsPast, ListedIsPlaced
  <2>. QED
    BY <2>1, <2>2
<1>6. ASSUME NEW r \in Run, NEW i \in Integration, Fetch(r, i) PROVE Witnessed'
  <2>1. /\ page'[r] = FirstPage(i) /\ made' = made /\ moved' = moved
        /\ \A q \in Run \ {r} : page'[q] = page[q] /\ snap'[q] = snap[q]
        /\ snap'[r] = [o \in Order |->
              IF o \in FirstPage(i) THEN Mapped(platform[o]) ELSE snap[r][o]]
        /\ UNCHANGED <<rows, local, ours, listed, platform>>
    BY <1>6 DEF Fetch, TypeOK
  <2>2. FirstPage(i) \subseteq Order /\ \A o \in FirstPage(i) : platform[o] # "none"
    BY <1>t DEF FirstPage, OnPage, ListedIsPlaced
  <2>3. ASSUME NEW o \in page'[r] \cup made'[r] \cup moved'[r]
        PROVE  snap'[r][o] \in Seen(o)'
    <3>1. CASE o \in FirstPage(i)
      BY <1>1, <2>1, <2>2, <3>1, PageIsSeen
    <3>2. CASE o \notin FirstPage(i)
      <4>1. o \in made[r] \cup moved[r] /\ o \in Order
        BY <2>1, <2>3, <3>2, <1>t
      <4>2. snap'[r][o] = snap[r][o]
        BY <2>1, <3>2, <4>1
      <4>. QED
        BY <1>1, <4>1, <4>2 DEF SnapsArePast
    <3>. QED
      BY <3>1, <3>2
  <2>. QED
    BY <1>5, <2>1, <2>3
<1>7. ASSUME NEW r \in Run, \/ Start(r) \/ \E i \in Integration : Skip(r, i)
                            \/ \E o \in Order : Create(r, o) \/ Update(r, o)
      PROVE  Witnessed'
  <2>1. /\ UNCHANGED <<rows, local, ours, listed, platform, snap>>
        /\ page'[r] \cup made'[r] \cup moved'[r] \subseteq page[r] \cup made[r] \cup moved[r]
        /\ \A q \in Run \ {r} :
              page'[q] = page[q] /\ made'[q] = made[q] /\ moved'[q] = moved[q]
    BY <1>7 DEF Start, Skip, Create, Update, Look, TypeOK
  <2>2. \A o \in page'[r] \cup made'[r] \cup moved'[r] : snap'[r][o] \in Seen(o)'
    BY <1>1, <1>t, <2>1 DEF SnapsArePast
  <2>. QED
    BY <1>5, <2>1, <2>2
<1>8. ASSUME NEW r \in Run, End(r)
      PROVE  /\ page'[r] \cup made'[r] \cup moved'[r] = {}
             /\ \A q \in Run \ {r} : /\ page'[q] = page[q] /\ snap'[q] = snap[q]
                                     /\ made'[q] = made[q] /\ moved'[q] = moved[q]
             /\ UNCHANGED <<listed, platform>>
  BY <1>8 DEF End, TypeOK
<1>9. ASSUME NEW r \in Run, Rollback(r) PROVE Witnessed'
  <2>1. End(r) /\ UNCHANGED <<rows, local, ours>>
    BY <1>9 DEF Rollback
  <2>. QED
    BY <1>5, <1>8, <2>1
<1>10. ASSUME NEW r \in Run, Commit(r) PROVE Witnessed'
  <2>1. End(r)
    BY <1>10 DEF Commit
  <2>2. \A q \in Run : \A o \in page'[q] \cup made'[q] \cup moved'[q] :
           snap'[q][o] \in Seen(o)'
    BY <1>1, <1>8, <1>t, <2>1 DEF SnapsArePast
  <2>3. ListedIsPlaced'
    BY <1>8, <2>1 DEF ListedIsPlaced
  <2>4. ASSUME NEW o \in Order \ ours', rows'[o] > 0
        PROVE  local'[o] \in Seen(o)'
    <3>1. CASE o \in moved[r] \/ (o \in made[r] /\ rows[o] = 0)
      <4>1. local'[o] = snap[r][o] /\ snap[r][o] \in Seen(o)
        BY <1>10, <3>1 DEF Commit, SnapsArePast
      <4>. QED
        BY <1>1, <4>1
    <3>2. CASE ~(o \in moved[r] \/ (o \in made[r] /\ rows[o] = 0))
      <4>1. local'[o] = local[o] /\ rows[o] > 0 /\ o \notin ours
        BY <1>10, <2>4, <3>2 DEF Commit, TypeOK
      <4>. QED
        BY <1>1, <4>1 DEF StatusIsPast
    <3>. QED
      BY <3>1, <3>2
  <2>. QED
    BY <2>2, <2>3, <2>4 DEF SnapsArePast, StatusIsPast
<1>11. CASE UNCHANGED vars
  BY <1>1, <1>11, <1>t DEF vars, StatusIsPast, SnapsArePast, ListedIsPlaced
<1>. QED
  BY <1>2, <1>3, <1>4, <1>4a, <1>6, <1>7, <1>9, <1>10, <1>11
     DEF Next, World, Here, Faulty, Step, Refuse, Crash

(* No stored order shows a status that it never had at its platform, but   *)
(* one that this side has given it since a poll or a webhook last moved    *)
(* it, whatever webhooks arrive late, runs overlap or work on old pages.   *)
THEOREM ShowsOnlyThePast == Spec => []StatusIsPast
<1>1. Init => Witnessed
  BY DEF Init, Witnessed, StatusIsPast, SnapsArePast, ListedIsPlaced
<1>2. Witnessed => StatusIsPast
  BY DEF Witnessed
<1>. QED
  BY <1>1, <1>2, WitnessedNext, TypeCorrect, PTL DEF Spec
=============================================================================
