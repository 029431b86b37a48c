------------------------------ MODULE OrderSync ------------------------------
(***************************************************************************)
(* The order_sync task: it polls the first page of orders of every         *)
(* connected integration, stores the orders that are new, moves those      *)
(* whose status differs, and commits once, for all integrations.  Events   *)
(* go out before that commit.  Runs can overlap: beat starts one every two *)
(* minutes whether or not the last one has ended, and a task that is not   *)
(* acknowledged is delivered again.                                        *)
(*                                                                         *)
(* Status webhooks write the same column, and so do the requests and tasks *)
(* of this side: whatever transitions they keep to, for a poll they are    *)
(* statuses of any kind at any time.                                       *)
(*                                                                         *)
(* What a run has written is applied by its commit.  The orders of         *)
(* `Refused` cannot be stored by what is in them: an item without a        *)
(* quantity, say, which the table of items does not allow.                 *)
(***************************************************************************)
EXTENDS Naturals, FiniteSets

CONSTANTS
    Run,          \* workers that run the task
    Integration,  \* connected integrations
    Order,        \* orders at the platform
    ShopOf,       \* the integration an order belongs to
    Refused,      \* orders that the database refuses
    Moving,       \* orders that are moved, there or here (bound)
    PageSize,     \* orders on the first page of an integration
    MaxFaults     \* failed calls, crashes, webhooks, requests here (bound)

ASSUME OrderSyncAssumption ==
    /\ ShopOf \in [Order -> Integration]
    /\ Refused \subseteq Order /\ Moving \subseteq Order
    /\ PageSize \in Nat \ {0}
    /\ MaxFaults \in Nat

(* Two statuses are enough to tell an old one from the present one; the    *)
(* platform also has some that this side does not know.                    *)
Status == {"pending", "shipped"}
PlatformStatus == Status \cup {"returned"}

VARIABLES
    (* the platform *)
    platform,   \* status of each order, "none" before it is placed
    listed,     \* orders on the first pages
    (* the database, as committed *)
    rows,       \* rows stored for each order
    local,      \* the status in them
    ours,       \* orders whose status this side was the last to write
    (* the runs *)
    phase,
    todo,       \* integrations still to be polled
    page,       \* orders of the page in hand still to be looked at
    snap,       \* their status in that page
    made,       \* orders inserted
    moved,      \* orders whose status it has assigned
    (* history and bounds *)
    told,       \* orders announced, but by runs that were rolled back
    silent,     \* orders inserted by a run that failed to announce them
    contested,  \* orders that two runs have inserted at once
    faults

world == <<platform, listed>>
database == <<rows, local, ours>>
plan == <<todo, page, snap, made, moved>>
events == <<told, silent>>
vars == <<world, database, phase, plan, events, contested, faults>>

TypeOK ==
    /\ platform \in [Order -> PlatformStatus \cup {"none"}]
    /\ listed \subseteq Order
    /\ rows \in [Order -> Nat]
    /\ local \in [Order -> Status] /\ ours \subseteq Order
    /\ phase \in [Run -> {"idle", "polling"}]
    /\ todo \in [Run -> SUBSET Integration]
    /\ page \in [Run -> SUBSET Order]
    /\ snap \in [Run -> [Order -> Status]]
    /\ made \in [Run -> SUBSET Order]
    /\ moved \in [Run -> SUBSET Order]
    /\ told \subseteq Order /\ silent \subseteq Order
    /\ contested \subseteq Order
    /\ faults \in 0..MaxFaults

Init ==
    /\ platform = [o \in Order |-> "none"] /\ listed = {}
    /\ rows = [o \in Order |-> 0] /\ local = [o \in Order |-> "pending"]
    /\ ours = {}
    /\ phase = [r \in Run |-> "idle"]
    /\ todo = [r \in Run |-> {}]
    /\ page = [r \in Run |-> {}]
    /\ snap = [r \in Run |-> [o \in Order |-> "pending"]]
    /\ made = [r \in Run |-> {}] /\ moved = [r \in Run |-> {}]
    /\ told = {} /\ silent = {}
    /\ contested = {}
    /\ faults = 0

Fault == faults < MaxFaults /\ faults' = faults + 1

-----------------------------------------------------------------------------
(***************************************************************************)
(* The platform.                                                           *)
(***************************************************************************)

OnPage(i) == {o \in listed : ShopOf[o] = i}

(* A new order may push another one off the first page. *)
Place(o) ==
    /\ platform[o] = "none"
    /\ platform' = [platform EXCEPT ![o] = "pending"]
    /\ IF Cardinality(OnPage(ShopOf[o])) < PageSize
       THEN listed' = listed \cup {o}
       ELSE \E q \in OnPage(ShopOf[o]) : listed' = (listed \ {q}) \cup {o}
    /\ UNCHANGED <<database, phase, plan, events, contested, faults>>

Move(o, status) ==
    /\ o \in Moving
    /\ \/ platform[o] = "pending" /\ status = "shipped"
       \/ platform[o] = "shipped" /\ status = "returned"
    /\ platform' = [platform EXCEPT ![o] = status]
    /\ UNCHANGED <<listed, database, phase, plan, events, contested, faults>>

(* Statuses that an order has or has had at the platform. *)
Past(o) ==
    CASE platform[o] = "none" -> {}
      [] platform[o] = "pending" -> {"pending"}
      [] platform[o] = "shipped" -> {"pending", "shipped"}
      [] platform[o] = "returned" -> PlatformStatus

(* Mutant: a status that is not in the map is stored as it is. *)
Mapped_Raw(status) == status

(* status_map: what it does not know is pending. *)
Mapped(status) == IF status \in Status THEN status ELSE "pending"

(* A status webhook, perhaps late; without one row it changes nothing.     *)
Notify(o, status) ==
    /\ rows[o] = 1
    /\ status \in Past(o)
    /\ Fault
    /\ local' = [local EXCEPT ![o] = Mapped(status)]
    /\ ours' = ours \ {o}
    /\ UNCHANGED <<world, rows, phase, plan, events, contested>>

-----------------------------------------------------------------------------
(***************************************************************************)
(* This side's own requests: the endpoints of the orders, a forced         *)
(* cancellation, a payment from the wallet or one reported by a webhook,   *)
(* the automatic completion.                                               *)
(***************************************************************************)

MoveHere(o, status) ==
    /\ o \in Moving /\ rows[o] > 0
    /\ Fault
    /\ local' = [local EXCEPT ![o] = status]
    /\ ours' = ours \cup {o}
    /\ UNCHANGED <<world, rows, phase, plan, events, contested>>

-----------------------------------------------------------------------------
(***************************************************************************)
(* A run.                                                                  *)
(***************************************************************************)

Start(r) ==
    /\ phase[r] = "idle"
    /\ phase' = [phase EXCEPT ![r] = "polling"]
    /\ todo' = [todo EXCEPT ![r] = Integration]
    /\ UNCHANGED <<world, database, page, snap, made, moved, events, contested,
                   faults>>

(* Mutant: it asks for open orders. *)
FirstPage_Open(i) == {o \in OnPage(i) : platform[o] = "pending"}

(* list_orders(page=1), whatever their status. *)
FirstPage(i) == OnPage(i)

Fetch(r, i) ==
    /\ i \in todo[r] /\ page[r] = {}
    /\ todo' = [todo EXCEPT ![r] = @ \ {i}]
    /\ page' = [page EXCEPT ![r] = FirstPage(i)]
    /\ snap' = [snap EXCEPT ![r] =
            [o \in Order |-> IF o \in FirstPage(i) THEN Mapped(platform[o]) ELSE @[o]]]
    /\ UNCHANGED <<world, database, phase, made, moved, events, contested, faults>>

(* Mutant: a failed call rolls back what other integrations have written. *)
Skip_RollsBack(r, i) ==
    /\ i \in todo[r] /\ page[r] = {}
    /\ Fault
    /\ todo' = [todo EXCEPT ![r] = @ \ {i}]
    /\ made' = [made EXCEPT ![r] = {}] /\ moved' = [moved EXCEPT ![r] = {}]
    /\ UNCHANGED <<world, database, phase, page, snap, events, contested>>

(* Its call to the platform fails: the other integrations go on. *)
Skip(r, i) ==
    /\ i \in todo[r] /\ page[r] = {}
    /\ Fault
    /\ todo' = [todo EXCEPT ![r] = @ \ {i}]
    /\ UNCHANGED <<world, database, phase, page, snap, made, moved, events, contested>>

Look(r, o) ==
    /\ o \in page[r]
    /\ page' = [page EXCEPT ![r] = @ \ {o}]

(* Mutant: the lookup finds open orders only. *)
Unknown_Open(o) == rows[o] = 0 \/ (rows[o] = 1 /\ local[o] = "shipped")

(* The lookup by external id and shop finds no row. *)
Unknown(o) == rows[o] = 0

(* Mutant: the event is left to another task. *)
Tell_Never(r, o) == UNCHANGED <<told, silent, faults>>

(* OrderCreated goes out, unless the broker fails, or the lookup of an     *)
(* item's variant has failed before: the order stays inserted then.        *)
Tell(r, o) ==
    \/ told' = told \cup {o} /\ UNCHANGED <<silent, faults>>
    \/ Fault /\ silent' = silent \cup {o} /\ UNCHANGED told

Create(r, o) ==
    /\ Look(r, o)
    /\ Unknown(o) /\ o \notin Refused
    /\ made' = [made EXCEPT ![r] = @ \cup {o}]
    /\ contested' = IF \E q \in Run \ {r} : o \in made[q]
                    THEN contested \cup {o} ELSE contested
    /\ Tell(r, o)
    /\ UNCHANGED <<world, database, phase, todo, snap, moved>>

(* Mutant: only as VALID_TRANSITIONS allows, which has no way from pending *)
(* to shipped.                                                             *)
Moves_Valid(r, o) == local[o] = "shipped" /\ snap[r][o] = "pending"

(* The stored status differs from the one in the page. *)
Moves(r, o) == local[o] # snap[r][o]

(* Several rows fail the lookup; nothing happens then. *)
Update(r, o) ==
    /\ Look(r, o)
    /\ ~Unknown(o)
    /\ moved' = [moved EXCEPT ![r] =
            IF rows[o] = 1 /\ Moves(r, o) THEN @ \cup {o} ELSE @]
    /\ UNCHANGED <<world, database, phase, todo, snap, made, events, contested,
                   faults>>

End(r) ==
    /\ phase' = [phase EXCEPT ![r] = "idle"]
    /\ todo' = [todo EXCEPT ![r] = {}]
    /\ page' = [page EXCEPT ![r] = {}]
    /\ snap' = [snap EXCEPT ![r] = [o \in Order |-> "pending"]]
    /\ made' = [made EXCEPT ![r] = {}]
    /\ moved' = [moved EXCEPT ![r] = {}]
    /\ UNCHANGED <<world, contested>>

(* Insertions of r that no other row stands for. *)
Undone(r) == {o \in made[r] : rows[o] = 0 /\ \A q \in Run \ {r} : o \notin made[q]}

Rollback(r) ==
    /\ End(r)
    /\ told' = told \ Undone(r)
    /\ UNCHANGED <<database, silent>>

(* The flush of its items fails and takes the session with it: even the    *)
(* handlers of the error fail, when they name the integration, and the     *)
(* task ends with everything undone.                                       *)
Refuse(r, o) ==
    /\ o \in page[r]
    /\ Unknown(o) /\ o \in Refused
    /\ Rollback(r)
    /\ UNCHANGED faults

Commit(r) ==
    /\ phase[r] = "polling"
    /\ todo[r] = {} /\ page[r] = {}
    /\ rows' = [o \in Order |-> IF o \in made[r] THEN rows[o] + 1 ELSE rows[o]]
    /\ local' = [o \in Order |->
            IF o \in moved[r] \/ (o \in made[r] /\ rows[o] = 0)
            THEN snap[r][o] ELSE local[o]]
    /\ ours' = ours \ moved[r]
    /\ End(r)
    /\ UNCHANGED <<events, faults>>

(* The process dies, or the commit or the connection fails. *)
Crash(r) == phase[r] = "polling" /\ Fault /\ Rollback(r)

-----------------------------------------------------------------------------

Step(r) ==
    \/ Start(r)
    \/ \E i \in Integration : Fetch(r, i)
    \/ \E o \in Order : Create(r, o) \/ Update(r, o) \/ Refuse(r, o)
    \/ Commit(r)

World ==
    \E o \in Order :
        \/ Place(o)
        \/ \E status \in PlatformStatus : Move(o, status) \/ Notify(o, status)

Faulty == \E r \in Run : Crash(r) \/ \E i \in Integration : Skip(r, i)

Here == \E o \in Order : \E status \in Status : MoveHere(o, status)

Next == World \/ Here \/ Faulty \/ \E r \in Run : Step(r)

Spec == Init /\ [][Next]_vars

(* Beat and the workers go on; the platform and the faults need not.       *)
FairSpec == Spec /\ \A r \in Run : WF_vars(Step(r))

-----------------------------------------------------------------------------
(* Properties *)

(* An order of the platform is stored at most once, unless two runs have   *)
(* had it inserted at the same time, before either committed: nothing else *)
(* stores it, and no constraint of the table would stop a second row.      *)
(* Neither overlaps elsewhere nor crashes and retries can double it.       *)
NoDuplicates == \A o \in Order \ contested : rows[o] <= 1

(* A stored order was announced, unless the very run that stored it failed *)
(* to (`silent`): the event is never sent by a later run, which finds the  *)
(* order in the table.                                                     *)
StoredIsAnnounced == \A o \in Order : rows[o] > 0 => o \in told \cup silent

(* An announced order is stored, or about to be, unless its run was rolled *)
(* back as a whole: an error of another order or another integration that  *)
(* is handled on the spot undoes nothing.                                  *)
AnnouncedIsStored ==
    \A o \in told : rows[o] > 0 \/ \E r \in Run : o \in made[r]

(* Table and events agree, both ways, though an event goes out before the  *)
(* commit of its row.                                                      *)
EventsAgree == StoredIsAnnounced /\ AnnouncedIsStored

(* Some order on a first page, of whatever shop, is one that the database  *)
(* refuses: nothing is stored then.                                        *)
Blocked == listed \cap Refused # {}

(* A placed order is stored, unless it leaves the first page before, or    *)
(* the synchronisation is blocked.                                         *)
OrdersArrive ==
    \A o \in Order \ Refused :
        o \in listed ~> (rows[o] > 0 \/ o \notin listed \/ Blocked)

(* The stored status of a moving order on the first page comes to agree    *)
(* with the platform's, as far as it is mapped, whatever late webhooks,    *)
(* requests here and overlapping runs have written, unless these have      *)
(* stored it twice.                                                        *)
StatusFollows ==
    \A o \in Moving \ Refused :
        (o \in listed /\ rows[o] = 1)
            ~> (\/ local[o] = Mapped(platform[o])
                \/ rows[o] > 1 \/ o \notin listed \/ Blocked)
=============================================================================
