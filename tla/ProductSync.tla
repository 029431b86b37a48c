----------------------------- MODULE ProductSync -----------------------------
(***************************************************************************)
(* Synchronisation of the products of one integration, full and delta:     *)
(* ProductSyncConsumer and ProductSyncService, the sync state they keep    *)
(* and the job rows that the API shows.                                    *)
(*                                                                         *)
(* Versions and timestamps appear only by comparison.  `current` are the   *)
(* products whose committed row has the platform's present version;        *)
(* `fresh` those modified since the committed last_sync_timestamp, which a *)
(* delta asks for (all of them while it is NULL).  A synchronisation is    *)
(* one transaction; what it has upserted is applied by its commit.         *)
(***************************************************************************)
EXTENDS Naturals, FiniteSets

CONSTANTS
    Consumer,    \* processes that consume sync.requested
    Product,     \* products of the vendor
    Job,         \* manual synchronisations, full, each with a job row
    Beat,        \* the scheduled delta, published again and again
    MaxRetries,  \* DLQConfig.max_retries
    MaxChanges,  \* modifications of products at the platform (bound)
    MaxFaults    \* errors, refusals, crashes, redeliveries (bound)

ASSUME SyncAssumption ==
    /\ Beat \notin Job
    /\ MaxRetries \in Nat /\ MaxChanges \in Nat /\ MaxFaults \in Nat

Message == Job \cup {Beat}

VARIABLES
    (* the database, as committed *)
    current, fresh,
    state,      \* sync_states.status
    mode,       \* sync_states.sync_mode
    job,        \* sync_jobs.status of each job
    (* the topic *)
    ready,      \* messages to be delivered
    tries,      \* retry_count of each message
    (* the consumers *)
    phase,
    work,       \* the message a consumer works on
    left,       \* products of the listing it has not yet read
    page,       \* products of the page it has in hand
    got,        \* products it has upserted
    good,       \* products it has a copy of that is not out of date
    skipped,    \* products whose batch it has dropped
    after,      \* products modified since it took its timestamp
    lock,       \* consumers that hold the row of the sync state
    (* history and bounds *)
    published,  \* jobs whose message has been published
    synced,     \* jobs for which a synchronisation has committed
    lost,       \* jobs whose status may be out of date for good: an update
                \* of it failed, or the last try was cancelled by the timeout
    risk,       \* products a delta may miss (see NothingMissed)
    exposed,    \* a transaction was committed half way
    changes, faults

database == <<current, fresh, state, mode>>
topic == <<ready, tries>>
plan == <<work, left, page, got, good, skipped, after>>
history == <<published, synced, lost, risk, exposed>>
vars == <<database, job, topic, phase, plan, lock, history, changes, faults>>

Phase == {"idle", "insert", "update", "first", "fetch", "store", "commit", "done",
          "failed", "route", "ended"}

(* A consumer has a message in hand; the loop of one that ended is over.   *)
AtWork == {s \in Consumer : phase[s] \notin {"idle", "ended"}}

(* A synchronisation that has read the state and waits for its row, ...    *)
Waiting == {"insert", "update"}
(* ... and one that may read and write products.                           *)
Working == {"first", "fetch", "store", "commit"}

Types ==
    /\ current \subseteq Product /\ fresh \subseteq Product /\ risk \subseteq Product
    /\ state \in {"absent", "idle", "syncing"}
    /\ mode \in {"full", "delta"}
    /\ job \in [Job -> {"none", "pending", "running", "completed", "failed"}]
    /\ ready \subseteq Message
    /\ tries \in [Message -> 0..MaxRetries]
    /\ phase \in [Consumer -> Phase]
    /\ work \in [Consumer -> Message]
    /\ left \in [Consumer -> SUBSET Product]
    /\ page \in [Consumer -> SUBSET Product]
    /\ got \in [Consumer -> SUBSET Product]
    /\ good \in [Consumer -> SUBSET Product]
    /\ skipped \in [Consumer -> SUBSET Product]
    /\ after \in [Consumer -> SUBSET Product]
    /\ lock \subseteq Consumer
    /\ published \subseteq Job /\ synced \subseteq Job /\ lost \subseteq Job
    /\ changes \in 0..MaxChanges
    /\ faults \in 0..MaxFaults

TypeOK == Types /\ exposed \in BOOLEAN

Init ==
    /\ current = {} /\ fresh = Product
    /\ state = "absent" /\ mode = "full"
    /\ job = [j \in Job |-> "none"]
    /\ ready = {}
    /\ tries = [m \in Message |-> 0]
    /\ phase = [s \in Consumer |-> "idle"]
    /\ work = [s \in Consumer |-> Beat]
    /\ left = [s \in Consumer |-> {}]
    /\ page = [s \in Consumer |-> {}]
    /\ got = [s \in Consumer |-> {}]
    /\ good = [s \in Consumer |-> {}]
    /\ skipped = [s \in Consumer |-> {}]
    /\ after = [s \in Consumer |-> {}]
    /\ lock = {}
    /\ published = {} /\ synced = {} /\ lost = {} /\ risk = {}
    /\ exposed = FALSE
    /\ changes = 0 /\ faults = 0

Fault == faults < MaxFaults /\ faults' = faults + 1

Go(s, next) == phase' = [phase EXCEPT ![s] = next]

Forget_Open(s) ==
    /\ left' = [left EXCEPT ![s] = {}]
    /\ page' = [page EXCEPT ![s] = {}]
    /\ got' = [got EXCEPT ![s] = {}]
    /\ good' = [good EXCEPT ![s] = {}]
    /\ skipped' = [skipped EXCEPT ![s] = {}]
    /\ after' = [after EXCEPT ![s] = {}]
    /\ UNCHANGED lock

(* The end of a transaction, by commit or rollback.                        *)
Forget(s) ==
    /\ left' = [left EXCEPT ![s] = {}]
    /\ page' = [page EXCEPT ![s] = {}]
    /\ got' = [got EXCEPT ![s] = {}]
    /\ good' = [good EXCEPT ![s] = {}]
    /\ skipped' = [skipped EXCEPT ![s] = {}]
    /\ after' = [after EXCEPT ![s] = {}]
    /\ lock' = lock \ {s}

LockFree(s) == lock \subseteq {s}

SetJob_Pending(m, st) ==
    IF m \in Job /\ job[m] = "pending"
    THEN job' = [job EXCEPT ![m] = st] /\ UNCHANGED <<lost, faults>>
    ELSE UNCHANGED <<job, lost, faults>>

(* _update_job_status: unconditional, and its failure is only logged.      *)
SetJob(m, st) ==
    IF m \in Job
    THEN \/ job' = [job EXCEPT ![m] = st] /\ UNCHANGED <<lost, faults>>
         \/ lost' = lost \cup {m} /\ Fault /\ UNCHANGED job
    ELSE UNCHANGED <<job, lost, faults>>

-----------------------------------------------------------------------------
(* Requests                                                                *)

(* The job row is committed before its message is published; a message     *)
(* that cannot be published is not published later.                        *)
Request(j) ==
    /\ job[j] = "none"
    /\ job' = [job EXCEPT ![j] = "pending"]
    /\ \/ /\ ready' = ready \cup {j} /\ published' = published \cup {j}
          /\ UNCHANGED faults
       \/ Fault /\ UNCHANGED <<ready, published>>
    /\ UNCHANGED <<database, tries, phase, plan, lock, synced, lost, risk, exposed, changes>>

(* The schedule of product_sync: half an hour, of which a synchronisation  *)
(* may take ten minutes.                                                   *)
Schedule ==
    /\ Beat \notin ready /\ \A s \in AtWork : work[s] # Beat
    /\ ready' = ready \cup {Beat}
    /\ tries' = [tries EXCEPT ![Beat] = 0]
    /\ UNCHANGED <<database, job, phase, plan, lock, history, changes, faults>>

-----------------------------------------------------------------------------
(* A synchronisation                                                       *)

Asks(m) == IF m \in Job THEN "full" ELSE "delta"
Mode(s) == Asks(work[s])

Unsent_Syncing(m) == state # "absent"

(* An UPDATE of the sync state is only sent if it changes the row that was *)
(* read; a row found "syncing" in the same mode is left alone, and not     *)
(* locked.                                                                 *)
Unsent(m) == state = "syncing" /\ mode = Asks(m)

(* process_message: the job is running; the sync state is read, and the    *)
(* timestamp the listing will be filtered by.                              *)
Take(s, m) ==
    /\ phase[s] = "idle" /\ m \in ready
    /\ ready' = ready \ {m}
    /\ work' = [work EXCEPT ![s] = m]
    /\ left' = [left EXCEPT ![s] = IF Asks(m) = "full" THEN Product ELSE fresh]
    /\ Go(s, IF state = "absent" THEN "insert"
             ELSE IF Unsent(m) THEN "first" ELSE "update")
    /\ SetJob(m, "running")
    /\ UNCHANGED <<database, tries, page, got, good, skipped, after, lock, published,
                   synced, risk, exposed, changes>>

(* The flush before the first page locks the row until the commit.         *)
LockState(s) ==
    /\ LockFree(s)
    /\ phase[s] = "update" \/ (phase[s] = "insert" /\ state = "absent")
    /\ lock' = lock \cup {s}
    /\ Go(s, "first")
    /\ UNCHANGED <<database, job, topic, plan, history, changes, faults>>

(* uq_sync_state_integration_entity: another has inserted the row.         *)
InsertFails(s) ==
    /\ phase[s] = "insert" /\ LockFree(s) /\ state # "absent"
    /\ Go(s, "failed")
    /\ Forget(s)
    /\ UNCHANGED <<database, job, topic, work, history, changes, faults>>

(* A page of the listing; its products are copied as they are now.         *)
FetchPage(s, P) ==
    /\ phase[s] \in {"first", "fetch"}
    /\ P # {} /\ P \subseteq left[s]
    /\ page' = [page EXCEPT ![s] = P]
    /\ good' = [good EXCEPT ![s] = @ \cup P]
    /\ left' = [left EXCEPT ![s] = @ \ P]
    /\ Go(s, "store")
    /\ UNCHANGED <<database, job, topic, work, got, skipped, after, lock, history,
                   changes, faults>>

(* An empty listing.  The timestamp is taken when the reading ends, here   *)
(* and below: `after` starts empty.                                        *)
NoProducts(s) ==
    /\ phase[s] = "first" /\ left[s] = {}
    /\ Go(s, "commit")
    /\ UNCHANGED <<database, job, topic, plan, lock, history, changes, faults>>

(* BasalamAPIError, on the first page or a later one, ends the reading but *)
(* not the synchronisation.                                                *)
PageFails(s) ==
    /\ phase[s] \in {"first", "fetch"}
    /\ Go(s, "commit")
    /\ UNCHANGED <<database, job, topic, plan, lock, history, changes, faults>>

(* So does a forbidden product on the first page, which besides is marked, *)
(* and with that everything so far committed.                              *)
Forbidden(s) ==
    /\ Fault
    /\ phase[s] = "first"
    /\ state' = "syncing" /\ mode' = Mode(s)
    /\ lock' = lock \ {s}
    /\ exposed' = TRUE
    /\ Go(s, "commit")
    /\ UNCHANGED <<current, fresh, job, topic, plan, published, synced, lost, risk,
                   changes>>

(* The upsert of a page, batch by batch.  An error of a batch is swallowed *)
(* by gather: where it was raised before the database had the statement,   *)
(* the batch is dropped and the synchronisation goes on without it.  (One  *)
(* that the database raises aborts the transaction: Fail.)                 *)
StorePage(s, stored) ==
    /\ phase[s] = "store"
    /\ stored \subseteq page[s]
    /\ IF stored = page[s] THEN UNCHANGED faults ELSE Fault
    /\ \A t \in Consumer \ {s} : got[t] \cap stored = {}
    /\ got' = [got EXCEPT ![s] = @ \cup stored]
    /\ skipped' = [skipped EXCEPT ![s] = @ \cup (page[s] \ stored)]
    /\ good' = [good EXCEPT ![s] = @ \ (page[s] \ stored)]
    /\ page' = [page EXCEPT ![s] = {}]
    /\ Go(s, IF left[s] = {} THEN "commit" ELSE "fetch")
    /\ UNCHANGED <<database, job, topic, work, left, after, lock, history, changes>>

Copies(s) == page[s] \cup got[s]

(* What this commit may leave behind, and what it puts right.              *)
Behind(s) == left[s] \cup skipped[s] \cup (IF exposed THEN got[s] \ good[s] ELSE {})
Repaired(s) ==
    (got[s] \cap good[s]) \ UNION {Copies(t) : t \in Consumer \ {s}}

Fresh_Commit(s) == {}

(* The products that the next delta will ask for.                          *)
Fresh(s) == after[s]

Commit(s) ==
    /\ phase[s] = "commit" /\ LockFree(s)
    /\ current' = (current \ got[s]) \cup (got[s] \cap good[s])
    /\ fresh' = Fresh(s)
    /\ state' = "idle" /\ mode' = Mode(s)
    /\ synced' = synced \cup ({work[s]} \cap Job)
    /\ risk' = (risk \ Repaired(s)) \cup Behind(s)
    /\ Go(s, "done")
    /\ Forget(s)
    /\ UNCHANGED <<job, topic, work, published, lost, exposed, changes, faults>>

(* process_message returns.                                                *)
Complete(s) ==
    /\ phase[s] = "done"
    /\ SetJob(work[s], "completed")
    /\ Go(s, "idle")
    /\ UNCHANGED <<database, topic, plan, lock, published, synced, risk, exposed, changes>>

-----------------------------------------------------------------------------
(* Failure                                                                 *)

Fail_Swallowed(s) ==
    /\ Fault
    /\ phase[s] \in Waiting \cup Working
    /\ Go(s, "done")
    /\ Forget(s)
    /\ UNCHANGED <<database, job, topic, work, history, changes>>

Fail_Error(s) ==
    /\ Fault
    /\ phase[s] \in Working
    /\ Go(s, "failed")
    /\ Forget(s)
    /\ state' = "error"
    /\ UNCHANGED <<current, fresh, mode, job, topic, work, history, changes>>

(* Any other exception: the network, the database, a deadlock, a refused   *)
(* product or variant.  Everything is rolled back.                         *)
Fail(s) ==
    /\ Fault
    /\ phase[s] \in Waiting \cup Working
    /\ Go(s, "failed")
    /\ Forget(s)
    /\ UNCHANGED <<database, job, topic, work, history, changes>>

(* Waiting for the row of the sync state, or for rows of products.         *)
WaitsFor(s, t) ==
    \/ phase[s] \in Waiting \cup {"commit"} /\ t \in lock \ {s}
    \/ phase[s] = "store" /\ got[t] \cap page[s] # {}

Deadlocked(s) ==
    \E C \in SUBSET Consumer : s \in C /\ \A t \in C : \E u \in C \ {t} : WaitsFor(t, u)

(* PostgreSQL picks a victim among transactions that wait for one another. *)
DeadlockAbort(s) ==
    /\ Deadlocked(s)
    /\ Go(s, "failed")
    /\ Forget(s)
    /\ UNCHANGED <<database, job, topic, work, history, changes, faults>>

(* process_message marks the job failed and raises the error again.        *)
FailJob(s) ==
    /\ phase[s] = "failed"
    /\ SetJob(work[s], "failed")
    /\ Go(s, "route")
    /\ UNCHANGED <<database, topic, plan, lock, published, synced, risk, exposed, changes>>

(* processing_timeout_seconds: process_message is cancelled wherever it is *)
(* waiting, also in an update of the job.  The CancelledError rolls the    *)
(* transaction back, but no `except Exception` sees it, so the job stays   *)
(* as it is.                                                               *)
Timeout(s) ==
    /\ Fault
    /\ s \in AtWork /\ phase[s] # "route"
    /\ Go(s, "route")
    /\ Forget(s)
    /\ UNCHANGED <<database, job, topic, work, history, changes>>

(* The message goes to the retry topic, or for good to the dead letter     *)
(* topic: a job that is running then is so for ever.                       *)
Route(s) ==
    LET m == work[s] IN
    /\ phase[s] = "route"
    /\ IF tries[m] < MaxRetries
       THEN /\ ready' = ready \cup {m}
            /\ tries' = [tries EXCEPT ![m] = @ + 1]
            /\ UNCHANGED lost
       ELSE /\ lost' = lost \cup {j \in Job \cap {m} : job[j] \notin {"completed", "failed"}}
            /\ UNCHANGED topic
    /\ Go(s, "idle")
    /\ UNCHANGED <<database, job, plan, lock, published, synced, risk, exposed, changes,
                   faults>>

(* The message can be sent to neither.  That ends the loop of the consumer *)
(* for good; another is delivered what it has not committed.               *)
RouteFails(s) ==
    /\ Fault
    /\ phase[s] = "route"
    /\ ready' = ready \cup {work[s]}
    /\ Go(s, "ended")
    /\ UNCHANGED <<database, tries, job, plan, lock, history, changes>>

(* The process dies; its message is delivered again.                       *)
Crash(s) ==
    /\ Fault
    /\ s \in AtWork
    /\ ready' = ready \cup {work[s]}
    /\ Go(s, "idle")
    /\ Forget(s)
    /\ UNCHANGED <<database, job, tries, work, history, changes>>

(* A rebalance: another consumer gets the message as well.                 *)
Redeliver(s) ==
    /\ Fault
    /\ s \in AtWork /\ work[s] \notin ready
    /\ ready' = ready \cup {work[s]}
    /\ UNCHANGED <<database, job, tries, phase, plan, lock, history, changes>>

-----------------------------------------------------------------------------
(* The platform                                                            *)

(* A listing that is not fixed yet will have the product.                  *)
Unlisted(s) == phase[s] \in Waiting \cup {"first"}
(* One that has been asked for comes too late, unless the page of the      *)
(* product is still to be read.                                            *)
Overtaken(s, p) == phase[s] \in {"fetch", "store"} /\ p \notin left[s]

Change(p) ==
    /\ changes < MaxChanges
    /\ changes' = changes + 1
    /\ current' = current \ {p}
    /\ fresh' = fresh \cup {p}
    /\ good' = [s \in Consumer |-> good[s] \ {p}]
    /\ left' = [s \in Consumer |-> IF Unlisted(s) THEN left[s] \cup {p} ELSE left[s]]
    /\ after' = [s \in Consumer |->
          IF phase[s] = "commit" THEN after[s] \cup {p} ELSE after[s]]
    /\ risk' = IF \E s \in Consumer : Overtaken(s, p) THEN risk \cup {p} ELSE risk
    /\ UNCHANGED <<state, mode, job, topic, phase, work, page, got, skipped, lock,
                   published, synced, lost, exposed, faults>>

Sync(s) ==
    \/ \E m \in Message : Take(s, m)
    \/ LockState(s) \/ InsertFails(s)
    \/ \E P \in SUBSET Product : FetchPage(s, P)
    \/ NoProducts(s) \/ StorePage(s, page[s]) \/ Commit(s)
    \/ Complete(s) \/ FailJob(s) \/ Route(s) \/ DeadlockAbort(s)

Next ==
    \/ \E j \in Job : Request(j)
    \/ Schedule
    \/ \E s \in Consumer :
          \/ Sync(s) \/ PageFails(s) \/ Forbidden(s)
          \/ \E stored \in SUBSET Product : StorePage(s, stored)
          \/ Fail(s) \/ Timeout(s) \/ RouteFails(s) \/ Crash(s) \/ Redeliver(s)
    \/ \E p \in Product : Change(p)

Spec == Init /\ [][Next]_vars

(***************************************************************************)
(* celery beat goes on; Kafka delivers what it has (KafkaConsumer); a      *)
(* consumer whose loop has not ended goes on with its message, and         *)
(* PostgreSQL gives the row to each of those that wait for it in turn.     *)
(***************************************************************************)
Fairness ==
    /\ WF_vars(Schedule)
    /\ \A m \in Message : SF_vars(\E s \in Consumer : Take(s, m))
    /\ \A s \in Consumer : SF_vars(s \in AtWork /\ Sync(s))

FairSpec == Spec /\ Fairness

-----------------------------------------------------------------------------
(* Properties                                                              *)

(***************************************************************************)
(* A row that is behind the platform is asked for by the next delta, or it *)
(* is a known risk: the product changed while a synchronisation that had   *)
(* already read its page was under way, a page that had it could not be    *)
(* read, or its batch was dropped.  Crashes, roll backs, timeouts,         *)
(* retries, redeliveries and synchronisations that overlap lose nothing    *)
(* more.                                                                   *)
(***************************************************************************)
NothingMissed == Product \ current \subseteq fresh \cup risk

(***************************************************************************)
(* Until a forbidden product commits a transaction half way, the row of    *)
(* the sync state keeps two synchronisations of the integration, whose     *)
(* upserts would overwrite newer rows by older copies, from running at     *)
(* once; nothing but the change of its status does.                        *)
(***************************************************************************)
OneAtATime ==
    ~exposed => \A s, t \in Consumer :
                    phase[s] \in Working /\ phase[t] \in Working => s = t

(***************************************************************************)
(* A job is shown as completed only if a synchronisation made for it has   *)
(* been committed, in spite of retries and redeliveries of its message.    *)
(***************************************************************************)
CompletedIsSynced == \A j \in Job : job[j] = "completed" => j \in synced

(***************************************************************************)
(* Once published, a job ends as completed or failed and stays so, unless  *)
(* an update of its row was lost, its last try timed out, or failures to   *)
(* route a message have ended the loop of every consumer.                  *)
(***************************************************************************)
NobodyListens == \A s \in Consumer : phase[s] = "ended"

JobsEnd ==
    \A j \in Job :
        j \in published ~>
            [](job[j] \in {"completed", "failed"} \/ j \in lost \/ NobodyListens)

(***************************************************************************)
(* Deltas catch up: the row of every product becomes current, or the       *)
(* product becomes a risk, while there is a consumer left.                 *)
(***************************************************************************)
CatchesUp ==
    \A p \in Product : p \notin current ~> p \in current \cup risk \/ NobodyListens
=============================================================================
