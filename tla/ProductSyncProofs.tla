-------------------------- MODULE ProductSyncProofs --------------------------
(***************************************************************************)
(* What ProductSync guarantees for any number of consumers, products and   *)
(* jobs: no row falls behind unnoticed, synchronisations exclude one       *)
(* another until a forbidden product lets them in, and a completed job was *)
(* synchronised.                                                           *)
(***************************************************************************)
EXTENDS ProductSync, TLAPS

(* The row of the sync state is locked by one synchronisation at a time,   *)
(* and none works without it, unless a commit half way has left "syncing". *)
Locked ==
    /\ \A s \in lock : phase[s] \in Working
    /\ \A s, t \in lock : s = t
    /\ ~exposed => /\ state # "syncing"
                   /\ \A s \in Consumer : phase[s] \in Working => s \in lock

(* What a synchronisation has in hand in each phase.                       *)
Tidy(s) ==
    /\ phase[s] \notin Working \/ phase[s] = "first" =>
          page[s] = {} /\ got[s] = {} /\ good[s] = {} /\ skipped[s] = {} /\ after[s] = {}
    /\ phase[s] \in {"fetch", "commit"} => page[s] = {}
    /\ phase[s] \in {"fetch", "store"} => after[s] = {}
    /\ good[s] \subseteq Copies(s)
    /\ left[s] \cap Copies(s) = {} /\ page[s] \cap got[s] = {}

(* A row that is behind is still to be read by each synchronisation under  *)
(* way, or in its hands as it is now, or in a batch it dropped, or changed *)
(* since, or a risk.                                                       *)
Covers(s) ==
    phase[s] \in Waiting \cup Working =>
        Product \ current \subseteq
            left[s] \cup good[s] \cup skipped[s] \cup after[s] \cup risk

(* An outdated copy is of a product that the next delta will have or that  *)
(* is a risk; writing it takes back no newer row unless there is company.  *)
Outdated(s) ==
    /\ Copies(s) \ good[s] \subseteq after[s] \cup risk
    /\ ~exposed => (Copies(s) \ good[s]) \cap current = {}

Sessions == \A s \in Consumer : Tidy(s) /\ Covers(s) /\ Outdated(s)

DoneIsSynced ==
    \A s \in Consumer : phase[s] = "done" /\ work[s] \in Job => work[s] \in synced

Inv ==
    /\ Types
    /\ Locked
    /\ Sessions
    /\ NothingMissed
    /\ DoneIsSynced
    /\ CompletedIsSynced

-----------------------------------------------------------------------------

LEMMA InvInit == Init => Inv
<1> SUFFICES ASSUME Init PROVE Inv
  OBVIOUS
<1>1. Types
  BY SyncAssumption DEF Init, Types, Phase, Message
<1>2. Locked /\ NothingMissed /\ DoneIsSynced /\ CompletedIsSynced
  BY DEF Init, Locked, Waiting, Working, NothingMissed, DoneIsSynced, CompletedIsSynced
<1>3. Sessions
  BY DEF Init, Sessions, Tidy, Covers, Outdated, Copies, Waiting, Working
<1>4. QED
  BY <1>1, <1>2, <1>3 DEF Inv

(* What the end of a transaction forgets.                                  *)
LEMMA ForgetTypes ==
    ASSUME Types, NEW s \in Consumer, Forget(s)
    PROVE  /\ left' \in [Consumer -> SUBSET Product]
           /\ page' \in [Consumer -> SUBSET Product]
           /\ got' \in [Consumer -> SUBSET Product]
           /\ good' \in [Consumer -> SUBSET Product]
           /\ skipped' \in [Consumer -> SUBSET Product]
           /\ after' \in [Consumer -> SUBSET Product]
           /\ lock' \subseteq Consumer
           /\ lock' = lock \ {s}
           /\ left'[s] = {} /\ page'[s] = {} /\ got'[s] = {} /\ good'[s] = {}
           /\ skipped'[s] = {} /\ after'[s] = {}
           /\ \A t \in Consumer \ {s} :
                 /\ left'[t] = left[t] /\ page'[t] = page[t] /\ got'[t] = got[t]
                 /\ good'[t] = good[t] /\ skipped'[t] = skipped[t]
                 /\ after'[t] = after[t]
  BY DEF Types, Forget

(* An update of a job row, also one that is lost.                          *)
LEMMA JobTypes ==
    ASSUME Types, NEW m \in Message, NEW st \in {"running", "completed", "failed"},
           SetJob(m, st)
    PROVE  /\ job' \in [Job -> {"none", "pending", "running", "completed", "failed"}]
           /\ lost' \subseteq Job
           /\ faults' \in 0..MaxFaults
           /\ \A j \in Job : job'[j] = "completed" =>
                 job[j] = "completed" \/ (j = m /\ st = "completed")
  BY SyncAssumption DEF Types, SetJob, Fault, Message

(* A synchronisation that ends without a commit: by a failure, or because  *)
(* it was over.                                                            *)
LEMMA InvEnds ==
    ASSUME Inv, NEW s \in Consumer, NEW next \in {"idle", "failed", "route"},
           Go(s, next), Forget(s),
           UNCHANGED <<database, job, work, history, tries, changes>>,
           faults' \in 0..MaxFaults, ready' \subseteq Message
    PROVE  Inv'
<1> USE DEF Inv, database, history
<1>1. /\ phase' \in [Consumer -> Phase] /\ phase'[s] = next
      /\ \A t \in Consumer \ {s} : phase'[t] = phase[t]
  BY DEF Go, Types, Phase
<1>2. Types'
  BY <1>1, ForgetTypes DEF Types
<1>3. Locked'
  BY <1>1, ForgetTypes DEF Locked, Working
<1>4. Sessions'
  <2> SUFFICES ASSUME NEW t \in Consumer
               PROVE  Tidy(t)' /\ Covers(t)' /\ Outdated(t)'
    BY DEF Sessions
  <2>1. CASE t = s
    BY <1>1, <2>1, ForgetTypes DEF Tidy, Covers, Outdated, Copies, Waiting, Working
  <2>2. CASE t # s
    BY <1>1, <2>2, ForgetTypes DEF Sessions, Tidy, Covers, Outdated, Copies
  <2>3. QED
    BY <2>1, <2>2
<1>5. NothingMissed' /\ DoneIsSynced' /\ CompletedIsSynced'
  BY <1>1 DEF NothingMissed, DoneIsSynced, CompletedIsSynced
<1>6. QED
  BY <1>2, <1>3, <1>4, <1>5

LEMMA InvFailures ==
    ASSUME Inv, NEW s \in Consumer,
           InsertFails(s) \/ Fail(s) \/ DeadlockAbort(s) \/ Timeout(s) \/ Crash(s)
    PROVE  Inv'
<1> USE DEF topic
<1>1. faults \in 0..MaxFaults /\ ready \subseteq Message /\ work[s] \in Message
  BY DEF Inv, Types
<1>2. CASE InsertFails(s)
  BY <1>1, <1>2, InvEnds DEF InsertFails
<1>3. CASE Fail(s)
  BY <1>1, <1>3, SyncAssumption, InvEnds DEF Fail, Fault
<1>4. CASE DeadlockAbort(s)
  BY <1>1, <1>4, InvEnds DEF DeadlockAbort
<1>5. CASE Crash(s)
  BY <1>1, <1>5, SyncAssumption, InvEnds DEF Crash, Fault
<1>6. CASE Timeout(s)
  BY <1>1, <1>6, SyncAssumption, InvEnds DEF Timeout, Fault
<1>7. QED
  BY <1>2, <1>3, <1>4, <1>5, <1>6

(* Requests, the schedule, redeliveries.                                   *)
LEMMA InvTopic ==
    ASSUME Inv,
           \/ \E j \in Job : Request(j)
           \/ Schedule
           \/ \E s \in Consumer : Redeliver(s)
           \/ UNCHANGED vars
    PROVE  Inv'
<1> USE DEF Inv, database, plan, history, topic, vars
<1>1. UNCHANGED <<database, phase, plan, lock, synced, lost, risk, exposed, changes>>
  BY DEF Request, Schedule, Redeliver
<1>2. Types'
  <2>1. ASSUME NEW j \in Job, Request(j) PROVE Types'
    BY <1>1, <2>1, SyncAssumption DEF Request, Types, Message, Fault
  <2>2. CASE Schedule
    BY <1>1, <2>2, SyncAssumption DEF Schedule, Types, Message
  <2>3. ASSUME NEW s \in Consumer, Redeliver(s) PROVE Types'
    BY <1>1, <2>3, SyncAssumption DEF Redeliver, Types, Fault
  <2>4. CASE UNCHANGED vars
    BY <2>4 DEF Types
  <2>5. QED
    BY <2>1, <2>2, <2>3, <2>4
<1>3. Locked' /\ Sessions' /\ NothingMissed' /\ DoneIsSynced'
  BY <1>1 DEF Locked, Sessions, Tidy, Covers, Outdated, Copies, NothingMissed, DoneIsSynced
<1>4. CompletedIsSynced'
  BY <1>1 DEF CompletedIsSynced, Request, Schedule, Redeliver, Types
<1>5. QED
  BY <1>2, <1>3, <1>4

(* A message is taken up, with a listing of all that is behind.            *)
LEMMA InvTake ==
    ASSUME Inv, NEW s \in Consumer, NEW m \in Message, Take(s, m)
    PROVE  Inv'
<1> USE DEF Inv, database
<1>1. /\ phase[s] = "idle"
      /\ phase' \in [Consumer -> Phase]
      /\ phase'[s] \in Waiting \cup {"first"}
      /\ phase'[s] = "first" => state = "syncing"
      /\ \A t \in Consumer \ {s} : phase'[t] = phase[t]
  BY DEF Take, Go, Types, Phase, Unsent, Waiting
<1>2. /\ left' \in [Consumer -> SUBSET Product]
      /\ Product \ current \subseteq left'[s] \cup risk
      /\ \A t \in Consumer \ {s} : left'[t] = left[t]
  BY DEF Take, Types, NothingMissed
<1>3. /\ UNCHANGED <<database, tries, page, got, good, skipped, after, lock, published,
                     synced, risk, exposed, changes>>
      /\ ready' = ready \ {m}
      /\ work' = [work EXCEPT ![s] = m]
      /\ SetJob(m, "running")
  BY DEF Take
<1>4. Types'
  BY <1>1, <1>2, <1>3, JobTypes DEF Types
<1>5. Locked'
  BY <1>1, <1>3 DEF Locked, Waiting, Working, Types
<1>6. Sessions'
  <2> SUFFICES ASSUME NEW t \in Consumer
               PROVE  Tidy(t)' /\ Covers(t)' /\ Outdated(t)'
    BY DEF Sessions
  <2>1. Tidy(t) /\ Covers(t) /\ Outdated(t)
    BY DEF Sessions
  <2>2. CASE t = s
    BY <1>1, <1>2, <1>3, <2>1, <2>2 DEF Tidy, Covers, Outdated, Copies, Waiting, Working
  <2>3. CASE t # s
    BY <1>1, <1>2, <1>3, <2>1, <2>3 DEF Tidy, Covers, Outdated, Copies
  <2>4. QED
    BY <2>2, <2>3
<1>7. NothingMissed' /\ DoneIsSynced'
  BY <1>1, <1>3 DEF NothingMissed, DoneIsSynced, Types, Waiting
<1>8. CompletedIsSynced'
  BY <1>3, JobTypes DEF CompletedIsSynced
<1>9. QED
  BY <1>4, <1>5, <1>6, <1>7, <1>8

(* The steps of a synchronisation up to its commit.                        *)
LEMMA InvReading ==
    ASSUME Inv, NEW s \in Consumer,
           \/ LockState(s) \/ NoProducts(s) \/ PageFails(s)
           \/ \E stored \in SUBSET Product : StorePage(s, stored)
           \/ \E P \in SUBSET Product : FetchPage(s, P)
    PROVE  Inv'
<1> USE DEF Inv, database, topic, plan, history
<1>1. Tidy(s) /\ Covers(s) /\ Outdated(s)
  BY DEF Sessions
<1>2. /\ phase[s] \in Waiting \cup {"first", "fetch", "store"}
      /\ phase' \in [Consumer -> Phase]
      /\ phase'[s] \in {"first", "fetch", "store", "commit"}
      /\ \A t \in Consumer \ {s} : phase'[t] = phase[t]
      /\ faults' \in 0..MaxFaults
      /\ UNCHANGED <<database, job, topic, work, after, history, changes>>
  BY SyncAssumption DEF LockState, NoProducts, PageFails, StorePage, FetchPage, Go, Fault,
     Types, Phase, Waiting
<1>3. /\ left' \in [Consumer -> SUBSET Product]
      /\ page' \in [Consumer -> SUBSET Product]
      /\ got' \in [Consumer -> SUBSET Product]
      /\ good' \in [Consumer -> SUBSET Product]
      /\ skipped' \in [Consumer -> SUBSET Product]
      /\ lock' \subseteq Consumer
      /\ \A t \in Consumer \ {s} : /\ left'[t] = left[t] /\ page'[t] = page[t]
                                   /\ got'[t] = got[t] /\ good'[t] = good[t]
                                   /\ skipped'[t] = skipped[t]
  BY DEF LockState, NoProducts, PageFails, StorePage, FetchPage, Types
<1>4. Types'
  BY <1>2, <1>3 DEF Types
<1>5. Locked'
  <2>1. CASE LockState(s)
    BY <1>2, <2>1 DEF LockState, LockFree, Locked, Working, Waiting
  <2>2. CASE ~LockState(s)
    <3>1. phase[s] \in Working /\ lock' = lock
      BY <2>2 DEF NoProducts, PageFails, StorePage, FetchPage, Working
    <3>2. QED
      BY <1>2, <3>1 DEF Locked, Working, Types
  <2>3. QED
    BY <2>1, <2>2
<1>6. Tidy(s)' /\ Covers(s)' /\ Outdated(s)'
  <2> USE DEF Tidy, Covers, Outdated, Copies, Waiting, Working
  <2>1. CASE LockState(s)
    BY <1>1, <1>2, <2>1 DEF LockState, Go, Types
  <2>2. CASE NoProducts(s) \/ PageFails(s)
    BY <1>1, <1>2, <2>2 DEF NoProducts, PageFails, Go, Types
  <2>3. ASSUME NEW stored \in SUBSET Product, StorePage(s, stored)
        PROVE  Tidy(s)' /\ Covers(s)' /\ Outdated(s)'
    <3>1. /\ phase[s] = "store" /\ phase'[s] \in {"fetch", "commit"}
          /\ stored \subseteq page[s]
          /\ page'[s] = {}
          /\ got'[s] = got[s] \cup stored
          /\ skipped'[s] = skipped[s] \cup (page[s] \ stored)
          /\ good'[s] = good[s] \ (page[s] \ stored)
          /\ UNCHANGED <<left, after, risk, current, exposed>>
      BY <2>3 DEF StorePage, Go, Types
    <3>2. Tidy(s)'
      BY <1>1, <3>1
    <3>3. Covers(s)'
      BY <1>1, <3>1
    <3>4. Outdated(s)'
      BY <1>1, <3>1
    <3>5. QED
      BY <3>2, <3>3, <3>4
  <2>4. ASSUME NEW P \in SUBSET Product, FetchPage(s, P)
        PROVE  Tidy(s)' /\ Covers(s)' /\ Outdated(s)'
    BY <1>1, <1>2, <2>4 DEF FetchPage, Go, Types
  <2>5. QED
    BY <2>1, <2>2, <2>3, <2>4
<1>7. Sessions'
  <2> SUFFICES ASSUME NEW t \in Consumer, t # s
               PROVE  Tidy(t)' /\ Covers(t)' /\ Outdated(t)'
    BY <1>6 DEF Sessions
  <2>1. Tidy(t) /\ Covers(t) /\ Outdated(t)
    BY DEF Sessions
  <2>2. QED
    BY <1>2, <1>3, <2>1 DEF Tidy, Covers, Outdated, Copies
<1>8. NothingMissed' /\ DoneIsSynced' /\ CompletedIsSynced'
  BY <1>2 DEF NothingMissed, DoneIsSynced, CompletedIsSynced
<1>9. QED
  BY <1>4, <1>5, <1>7, <1>8

LEMMA InvForbidden ==
    ASSUME Inv, NEW s \in Consumer, Forbidden(s)
    PROVE  Inv'
<1> USE DEF Inv, topic, plan
<1>1. /\ phase[s] = "first" /\ phase'[s] = "commit"
      /\ phase' \in [Consumer -> Phase]
      /\ \A t \in Consumer \ {s} : phase'[t] = phase[t]
      /\ lock' = lock \ {s} /\ exposed'
      /\ UNCHANGED <<current, fresh, job, topic, plan, published, synced, lost, risk,
                     changes>>
  BY DEF Forbidden, Go, Types, Phase
<1>2. Types'
  BY <1>1, SyncAssumption DEF Forbidden, Fault, Types, Mode, Asks
<1>3. Locked'
  BY <1>1 DEF Locked, Working, Types
<1>4. Sessions'
  BY <1>1 DEF Sessions, Tidy, Covers, Outdated, Copies, Waiting, Working
<1>5. NothingMissed' /\ DoneIsSynced' /\ CompletedIsSynced'
  BY <1>1 DEF NothingMissed, DoneIsSynced, CompletedIsSynced
<1>6. QED
  BY <1>2, <1>3, <1>4, <1>5

(* A commit leaves behind what it had of older copies only when it is not  *)
(* alone, and says so in the risks.                                        *)
LEMMA InvCommit ==
    ASSUME Inv, NEW s \in Consumer, Commit(s)
    PROVE  Inv'
<1> USE DEF Inv
<1>1. /\ phase[s] = "commit" /\ phase'[s] = "done"
      /\ phase' \in [Consumer -> Phase]
      /\ \A t \in Consumer \ {s} : phase'[t] = phase[t]
      /\ state' = "idle" /\ mode' = Mode(s)
      /\ synced' = synced \cup ({work[s]} \cap Job)
      /\ Forget(s)
      /\ UNCHANGED <<job, topic, work, published, lost, exposed, changes, faults>>
  BY DEF Commit, Go, Types, Phase
<1>2. /\ Tidy(s) /\ Covers(s) /\ Outdated(s)
      /\ left[s] \subseteq Product /\ got[s] \subseteq Product
      /\ good[s] \subseteq got[s] /\ after[s] \subseteq Product
      /\ skipped[s] \subseteq Product
      /\ Copies(s) = got[s]
  BY <1>1 DEF Sessions, Tidy, Types, Copies
<1> DEFINE fixed == got[s] \cap good[s]
           stale == got[s] \ good[s]
<1>3. /\ current' = (current \ got[s]) \cup fixed
      /\ fresh' = after[s]
      /\ risk' = (risk \ (fixed \ UNION {Copies(t) : t \in Consumer \ {s}}))
                 \cup left[s] \cup skipped[s] \cup (IF exposed THEN stale ELSE {})
  BY DEF Commit, Fresh, Repaired, Behind
<1>4. current \subseteq Product /\ risk \subseteq Product
  BY DEF Types
<1>5. Types'
  BY <1>1, <1>2, <1>3, <1>4, ForgetTypes DEF Types, Mode, Asks, topic
<1>6. Locked'
  <2>1. \A t \in lock' : phase'[t] \in Working
    BY <1>1, ForgetTypes DEF Locked
  <2>2. QED
    BY <1>1, <2>1, ForgetTypes DEF Locked, Working
<1>7. stale \subseteq after[s] \cup risk /\ (~exposed => stale \cap current = {})
  BY <1>2 DEF Outdated
<1>8. Product \ current \subseteq
          left[s] \cup good[s] \cup skipped[s] \cup after[s] \cup risk
  BY <1>1, <1>2 DEF Covers, Working
<1>9. risk \subseteq risk' \cup current'
  BY <1>3
<1>10. Product \ current' \subseteq (Product \ current) \cup risk'
  BY <1>3, <1>7
<1>11. NothingMissed'
  <2> SUFFICES ASSUME NEW p \in Product, p \notin current' PROVE p \in fresh' \cup risk'
    BY DEF NothingMissed
  <2>1. CASE p \in got[s]
    BY <1>3, <1>7, <1>9, <2>1
  <2>2. CASE p \notin got[s]
    BY <1>2, <1>3, <1>8, <1>9, <2>2
  <2>3. QED
    BY <2>1, <2>2
<1>12. Sessions'
  <2> SUFFICES ASSUME NEW t \in Consumer
               PROVE  Tidy(t)' /\ Covers(t)' /\ Outdated(t)'
    BY DEF Sessions
  <2>1. CASE t = s
    BY <1>1, <2>1, ForgetTypes DEF Tidy, Covers, Outdated, Copies, Waiting, Working
  <2>2. CASE t # s
    <3>1. Tidy(t) /\ Covers(t) /\ Outdated(t)
      BY DEF Sessions
    <3>2. /\ phase'[t] = phase[t] /\ left'[t] = left[t] /\ page'[t] = page[t]
          /\ got'[t] = got[t] /\ good'[t] = good[t] /\ skipped'[t] = skipped[t]
          /\ after'[t] = after[t]
          /\ Copies(t)' = Copies(t)
      BY <1>1, <2>2, ForgetTypes DEF Copies
    <3>3. Tidy(t)'
      BY <3>1, <3>2 DEF Tidy
    <3>4. Covers(t)'
      BY <1>9, <1>10, <3>1, <3>2 DEF Covers
    <3>5. \A p \in risk : p \in Copies(t) => p \in risk'
      BY <1>3, <2>2
    <3>6. ASSUME ~exposed, Copies(t) # {} PROVE FALSE
      <4>1. phase[t] \in Working
        BY <3>1, <3>6 DEF Tidy, Copies
      <4>2. QED
        BY <1>1, <2>2, <3>6, <4>1 DEF Locked, Working
    <3>7. Outdated(t)'
      BY <1>1, <3>1, <3>2, <3>5, <3>6 DEF Outdated
    <3>8. QED
      BY <3>3, <3>4, <3>7
  <2>3. QED
    BY <2>1, <2>2
<1>13. DoneIsSynced' /\ CompletedIsSynced'
  BY <1>1 DEF DoneIsSynced, CompletedIsSynced
<1>14. QED
  BY <1>5, <1>6, <1>11, <1>12, <1>13

(* The job and the message afterwards.                                     *)
LEMMA InvAfterwards ==
    ASSUME Inv, NEW s \in Consumer,
           Complete(s) \/ FailJob(s) \/ Route(s) \/ RouteFails(s)
    PROVE  Inv'
<1> USE DEF Inv, database, plan, topic
<1>1. /\ phase[s] \in {"done", "failed", "route"}
      /\ phase'[s] \in {"idle", "route", "ended"}
      /\ phase' \in [Consumer -> Phase]
      /\ \A t \in Consumer \ {s} : phase'[t] = phase[t]
      /\ UNCHANGED <<database, plan, lock, published, synced, risk, exposed, changes>>
  BY DEF Complete, FailJob, Route, RouteFails, Go, history, Types, Phase
<1>2. work[s] \in Message
  BY DEF Types
<1>3. /\ ready' \subseteq Message
      /\ tries' \in [Message -> 0..MaxRetries]
  BY <1>2, SyncAssumption DEF Complete, FailJob, Route, RouteFails, Types
<1>4. /\ job' \in [Job -> {"none", "pending", "running", "completed", "failed"}]
      /\ lost' \subseteq Job
      /\ faults' \in 0..MaxFaults
      /\ \A j \in Job : job'[j] = "completed" =>
            job[j] = "completed" \/ (j = work[s] /\ phase[s] = "done")
  <2>1. CASE Complete(s)
    BY <1>2, <2>1, JobTypes DEF Complete
  <2>2. CASE FailJob(s)
    BY <1>2, <2>2, JobTypes DEF FailJob
  <2>3. CASE Route(s)
    BY <2>3 DEF Route, Types
  <2>4. CASE RouteFails(s)
    BY <2>4, SyncAssumption DEF RouteFails, Fault, history, Types
  <2>5. QED
    BY <2>1, <2>2, <2>3, <2>4
<1>5. Types'
  BY <1>1, <1>3, <1>4 DEF Types
<1>6. Locked'
  BY <1>1 DEF Locked, Working, Types
<1>7. Sessions'
  BY <1>1 DEF Sessions, Tidy, Covers, Outdated, Copies, Waiting, Working
<1>8. NothingMissed' /\ DoneIsSynced'
  BY <1>1 DEF NothingMissed, DoneIsSynced
<1>9. CompletedIsSynced'
  BY <1>1, <1>4 DEF CompletedIsSynced, DoneIsSynced
<1>10. QED
  BY <1>5, <1>6, <1>7, <1>8, <1>9

(* A product that changes is fresh, is in every listing that is not fixed, *)
(* and is a risk if a reading has passed it.                               *)
LEMMA InvChange ==
    ASSUME Inv, NEW p \in Product, Change(p)
    PROVE  Inv'
<1> USE DEF Inv
<1>1. /\ current' = current \ {p} /\ fresh' = fresh \cup {p}
      /\ \A s \in Consumer :
            /\ good'[s] = good[s] \ {p}
            /\ left'[s] = IF Unlisted(s) THEN left[s] \cup {p} ELSE left[s]
            /\ after'[s] = IF phase[s] = "commit" THEN after[s] \cup {p} ELSE after[s]
            /\ Overtaken(s, p) => p \in risk'
            /\ Copies(s)' = Copies(s)
      /\ risk \subseteq risk'
      /\ UNCHANGED <<state, mode, job, topic, phase, work, page, got, skipped, lock,
                     published, synced, lost, exposed, faults>>
  BY DEF Change, Copies
<1>2. Types'
  BY SyncAssumption DEF Change, Types, topic
<1>3. Locked'
  BY <1>1 DEF Locked
<1>4. Sessions'
  <2> SUFFICES ASSUME NEW s \in Consumer
               PROVE  Tidy(s)' /\ Covers(s)' /\ Outdated(s)'
    BY DEF Sessions
  <2>1. Tidy(s) /\ Covers(s) /\ Outdated(s)
    BY DEF Sessions
  <2>2. Unlisted(s) => Copies(s) = {} /\ good[s] = {} /\ after[s] = {}
    BY <2>1 DEF Unlisted, Tidy, Copies, Waiting, Working
  <2>3. Tidy(s)'
    BY <1>1, <2>1, <2>2 DEF Tidy, Unlisted, Waiting, Working
  <2>4. phase[s] \in Waiting \cup Working =>
            p \in left'[s] \cup after'[s] \cup risk'
    BY <1>1 DEF Unlisted, Overtaken, Waiting, Working
  <2>5. left[s] \subseteq left'[s] /\ after[s] \subseteq after'[s] /\ good[s] \subseteq good'[s] \cup {p}
    BY <1>1
  <2>6. Covers(s)'
    BY <1>1, <2>1, <2>4, <2>5 DEF Covers
  <2>7. p \in Copies(s) => p \in after'[s] \cup risk'
    BY <1>1, <2>1 DEF Tidy, Overtaken, Copies, Working
  <2>8. Outdated(s)'
    BY <1>1, <2>1, <2>5, <2>7 DEF Outdated
  <2>9. QED
    BY <2>3, <2>6, <2>8
<1>5. NothingMissed' /\ DoneIsSynced' /\ CompletedIsSynced'
  BY <1>1 DEF NothingMissed, DoneIsSynced, CompletedIsSynced
<1>6. QED
  BY <1>2, <1>3, <1>4, <1>5

LEMMA InvNext == Inv /\ [Next]_vars => Inv'
<1> SUFFICES ASSUME Inv, [Next]_vars PROVE Inv'
  OBVIOUS
<1>1. ASSUME NEW s \in Consumer, NEW stored \in SUBSET Product, StorePage(s, stored)
      PROVE  Inv'
  BY <1>1, InvReading
<1>2. ASSUME NEW s \in Consumer, Sync(s) PROVE Inv'
  <2>1. page[s] \in SUBSET Product
    BY DEF Inv, Types
  <2>2. QED
    BY <1>1, <1>2, <2>1, InvTake, InvReading, InvCommit, InvAfterwards, InvFailures
       DEF Sync
<1>3. QED
  BY <1>1, <1>2, InvTopic, InvReading, InvForbidden, InvAfterwards, InvFailures,
     InvChange DEF Next

(* The inductive invariant, for any number of consumers and products.      *)
THEOREM InvHolds == Spec => []Inv
  BY InvInit, InvNext, PTL DEF Spec

Flag == exposed \in BOOLEAN

(* The variables of every instance keep their types.                       *)
THEOREM TypeCorrect == Spec => []TypeOK
<1>1. Init => Flag
  BY DEF Init, Flag
<1>2. Flag /\ [Next]_vars => Flag'
  <2>1. ASSUME NEW s \in Consumer,
               \/ Sync(s) \/ Fail(s) \/ Crash(s) \/ Redeliver(s)
               \/ Timeout(s) \/ RouteFails(s)
               \/ \E stored \in SUBSET Product : StorePage(s, stored)
        PROVE  UNCHANGED exposed
    BY <2>1 DEF Sync, Take, LockState, InsertFails, FetchPage, NoProducts, StorePage,
       Commit, Complete, Fail, FailJob, DeadlockAbort, Timeout, Route, RouteFails,
       Crash, Redeliver, history
  <2>2. ASSUME NEW s \in Consumer, PageFails(s)
        PROVE  UNCHANGED exposed
    BY <2>2 DEF PageFails, history
  <2>3. ASSUME NEW s \in Consumer, Forbidden(s)
        PROVE  exposed' = TRUE
    BY <2>3, Zenon DEF Forbidden
  <2>4. ASSUME \/ \E j \in Job : Request(j)
               \/ Schedule
               \/ \E p \in Product : Change(p)
               \/ UNCHANGED vars
        PROVE  UNCHANGED exposed
    BY <2>4 DEF Request, Schedule, Change, history, vars
  <2>5. [Next]_vars => exposed' = exposed \/ exposed' = TRUE
    BY <2>1, <2>2, <2>3, <2>4, Zenon DEF Next
  <2>6. QED
    BY <2>5, Zenon DEF Flag
<1>3. Inv /\ Flag => TypeOK
  BY DEF Inv, TypeOK, Flag
<1>4. QED
  BY <1>1, <1>2, <1>3, InvHolds, PTL DEF Spec

(* Crashes, retries, redeliveries and overlapping synchronisations leave   *)
(* no product behind but those that NothingMissed calls a risk.            *)
THEOREM NothingIsMissed == Spec => []NothingMissed
  BY InvHolds, PTL DEF Inv

(* Synchronisations of one integration exclude one another until a         *)
(* forbidden product has committed one half way.                           *)
THEOREM RunsAlone == Spec => []OneAtATime
<1>1. Inv => OneAtATime
  BY DEF Inv, Locked, OneAtATime
<1>2. QED
  BY <1>1, InvHolds, PTL

(* A completed job was synchronised.                                       *)
THEOREM CompletedJobsSynced == Spec => []CompletedIsSynced
  BY InvHolds, PTL DEF Inv

-----------------------------------------------------------------------------
(* The life of a job, and that synchronisations do not wait for ever.      *)

InHand(j) == \E s \in AtWork : work[s] = j

(* A job whose message was published is ended, has a message that is to be *)
(* delivered or is worked on, or lost the update that would have ended it; *)
(* one whose message was not stays as its request left it.                 *)
JobsAccounted ==
    /\ \A j \in published :
          j \in ready \/ InHand(j) \/ job[j] \in {"completed", "failed"} \/ j \in lost
    /\ \A j \in Job \ published :
          job[j] \in {"none", "pending"} /\ j \notin ready /\ ~InHand(j)

(* The steps that move neither messages nor jobs.                          *)
LEMMA AccountedInside ==
    ASSUME JobsAccounted, UNCHANGED <<job, ready, work, published, lost>>,
           AtWork' = AtWork
    PROVE  JobsAccounted'
<1>1. \A j : InHand(j)' <=> InHand(j)
  BY DEF InHand
<1>. QED
  BY <1>1 DEF JobsAccounted

LEMMA AccountedTake ==
    ASSUME Types, JobsAccounted, NEW s \in Consumer, NEW m \in Message, Take(s, m)
    PROVE  JobsAccounted'
<1>1. /\ phase[s] = "idle" /\ m \in ready /\ ready' = ready \ {m}
      /\ phase'[s] \notin {"idle", "ended"} /\ work'[s] = m
      /\ \A t \in Consumer \ {s} : phase'[t] = phase[t] /\ work'[t] = work[t]
      /\ published' = published
  BY DEF Take, Go, Types
<1>2. /\ lost \subseteq lost'
      /\ \A j \in Job \ {m} : job'[j] = job[j]
  BY DEF Take, SetJob, Types
<1>3. InHand(m)' /\ \A j : j # m => (InHand(j)' <=> InHand(j))
  BY <1>1 DEF InHand, AtWork
<1>4. m \in Job => m \in published
  BY <1>1 DEF JobsAccounted
<1>. QED
  BY <1>1, <1>2, <1>3, <1>4 DEF JobsAccounted, Types

(* The end of a message: its job has ended too, or is given up, or the     *)
(* message is to be delivered again.                                       *)
LEMMA AccountedEnd ==
    ASSUME Types, JobsAccounted, NEW s \in Consumer, Complete(s) \/ Route(s)
    PROVE  JobsAccounted'
<1>1. /\ phase[s] \in {"done", "route"} /\ phase'[s] = "idle" /\ work' = work
      /\ \A t \in Consumer \ {s} : phase'[t] = phase[t]
      /\ published' = published
      /\ ready \subseteq ready' /\ ready' \subseteq ready \cup {work[s]}
  BY DEF Complete, Route, Go, Types, plan, topic
<1>2. /\ lost \subseteq lost'
      /\ \A j \in Job \ {work[s]} : job'[j] = job[j]
      /\ work[s] \in Job =>
            \/ job'[work[s]] \in {"completed", "failed"}
            \/ work[s] \in lost' \cup ready'
  BY DEF Complete, Route, SetJob, Types
<1>3. InHand(work[s]) /\ \A j : j # work[s] => (InHand(j)' <=> InHand(j))
  BY <1>1 DEF InHand, AtWork
<1>4. work[s] \in Job => work[s] \in published
  BY <1>3 DEF JobsAccounted
<1>5. \A j \in published : j \in Job
  BY DEF Types
<1>. QED
  BY <1>1, <1>2, <1>3, <1>4, <1>5 DEF JobsAccounted

(* A job is marked failed, and its message still to be routed.             *)
LEMMA AccountedFailed ==
    ASSUME Types, JobsAccounted, NEW s \in Consumer, FailJob(s)
    PROVE  JobsAccounted'
<1>1. /\ s \in AtWork /\ AtWork' = AtWork
      /\ UNCHANGED <<ready, work, published>>
  BY DEF FailJob, Go, AtWork, Types, plan, topic
<1>2. /\ lost \subseteq lost'
      /\ \A j \in Job \ {work[s]} : job'[j] = job[j]
  BY DEF FailJob, SetJob, Types
<1>3. InHand(work[s]) /\ \A j : InHand(j)' <=> InHand(j)
  BY <1>1 DEF InHand
<1>4. work[s] \in Job => work[s] \in published
  BY <1>3 DEF JobsAccounted
<1>5. \A j \in published : j \in Job
  BY DEF Types
<1>. QED
  BY <1>1, <1>2, <1>3, <1>4, <1>5 DEF JobsAccounted

(* A crash, a rebalance and a loop that ends give the message back.        *)
LEMMA AccountedAgain ==
    ASSUME Types, JobsAccounted, NEW s \in Consumer,
           Crash(s) \/ Redeliver(s) \/ RouteFails(s)
    PROVE  JobsAccounted'
<1>1. /\ s \in AtWork /\ work' = work
      /\ \A t \in Consumer \ {s} : phase'[t] = phase[t]
      /\ ready' = ready \cup {work[s]}
      /\ UNCHANGED <<published, job, lost>>
  BY DEF Crash, Redeliver, RouteFails, AtWork, Go, Types, plan, history
<1>2. InHand(work[s]) /\ \A j : InHand(j)' => InHand(j)
  BY <1>1 DEF InHand, AtWork
<1>3. \A j : j # work[s] /\ InHand(j) => InHand(j)'
  BY <1>1 DEF InHand, AtWork
<1>4. work[s] \in Job => work[s] \in published
  BY <1>2 DEF JobsAccounted
<1>. QED
  BY <1>1, <1>2, <1>3, <1>4 DEF JobsAccounted

LEMMA AccountedNext == Types /\ JobsAccounted /\ [Next]_vars => JobsAccounted'
<1> SUFFICES ASSUME Types, JobsAccounted, [Next]_vars PROVE JobsAccounted'
  OBVIOUS
<1>1. ASSUME NEW j \in Job, Request(j) PROVE JobsAccounted'
  <2>1. /\ ready \subseteq ready' /\ ready' \subseteq ready \cup {j}
        /\ published \subseteq published' /\ published' \subseteq published \cup {j}
        /\ j \in published' \ published => j \in ready'
        /\ j \notin published' => ready' = ready
        /\ job[j] = "none" /\ job'[j] = "pending" /\ lost' = lost
        /\ \A k \in Job \ {j} : job'[k] = job[k]
    BY <1>1 DEF Request, Types
  <2>2. \A k : InHand(k)' <=> InHand(k)
    BY <1>1 DEF Request, InHand, AtWork, plan
  <2>. QED
    BY <2>1, <2>2 DEF JobsAccounted, Types
<1>2. CASE Schedule
  <2>1. ready' = ready \cup {Beat} /\ UNCHANGED <<job, published, lost, work, phase>>
    BY <1>2 DEF Schedule, plan, history
  <2>2. \A k : InHand(k)' <=> InHand(k)
    BY <2>1 DEF InHand, AtWork
  <2>. QED
    BY <2>1, <2>2, SyncAssumption DEF JobsAccounted
<1>3. ASSUME NEW s \in Consumer,
             \/ LockState(s) \/ InsertFails(s) \/ NoProducts(s) \/ Commit(s)
             \/ DeadlockAbort(s) \/ PageFails(s) \/ Forbidden(s) \/ Fail(s) \/ Timeout(s)
             \/ \E stored \in SUBSET Product : StorePage(s, stored)
             \/ \E P \in SUBSET Product : FetchPage(s, P)
      PROVE  JobsAccounted'
  <2>1. UNCHANGED <<job, ready, work, published, lost>>
    BY <1>3 DEF LockState, InsertFails, FetchPage, NoProducts, StorePage, Commit,
       DeadlockAbort, PageFails, Forbidden, Fail, Timeout, topic, plan, history
  <2>2. AtWork' = AtWork
    <3>1. phase[s] \notin {"idle", "ended"}
      <4>1. CASE DeadlockAbort(s)
        BY <4>1 DEF DeadlockAbort, Deadlocked, WaitsFor, Waiting
      <4>. QED
        BY <1>3, <4>1 DEF LockState, InsertFails, FetchPage, NoProducts, StorePage,
           Commit, PageFails, Forbidden, Fail, Timeout, AtWork, Waiting, Working
    <3>2. \E next : next \notin {"idle", "ended"} /\ Go(s, next)
      BY <1>3 DEF LockState, InsertFails, FetchPage, NoProducts, StorePage, Commit,
         DeadlockAbort, PageFails, Forbidden, Fail, Timeout
    <3>. QED
      BY <3>1, <3>2 DEF Go, Types, AtWork
  <2>. QED
    BY <2>1, <2>2, AccountedInside
<1>4. ASSUME NEW p \in Product, Change(p) PROVE JobsAccounted'
  BY <1>4, AccountedInside DEF Change, AtWork, topic
<1>5. CASE UNCHANGED vars
  BY <1>5, AccountedInside DEF vars, AtWork, topic, plan, history
<1>6. ASSUME NEW s \in Consumer, Sync(s) PROVE JobsAccounted'
  <2>1. page[s] \in SUBSET Product
    BY DEF Types
  <2>. QED
    BY <1>3, <1>6, <2>1, AccountedTake, AccountedEnd, AccountedFailed DEF Sync
<1>. QED
  BY <1>1, <1>2, <1>3, <1>4, <1>5, <1>6, AccountedAgain DEF Next

(* The safety core of JobsEnd: a published job is ended, waiting for a     *)
(* consumer or in the hands of one that goes on, whatever crashes, fails,  *)
(* is retried or delivered twice; but for the updates that were lost and   *)
(* the jobs given up to the dead letter topic without having been ended.   *)
(* A job whose message was not published is never worked on.               *)
THEOREM JobsAreAccounted == Spec => []JobsAccounted
<1>1. Init => JobsAccounted
  BY DEF Init, JobsAccounted, InHand, AtWork
<1>2. Inv => Types
  BY DEF Inv
<1>. QED
  BY <1>1, <1>2, AccountedNext, InvHolds, PTL DEF Spec

(* A step of its own that needs no fault and no deadlock.                  *)
Ready(s) ==
    \/ phase[s] \in {"first", "done", "failed", "route"}
    \/ phase[s] = "fetch" /\ left[s] # {}
    \/ phase[s] \in Waiting \cup {"commit"} /\ LockFree(s)
    \/ phase[s] = "store" /\ \A t \in Consumer \ {s} : got[t] \cap page[s] = {}

(* Consumers that wait do so for one that can go on, or for one another,   *)
(* and then PostgreSQL ends the wait.                                      *)
NeverStuck == \A s \in AtWork : Deadlocked(s) \/ \E t \in AtWork : Ready(t)

(* A synchronisation that goes on reading has something to read.           *)
HasMore == \A s \in Consumer : phase[s] = "fetch" => left[s] # {}

LEMMA HasMoreNext == Types /\ HasMore /\ [Next]_vars => HasMore'
<1> SUFFICES ASSUME Types, HasMore, [Next]_vars PROVE HasMore'
  OBVIOUS
<1> USE DEF Types, HasMore, Go, topic, plan, history, database
<1>1. ASSUME NEW s \in Consumer, NEW m \in Message, Take(s, m) PROVE HasMore'
  BY <1>1 DEF Take
<1>2. ASSUME NEW s \in Consumer,
             \/ InsertFails(s) \/ Commit(s) \/ DeadlockAbort(s) \/ Fail(s) \/ Timeout(s)
             \/ Crash(s)
      PROVE  HasMore'
  <2>1. /\ phase'[s] # "fetch"
        /\ \A t \in Consumer \ {s} : phase'[t] = phase[t] /\ left'[t] = left[t]
    BY <1>2 DEF InsertFails, Commit, DeadlockAbort, Fail, Timeout, Crash, Forget
  <2>. QED
    BY <2>1
<1>3. ASSUME NEW s \in Consumer,
             \/ LockState(s) \/ NoProducts(s) \/ PageFails(s) \/ Forbidden(s)
             \/ \E stored \in SUBSET Product : StorePage(s, stored)
      PROVE  HasMore'
  BY <1>3 DEF LockState, NoProducts, PageFails, Forbidden, StorePage
<1>4. ASSUME NEW s \in Consumer,
             Complete(s) \/ FailJob(s) \/ Route(s) \/ RouteFails(s) \/ Redeliver(s)
      PROVE  HasMore'
  BY <1>4 DEF Complete, FailJob, Route, RouteFails, Redeliver
<1>5. ASSUME NEW s \in Consumer, NEW P \in SUBSET Product, FetchPage(s, P) PROVE HasMore'
  BY <1>5 DEF FetchPage
<1>6. ASSUME NEW p \in Product, Change(p) PROVE HasMore'
  <2>1. phase' = phase /\ \A s \in Consumer : left[s] \subseteq left'[s]
    BY <1>6 DEF Change
  <2>. QED
    BY <2>1
<1>7. CASE UNCHANGED vars \/ Schedule \/ \E j \in Job : Request(j)
  BY <1>7 DEF vars, Schedule, Request
<1>8. ASSUME NEW s \in Consumer, Sync(s) PROVE HasMore'
  <2>1. page[s] \in SUBSET Product
    OBVIOUS
  <2>. QED
    BY <1>1, <1>2, <1>3, <1>4, <1>5, <1>8, <2>1 DEF Sync
<1>. QED
  BY <1>2, <1>3, <1>4, <1>6, <1>7, <1>8 DEF Next

(* What a consumer that is not ready waits for is another at work.         *)
LEMMA WaitsForSomeone ==
    ASSUME Inv, HasMore, NEW s \in AtWork, ~Ready(s)
    PROVE  \E t \in AtWork \ {s} : WaitsFor(s, t)
<1>1. s \in Consumer /\ phase[s] \in Waiting \cup {"commit", "store"}
  BY DEF AtWork, Ready, HasMore, Inv, Types, Phase, Waiting
<1>2. CASE phase[s] = "store"
  <2>1. PICK t \in Consumer \ {s} : got[t] \cap page[s] # {}
    BY <1>2 DEF Ready
  <2>2. phase[t] \notin {"idle", "ended"}
    BY <2>1 DEF Inv, Sessions, Tidy, Working
  <2>. QED
    BY <1>2, <2>1, <2>2 DEF WaitsFor, AtWork
<1>3. CASE phase[s] \in Waiting \cup {"commit"}
  <2>1. PICK t \in lock : t # s
    BY <1>3 DEF Ready, LockFree
  <2>2. t \in Consumer /\ phase[t] \notin {"idle", "ended"}
    BY DEF Inv, Types, Locked, Working
  <2>. QED
    BY <1>3, <2>1, <2>2 DEF WaitsFor, AtWork
<1>. QED
  BY <1>1, <1>2, <1>3

(* The row lock and the upserts never bring all consumers to a halt: what  *)
(* the fairness of the scheduler is given always moves something.          *)
THEOREM SomeoneGoesOn == Spec => []NeverStuck
<1>1. Inv /\ HasMore => NeverStuck
  <2> SUFFICES ASSUME Inv, HasMore, NEW s \in AtWork, \A t \in AtWork : ~Ready(t)
               PROVE  Deadlocked(s)
    BY DEF NeverStuck
  <2>1. AtWork \in SUBSET Consumer
    BY DEF AtWork
  <2>2. \A t \in AtWork : \E u \in AtWork \ {t} : WaitsFor(t, u)
    BY WaitsForSomeone
  <2>. QED
    BY <2>1, <2>2 DEF Deadlocked
<1>2. Init => HasMore
  BY DEF Init, HasMore
<1>3. Inv => Types
  BY DEF Inv
<1>. QED
  BY <1>1, <1>2, <1>3, HasMoreNext, InvHolds, PTL DEF Spec
=============================================================================
