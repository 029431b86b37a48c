-------------------------- MODULE IncomingWebhook --------------------------
(***************************************************************************)
(* The endpoint that receives the webhooks of a shop platform              *)
(* (api/v1/webhooks.py): the duplicate check of IdempotencyManager, the    *)
(* webhook_events row, the processed mark, the processor and the retry     *)
(* schedule.  Every request runs concurrently with the others, and one     *)
(* action stands for what it does between two points where another         *)
(* request can see or change what it works on.                             *)
(***************************************************************************)
EXTENDS Naturals

CONSTANTS Request,     \* HTTP requests, each used for one delivery
          Message,     \* distinct request bodies
          NoMessage,   \* a request not yet received
          NoId,        \* no event id in the body
          IdOf,        \* IdOf[m]: the event id the endpoint takes from m
          Numeric,     \* messages whose event id is a number, not a string
          Processor,   \* Processor[m]: what the processor of m's type does
          MaxCrashes   \* bound on process deaths

ASSUME MessageAssumption ==
    /\ NoMessage \notin Message
    /\ Numeric \subseteq Message
    /\ \A m \in Numeric : IdOf[m] # NoId
    /\ Processor \in [Message -> {"handles", "refuses", "none"}]
    /\ MaxCrashes \in Nat

VARIABLES
    message,   \* what each request carries
    phase,     \* where its handler is
    answer,    \* what the platform was told
    row,       \* the status of the webhook_events row a request committed
    marked,    \* messages in processed_events
    cached,    \* messages whose idempotency key is in Redis
    applied,   \* history: requests whose processor has committed its effect
    crashes

vars == <<message, phase, answer, row, marked, cached, applied, crashes>>

Running == {"check", "create", "cache", "mark", "process", "schedule"}
Answer == {"none", "accepted", "duplicate", "error"}

TypeOK ==
    /\ message \in [Request -> Message \cup {NoMessage}]
    /\ phase \in [Request -> Running \cup {"idle", "end"}]
    /\ answer \in [Request -> Answer]
    /\ row \in [Request -> {"none", "received", "retrying"}]
    /\ marked \subseteq Message
    /\ cached \subseteq Message
    /\ applied \subseteq Request
    /\ crashes \in 0..MaxCrashes

Init ==
    /\ message = [r \in Request |-> NoMessage]
    /\ phase = [r \in Request |-> "idle"]
    /\ answer = [r \in Request |-> "none"]
    /\ row = [r \in Request |-> "none"]
    /\ marked = {}
    /\ cached = {}
    /\ applied = {}
    /\ crashes = 0

At(r, p) == phase[r] = p

GoTo(r, p) ==
    /\ phase' = [phase EXCEPT ![r] = p]
    /\ UNCHANGED answer

Reply(r, a) ==
    /\ phase' = [phase EXCEPT ![r] = "end"]
    /\ answer' = [answer EXCEPT ![r] = a]

(***************************************************************************)
(* The platform delivers m, for the first time or again, and the request   *)
(* passes the security chain.  Without an event id nothing is looked up.   *)
(***************************************************************************)
Receive(r, m) ==
    /\ At(r, "idle")
    /\ message' = [message EXCEPT ![r] = m]
    /\ GoTo(r, IF IdOf[m] = NoId THEN "create" ELSE "check")
    /\ UNCHANGED <<row, marked, cached, applied, crashes>>

(* An unknown or disconnected integration, or the security chain says no.  *)
Reject(r, m) ==
    /\ At(r, "idle")
    /\ message' = [message EXCEPT ![r] = m]
    /\ Reply(r, "error")
    /\ UNCHANGED <<row, marked, cached, applied, crashes>>

(* Redis knows the key, or, when it does not or fails, the database does.  *)
IsDuplicate(r) ==
    /\ At(r, "check")
    /\ message[r] \in cached \cup marked
    /\ Reply(r, "duplicate")
    /\ UNCHANGED <<message, row, marked, cached, applied, crashes>>

(* A key that only Redis knows is missed when the call to Redis fails.     *)
IsNew(r) ==
    /\ At(r, "check")
    /\ message[r] \notin marked
    /\ GoTo(r, "create")
    /\ UNCHANGED <<message, row, marked, cached, applied, crashes>>

Taken_Never(id) == FALSE

(* The unique constraint uq_webhook_platform_event: a concurrent INSERT of *)
(* the same id waits for the commit of the first one and then fails.       *)
Taken(id) ==
    \E s \in Request : row[s] # "none" /\ message[s] # NoMessage /\ IdOf[message[s]] = id

Insertable(m) ==
    /\ m \notin Numeric                     \* the column is a VARCHAR
    /\ IdOf[m] = NoId \/ ~Taken(IdOf[m])    \* a generated id is new

Create(r) ==
    /\ At(r, "create")
    /\ Insertable(message[r])
    /\ row' = [row EXCEPT ![r] = "received"]
    /\ GoTo(r, IF IdOf[message[r]] = NoId THEN "process" ELSE "cache")
    /\ UNCHANGED <<message, marked, cached, applied, crashes>>

CreateFails_Marked(r) ==
    /\ At(r, "create")
    /\ ~Insertable(message[r])
    /\ Reply(r, "error")
    /\ cached' = cached \cup {message[r]}
    /\ UNCHANGED <<message, row, marked, applied, crashes>>

(* The database refuses the row: the exception leaves the handler.         *)
CreateFails(r) ==
    /\ At(r, "create")
    /\ ~Insertable(message[r])
    /\ Reply(r, "error")
    /\ UNCHANGED <<message, row, marked, cached, applied, crashes>>

(* mark_processed: the key in Redis, where a failure is only logged, ...   *)
MarkCache(r) ==
    /\ At(r, "cache")
    /\ cached' \in {cached, cached \cup {message[r]}}
    /\ GoTo(r, "mark")
    /\ UNCHANGED <<message, row, marked, applied, crashes>>

(* ... then the processed_events row, in a transaction of its own, before  *)
(* the processor has run.                                                  *)
MarkRecord(r) ==
    /\ At(r, "mark")
    /\ marked' = marked \cup {message[r]}
    /\ GoTo(r, "process")
    /\ UNCHANGED <<message, row, cached, applied, crashes>>

Unroutable(r) ==
    /\ At(r, "process")
    /\ Processor[message[r]] = "none"
    /\ Reply(r, "accepted")
    /\ UNCHANGED <<message, row, marked, cached, applied, crashes>>

Handle_Completes(r) ==
    /\ At(r, "process")
    /\ Processor[message[r]] = "handles"
    /\ applied' = applied \cup {r}
    /\ row' = [row EXCEPT ![r] = "completed"]
    /\ Reply(r, "accepted")
    /\ UNCHANGED <<message, marked, cached, crashes>>

(***************************************************************************)
(* The processor commits its effect and returns True.  update_status is    *)
(* then called with a string where it takes .value of an enum, and in the  *)
(* except branch with an argument it does not have: the request fails and  *)
(* the row stays "received".                                               *)
(***************************************************************************)
Handle(r) ==
    /\ At(r, "process")
    /\ Processor[message[r]] = "handles"
    /\ applied' = applied \cup {r}
    /\ Reply(r, "error")
    /\ UNCHANGED <<message, row, marked, cached, crashes>>

Refuse_Forgets(r) ==
    /\ At(r, "process")
    /\ Processor[message[r]] # "none"
    /\ Reply(r, "accepted")
    /\ UNCHANGED <<message, row, marked, cached, applied, crashes>>

(* The processor does not take this type, misses a field or the order: it  *)
(* returns False with the session as it was.                               *)
Refuse(r) ==
    /\ At(r, "process")
    /\ Processor[message[r]] # "none"
    /\ GoTo(r, "schedule")
    /\ UNCHANGED <<message, row, marked, cached, applied, crashes>>

(***************************************************************************)
(* The processor's UnitOfWork fails and rolls back the session that the    *)
(* handler shares with it, which expires webhook_event: reading its id     *)
(* raises, to schedule the retry and again in the except branch.  The      *)
(* request fails, and the row stays "received" with nothing scheduled.     *)
(***************************************************************************)
ProcessorFails(r) ==
    /\ At(r, "process")
    /\ Processor[message[r]] = "handles"
    /\ Reply(r, "error")
    /\ UNCHANGED <<message, row, marked, cached, applied, crashes>>

(* schedule_retry and the commit of get_db: status and schedule together.  *)
Schedule(r) ==
    /\ At(r, "schedule")
    /\ row' = [row EXCEPT ![r] = "retrying"]
    /\ Reply(r, "accepted")
    /\ UNCHANGED <<message, marked, cached, applied, crashes>>

(* The process dies or loses its connections; the platform sees no answer. *)
Crash(r) ==
    /\ phase[r] \in Running
    /\ crashes < MaxCrashes
    /\ crashes' = crashes + 1
    /\ GoTo(r, "end")
    /\ UNCHANGED <<message, row, marked, cached, applied>>

(* The key expires after 24 hours, or Redis loses it.                      *)
Evict(m) ==
    /\ m \in cached
    /\ cached' = cached \ {m}
    /\ UNCHANGED <<message, phase, answer, row, marked, applied, crashes>>

(* What the handler of a request does by itself.                           *)
Step(r) ==
    \/ IsDuplicate(r) \/ IsNew(r)
    \/ Create(r) \/ CreateFails(r)
    \/ MarkCache(r) \/ MarkRecord(r)
    \/ Unroutable(r) \/ Handle(r) \/ Refuse(r)
    \/ ProcessorFails(r) \/ Schedule(r)

Next ==
    \/ \E r \in Request, m \in Message : Receive(r, m) \/ Reject(r, m)
    \/ \E r \in Request : Step(r) \/ Crash(r)
    \/ \E m \in Message : Evict(m)

Spec == Init /\ [][Next]_vars

(* A handler that runs goes on; nothing makes the platform deliver.        *)
FairSpec == Spec /\ \A r \in Request : WF_vars(Step(r))

-----------------------------------------------------------------------------
Stored(m) == \E s \in Request : message[s] = m /\ row[s] # "none"

(***************************************************************************)
(* No webhook with an event id takes effect twice, however often and in    *)
(* however many requests at a time it is delivered, and although the       *)
(* duplicate check and the mark are separate steps and Redis forgets.      *)
(***************************************************************************)
AppliedOnce ==
    \A r, s \in applied :
        IdOf[message[r]] = IdOf[message[s]] /\ IdOf[message[r]] # NoId => r = s

(***************************************************************************)
(* What the platform is told was accepted, or seen before, is stored: it   *)
(* will not deliver it again, so the row is all that is left of it.        *)
(***************************************************************************)
AcknowledgedIsStored ==
    \A r \in Request :
        answer[r] \in {"accepted", "duplicate"} => Stored(message[r])

Settled(m) ==
    \E s \in Request :
        /\ message[s] = m
        /\ \/ s \in applied
           \/ row[s] = "retrying"
           \/ phase[s] = "end" /\ Processor[m] = "none"

(* A process that dies answers nothing, a processor that fails is answered *)
(* with an error, and both leave the row "received", where nothing will    *)
(* look at it again.                                                       *)
Died(r) == phase[r] = "end" /\ answer[r] = "none"
Failed(r) == phase[r] = "end" /\ answer[r] = "error" /\ r \notin applied
Lost(m) ==
    \E s \in Request : message[s] = m /\ row[s] = "received" /\ (Died(s) \/ Failed(s))

DuplicatesSettled ==
    \A r \in Request :
        answer[r] = "duplicate" => Settled(message[r]) \/ Lost(message[r])

(***************************************************************************)
(* A delivery answered "already processed" is applied, scheduled for a     *)
(* retry or known to have no processor in the end, unless the request that *)
(* had stored this very webhook has died or its processor has failed,      *)
(* whatever dies or fails elsewhere: the answer is given from marks that   *)
(* are set before processing.  Neither an answer nor a settled or lost     *)
(* message is ever withdrawn, so that "again and again all are settled"    *)
(* says it of each.                                                        *)
(***************************************************************************)
DuplicateIsSettled == []<>DuplicatesSettled
=============================================================================
