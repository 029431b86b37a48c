----------------------- MODULE IncomingWebhookProofs -----------------------
(***************************************************************************)
(* Proofs about IncomingWebhook, for every number of requests and          *)
(* messages.  That nothing takes effect twice rests on the unique          *)
(* constraint alone: the duplicate check and the marks play no part in     *)
(* UniqueRows, so neither their order nor what Redis forgets matters.      *)
(***************************************************************************)
EXTENDS IncomingWebhook, TLAPS

(* A request carries a message from the moment it is received, and has a   *)
(* row exactly from Create on.                                             *)
Progresses ==
    \A r \in Request :
        /\ phase[r] = "idle" => row[r] = "none" /\ answer[r] = "none"
        /\ phase[r] \in {"check", "create"} => row[r] = "none"
        /\ phase[r] \in {"cache", "mark", "process", "schedule"} => row[r] # "none"
        /\ phase[r] # "idle" => message[r] \in Message

(* The constraint of webhook_events: an event id has one row at most.      *)
UniqueRows ==
    \A r, s \in Request :
        /\ row[r] # "none" /\ row[s] # "none"
        /\ IdOf[message[r]] = IdOf[message[s]]
        /\ IdOf[message[r]] # NoId
        => r = s

AppliedHasRow == \A r \in applied : row[r] # "none"

(* A mark is set by a request that has already committed its row.          *)
MarkedIsStored == \A m \in marked \cup cached : Stored(m)

Inv ==
    /\ TypeOK
    /\ Progresses
    /\ UniqueRows
    /\ AppliedHasRow
    /\ MarkedIsStored
    /\ AcknowledgedIsStored

-----------------------------------------------------------------------------

LEMMA InvInit == Init => Inv
  BY MessageAssumption
     DEF Init, Inv, TypeOK, Progresses, UniqueRows, AppliedHasRow,
         MarkedIsStored, AcknowledgedIsStored, Running, Answer

(* What is stored stays so: a row is never taken back, and a request with  *)
(* a row keeps its message.                                                *)
LEMMA StoredStays ==
    ASSUME \A s \in Request :
               row[s] # "none" => row'[s] # "none" /\ message'[s] = message[s],
           NEW m, Stored(m)
    PROVE  Stored(m)'
  BY DEF Stored

(* A request that has been received but has no row yet, nor an answer that *)
(* promises one, touches nothing the invariant speaks of.                  *)
LEMMA ReceiveInv ==
    ASSUME Inv, NEW r \in Request, NEW m \in Message,
           Receive(r, m) \/ Reject(r, m)
    PROVE  Inv'
<1> USE DEF Inv, TypeOK, Progresses, At, GoTo, Reply, Running, Answer
<1>1. /\ phase[r] = "idle" /\ row[r] = "none" /\ answer[r] = "none"
      /\ message' = [message EXCEPT ![r] = m]
      /\ UNCHANGED <<row, marked, cached, applied, crashes>>
      /\ phase' = [phase EXCEPT ![r] = phase'[r]]
      /\ phase'[r] \in {"check", "create", "end"}
      /\ answer' = [answer EXCEPT ![r] = answer'[r]]
      /\ answer'[r] \in {"none", "error"}
  BY DEF Receive, Reject
<1>2. TypeOK' /\ Progresses'
  BY <1>1
<1>3. UniqueRows'
  BY <1>1 DEF UniqueRows
<1>4. AppliedHasRow'
  BY <1>1 DEF AppliedHasRow
<1>5. \A n : Stored(n) => Stored(n)'
  BY <1>1, StoredStays
<1>6. MarkedIsStored' /\ AcknowledgedIsStored'
  BY <1>1, <1>5 DEF MarkedIsStored, AcknowledgedIsStored
<1>7. QED
  BY <1>2, <1>3, <1>4, <1>6

(***************************************************************************)
(* A step of a request that neither creates a row nor marks anything:      *)
(* the invariant depends on what it answers alone.                         *)
(***************************************************************************)
LEMMA QuietInv ==
    ASSUME Inv, NEW r \in Request, phase[r] # "idle",
           UNCHANGED <<message, marked>>,
           cached' \subseteq cached,
           phase' = [phase EXCEPT ![r] = phase'[r]],
           phase'[r] \in {"create", "schedule", "end"},
           phase'[r] = "create" => row'[r] = "none",
           phase'[r] = "schedule" => row'[r] # "none",
           answer' = [answer EXCEPT ![r] = answer'[r]],
           answer'[r] \in Answer,
           answer'[r] \in {"accepted", "duplicate"} => Stored(message[r]),
           row' = [row EXCEPT ![r] = row'[r]],
           row'[r] \in {"none", "received", "retrying"},
           row'[r] = "none" <=> row[r] = "none",
           applied \subseteq applied', applied' \subseteq applied \cup {r},
           r \in applied' => row[r] # "none",
           crashes' \in 0..MaxCrashes
    PROVE  Inv'
<1> USE DEF Inv, TypeOK, Progresses, Running, Answer
<1>1. TypeOK' /\ Progresses'
  OBVIOUS
<1>2. UniqueRows'
  BY DEF UniqueRows
<1>3. AppliedHasRow'
  BY DEF AppliedHasRow
<1>4. \A n : Stored(n) => Stored(n)'
  BY StoredStays
<1>5. MarkedIsStored' /\ AcknowledgedIsStored'
  BY <1>4 DEF MarkedIsStored, AcknowledgedIsStored
<1>6. QED
  BY <1>1, <1>2, <1>3, <1>5

(* The one step that adds a row finds no other row with its id.            *)
LEMMA CreateInv ==
    ASSUME Inv, NEW r \in Request, Create(r)
    PROVE  Inv'
<1> USE DEF Inv, TypeOK, Progresses, At, GoTo, Running, Answer
<1>1. /\ phase[r] = "create" /\ row[r] = "none" /\ message[r] \in Message
      /\ row' = [row EXCEPT ![r] = "received"]
      /\ phase' = [phase EXCEPT ![r] = phase'[r]]
      /\ phase'[r] \in {"cache", "process"}
      /\ UNCHANGED <<message, answer, marked, cached, applied, crashes>>
  BY DEF Create
<1>2. TypeOK' /\ Progresses'
  BY <1>1
<1>3. UniqueRows'
  <2>1. IdOf[message[r]] # NoId => ~Taken(IdOf[message[r]])
    BY DEF Create, Insertable
  <2>2. \A s \in Request : row[s] # "none" => message[s] # NoMessage
    BY MessageAssumption
  <2>3. QED
    BY <1>1, <2>1, <2>2 DEF UniqueRows, Taken
<1>4. AppliedHasRow'
  BY <1>1 DEF AppliedHasRow
<1>5. \A n : Stored(n) => Stored(n)'
  BY <1>1, StoredStays
<1>6. MarkedIsStored' /\ AcknowledgedIsStored'
  BY <1>1, <1>5 DEF MarkedIsStored, AcknowledgedIsStored
<1>7. QED
  BY <1>2, <1>3, <1>4, <1>6

(* A request marks its own message, and has a row for it.                  *)
LEMMA MarkInv ==
    ASSUME Inv, NEW r \in Request, MarkCache(r) \/ MarkRecord(r)
    PROVE  Inv'
<1> USE DEF Inv, TypeOK, Progresses, At, GoTo, Running, Answer
<1>1. /\ phase[r] \in {"cache", "mark"} /\ row[r] # "none" /\ message[r] \in Message
      /\ phase' = [phase EXCEPT ![r] = phase'[r]]
      /\ phase'[r] \in {"mark", "process"}
      /\ marked' \subseteq marked \cup {message[r]}
      /\ cached' \subseteq cached \cup {message[r]}
      /\ UNCHANGED <<message, answer, row, applied, crashes>>
  BY DEF MarkCache, MarkRecord
<1>2. TypeOK' /\ Progresses'
  BY <1>1
<1>3. UniqueRows' /\ AppliedHasRow'
  BY <1>1 DEF UniqueRows, AppliedHasRow
<1>4. \A n : Stored(n)' <=> Stored(n)
  BY <1>1 DEF Stored
<1>5. Stored(message[r])
  BY <1>1 DEF Stored
<1>6. MarkedIsStored' /\ AcknowledgedIsStored'
  BY <1>1, <1>4, <1>5 DEF MarkedIsStored, AcknowledgedIsStored
<1>7. QED
  BY <1>2, <1>3, <1>6

LEMMA StepInv ==
    ASSUME Inv, NEW r \in Request, Step(r)
    PROVE  Inv'
<1> USE DEF At, GoTo, Reply
<1>0. TypeOK /\ Progresses
  BY DEF Inv
<1> USE <1>0 DEF TypeOK, Progresses, Running, Answer
<1>1. CASE IsDuplicate(r)
  <2>1. Stored(message[r])
    BY <1>1 DEF IsDuplicate, Inv, MarkedIsStored
  <2>2. QED
    BY <1>1, <2>1, QuietInv DEF IsDuplicate, Inv, AppliedHasRow
<1>2. CASE IsNew(r)
  BY <1>2, QuietInv DEF IsNew, Inv, AppliedHasRow, AcknowledgedIsStored
<1>3. CASE Create(r)
  BY <1>3, CreateInv
<1>4. CASE CreateFails(r)
  BY <1>4, QuietInv DEF CreateFails, Inv, AppliedHasRow
<1>5. CASE MarkCache(r) \/ MarkRecord(r)
  BY <1>5, MarkInv
<1>6. CASE Unroutable(r)
  <2>1. Stored(message[r])
    BY <1>6 DEF Unroutable, Stored
  <2>2. QED
    BY <1>6, <2>1, QuietInv DEF Unroutable
<1>7. CASE Handle(r)
  BY <1>7, QuietInv DEF Handle
<1>8. CASE Refuse(r)
  BY <1>8, QuietInv DEF Refuse, Inv, AcknowledgedIsStored
<1>9. CASE Schedule(r)
  <2>1. Stored(message[r])
    BY <1>9 DEF Schedule, Stored
  <2>2. QED
    BY <1>9, <2>1, QuietInv DEF Schedule
<1>10. CASE ProcessorFails(r)
  BY <1>10, QuietInv DEF ProcessorFails, Inv, AppliedHasRow
<1>11. QED
  BY <1>1, <1>2, <1>3, <1>4, <1>5, <1>6, <1>7, <1>8, <1>9, <1>10 DEF Step

(* A crash and a forgotten key take nothing away that was promised.        *)
LEMMA FaultInv ==
    ASSUME Inv, \/ \E r \in Request : Crash(r)
                \/ \E m \in Message : Evict(m)
                \/ UNCHANGED vars
    PROVE  Inv'
<1> USE DEF Inv, TypeOK, Progresses, GoTo, Running, Answer
<1>1. /\ UNCHANGED <<message, answer, row, marked, applied>>
      /\ cached' \subseteq cached
      /\ crashes' \in 0..MaxCrashes
      /\ \/ phase' = phase
         \/ \E r \in Request : phase[r] # "idle" /\ phase' = [phase EXCEPT ![r] = "end"]
  BY MessageAssumption DEF Crash, Evict, vars
<1>2. TypeOK' /\ Progresses'
  BY <1>1
<1>3. \A n : Stored(n)' <=> Stored(n)
  BY <1>1 DEF Stored
<1>4. MarkedIsStored' /\ AcknowledgedIsStored'
  BY <1>1, <1>3 DEF MarkedIsStored, AcknowledgedIsStored
<1>5. QED
  BY <1>1, <1>2, <1>4 DEF UniqueRows, AppliedHasRow

LEMMA InvNext == Inv /\ [Next]_vars => Inv'
  BY ReceiveInv, StepInv, FaultInv DEF Next

THEOREM InvHolds == Spec => []Inv
<1>1. Init => Inv
  BY InvInit
<1>2. Inv /\ [Next]_vars => Inv'
  BY InvNext
<1>3. QED
  BY <1>1, <1>2, PTL DEF Spec

(* Type correctness; in particular no event ever becomes "completed".      *)
THEOREM TypeCorrect == Spec => []TypeOK
<1>1. Inv => TypeOK
  BY DEF Inv
<1>2. QED
  BY <1>1, InvHolds, PTL

(* No webhook with an event id takes effect twice.                         *)
THEOREM AppliesOnce == Spec => []AppliedOnce
<1>1. Inv => AppliedOnce
  BY DEF Inv, TypeOK, UniqueRows, AppliedHasRow, AppliedOnce
<1>2. QED
  BY <1>1, InvHolds, PTL

(* The platform is never told to forget a webhook that is not stored.      *)
THEOREM AcknowledgesStored == Spec => []AcknowledgedIsStored
<1>1. Inv => AcknowledgedIsStored
  BY DEF Inv
<1>2. QED
  BY <1>1, InvHolds, PTL

-----------------------------------------------------------------------------
(***************************************************************************)
(* A delivery is answered "already processed" while the webhook may still  *)
(* be in the hands of the request that stored it.  What is marked is       *)
(* settled, in such hands, or was in the hands of a request that died or   *)
(* whose processor failed.                                                 *)
(***************************************************************************)
InHand(m) ==
    \E s \in Request :
        message[s] = m /\ phase[s] \in {"mark", "process", "schedule"}

Answerable == marked \cup cached \cup {message[r] : r \in {q \in Request : answer[q] = "duplicate"}}

Accounted(m) == Settled(m) \/ InHand(m) \/ Lost(m)

NothingForgotten == \A m \in Answerable : Accounted(m)

(* Only the last step of a handler answers.                                *)
Unanswered == \A r \in Request : phase[r] # "end" => answer[r] = "none"

LEMMA UnansweredNext == TypeOK /\ Unanswered /\ [Next]_vars => Unanswered'
<1> SUFFICES ASSUME TypeOK, Unanswered, [Next]_vars PROVE Unanswered'
  OBVIOUS
<1> USE DEF TypeOK, Unanswered, At, GoTo, Reply
<1>1. ASSUME NEW r \in Request, NEW m \in Message, Receive(r, m) \/ Reject(r, m)
      PROVE  Unanswered'
  BY <1>1 DEF Receive, Reject
<1>2. ASSUME NEW r \in Request, Step(r) PROVE Unanswered'
  BY <1>2 DEF Step, IsDuplicate, IsNew, Create, CreateFails, MarkCache, MarkRecord,
              Unroutable, Handle, Refuse, ProcessorFails, Schedule
<1>3. ASSUME NEW r \in Request, Crash(r) PROVE Unanswered'
  BY <1>3 DEF Crash
<1>4. CASE UNCHANGED vars \/ \E m \in Message : Evict(m)
  BY <1>4 DEF vars, Evict
<1>. QED BY <1>1, <1>2, <1>3, <1>4 DEF Next

(* The end of a handler leaves the message settled, or lost if it dies or  *)
(* its processor fails.                                                    *)
LEMMA HandsOn ==
    ASSUME Inv, Unanswered, NEW r \in Request,
           phase[r] \in {"mark", "process", "schedule"}, Step(r) \/ Crash(r),
           NEW m, m = message[r]
    PROVE  Accounted(m)'
<1>0. row[r] # "none" /\ row[r] \in {"received", "retrying"} /\ answer[r] = "none"
  BY DEF Inv, TypeOK, Progresses, Unanswered
<1> USE DEF At, GoTo, Reply, Accounted
<1>1. CASE MarkRecord(r) \/ Refuse(r)
  <2>1. message' = message /\ phase'[r] \in {"process", "schedule"}
    BY <1>1 DEF MarkRecord, Refuse, Inv, TypeOK
  <2>. QED BY <2>1 DEF InHand
<1>2. CASE Unroutable(r) \/ Handle(r) \/ Schedule(r)
  <2>1. message' = message
    BY <1>2 DEF Unroutable, Handle, Schedule
  <2>2. \/ r \in applied'
        \/ row'[r] = "retrying"
        \/ phase'[r] = "end" /\ Processor[message[r]] = "none"
    BY <1>2 DEF Unroutable, Handle, Schedule, Inv, TypeOK
  <2>. QED BY <2>1, <2>2 DEF Settled
<1>3. CASE Crash(r)
  <2>1. message' = message /\ row' = row /\ phase'[r] = "end" /\ answer'[r] = "none"
    BY <1>0, <1>3 DEF Crash, Inv, TypeOK
  <2>. QED BY <1>0, <2>1 DEF Settled, Lost, Died
<1>4. CASE ProcessorFails(r)
  <2>1. /\ message' = message /\ row' = row /\ applied' = applied
        /\ phase'[r] = "end" /\ answer'[r] = "error"
    BY <1>4 DEF ProcessorFails, Inv, TypeOK
  <2>. QED BY <1>0, <2>1 DEF Settled, Lost, Failed
<1>. QED BY <1>1, <1>2, <1>3, <1>4 DEF Step, IsDuplicate, IsNew, Create, CreateFails, MarkCache

(* A message, once accounted for, stays so.                                *)
LEMMA StaysAccounted ==
    ASSUME Inv, Unanswered, [Next]_vars, NEW m, Accounted(m)
    PROVE  Accounted(m)'
<1> USE DEF Accounted
<1>1. PICK s \in Request :
        /\ message[s] = m
        /\ \/ s \in applied
           \/ row[s] = "retrying"
           \/ phase[s] = "end" /\ Processor[m] = "none"
           \/ phase[s] \in {"mark", "process", "schedule"}
           \/ row[s] = "received" /\ (Died(s) \/ Failed(s))
  BY DEF Settled, InHand, Lost
<1>2. phase[s] # "idle"
  BY <1>1 DEF Inv, TypeOK, Progresses, AppliedHasRow, Died, Failed
<1>3. CASE phase[s] \in {"mark", "process", "schedule"} /\ (Step(s) \/ Crash(s))
  BY <1>1, <1>3, HandsOn
<1>4. CASE ~(phase[s] \in {"mark", "process", "schedule"} /\ (Step(s) \/ Crash(s)))
  <2>1. message'[s] = message[s] /\ applied \subseteq applied'
        /\ (row[s] = "retrying" => row'[s] = "retrying")
    <3> USE DEF Inv, TypeOK, Progresses, At, GoTo, Reply
    <3>1. ASSUME NEW r \in Request, NEW n \in Message, Receive(r, n) \/ Reject(r, n)
          PROVE  /\ message'[s] = message[s] /\ applied' = applied /\ row' = row
      BY <1>2, <3>1 DEF Receive, Reject
    <3>2. ASSUME NEW r \in Request, Step(r)
          PROVE  /\ message' = message /\ applied \subseteq applied'
                 /\ (row[s] = "retrying" => row'[s] = "retrying")
      BY <3>2 DEF Step, IsDuplicate, IsNew, Create, CreateFails, MarkCache, MarkRecord,
                  Unroutable, Handle, Refuse, ProcessorFails, Schedule
    <3>3. CASE UNCHANGED vars \/ (\E r \in Request : Crash(r)) \/ \E n \in Message : Evict(n)
      BY <3>3 DEF vars, Crash, Evict
    <3>. QED BY <3>1, <3>2, <3>3 DEF Next
  <2>2. /\ phase[s] = "end" => UNCHANGED <<phase[s], answer[s], row[s]>>
        /\ phase[s] \in {"mark", "process", "schedule"} => phase'[s] = phase[s]
    <3> USE DEF Inv, TypeOK, Progresses, At, GoTo, Reply
    <3>1. ASSUME NEW r \in Request, NEW n \in Message, Receive(r, n) \/ Reject(r, n)
          PROVE  UNCHANGED <<phase[s], answer[s], row[s]>>
      BY <1>2, <3>1 DEF Receive, Reject
    <3>2. ASSUME NEW r \in Request, Step(r) \/ Crash(r), r # s
          PROVE  UNCHANGED <<phase[s], answer[s], row[s]>>
      BY <3>2 DEF Step, IsDuplicate, IsNew, Create, CreateFails, MarkCache, MarkRecord,
                  Unroutable, Handle, Refuse, ProcessorFails, Schedule, Crash
    <3>3. Step(s) \/ Crash(s) => phase[s] # "end"
      BY DEF Step, IsDuplicate, IsNew, Create, CreateFails, MarkCache, MarkRecord,
             Unroutable, Handle, Refuse, ProcessorFails, Schedule, Crash,
             Running
    <3>4. CASE UNCHANGED vars \/ \E n \in Message : Evict(n)
      BY <3>4 DEF vars, Evict
    <3>. QED BY <1>4, <3>1, <3>2, <3>3, <3>4 DEF Next
  <2>. QED BY <1>1, <2>1, <2>2 DEF Settled, InHand, Lost, Died, Failed
<1>. QED BY <1>3, <1>4

(* Whatever could be answered "already processed", or was, is settled, in  *)
(* the hands of a live request, or lost with the process that held it or   *)
(* the processor that failed on it: the steps of that request are all that *)
(* DuplicateIsSettled still waits for.                                     *)
THEOREM DuplicateIsAccounted == Spec => []NothingForgotten
<1>1. Init => Unanswered /\ NothingForgotten
  BY DEF Init, Unanswered, NothingForgotten, Answerable
<1>2. ASSUME Inv, Unanswered, NothingForgotten, [Next]_vars
      PROVE  NothingForgotten'
  <2> SUFFICES ASSUME NEW m \in Answerable' PROVE Accounted(m)'
    BY DEF NothingForgotten
  <2>1. CASE m \in Answerable
    BY <1>2, <2>1, StaysAccounted DEF NothingForgotten
  <2>2. ASSUME NEW r \in Request, m = message[r], MarkCache(r) \/ MarkRecord(r)
        PROVE  Accounted(m)'
    <3>1. message' = message /\ phase'[r] \in {"mark", "process"}
      BY <2>2, <1>2 DEF MarkCache, MarkRecord, GoTo, Inv, TypeOK
    <3>. QED BY <2>2, <3>1 DEF Accounted, InHand
  <2>3. ASSUME m \notin Answerable
        PROVE  \E r \in Request : m = message[r] /\ (MarkCache(r) \/ MarkRecord(r))
    <3> USE DEF Answerable, Inv, TypeOK, Progresses, At, GoTo, Reply
    <3>1. ASSUME NEW r \in Request, NEW n \in Message, Receive(r, n) \/ Reject(r, n)
          PROVE  Answerable' \subseteq Answerable
      BY <1>2, <3>1 DEF Receive, Reject
    <3>2. ASSUME NEW r \in Request, Step(r), m # message[r] \/ ~(MarkCache(r) \/ MarkRecord(r))
          PROVE  m \in Answerable
      <4>1. CASE IsDuplicate(r)
        BY <1>2, <4>1 DEF IsDuplicate
      <4>2. CASE MarkCache(r) \/ MarkRecord(r)
        BY <1>2, <3>2, <4>2 DEF MarkCache, MarkRecord
      <4>3. CASE ~(IsDuplicate(r) \/ MarkCache(r) \/ MarkRecord(r))
        BY <1>2, <3>2, <4>3 DEF Step, IsNew, Create, CreateFails,
                    Unroutable, Handle, Refuse, ProcessorFails, Schedule
      <4>. QED BY <4>1, <4>2, <4>3
    <3>3. CASE UNCHANGED vars \/ (\E r \in Request : Crash(r)) \/ \E n \in Message : Evict(n)
      BY <2>3, <3>3 DEF vars, Crash, Evict
    <3>. QED BY <1>2, <2>3, <3>1, <3>2, <3>3 DEF Next
  <2>. QED BY <2>1, <2>2, <2>3
<1>3. Inv => TypeOK
  BY DEF Inv
<1>. QED BY <1>1, <1>2, <1>3, UnansweredNext, InvHolds, PTL DEF Spec
=============================================================================
