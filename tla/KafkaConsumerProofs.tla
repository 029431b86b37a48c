------------------------ MODULE KafkaConsumerProofs ------------------------
(***************************************************************************)
(* For any number of messages, consumers, partitions and retries: no       *)
(* message is lost, and the consume loop implements Delivery.              *)
(***************************************************************************)
EXTENDS KafkaConsumer, TLAPS

HandType == [part : Partition, at : Nat \ {0}, msg : Message, rc : 0..MaxRetries]

Busy == {"processing", "processed", "failed", "routed"}

(* A consumer in the middle of its loop holds an entry of the log, whose   *)
(* message has failed at least as often as the entry says.                 *)
Matches(c) ==
    /\ hand[c] \in HandType
    /\ hand[c].at <= Len(log[hand[c].part])
    /\ log[hand[c].part][hand[c].at].msg = hand[c].msg
    /\ failures[hand[c].msg] >= hand[c].rc
    /\ phase[c] \in {"failed", "routed"} => failures[hand[c].msg] > hand[c].rc

HandMatches == \A c \in Consumer : phase[c] \in Busy => Matches(c)

(* Every entry is of a published message that has failed that often.       *)
EntriesEarned ==
    \A p \in Partition : \A k \in 1..Len(log[p]) :
        /\ log[p][k].msg \in Sent
        /\ failures[log[p][k].msg] >= log[p][k].rc

(* Offsets stay within the log.                                            *)
OffsetsBounded ==
    \A p \in Partition :
        /\ committed[p] <= Len(log[p])
        /\ \A c \in Consumer : position[c][p] <= Len(log[p])

(***************************************************************************)
(* The strengthening of NoLoss: an entry is live when it is uncommitted    *)
(* and its partition's owner has not fetched it yet or has it in hand      *)
(* undecided.  Losing the owner only ever makes entries live.              *)
(***************************************************************************)
LiveAt(p, k) ==
    /\ k > committed[p]
    /\ owner[p] # "none" =>
          \/ k > position[owner[p]][p]
          \/ /\ phase[owner[p]] \in {"processing", "failed"}
             /\ hand[owner[p]].part = p
             /\ hand[owner[p]].at = k

LiveEntry(m) ==
    \E p \in Partition : \E k \in 1..Len(log[p]) : log[p][k].msg = m /\ LiveAt(p, k)

NoneForgotten == \A m \in Sent : m \in handled \cup dlq \/ LiveEntry(m)

Invariant == TypeOK /\ HandMatches /\ EntriesEarned /\ OffsetsBounded /\ NoneForgotten

-----------------------------------------------------------------------------
(* Appending an entry to a partition.                                      *)

LEMMA AppendEntry ==
    ASSUME NEW p \in Partition, NEW e \in Entry, log \in [Partition -> Seq(Entry)],
           log' = [log EXCEPT ![p] = Append(@, e)]
    PROVE  /\ log' \in [Partition -> Seq(Entry)]
           /\ Len(log'[p]) = Len(log[p]) + 1
           /\ log'[p][Len(log[p]) + 1] = e
           /\ \A q \in Partition : Len(log'[q]) >= Len(log[q])
           /\ \A q \in Partition : \A k \in 1..Len(log[q]) : log'[q][k] = log[q][k]
           /\ \A q \in Partition \ {p} : log'[q] = log[q]
  OBVIOUS

LEMMA SentAppend ==
    ASSUME NEW m, sent \in Seq(Message), m \in Message, sent' = Append(sent, m)
    PROVE  sent' \in Seq(Message) /\ Sent' = Sent \cup {m}
<1>1. sent' \in Seq(Message) /\ Len(sent') = Len(sent) + 1
  OBVIOUS
<1>2. /\ DOMAIN sent = 1..Len(sent)
      /\ DOMAIN sent' = 1..(Len(sent) + 1)
  BY <1>1
<1>3. \A k \in 1..Len(sent) : sent'[k] = sent[k]
  OBVIOUS
<1>4. sent'[Len(sent) + 1] = m /\ Len(sent) \in Nat
  OBVIOUS
<1>5. QED
  BY <1>1, <1>2, <1>3, <1>4 DEF Sent
-----------------------------------------------------------------------------
(* Type correctness *)

LEMMA TypeInductive ==
    TypeOK /\ HandMatches /\ [Next]_vars => TypeOK'
<1> SUFFICES ASSUME TypeOK, HandMatches, [Next]_vars PROVE TypeOK'
  OBVIOUS
<1> USE ConsumerAssumption DEF TypeOK, broker, loop, history, Phase
<1>a. ASSUME NEW kind, Fault(kind) PROVE faults' \in 0..MaxFaults
  BY <1>a DEF Fault
<1>1. ASSUME NEW m \in Message, Publish(m) PROVE TypeOK'
  <2>1. PICK p \in Main : log' = [log EXCEPT ![p] = Append(@, [msg |-> m, rc |-> 0])]
    BY <1>1 DEF Publish
  <2>2. [msg |-> m, rc |-> 0] \in Entry /\ p \in Partition
    BY DEF Entry, Partition
  <2>3. log' \in [Partition -> Seq(Entry)]
    BY <2>1, <2>2, AppendEntry
  <2>4. sent' \in Seq(Message)
    BY <1>1 DEF Publish
  <2>5. QED
    BY <1>1, <2>3, <2>4 DEF Publish
<1>2. ASSUME NEW c \in Consumer, Start(c) PROVE TypeOK'
  BY <1>2 DEF Start
<1>3. ASSUME NEW c \in Consumer, NEW p \in Partition, Assign(p, c) \/ Rebalance(p, c)
      PROVE  TypeOK'
  <2>1. faults' \in 0..MaxFaults
    BY <1>a, <1>3 DEF Assign, Rebalance
  <2>2. Assignment(p, c)
    BY <1>3 DEF Assign, Rebalance
  <2>3. /\ position' \in [Consumer -> [Partition -> Nat]]
        /\ owner' \in [Partition -> Consumer \cup {"none"}]
    <3> HIDE DEF TypeOK
    <3>1. /\ position \in [Consumer -> [Partition -> Nat]]
          /\ committed \in [Partition -> Nat]
          /\ owner \in [Partition -> Consumer \cup {"none"}]
      BY DEF TypeOK
    <3>2. QED
      BY <2>2, <3>1 DEF Assignment
  <2>4. UNCHANGED <<log, committed, dlq, phase, hand, sent, failures, handled>>
    BY <2>2 DEF Assignment
  <2>5. QED
    BY <2>1, <2>3, <2>4
<1>4. ASSUME NEW c \in Consumer, NEW p \in Partition, Poll(c, p) PROVE TypeOK'
  <2> DEFINE k == position[c][p] + 1
  <2>1. k \in 1..Len(log[p]) /\ log[p][k] \in Entry
    BY <1>4 DEF Poll
  <2>2. [part |-> p, at |-> k, msg |-> log[p][k].msg, rc |-> log[p][k].rc]
          \in HandType
    BY <2>1 DEF HandType, Entry
  <2>3. QED
    BY <1>4, <2>1, <2>2 DEF Poll, HandType
<1>5. ASSUME NEW c \in Consumer,
             Process(c) \/ ProcessFails(c) \/ Commit(c) \/ CommitSkipped(c) \/ CommitError(c)
      PROVE  TypeOK'
  <2>1. faults' \in 0..MaxFaults
    BY <1>a, <1>5 DEF Process, ProcessFails, Commit, CommitSkipped, CommitError
  <2>a. phase[c] \in Busy => hand[c].msg \in Message
    BY DEF HandMatches, Matches, HandType
  <2>2. CASE Process(c) \/ ProcessFails(c) \/ CommitError(c)
    <3>1. hand[c].msg \in Message
      BY <2>2, <2>a DEF Process, ProcessFails, CommitError, Busy
    <3>2. phase' \in [Consumer -> Phase]
      BY <2>2 DEF Process, ProcessFails, CommitError, Failed
    <3>3. /\ failures \in [Message -> Nat] /\ handled \subseteq Message
          /\ \/ UNCHANGED failures
             \/ failures' = [failures EXCEPT ![hand[c].msg] = @ + 1]
          /\ \/ UNCHANGED handled
             \/ handled' = handled \cup {hand[c].msg}
      BY <2>2, <3>1 DEF Process, ProcessFails, CommitError, Failed
    <3>6. failures' \in [Message -> Nat] /\ handled' \subseteq Message
      <4> HIDE DEF TypeOK
      <4>1. QED
        BY <3>1, <3>3
    <3>4. UNCHANGED <<broker, position, hand, sent>>
      BY <2>2 DEF Process, ProcessFails, CommitError, Failed
    <3>5. QED
      BY <2>1, <3>2, <3>6, <3>4
  <2>3. CASE Commit(c)
    BY <2>1, <2>3 DEF Commit, Offsets, Continue
  <2>4. CASE CommitSkipped(c)
    BY <2>1, <2>4 DEF CommitSkipped, Continue
  <2>5. QED
    BY <1>5, <2>2, <2>3, <2>4
<1>6. ASSUME NEW c \in Consumer, hand[c] \in HandType, Routed(hand[c])
      PROVE  log' \in [Partition -> Seq(Entry)] /\ dlq' \subseteq Message
  <2>1. CASE Retries(hand[c].rc)
    <3>1. PICK r \in Retry :
            log' = [log EXCEPT ![r] = Append(@, [msg |-> hand[c].msg, rc |-> hand[c].rc + 1])]
      BY <1>6, <2>1 DEF Routed
    <3>2. [msg |-> hand[c].msg, rc |-> hand[c].rc + 1] \in Entry /\ r \in Partition
      BY <1>6, <2>1 DEF HandType, Entry, Retries, Partition
    <3>3. QED
      BY <1>6, <2>1, <3>1, <3>2, AppendEntry DEF Routed
  <2>2. CASE ~Retries(hand[c].rc)
    BY <1>6, <2>2 DEF Routed, HandType
  <2>3. QED
    BY <2>1, <2>2
<1>7. ASSUME NEW c \in Consumer, Route(c) PROVE TypeOK'
  BY <1>6, <1>7 DEF Route, HandMatches, Matches, Busy
<1>8. ASSUME NEW c \in Consumer, Crash(c) \/ RouteError(c) \/ RoutedCommitError(c)
      PROVE  TypeOK'
  <2>1. log' \in [Partition -> Seq(Entry)] /\ dlq' \subseteq Message
    BY <1>6, <1>8 DEF Crash, RouteError, RoutedCommitError, HandMatches, Matches, Busy
  <2>2. faults' \in 0..MaxFaults
    BY <1>a, <1>8 DEF Crash, RouteError, RoutedCommitError
  <2>3. QED
    BY <1>8, <2>1, <2>2 DEF Crash, RouteError, RoutedCommitError, Leave
<1>9. CASE UNCHANGED vars
  BY <1>9 DEF vars
<1>10. QED
  BY <1>1, <1>2, <1>3, <1>4, <1>5, <1>7, <1>8, <1>9 DEF Next, Step, Disturbance

-----------------------------------------------------------------------------
(* What sending a failed message on does to the log.                       *)

LogGrows ==
    \A q \in Partition :
        /\ Len(log'[q]) >= Len(log[q])
        /\ \A k \in 1..Len(log[q]) : log'[q][k] = log[q][k]

NewEntry(r, m, rc) ==
    /\ Len(log'[r]) = Len(log[r]) + 1
    /\ log'[r][Len(log[r]) + 1] = [msg |-> m, rc |-> rc]
    /\ \A q \in Partition \ {r} : log'[q] = log[q]

LEMMA LogStays ==
    ASSUME UNCHANGED log, log \in [Partition -> Seq(Entry)]
    PROVE  LogGrows
  BY DEF LogGrows

LEMMA PublishedEntry ==
    ASSUME NEW m \in Message, TypeOK, Publish(m)
    PROVE  LogGrows /\ \E p \in Partition : NewEntry(p, m, 0)
<1>1. PICK p \in Main : log' = [log EXCEPT ![p] = Append(@, [msg |-> m, rc |-> 0])]
  BY DEF Publish
<1>2. [msg |-> m, rc |-> 0] \in Entry /\ p \in Partition
  BY ConsumerAssumption DEF Entry, Partition
<1>3. log \in [Partition -> Seq(Entry)]
  BY DEF TypeOK
<1>4. QED
  BY <1>1, <1>2, <1>3, AppendEntry DEF LogGrows, NewEntry

LEMMA RoutedEntry ==
    ASSUME NEW c \in Consumer, TypeOK, hand[c] \in HandType, Routed(hand[c])
    PROVE  /\ LogGrows
           /\ \/ dlq' = dlq \cup {hand[c].msg} /\ UNCHANGED log /\ ~Retries(hand[c].rc)
              \/ /\ dlq' = dlq
                 /\ \E r \in Partition : NewEntry(r, hand[c].msg, hand[c].rc + 1)
<1>1. log \in [Partition -> Seq(Entry)]
  BY DEF TypeOK
<1>2. CASE Retries(hand[c].rc)
  <2>1. PICK r \in Retry :
          log' = [log EXCEPT ![r] = Append(@, [msg |-> hand[c].msg, rc |-> hand[c].rc + 1])]
    BY <1>2 DEF Routed
  <2>2. [msg |-> hand[c].msg, rc |-> hand[c].rc + 1] \in Entry /\ r \in Partition
    BY <1>2, ConsumerAssumption DEF HandType, Entry, Retries, Partition
  <2>3. QED
    BY <1>1, <1>2, <2>1, <2>2, AppendEntry DEF LogGrows, NewEntry, Routed
<1>3. CASE ~Retries(hand[c].rc)
  BY <1>1, <1>3, LogStays DEF Routed
<1>4. QED
  BY <1>2, <1>3

-----------------------------------------------------------------------------
(* Hands, entries and offsets *)

(* Counts of failures only grow.                                           *)
FailuresGrow == \A m \in Message : failures'[m] \in Nat /\ failures'[m] >= failures[m]

(* Hands survive a growing log and growing failure counts.                 *)
LEMMA HandKept ==
    ASSUME TypeOK, HandMatches, LogGrows, FailuresGrow, NEW d \in Consumer,
           hand'[d] = hand[d], phase[d] \in Busy,
           phase'[d] \in {"failed", "routed"} => failures'[hand[d].msg] > hand[d].rc
    PROVE  Matches(d)'
<1>1. /\ hand[d] \in HandType /\ log[hand[d].part] \in Seq(Entry)
      /\ hand[d].at <= Len(log[hand[d].part])
  BY DEF HandMatches, Matches, HandType, TypeOK
<1>2. /\ hand[d].at \in 1..Len(log[hand[d].part])
      /\ Len(log'[hand[d].part]) >= hand[d].at
      /\ log'[hand[d].part][hand[d].at] = log[hand[d].part][hand[d].at]
  BY <1>1 DEF HandType, LogGrows
<1>3. /\ failures'[hand[d].msg] >= failures[hand[d].msg]
      /\ failures'[hand[d].msg] \in Nat /\ failures[hand[d].msg] \in Nat
      /\ hand[d].rc \in Nat
  BY <1>1, ConsumerAssumption DEF HandType, FailuresGrow, TypeOK
<1>4. QED
  BY <1>1, <1>2, <1>3 DEF HandMatches, Matches, HandType, Partition

LEMMA HandStays ==
    ASSUME TypeOK, HandMatches, LogGrows, FailuresGrow, NEW d \in Consumer,
           phase'[d] = phase[d], hand'[d] = hand[d], phase[d] \in Busy
    PROVE  Matches(d)'
<1>1. Matches(d) /\ hand[d] \in HandType
  BY DEF HandMatches, Matches
<1>2. /\ failures'[hand[d].msg] >= failures[hand[d].msg]
      /\ failures'[hand[d].msg] \in Nat /\ failures[hand[d].msg] \in Nat
      /\ hand[d].rc \in Nat
  BY <1>1, ConsumerAssumption DEF HandType, FailuresGrow, TypeOK
<1>3. phase'[d] \in {"failed", "routed"} => failures'[hand[d].msg] > hand[d].rc
  BY <1>1, <1>2 DEF Matches
<1>4. QED
  BY <1>3, HandKept

(* A step that moves one consumer.                                         *)
LEMMA HandStep ==
    ASSUME TypeOK, HandMatches, LogGrows, FailuresGrow, NEW c,
           \A d \in Consumer \ {c} : phase'[d] = phase[d] /\ hand'[d] = hand[d],
           c \in Consumer /\ phase'[c] \in Busy => Matches(c)'
    PROVE  HandMatches'
<1> SUFFICES ASSUME NEW d \in Consumer, phase'[d] \in Busy
             PROVE  Matches(d)'
  BY DEF HandMatches, Busy
<1>1. CASE d = c
  BY <1>1
<1>2. CASE d # c
  BY <1>2, HandStays
<1>3. QED
  BY <1>1, <1>2

LEMMA HandInductive ==
    ASSUME TypeOK, HandMatches, EntriesEarned, [Next]_vars
    PROVE  HandMatches'
<1> USE DEF broker, loop, history
<1>t. /\ log \in [Partition -> Seq(Entry)]
      /\ phase \in [Consumer -> Phase]
      /\ hand \in [Consumer -> HandType \cup {NoHand}]
      /\ failures \in [Message -> Nat]
      /\ position \in [Consumer -> [Partition -> Nat]]
  BY DEF TypeOK, HandType
<1>f. UNCHANGED failures => FailuresGrow
  BY <1>t DEF FailuresGrow
<1>l. UNCHANGED log => LogGrows
  BY <1>t, LogStays
<1>1. ASSUME NEW m \in Message, Publish(m) PROVE HandMatches'
  <2>1. LogGrows /\ UNCHANGED <<phase, hand, failures>>
    BY <1>1, PublishedEntry DEF Publish
  <2>2. ASSUME NEW d \in Consumer, phase'[d] \in Busy PROVE Matches(d)'
    BY <1>f, <2>1, <2>2, HandStays
  <2>3. QED
    BY <2>2 DEF HandMatches, Busy
<1>2. ASSUME NEW c \in Consumer, NEW p \in Partition, Assign(p, c) \/ Rebalance(p, c)
      PROVE  HandMatches'
  <2>1. UNCHANGED <<log, phase, hand, failures>>
    BY <1>2 DEF Assign, Rebalance, Assignment
  <2>2. ASSUME NEW d \in Consumer, phase'[d] \in Busy PROVE Matches(d)'
    BY <1>f, <1>l, <2>1, <2>2, HandStays
  <2>3. QED
    BY <2>2 DEF HandMatches, Busy
<1>3. ASSUME NEW c \in Consumer,
             \/ Start(c) \/ Crash(c) \/ RoutedCommitError(c)
             \/ Commit(c) \/ CommitSkipped(c)
      PROVE  HandMatches'
  <2>1. UNCHANGED <<log, failures>>
    BY <1>3 DEF Start, Crash, RoutedCommitError, Commit, CommitSkipped
  <2>2. phase'[c] \notin Busy
        /\ \A d \in Consumer \ {c} : phase'[d] = phase[d] /\ hand'[d] = hand[d]
    BY <1>3, <1>t DEF Start, Crash, RoutedCommitError, Commit, CommitSkipped,
                      Leave, Continue, Busy
  <2>3. QED
    BY <1>f, <1>l, <2>1, <2>2, HandStep
<1>4. ASSUME NEW c \in Consumer, RouteError(c) PROVE HandMatches'
  <2>1. hand[c] \in HandType
    BY <1>4 DEF RouteError, HandMatches, Matches, Busy
  <2>2. LogGrows /\ UNCHANGED failures
    BY <1>4, <1>l, <2>1, RoutedEntry DEF RouteError
  <2>3. phase'[c] \notin Busy
        /\ \A d \in Consumer \ {c} : phase'[d] = phase[d] /\ hand'[d] = hand[d]
    BY <1>4, <1>t DEF RouteError, Leave, Busy
  <2>4. QED
    BY <1>f, <2>2, <2>3, HandStep
<1>5. ASSUME NEW c \in Consumer, NEW p \in Partition, Poll(c, p)
      PROVE  HandMatches'
  <2> DEFINE k == position[c][p] + 1
  <2>1. k \in 1..Len(log[p]) /\ log[p][k] \in Entry
    BY <1>5, <1>t DEF Poll
  <2>2. hand'[c] = [part |-> p, at |-> k, msg |-> log[p][k].msg, rc |-> log[p][k].rc]
        /\ phase'[c] = "processing" /\ UNCHANGED <<log, failures>>
        /\ \A d \in Consumer \ {c} : phase'[d] = phase[d] /\ hand'[d] = hand[d]
    BY <1>5, <1>t DEF Poll
  <2>3. hand'[c] \in HandType
    BY <2>1, <2>2 DEF HandType, Entry
  <2>4. failures[log[p][k].msg] >= log[p][k].rc
    BY <1>5, <2>1 DEF EntriesEarned
  <2>5. Matches(c)'
    BY <2>1, <2>2, <2>3, <2>4 DEF Matches
  <2>6. QED
    BY <1>f, <1>l, <2>2, <2>5, HandStep
<1>6. ASSUME NEW c \in Consumer, Process(c) PROVE HandMatches'
  <2>1. /\ phase[c] = "processing" /\ phase'[c] = "processed"
        /\ UNCHANGED <<log, hand, failures>>
        /\ \A d \in Consumer \ {c} : phase'[d] = phase[d]
    BY <1>6, <1>t DEF Process
  <2>2. Matches(c)'
    BY <2>1 DEF HandMatches, Matches, Busy, HandType, Partition
  <2>3. QED
    BY <1>f, <1>l, <2>1, <2>2, HandStep
<1>7. ASSUME NEW c \in Consumer, ProcessFails(c) \/ CommitError(c)
      PROVE  HandMatches'
  <2>1. /\ phase[c] \in Busy /\ phase'[c] = "failed"
        /\ UNCHANGED <<log, hand>>
        /\ failures' = [failures EXCEPT ![hand[c].msg] = @ + 1]
        /\ \A d \in Consumer \ {c} : phase'[d] = phase[d]
    BY <1>7, <1>t DEF ProcessFails, CommitError, Failed, Busy
  <2>2. /\ hand[c].msg \in Message /\ hand[c].rc \in Nat
        /\ failures[hand[c].msg] >= hand[c].rc
    BY <2>1, ConsumerAssumption DEF HandMatches, Matches, HandType
  <2>3. FailuresGrow /\ failures'[hand[c].msg] > hand[c].rc
    BY <1>t, <2>1, <2>2 DEF FailuresGrow
  <2>4. Matches(c)'
    BY <1>l, <2>1, <2>3, HandKept
  <2>5. QED
    BY <1>l, <2>1, <2>3, <2>4, HandStep
<1>8. ASSUME NEW c \in Consumer, Route(c) PROVE HandMatches'
  <2>1. /\ phase[c] = "failed" /\ phase'[c] = "routed" /\ UNCHANGED <<hand, failures>>
        /\ \A d \in Consumer \ {c} : phase'[d] = phase[d]
    BY <1>8, <1>t DEF Route
  <2>2. hand[c] \in HandType
    BY <2>1 DEF HandMatches, Matches, Busy
  <2>3. LogGrows
    BY <1>8, <2>2, RoutedEntry DEF Route
  <2>4. Matches(c)'
    BY <1>f, <2>1, <2>3, HandKept DEF HandMatches, Matches, Busy
  <2>5. QED
    BY <1>f, <2>1, <2>3, <2>4, HandStep
<1>9. CASE UNCHANGED vars
  BY <1>9 DEF vars, HandMatches, Matches, HandType, Partition
<1>10. QED
  BY <1>1, <1>2, <1>3, <1>4, <1>5, <1>6, <1>7, <1>8, <1>9 DEF Next, Step, Disturbance

(* The log changes only by publishing and by routing.                      *)
LEMMA LogSteps ==
    ASSUME TypeOK, HandMatches, [Next]_vars
    PROVE  \/ UNCHANGED log
           \/ \E m \in Message : Publish(m)
           \/ \E c \in Consumer :
                 /\ phase[c] = "failed" /\ Routed(hand[c])
                 /\ UNCHANGED <<sent, failures, committed>>
  BY DEF Next, Step, Disturbance, vars, broker, loop, history, Start, Assign, Rebalance,
         Assignment, Poll, Process, ProcessFails, Failed, Commit, CommitSkipped,
         CommitError, Route, RouteError, RoutedCommitError, Crash

LEMMA FailuresOnlyGrow ==
    ASSUME TypeOK, HandMatches, [Next]_vars
    PROVE  FailuresGrow
<1>1. failures \in [Message -> Nat]
  BY DEF TypeOK
<1>2. \/ UNCHANGED failures
      \/ \E c \in Consumer : failures' = [failures EXCEPT ![hand[c].msg] = @ + 1]
  BY DEF Next, Step, Disturbance, vars, loop, history, Publish, Start, Assign,
         Rebalance, Assignment, Poll, Process, ProcessFails, Failed, Commit,
         CommitSkipped, CommitError, Route, RouteError, RoutedCommitError, Crash
<1>3. QED
  BY <1>1, <1>2 DEF FailuresGrow

LEMMA SentOnlyGrows ==
    ASSUME TypeOK, [Next]_vars
    PROVE  \/ Sent' = Sent
           \/ \E m \in Message : Publish(m) /\ Sent' = Sent \cup {m}
<1>1. ASSUME NEW m \in Message, Publish(m)
      PROVE  Sent' = Sent \cup {m}
  BY <1>1, SentAppend DEF Publish, TypeOK
<1>2. UNCHANGED sent \/ \E m \in Message : Publish(m)
  BY DEF Next, Step, Disturbance, vars, loop, history, Start, Assign,
         Rebalance, Assignment, Poll, Process, ProcessFails, Failed, Commit,
         CommitSkipped, CommitError, Route, RouteError, RoutedCommitError, Crash
<1>3. QED
  BY <1>1, <1>2 DEF Sent

LEMMA EntriesInductive ==
    ASSUME TypeOK, HandMatches, EntriesEarned, [Next]_vars
    PROVE  EntriesEarned'
<1>1. FailuresGrow /\ Sent \subseteq Sent'
  BY FailuresOnlyGrow, SentOnlyGrows
<1>2. ASSUME NEW q \in Partition, NEW k \in 1..Len(log[q]), NEW e,
             e = log[q][k]
      PROVE  e.msg \in Sent' /\ failures'[e.msg] >= e.rc
  <2>1. e \in Entry
    BY <1>2 DEF TypeOK
  <2>2. e.msg \in Sent /\ failures[e.msg] >= e.rc
    BY <1>2 DEF EntriesEarned
  <2>3. failures[e.msg] \in Nat /\ e.rc \in Nat /\ e.msg \in Message
    BY <2>1, ConsumerAssumption DEF Entry, TypeOK
  <2>4. QED
    BY <1>1, <2>2, <2>3 DEF FailuresGrow
<1>3. CASE UNCHANGED log
  BY <1>2, <1>3 DEF EntriesEarned, Partition
<1>4. ASSUME NEW r \in Partition, NEW m \in Message, NEW n \in Nat,
             LogGrows, NewEntry(r, m, n), m \in Sent', failures'[m] >= n
      PROVE  EntriesEarned'
  <2> SUFFICES ASSUME NEW q \in Partition, NEW k \in 1..Len(log'[q])
               PROVE  /\ log'[q][k].msg \in Sent'
                      /\ failures'[log'[q][k].msg] >= log'[q][k].rc
    BY DEF EntriesEarned, Partition, Sent
  <2>1. CASE k \in 1..Len(log[q])
    BY <1>2, <1>4, <2>1 DEF LogGrows
  <2>2. CASE k \notin 1..Len(log[q])
    <3>1. Len(log[q]) \in Nat /\ Len(log[r]) \in Nat
      BY DEF TypeOK
    <3>2. q = r /\ k = Len(log[r]) + 1
      BY <1>4, <2>2, <3>1 DEF NewEntry
    <3>3. log'[q][k] = [msg |-> m, rc |-> n]
      BY <1>4, <3>2 DEF NewEntry
    <3>4. QED
      BY <1>4, <3>3
  <2>3. QED
    BY <2>1, <2>2
<1>5. ASSUME NEW m \in Message, Publish(m)
      PROVE  EntriesEarned'
  <2>1. PICK p \in Partition : NewEntry(p, m, 0)
    BY <1>5, PublishedEntry
  <2>2. LogGrows /\ sent' = Append(sent, m)
    BY <1>5, PublishedEntry DEF Publish
  <2>3. m \in Sent'
    BY <2>2, SentAppend DEF TypeOK
  <2>4. failures'[m] >= 0
    BY <1>1 DEF FailuresGrow
  <2>5. QED
    BY <1>4, <2>1, <2>2, <2>3, <2>4
<1>6. ASSUME NEW c \in Consumer, phase[c] = "failed", Routed(hand[c]),
             UNCHANGED <<sent, failures>>
      PROVE  EntriesEarned'
  <2>1. /\ hand[c] \in HandType
        /\ hand[c].at <= Len(log[hand[c].part])
        /\ log[hand[c].part][hand[c].at].msg = hand[c].msg
        /\ failures[hand[c].msg] > hand[c].rc
    BY <1>6 DEF HandMatches, Matches, Busy
  <2>2. hand[c].at \in 1..Len(log[hand[c].part]) /\ hand[c].part \in Partition
    BY <2>1 DEF HandType, TypeOK
  <2>3. hand[c].msg \in Sent'
    BY <1>1, <2>1, <2>2 DEF EntriesEarned
  <2>4. /\ hand[c].rc + 1 \in Nat /\ hand[c].msg \in Message
        /\ failures'[hand[c].msg] >= hand[c].rc + 1
    BY <1>6, <2>1, ConsumerAssumption DEF HandType, TypeOK
  <2>5. CASE UNCHANGED log
    BY <1>3, <2>5
  <2>6. CASE \E r \in Partition : NewEntry(r, hand[c].msg, hand[c].rc + 1)
    BY <1>4, <1>6, <2>1, <2>3, <2>4, <2>6, RoutedEntry
  <2>7. QED
    BY <1>6, <2>1, <2>5, <2>6, RoutedEntry
<1>7. QED
  BY <1>3, <1>5, <1>6, LogSteps

LEMMA OffsetsInductive ==
    ASSUME TypeOK, HandMatches, OffsetsBounded, [Next]_vars
    PROVE  OffsetsBounded'
<1> USE DEF broker, loop, history
<1>t. /\ log \in [Partition -> Seq(Entry)]
      /\ committed \in [Partition -> Nat]
      /\ position \in [Consumer -> [Partition -> Nat]]
      /\ \A p \in Partition : Len(log[p]) \in Nat
  BY DEF TypeOK
<1>1. LogGrows
  <2>1. CASE UNCHANGED log
    BY <1>t, <2>1, LogStays
  <2>2. ASSUME NEW m \in Message, Publish(m) PROVE LogGrows
    BY <2>2, PublishedEntry
  <2>3. ASSUME NEW c \in Consumer, phase[c] = "failed", Routed(hand[c]) PROVE LogGrows
    BY <2>3, RoutedEntry DEF HandMatches, Matches, Busy
  <2>4. QED
    BY <2>1, <2>2, <2>3, LogSteps
<1>2. \A p \in Partition : Len(log'[p]) >= Len(log[p]) /\ Len(log'[p]) \in Nat
  BY <1>1, TypeInductive DEF LogGrows, TypeOK
<1>3. CASE UNCHANGED <<committed, position>>
  BY <1>2, <1>3, <1>t DEF OffsetsBounded, Partition
<1>4. ASSUME NEW c \in Consumer, NEW p \in Partition, Assignment(p, c)
      PROVE  OffsetsBounded'
  <2>1. UNCHANGED <<committed, log>>
    BY <1>4 DEF Assignment
  <2>2. \A q \in Partition, d \in Consumer :
           position'[d][q] = position[d][q] \/ position'[d][q] = committed[q]
    BY <1>4, <1>t DEF Assignment
  <2>3. QED
    BY <1>t, <2>1, <2>2 DEF OffsetsBounded, Partition
<1>5. ASSUME NEW c \in Consumer, NEW p \in Partition, Poll(c, p)
      PROVE  OffsetsBounded'
  <2>1. UNCHANGED <<committed, log>>
    BY <1>5 DEF Poll
  <2>2. \A q \in Partition, d \in Consumer :
           \/ position'[d][q] = position[d][q]
           \/ q = p /\ position'[d][q] = position[c][p] + 1
    BY <1>5, <1>t DEF Poll
  <2>3. position[c][p] + 1 <= Len(log[p])
    BY <1>5, <1>t DEF Poll
  <2>4. QED
    BY <1>t, <2>1, <2>2, <2>3 DEF OffsetsBounded, Partition
<1>6. ASSUME NEW c \in Consumer, Commit(c)
      PROVE  OffsetsBounded'
  <2>1. UNCHANGED <<position, log>>
    BY <1>6 DEF Commit, Continue
  <2>2. \A q \in Partition :
           committed'[q] = committed[q] \/ committed'[q] = position[c][q]
    BY <1>6 DEF Commit, Offsets
  <2>3. QED
    BY <1>t, <2>1, <2>2 DEF OffsetsBounded, Partition
<1>7. \/ UNCHANGED <<committed, position>>
      \/ \E c \in Consumer : Commit(c)
      \/ \E c \in Consumer, p \in Partition : Assignment(p, c) \/ Poll(c, p)
  BY DEF Next, Step, Disturbance, vars, Publish, Start, Assign, Rebalance,
         Process, ProcessFails, Failed, CommitSkipped, Continue,
         CommitError, Route, RouteError, RoutedCommitError, Crash, Leave
<1>8. QED
  BY <1>3, <1>4, <1>5, <1>6, <1>7

-----------------------------------------------------------------------------
(* Nothing is forgotten *)

(* A live entry stays live when its partition loses its owner, or when the *)
(* owner, its fetch position and the group's offset stay and the owner     *)
(* does not settle the entry.                                              *)
LEMMA LiveStays ==
    ASSUME TypeOK, TypeOK', LogGrows, NEW p \in Partition, NEW k \in 1..Len(log[p]),
           NEW m, log[p][k].msg = m, LiveAt(p, k), committed'[p] = committed[p],
           \/ owner'[p] = "none"
           \/ /\ owner'[p] = owner[p] /\ position'[owner[p]][p] = position[owner[p]][p]
              /\ \/ k > position[owner[p]][p]
                 \/ /\ hand'[owner[p]] = hand[owner[p]]
                    /\ phase[owner[p]] \in {"processing", "failed"} =>
                          phase'[owner[p]] \in {"processing", "failed"}
    PROVE  LiveEntry(m)'
<1>1. Len(log[p]) \in Nat /\ Len(log'[p]) \in Nat
  BY DEF TypeOK, Partition
<1>2. k \in 1..Len(log'[p]) /\ log'[p][k] = log[p][k]
  BY <1>1 DEF LogGrows
<1>3. LiveAt(p, k)'
  BY DEF LiveAt
<1>4. QED
  BY <1>2, <1>3 DEF LiveEntry, Partition

(* A new entry is live.                                                    *)
LEMMA FreshLive ==
    ASSUME TypeOK, OffsetsBounded, NEW r \in Partition, NEW m, NEW n,
           NewEntry(r, m, n), UNCHANGED <<committed, position>>,
           owner'[r] \in {owner[r], "none"}
    PROVE  LiveEntry(m)'
<1>k. PICK k \in Nat : k = Len(log[r]) + 1
  BY DEF TypeOK
<1>1. /\ Len(log[r]) \in Nat /\ owner[r] \in Consumer \cup {"none"}
      /\ committed[r] \in Nat
      /\ \A c \in Consumer : position[c][r] \in Nat
  BY DEF TypeOK
<1>2. k \in 1..Len(log'[r]) /\ log'[r][k].msg = m
  BY <1>1, <1>k DEF NewEntry
<1>a. committed[r] <= Len(log[r]) /\ \A c \in Consumer : position[c][r] <= Len(log[r])
  BY DEF OffsetsBounded
<1>3. k > committed'[r]
  BY <1>1, <1>a, <1>k
<1>4. owner'[r] # "none" => k > position'[owner'[r]][r]
  <2> SUFFICES ASSUME owner'[r] # "none" PROVE k > position'[owner'[r]][r]
    OBVIOUS
  <2>1. owner'[r] \in Consumer /\ UNCHANGED position
    BY <1>1
  <2>2. position[owner'[r]][r] \in Nat /\ position[owner'[r]][r] <= Len(log[r])
    BY <1>1, <1>a, <2>1
  <2>3. QED
    BY <1>1, <1>k, <2>1, <2>2
<1>5. LiveAt(r, k)'
  BY <1>3, <1>4 DEF LiveAt
<1>6. QED
  BY <1>2, <1>5 DEF LiveEntry, Partition

(* What a consumer has in hand undecided is the live entry it fetched.     *)
LEMMA HandIsEntry ==
    ASSUME HandMatches, NEW c \in Consumer, NEW p, NEW k,
           phase[c] \in Busy, hand[c].part = p, hand[c].at = k
    PROVE  log[p][k].msg = hand[c].msg
  BY DEF HandMatches, Matches

LEMMA ForgottenInductive ==
    ASSUME Invariant, [Next]_vars, TypeOK'
    PROVE  NoneForgotten'
<1> USE DEF broker, loop, history
<1>t. /\ log \in [Partition -> Seq(Entry)]
      /\ owner \in [Partition -> Consumer \cup {"none"}]
      /\ phase \in [Consumer -> Phase]
      /\ hand \in [Consumer -> HandType \cup {NoHand}]
      /\ position \in [Consumer -> [Partition -> Nat]]
      /\ TypeOK /\ HandMatches /\ OffsetsBounded /\ "none" \notin Consumer
  BY ConsumerAssumption DEF Invariant, TypeOK, HandType
<1>l. UNCHANGED log => LogGrows
  BY <1>t, LogStays
<1>h. handled \subseteq handled' /\ dlq \subseteq dlq'
  BY DEF Next, Step, Disturbance, vars, Publish, Start, Assign, Rebalance, Assignment,
         Poll, Process, ProcessFails, Failed, Commit, CommitSkipped, Continue,
         CommitError, Route, RouteError, RoutedCommitError, Crash, Routed
<1>p. ASSUME NEW m \in Message, Publish(m)
      PROVE  LiveEntry(m)'
  <2>1. PICK p \in Partition : NewEntry(p, m, 0)
    BY <1>p, <1>t, PublishedEntry
  <2>2. QED
    BY <1>p, <1>t, <2>1, FreshLive DEF Publish
<1> SUFFICES ASSUME NEW m \in Sent, m \notin handled \cup dlq
             PROVE  m \in handled' \cup dlq' \/ LiveEntry(m)'
  BY <1>h, <1>p, <1>t, SentOnlyGrows DEF NoneForgotten
<1>q. PICK p \in Partition : \E j \in 1..Len(log[p]) : log[p][j].msg = m /\ LiveAt(p, j)
  BY DEF Invariant, NoneForgotten, LiveEntry
<1>e. PICK k \in 1..Len(log[p]) : log[p][k].msg = m /\ LiveAt(p, k)
  BY <1>q
<1>o. owner[p] \in Consumer \cup {"none"}
  BY <1>t
<1>1. ASSUME NEW n \in Message, Publish(n) PROVE LiveEntry(m)'
  BY <1>1, <1>t, <1>e, PublishedEntry, LiveStays DEF Publish
<1>2. ASSUME NEW c \in Consumer, Start(c) PROVE LiveEntry(m)'
  <2>1. /\ UNCHANGED <<log, committed, owner, position, hand>> /\ phase[c] = "down"
        /\ \A d \in Consumer \ {c} : phase'[d] = phase[d]
    BY <1>2, <1>t DEF Start
  <2>2. QED
    BY <1>e, <1>l, <1>o, <1>t, <2>1, LiveStays DEF LiveAt
<1>3. ASSUME NEW c \in Consumer, NEW q \in Partition, Assignment(q, c)
      PROVE  LiveEntry(m)'
  <2>1. /\ UNCHANGED <<log, committed, phase, hand>>
        /\ owner'[q] = c /\ position'[c][q] = committed[q]
        /\ \A r \in Partition \ {q} : owner'[r] = owner[r]
        /\ \A r \in Partition \ {q}, d \in Consumer : position'[d][r] = position[d][r]
    BY <1>3, <1>t DEF Assignment
  <2>2. CASE p # q
    BY <1>e, <1>l, <1>o, <1>t, <2>1, <2>2, LiveStays DEF LiveAt
  <2>3. CASE p = q
    <3>1. LiveAt(p, k)'
      BY <1>e, <2>1, <2>3 DEF LiveAt
    <3>2. QED
      BY <1>e, <2>1, <3>1 DEF LiveEntry, Partition
  <2>4. QED
    BY <2>2, <2>3
<1>4. ASSUME NEW c \in Consumer, NEW how, Leave(c, how), LogGrows, UNCHANGED committed
      PROVE  LiveEntry(m)'
  <2>1. owner'[p] = "none" \/ (owner'[p] = owner[p] /\ owner[p] # c)
    BY <1>4, <1>o DEF Leave
  <2>2. /\ UNCHANGED position
        /\ \A d \in Consumer \ {c} : phase'[d] = phase[d] /\ hand'[d] = hand[d]
    BY <1>4, <1>t DEF Leave
  <2>3. QED
    BY <1>4, <1>e, <1>o, <1>t, <2>1, <2>2, LiveStays
<1>5. ASSUME NEW c \in Consumer, NEW q \in Partition, Poll(c, q)
      PROVE  LiveEntry(m)'
  <2>1. /\ UNCHANGED <<log, committed, owner>>
        /\ phase[c] = "idle" /\ phase'[c] = "processing" /\ owner[q] = c
        /\ hand'[c].part = q /\ hand'[c].at = position[c][q] + 1
        /\ position'[c][q] = position[c][q] + 1
        /\ \A d \in Consumer \ {c} : phase'[d] = phase[d] /\ hand'[d] = hand[d]
        /\ \A r \in Partition \ {q}, d \in Consumer : position'[d][r] = position[d][r]
    BY <1>5, <1>t DEF Poll
  <2>2. CASE p # q
    BY <1>e, <1>l, <1>o, <1>t, <2>1, <2>2, LiveStays DEF LiveAt
  <2>3. CASE p = q
    <3>1. k > position[c][q] /\ k \in Nat /\ position[c][q] \in Nat
      BY <1>e, <1>t, <2>1, <2>3 DEF LiveAt
    <3>2. owner'[p] = c /\ position'[c][p] = position[c][p] + 1
      BY <2>1, <2>3
    <3>3. k > committed'[p]
      BY <1>e, <2>1 DEF LiveAt
    <3>4. k > position'[c][p] \/ k = position[c][p] + 1
      BY <2>3, <3>1, <3>2
    <3>5. phase'[c] = "processing" /\ hand'[c].part = p
          /\ hand'[c].at = position[c][p] + 1
      BY <2>1, <2>3
    <3>6. LiveAt(p, k)'
      BY <3>2, <3>3, <3>4, <3>5 DEF LiveAt
    <3>7. QED
      BY <1>e, <2>1, <3>6 DEF LiveEntry, Partition
  <2>4. QED
    BY <2>2, <2>3
<1>6. ASSUME NEW c \in Consumer, Process(c)
      PROVE  m \in handled' \/ LiveEntry(m)'
  <2>1. /\ UNCHANGED <<log, committed, owner, position, hand>>
        /\ phase[c] = "processing" /\ handled' = handled \cup {hand[c].msg}
        /\ \A d \in Consumer \ {c} : phase'[d] = phase[d]
    BY <1>6, <1>t DEF Process
  <2>2. CASE owner[p] = c /\ hand[c].part = p /\ hand[c].at = k
    <3>1. phase[c] \in Busy /\ HandMatches
      BY <1>t, <2>1 DEF Busy
    <3>2. hand[c].msg = m
      BY <1>e, <2>2, <3>1, HandIsEntry
    <3>3. QED
      BY <2>1, <3>2
  <2>3. CASE ~(owner[p] = c /\ hand[c].part = p /\ hand[c].at = k)
    BY <1>e, <1>l, <1>o, <1>t, <2>1, <2>3, LiveStays DEF LiveAt
  <2>4. QED
    BY <2>2, <2>3
<1>7. ASSUME NEW c \in Consumer, ProcessFails(c) \/ CommitError(c)
      PROVE  LiveEntry(m)'
  <2>1. /\ UNCHANGED <<log, committed, owner, position, hand>> /\ phase'[c] = "failed"
        /\ \A d \in Consumer \ {c} : phase'[d] = phase[d]
    BY <1>7, <1>t DEF ProcessFails, CommitError, Failed
  <2>2. QED
    BY <1>e, <1>l, <1>o, <1>t, <2>1, LiveStays
<1>8. ASSUME NEW c \in Consumer, Commit(c) \/ CommitSkipped(c)
      PROVE  LiveEntry(m)'
  <2>1. /\ UNCHANGED <<log, owner, position>> /\ phase[c] \in {"processed", "routed"}
        /\ \A d \in Consumer \ {c} : phase'[d] = phase[d] /\ hand'[d] = hand[d]
        /\ \A q \in Partition : committed'[q] = committed[q]
              \/ (owner[q] = c /\ committed'[q] = position[c][q])
    BY <1>8, <1>t DEF Commit, CommitSkipped, Continue, Offsets
  <2>2. owner[p] = c => k > position[c][p]
    BY <1>e, <1>t, <2>1 DEF LiveAt
  <2>3. LiveAt(p, k)'
    BY <1>e, <1>o, <2>1, <2>2 DEF LiveAt
  <2>4. QED
    BY <1>e, <2>1, <2>3 DEF LiveEntry, Partition
<1>9. ASSUME NEW c \in Consumer, Route(c)
      PROVE  m \in dlq' \/ LiveEntry(m)'
  <2>1. /\ UNCHANGED <<committed, owner, position, hand>>
        /\ phase[c] = "failed" /\ Routed(hand[c])
        /\ \A d \in Consumer \ {c} : phase'[d] = phase[d]
    BY <1>9, <1>t DEF Route
  <2>2. hand[c] \in HandType
    BY <1>t, <2>1 DEF HandMatches, Matches, Busy
  <2>3. CASE owner[p] = c /\ hand[c].part = p /\ hand[c].at = k
    <3>0. phase[c] \in Busy /\ HandMatches
      BY <1>t, <2>1 DEF Busy
    <3>1. hand[c].msg = m
      BY <1>e, <2>3, <3>0, HandIsEntry
    <3>2. CASE \E r \in Partition : NewEntry(r, m, hand[c].rc + 1)
      BY <1>t, <2>1, <3>2, FreshLive
    <3>3. QED
      BY <1>t, <2>1, <2>2, <3>1, <3>2, RoutedEntry
  <2>4. CASE ~(owner[p] = c /\ hand[c].part = p /\ hand[c].at = k)
    <3>1. LogGrows
      BY <1>t, <2>1, <2>2, RoutedEntry
    <3>2. QED
      BY <1>e, <1>o, <1>t, <2>1, <2>4, <3>1, LiveStays DEF LiveAt
  <2>5. QED
    BY <2>3, <2>4
<1>10. ASSUME NEW c \in Consumer, RouteError(c) PROVE LiveEntry(m)'
  <2>1. hand[c] \in HandType
    BY <1>10, <1>t DEF RouteError, HandMatches, Matches, Busy
  <2>2. LogGrows
    BY <1>10, <1>l, <1>t, <2>1, RoutedEntry DEF RouteError
  <2>3. QED
    BY <1>4, <1>10, <2>2 DEF RouteError
<1>11. ASSUME NEW c \in Consumer, Crash(c) \/ RoutedCommitError(c) PROVE LiveEntry(m)'
  BY <1>4, <1>11, <1>l DEF Crash, RoutedCommitError
<1>12. CASE UNCHANGED vars
  BY <1>12, <1>e, <1>l, <1>t, LiveStays DEF vars
<1>13. QED
  BY <1>1, <1>2, <1>3, <1>5, <1>6, <1>7, <1>8, <1>9, <1>10, <1>11, <1>12
     DEF Next, Step, Disturbance, Assign, Rebalance

-----------------------------------------------------------------------------
(* The invariant *)

LEMMA InvariantInit == Init => Invariant
<1> SUFFICES ASSUME Init PROVE Invariant
  OBVIOUS
<1>1. TypeOK
  BY ConsumerAssumption DEF Init, TypeOK, Phase
<1>2. HandMatches /\ OffsetsBounded
  BY DEF Init, HandMatches, OffsetsBounded, Busy
<1>3. EntriesEarned /\ NoneForgotten
  BY DEF Init, EntriesEarned, NoneForgotten, Sent
<1>4. QED
  BY <1>1, <1>2, <1>3 DEF Invariant

LEMMA InvariantStep == Invariant /\ [Next]_vars => Invariant'
<1> SUFFICES ASSUME Invariant, [Next]_vars PROVE Invariant'
  OBVIOUS
<1>1. TypeOK /\ HandMatches /\ EntriesEarned /\ OffsetsBounded
  BY DEF Invariant
<1>2. TypeOK'
  BY <1>1, TypeInductive
<1>3. HandMatches' /\ EntriesEarned' /\ OffsetsBounded'
  BY <1>1, <1>2, HandInductive, EntriesInductive, OffsetsInductive
<1>4. NoneForgotten'
  BY <1>2, ForgottenInductive
<1>5. QED
  BY <1>2, <1>3, <1>4 DEF Invariant

LEMMA InvariantHolds == Spec => []Invariant
  BY InvariantInit, InvariantStep, PTL DEF Spec

(* Type correctness: in particular no retry carries a count above the      *)
(* maximum.                                                                *)
THEOREM TypeCorrect == Spec => []TypeOK
<1>1. Invariant => TypeOK
  BY DEF Invariant
<1>2. QED
  BY <1>1, InvariantHolds, PTL

(* No event is lost, with any number of consumers and partitions and       *)
(* through any faults: it has been processed, is on the dead letter topic, *)
(* or is ahead of the committed offset.                                    *)
THEOREM NothingLost == Spec => []NoLoss
<1>1. Invariant => NoLoss
  <2> SUFFICES ASSUME Invariant, NEW m \in Sent, m \notin handled \cup dlq
               PROVE  Pending(m)
    BY DEF NoLoss
  <2>0. PICK p \in Partition : \E j \in 1..Len(log[p]) : log[p][j].msg = m /\ LiveAt(p, j)
    BY DEF Invariant, NoneForgotten, LiveEntry
  <2>1. PICK k \in 1..Len(log[p]) : log[p][k].msg = m /\ LiveAt(p, k)
    BY <2>0
  <2>2. committed[p] \in Nat /\ Len(log[p]) \in Nat
    BY DEF Invariant, TypeOK
  <2>3. k \in (committed[p] + 1)..Len(log[p])
    BY <2>1, <2>2 DEF LiveAt
  <2>4. QED
    BY <2>1, <2>3 DEF Pending
<1>2. QED
  BY <1>1, InvariantHolds, PTL

-----------------------------------------------------------------------------
(* The consume loop implements Delivery.                                   *)

LEMMA StepRefines == Invariant /\ [Next]_vars => [Promise!Next]_(Promise!delivery)
<1> SUFFICES ASSUME Invariant, [Next]_vars
             PROVE  [Promise!Next]_(Promise!delivery)
  OBVIOUS
<1> USE DEF broker, loop, history, Promise!delivery
<1>t. /\ hand \in [Consumer -> HandType \cup {NoHand}]
      /\ log \in [Partition -> Seq(Entry)]
      /\ failures \in [Message -> Nat]
      /\ HandMatches
  BY DEF Invariant, TypeOK, HandType
<1>s. Promise!Sent = Sent
  BY DEF Promise!Sent, Sent
(* What a busy consumer has in hand was sent.                              *)
<1>h. ASSUME NEW c \in Consumer, phase[c] \in Busy
      PROVE  hand[c] \in HandType /\ hand[c].msg \in Sent /\ hand[c].msg \in Message
  <2>1. Matches(c) /\ hand[c] \in HandType
    BY <1>h, <1>t DEF HandMatches, Matches
  <2>2. hand[c].part \in Partition /\ hand[c].at \in 1..Len(log[hand[c].part])
    BY <1>t, <2>1 DEF Matches, HandType
  <2>3. log[hand[c].part][hand[c].at].msg \in Sent
    BY <2>2 DEF Invariant, EntriesEarned
  <2>4. QED
    BY <2>1, <2>3 DEF Matches, HandType
<1>1. ASSUME NEW m \in Message, Publish(m) PROVE Promise!Next
  BY <1>1, <1>s DEF Publish, Promise!Next, Promise!Publish
<1>2. ASSUME NEW c \in Consumer, Process(c) PROVE Promise!Next
  <2>1. phase[c] \in Busy
    BY <1>2 DEF Process, Busy
  <2>2. Promise!Handle(hand[c].msg)
    BY <1>2, <1>h, <1>s, <2>1 DEF Process, Promise!Handle
  <2>3. QED
    BY <1>h, <2>1, <2>2 DEF Promise!Next
<1>3. ASSUME NEW c \in Consumer, ProcessFails(c) \/ CommitError(c) PROVE Promise!Next
  <2>1. phase[c] \in Busy
    BY <1>3 DEF ProcessFails, CommitError, Busy
  <2>2. Promise!Fail(hand[c].msg)
    BY <1>3, <1>h, <1>s, <2>1 DEF ProcessFails, CommitError, Failed, Promise!Fail
  <2>3. QED
    BY <1>h, <2>1, <2>2 DEF Promise!Next
<1>4. ASSUME NEW c \in Consumer, phase[c] = "failed",
             Routed(hand[c]) \/ UNCHANGED <<log, dlq>>, UNCHANGED history
      PROVE  [Promise!Next]_(Promise!delivery)
  <2>1. phase[c] \in Busy /\ hand[c] \in HandType
    BY <1>4, <1>h DEF Busy
  <2>2. CASE UNCHANGED dlq
    BY <1>4, <2>2
  <2>3. CASE dlq' # dlq
    <3>1. Routed(hand[c]) /\ ~Retries(hand[c].rc) /\ dlq' = dlq \cup {hand[c].msg}
      BY <1>4, <2>3 DEF Routed
    <3>2. failures[hand[c].msg] > hand[c].rc
      BY <1>4, <1>t, <2>1 DEF HandMatches, Matches
    <3>3. failures[hand[c].msg] \in Nat /\ hand[c].rc \in Nat
      BY <1>h, <1>t, <2>1, ConsumerAssumption DEF HandType
    <3>4. failures[hand[c].msg] > MaxRetries
      BY <3>1, <3>2, <3>3, ConsumerAssumption DEF Retries
    <3>5. Promise!GiveUp(hand[c].msg)
      BY <1>4, <1>h, <1>s, <2>1, <3>1, <3>4 DEF Promise!GiveUp
    <3>6. QED
      BY <1>h, <2>1, <3>5 DEF Promise!Next
  <2>4. QED
    BY <2>2, <2>3
<1>5. ASSUME NEW c \in Consumer, Route(c) \/ RouteError(c)
      PROVE  [Promise!Next]_(Promise!delivery)
  BY <1>4, <1>5 DEF Route, RouteError
<1>6. ASSUME NEW c \in Consumer,
             \/ Start(c) \/ Commit(c) \/ Crash(c) \/ CommitSkipped(c)
             \/ RoutedCommitError(c)
             \/ \E p \in Partition : Poll(c, p) \/ Assign(p, c) \/ Rebalance(p, c)
      PROVE  UNCHANGED (Promise!delivery)
  BY <1>6 DEF Start, Commit, Crash, CommitSkipped, RoutedCommitError, Poll, Assign,
              Rebalance, Assignment
<1>7. CASE UNCHANGED vars
  BY <1>7 DEF vars
<1>8. QED
  BY <1>1, <1>2, <1>3, <1>5, <1>6, <1>7 DEF Next, Step, Disturbance

(* At-least-once delivery: every behaviour of the consumers is one of      *)
(* Delivery.  In particular a message is dead-lettered only after it has   *)
(* failed more than MaxRetries times, whatever happens in between.         *)
THEOREM ImplementsDelivery == Spec => DeliversAsPromised
<1>1. Init => Promise!Init
  BY DEF Init, Promise!Init
<1>2. QED
  BY <1>1, StepRefines, InvariantHolds, PTL DEF Spec, DeliversAsPromised, Promise!Spec

-----------------------------------------------------------------------------
(* Offsets and progress                                                    *)

(* Partitions belong to live consumers, which read ahead of what is        *)
(* committed.                                                              *)
OwnersAhead ==
    \A p \in Partition : owner[p] # "none" =>
        owner[p] \in Live /\ position[owner[p]][p] >= committed[p]

OffsetsGrow == \A p \in Partition : committed'[p] >= committed[p]

(* Who was live and has not left is.                                       *)
LEMMA OwnersInductive ==
    ASSUME TypeOK, OwnersAhead, [Next]_vars
    PROVE  OwnersAhead' /\ OffsetsGrow
<1> USE ConsumerAssumption DEF broker, loop, history
<1>t. /\ committed \in [Partition -> Nat]
      /\ position \in [Consumer -> [Partition -> Nat]]
      /\ owner \in [Partition -> Consumer \cup {"none"}]
      /\ phase \in [Consumer -> Phase]
      /\ Live \subseteq Consumer
  BY DEF TypeOK, Live
<1>1. ASSUME UNCHANGED <<committed, owner, position>>, Live \subseteq Live'
      PROVE  OwnersAhead' /\ OffsetsGrow
  BY <1>1, <1>t DEF OwnersAhead, OffsetsGrow
<1>2. ASSUME NEW c \in Live, NEW p \in Partition, Assignment(p, c)
      PROVE  OwnersAhead' /\ OffsetsGrow
  <2>1. /\ committed' = committed /\ Live' = Live
        /\ owner'[p] = c /\ position'[c][p] = committed[p]
    BY <1>2, <1>t DEF Assignment, Live
  <2>2. \A q \in Partition \ {p} :
           owner'[q] = owner[q] /\ \A d \in Consumer : position'[d][q] = position[d][q]
    BY <1>2, <1>t DEF Assignment
  <2>. QED
    BY <2>1, <2>2, <1>t DEF OwnersAhead, OffsetsGrow
<1>3. ASSUME NEW c \in Consumer, Leave(c, "down") \/ Leave(c, "ended"),
             UNCHANGED committed
      PROVE  OwnersAhead' /\ OffsetsGrow
  <2>1. position' = position /\ \A q \in Partition :
           owner'[q] = "none" \/ (owner'[q] = owner[q] /\ owner[q] # c)
    BY <1>3, <1>t DEF Leave
  <2>2. \A d \in Live \ {c} : d \in Live'
    BY <1>3, <1>t DEF Leave, Live
  <2>. QED
    BY <1>3, <2>1, <2>2, <1>t DEF OwnersAhead, OffsetsGrow
<1>4. ASSUME NEW c \in Consumer, NEW p \in Partition, Poll(c, p)
      PROVE  OwnersAhead' /\ OffsetsGrow
  <2>1. UNCHANGED <<committed, owner>> /\ Live \subseteq Live'
    BY <1>4, <1>t DEF Poll, Live
  <2>2. \A q \in Partition, d \in Consumer :
           \/ position'[d][q] = position[d][q]
           \/ q = p /\ d = c /\ position'[d][q] = position[c][p] + 1
    BY <1>4, <1>t DEF Poll
  <2>. QED
    BY <2>1, <2>2, <1>t DEF OwnersAhead, OffsetsGrow
<1>5. ASSUME NEW c \in Consumer, Commit(c)
      PROVE  OwnersAhead' /\ OffsetsGrow
  <2>1. UNCHANGED <<position, owner>> /\ Live \subseteq Live'
    BY <1>5, <1>t DEF Commit, Continue, Live
  <2>2. \A q \in Partition :
           \/ committed'[q] = committed[q]
           \/ owner[q] = c /\ committed'[q] = position[c][q]
    BY <1>5 DEF Commit, Offsets
  <2>3. c # "none"
    OBVIOUS
  <2>. QED
    BY <2>1, <2>2, <2>3, <1>t DEF OwnersAhead, OffsetsGrow
<1>6. ASSUME NEW c \in Consumer,
             \/ Start(c) \/ Process(c) \/ ProcessFails(c) \/ Route(c)
             \/ CommitSkipped(c) \/ CommitError(c)
      PROVE  UNCHANGED <<committed, owner, position>> /\ Live \subseteq Live'
  <2>1. UNCHANGED <<committed, owner, position>>
    BY <1>6 DEF Start, Process, ProcessFails, Failed, Route, CommitSkipped, Continue,
       CommitError
  <2>2. \E next \in {"idle", "processed", "failed", "routed"} :
           phase' = [phase EXCEPT ![c] = next]
    BY <1>6 DEF Start, Process, ProcessFails, Failed, Route, CommitSkipped, Continue,
       CommitError
  <2>. QED
    BY <2>1, <2>2, <1>t DEF Live
<1>7. ASSUME UNCHANGED vars \/ \E m \in Message : Publish(m)
      PROVE  UNCHANGED <<committed, owner, position>> /\ Live \subseteq Live'
  BY <1>7 DEF vars, Publish, Live
<1>8. ASSUME NEW c \in Consumer, Crash(c) \/ RouteError(c) \/ RoutedCommitError(c)
      PROVE  OwnersAhead' /\ OffsetsGrow
  BY <1>3, <1>8 DEF Crash, RouteError, RoutedCommitError
<1>9. ASSUME NEW c \in Consumer, NEW p \in Partition, Assign(p, c) \/ Rebalance(p, c)
      PROVE  OwnersAhead' /\ OffsetsGrow
  BY <1>2, <1>9 DEF Assign, Rebalance
<1>. QED
  BY <1>1, <1>4, <1>5, <1>6, <1>7, <1>8, <1>9 DEF Next, Step, Disturbance

(* The group never goes back behind an offset it has committed, though     *)
(* commit() commits whatever its consumer has fetched, whoever had the     *)
(* partition before, and a rebalance can come between the two.             *)
THEOREM CommitsOnlyGrow == Spec => [][OffsetsGrow]_vars
<1>1. Init => OwnersAhead
  BY DEF Init, OwnersAhead
<1>2. Invariant => TypeOK
  BY DEF Invariant
<1>3. TypeOK /\ OwnersAhead /\ [Next]_vars => OwnersAhead' /\ [OffsetsGrow]_vars
  BY OwnersInductive
<1>. QED
  BY <1>1, <1>2, <1>3, InvariantHolds, PTL DEF Spec

(* What a consumer, or Kafka on its behalf, can do without any fault.      *)
CanGoOn(c) ==
    \/ phase[c] = "down"
    \/ phase[c] \in Busy
    \/ phase[c] = "idle" /\ \E p \in Partition :
          owner[p] = c /\ position[c][p] < Len(log[p])
    \/ c \in Live /\ \E p \in Partition : owner[p] = "none"

(* While a message is unsettled, some consumer goes on, unless the loops   *)
(* of all have ended.                                                      *)
NeverStuck ==
    (\E m \in Sent : m \notin handled \cup dlq) =>
        \/ \A c \in Consumer : phase[c] = "ended"
        \/ \E c \in Consumer : CanGoOn(c)

(* The safety core of EventuallySettled: the consume loops come to rest    *)
(* only when every message is processed or dead-lettered, or when routing  *)
(* failures have ended all of them.                                        *)
THEOREM SomeoneGoesOn == Spec => []NeverStuck
<1>1. Invariant /\ OwnersAhead => NeverStuck
  <2> SUFFICES ASSUME Invariant, OwnersAhead, NEW m \in Sent, m \notin handled \cup dlq,
                      NEW d \in Consumer, phase[d] # "ended"
               PROVE  \E c \in Consumer : CanGoOn(c)
    BY DEF NeverStuck
  <2>0. PICK p \in Partition : \E j \in 1..Len(log[p]) : log[p][j].msg = m /\ LiveAt(p, j)
    BY DEF Invariant, NoneForgotten, LiveEntry
  <2>1. PICK k \in 1..Len(log[p]) : LiveAt(p, k)
    BY <2>0
  <2>2. CASE owner[p] = "none"
    BY <2>2 DEF CanGoOn, Live
  <2>3. CASE owner[p] # "none"
    <3>1. owner[p] \in Consumer /\ phase[owner[p]] \in {"idle"} \cup Busy
      BY <2>3 DEF OwnersAhead, Live, Invariant, TypeOK, Phase, Busy
    <3>2. phase[owner[p]] = "idle" => position[owner[p]][p] < Len(log[p])
      <4>1. position[owner[p]][p] \in Nat /\ Len(log[p]) \in Nat
        BY <3>1 DEF Invariant, TypeOK
      <4>. QED
        BY <2>1, <2>3, <4>1 DEF LiveAt
    <3>. QED
      BY <3>1, <3>2 DEF CanGoOn
  <2>. QED
    BY <2>2, <2>3
<1>2. Init => OwnersAhead
  BY DEF Init, OwnersAhead
<1>3. Invariant => TypeOK
  BY DEF Invariant
<1>4. TypeOK /\ OwnersAhead /\ [Next]_vars => OwnersAhead'
  BY OwnersInductive
<1>. QED
  BY <1>1, <1>2, <1>3, <1>4, InvariantHolds, PTL DEF Spec
=============================================================================
