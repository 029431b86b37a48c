---------------------------- MODULE KafkaConsumer ----------------------------
(***************************************************************************)
(* DLQAwareConsumer: the consume loop that every Kafka consumer runs, with *)
(* its routing of failed messages to a retry topic and then to the dead    *)
(* letter topic, in a consumer group of several processes.                 *)
(*                                                                         *)
(* The loop holds one message at a time (`hand`).  Offsets are counted in  *)
(* messages: committed[p] is how many messages of partition p the group    *)
(* has committed, position[c][p] how many consumer c has fetched.  What    *)
(* the broker and the group coordinator do is external: assignment at the  *)
(* committed offset, commits of all owned partitions' positions, requests  *)
(* that fail.  Failures outside the program's control are faults, at most  *)
(* MaxFaults in a behaviour.                                               *)
(***************************************************************************)
EXTENDS Integers, Sequences

CONSTANTS
    Message,    \* messages that are published
    Consumer,   \* processes that run the consumer
    Main,       \* partitions of the topic
    Retry,      \* partitions of the retry topic
    MaxRetries, \* DLQConfig.max_retries
    Faults,     \* kinds of faults that happen (bound of the run)
    MaxFaults,  \* number of faults (bound of the run)
    NoHand      \* no message in hand

ASSUME ConsumerAssumption ==
    /\ MaxRetries \in Nat
    /\ MaxFaults \in Nat
    /\ Main \cap Retry = {} /\ Retry # {}
    /\ "none" \notin Consumer
    /\ Faults \subseteq {"crash", "rebalance", "commit", "route"}

Partition == Main \cup Retry
Entry == [msg : Message, rc : 0..MaxRetries]

VARIABLES
    (* the broker *)
    log,        \* the entries of each partition
    committed,  \* the group's committed offset in each partition
    owner,      \* the consumer a partition is assigned to
    dlq,        \* messages on the dead letter topic
    (* the consumers *)
    phase,      \* where in its loop a consumer is
    position,   \* how far it has fetched each partition
    hand,       \* the message it has fetched: partition, offset, entry
    (* history and bounds *)
    sent,       \* the messages in publication order
    failures,   \* failed attempts at each message
    handled,    \* messages processed to the end
    faults      \* faults so far

broker == <<log, committed, owner, dlq>>
loop == <<phase, position, hand>>
history == <<sent, failures, handled>>
vars == <<broker, loop, history, faults>>

Phase == {"down", "ended", "idle", "processing", "processed", "failed", "routed"}
Live == {c \in Consumer : phase[c] \notin {"down", "ended"}}
Sent == {sent[k] : k \in DOMAIN sent}

Init ==
    /\ log = [p \in Partition |-> <<>>]
    /\ committed = [p \in Partition |-> 0]
    /\ owner = [p \in Partition |-> "none"]
    /\ dlq = {}
    /\ phase = [c \in Consumer |-> "down"]
    /\ position = [c \in Consumer |-> [p \in Partition |-> 0]]
    /\ hand = [c \in Consumer |-> NoHand]
    /\ sent = <<>>
    /\ failures = [m \in Message |-> 0]
    /\ handled = {}
    /\ faults = 0

Fault(kind) ==
    /\ kind \in Faults
    /\ faults < MaxFaults
    /\ faults' = faults + 1

(* Another component publishes an event, without a key: any partition.     *)
Publish(m) ==
    /\ m \notin Sent
    /\ sent' = Append(sent, m)
    /\ \E p \in Main :
         log' = [log EXCEPT ![p] = Append(@, [msg |-> m, rc |-> 0])]
    /\ UNCHANGED <<committed, owner, dlq, loop, failures, handled, faults>>

(***************************************************************************)
(* Processes and the group.                                                *)
(***************************************************************************)

(* start(): the process comes up (again) and its consumer joins.           *)
Start(c) ==
    /\ phase[c] = "down"
    /\ phase' = [phase EXCEPT ![c] = "idle"]
    /\ UNCHANGED <<broker, position, hand, history, faults>>

Assignment(p, c) ==
    /\ owner' = [owner EXCEPT ![p] = c]
    /\ position' = [position EXCEPT ![c][p] = committed[p]]
    /\ UNCHANGED <<log, committed, dlq, phase, hand, history>>

Assign(p, c) ==
    /\ owner[p] = "none"
    /\ c \in Live
    /\ Assignment(p, c)
    /\ UNCHANGED faults

(* A partition moves between live consumers, also while its previous owner *)
(* is processing a message of it; or back to the same one.                 *)
Rebalance(p, c) ==
    /\ Fault("rebalance")
    /\ owner[p] # "none"
    /\ c \in Live
    /\ Assignment(p, c)

(* The consumer leaves the group: what it owned is unassigned.             *)
Leave(c, how) ==
    /\ phase' = [phase EXCEPT ![c] = how]
    /\ hand' = [hand EXCEPT ![c] = NoHand]
    /\ owner' = [p \in Partition |-> IF owner[p] = c THEN "none" ELSE owner[p]]
    /\ UNCHANGED position

(* The process dies, or is told to shut down and cancels its loop.         *)
Crash(c) ==
    /\ Fault("crash")
    /\ c \in Live
    /\ Leave(c, "down")
    /\ UNCHANGED <<log, committed, dlq, history>>

(***************************************************************************)
(* consume()                                                               *)
(***************************************************************************)
Poll(c, p) ==
    /\ phase[c] = "idle"
    /\ owner[p] = c
    /\ position[c][p] < Len(log[p])
    /\ LET k == position[c][p] + 1 IN
         /\ hand' = [hand EXCEPT ![c] =
                        [part |-> p, at |-> k, msg |-> log[p][k].msg, rc |-> log[p][k].rc]]
         /\ position' = [position EXCEPT ![c][p] = k]
    /\ phase' = [phase EXCEPT ![c] = "processing"]
    /\ UNCHANGED <<broker, history, faults>>

(* process_message returns.                                                *)
Process(c) ==
    /\ phase[c] = "processing"
    /\ handled' = handled \cup {hand[c].msg}
    /\ phase' = [phase EXCEPT ![c] = "processed"]
    /\ UNCHANGED <<broker, position, hand, sent, failures, faults>>

Failed(c) ==
    /\ failures' = [failures EXCEPT ![hand[c].msg] = @ + 1]
    /\ phase' = [phase EXCEPT ![c] = "failed"]
    /\ UNCHANGED <<broker, position, hand, sent, handled>>

(* process_message raises or times out.                                    *)
ProcessFails(c) ==
    /\ phase[c] = "processing"
    /\ Failed(c)
    /\ UNCHANGED faults

(* Mutant: everything there is counts as consumed.                         *)
Offsets_End(c) ==
    [p \in Partition |-> IF owner[p] = c THEN Len(log[p]) ELSE committed[p]]

(* What commit() commits: the positions of the partitions it owns.         *)
Offsets(c) ==
    [p \in Partition |-> IF owner[p] = c THEN position[c][p] ELSE committed[p]]

Continue(c) ==
    /\ phase' = [phase EXCEPT ![c] = "idle"]
    /\ hand' = [hand EXCEPT ![c] = NoHand]
    /\ UNCHANGED position

(* The commit after processing, and after routing.                         *)
Commit(c) ==
    /\ phase[c] \in {"processed", "routed"}
    /\ committed' = Offsets(c)
    /\ Continue(c)
    /\ UNCHANGED <<log, owner, dlq, history, faults>>

(* CommitFailedError after processing: skipped.                            *)
CommitSkipped(c) ==
    /\ Fault("commit")
    /\ phase[c] = "processed"
    /\ Continue(c)
    /\ UNCHANGED <<broker, history>>

(* Any other error of that commit counts as a failure of the message.      *)
CommitError(c) ==
    /\ Fault("commit")
    /\ phase[c] = "processed"
    /\ Failed(c)

(***************************************************************************)
(* _route_failure                                                          *)
(***************************************************************************)

(* Mutants: one retry too few; one too many.                               *)
Retries_Early(rc) == rc + 1 < MaxRetries
Retries_Late(rc) == rc <= MaxRetries

Retries(rc) == rc < MaxRetries

Routed(e) ==
    IF Retries(e.rc)
    THEN /\ \E r \in Retry :
              log' = [log EXCEPT ![r] = Append(@, [msg |-> e.msg, rc |-> e.rc + 1])]
         /\ UNCHANGED dlq
    ELSE /\ dlq' = dlq \cup {e.msg}
         /\ UNCHANGED log

Route(c) ==
    /\ phase[c] = "failed"
    /\ Routed(hand[c])
    /\ phase' = [phase EXCEPT ![c] = "routed"]
    /\ UNCHANGED <<committed, owner, position, hand, history, faults>>

(* The send fails, whether or not the broker has the message; the error is *)
(* raised again and the loop is over.                                      *)
RouteError(c) ==
    /\ Fault("route")
    /\ phase[c] = "failed"
    /\ Routed(hand[c]) \/ UNCHANGED <<log, dlq>>
    /\ Leave(c, "ended")
    /\ UNCHANGED <<committed, history>>

(* So it is when the commit after routing fails, CommitFailedError or not. *)
RoutedCommitError(c) ==
    /\ Fault("route")
    /\ phase[c] = "routed"
    /\ Leave(c, "ended")
    /\ UNCHANGED <<log, committed, dlq, history>>

-----------------------------------------------------------------------------

Step(c) ==
    \/ \E p \in Partition : Poll(c, p)
    \/ Process(c)
    \/ ProcessFails(c)
    \/ Commit(c)
    \/ Route(c)

Disturbance ==
    \E c \in Consumer :
        \/ Crash(c)
        \/ CommitSkipped(c)
        \/ CommitError(c)
        \/ RouteError(c)
        \/ RoutedCommitError(c)
        \/ \E p \in Partition : Rebalance(p, c)

Next ==
    \/ \E m \in Message : Publish(m)
    \/ \E c \in Consumer : Start(c) \/ Step(c) \/ \E p \in Partition : Assign(p, c)
    \/ Disturbance

Spec == Init /\ [][Next]_vars

-----------------------------------------------------------------------------
(* Properties *)

TypeOK ==
    /\ log \in [Partition -> Seq(Entry)]
    /\ committed \in [Partition -> Nat]
    /\ owner \in [Partition -> Consumer \cup {"none"}]
    /\ dlq \subseteq Message
    /\ phase \in [Consumer -> Phase]
    /\ position \in [Consumer -> [Partition -> Nat]]
    /\ hand \in [Consumer ->
          [part : Partition, at : Nat \ {0}, msg : Message, rc : 0..MaxRetries]
            \cup {NoHand}]
    /\ sent \in Seq(Message)
    /\ failures \in [Message -> Nat]
    /\ handled \subseteq Message
    /\ faults \in 0..MaxFaults

(* An entry the group will deliver (again) if the offsets stay.            *)
Pending(m) ==
    \E p \in Partition : \E k \in (committed[p] + 1)..Len(log[p]) : log[p][k].msg = m

(***************************************************************************)
(* No event is lost: through crashes, rebalances in mid-processing, failed *)
(* commits and failed sends, each published message has been processed, is *)
(* on the dead letter topic, or is still ahead of the committed offset of  *)
(* the topic or the retry topic.                                           *)
(***************************************************************************)
NoLoss == \A m \in Sent : m \in handled \cup dlq \/ Pending(m)

(* The delivery promise: a message is dead-lettered only after MaxRetries  *)
(* retries have failed, counting attempts whose commit failed.             *)
Promise == INSTANCE Delivery WITH dead <- dlq
DeliversAsPromised == Promise!Spec

(***************************************************************************)
(* Liveness.  Kafka assigns what no live consumer owns, docker restarts a  *)
(* process that died (restart: always), and the loop goes on; a consumer   *)
(* whose loop has ended stays ended, since its process lives on.           *)
(***************************************************************************)
Fairness ==
    /\ \A c \in Consumer : WF_vars(Start(c))
    /\ \A p \in Partition : SF_vars(\E c \in Consumer : Assign(p, c))
    /\ \A c \in Consumer, p \in Partition : SF_vars(Poll(c, p))
    /\ \A c \in Consumer :
         WF_vars(Process(c) \/ ProcessFails(c) \/ Commit(c) \/ Route(c))

FairSpec == Spec /\ Fairness

(* Each published message is processed or dead-lettered in the end, unless *)
(* routing failures have ended the loop of every consumer of the group.    *)
EventuallySettled ==
    \A m \in Message :
        m \in Sent ~> \/ m \in handled \cup dlq
                      \/ \A c \in Consumer : phase[c] = "ended"
=============================================================================
