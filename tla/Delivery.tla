------------------------------ MODULE Delivery ------------------------------
(***************************************************************************)
(* What the Kafka consumers promise: at-least-once delivery.  A message is *)
(* attempted, perhaps several times and by several consumers, until it has *)
(* been handled, or has failed more than MaxRetries times and is put on    *)
(* the dead letter topic.                                                  *)
(***************************************************************************)
EXTENDS Integers, Sequences

CONSTANTS Message, MaxRetries

VARIABLES
    sent,      \* the messages in publication order
    failures,  \* failed attempts at each message
    handled,   \* messages processed to the end at least once
    dead       \* messages on the dead letter topic

delivery == <<sent, failures, handled, dead>>

Sent == {sent[k] : k \in DOMAIN sent}

Init ==
    /\ sent = <<>>
    /\ failures = [m \in Message |-> 0]
    /\ handled = {}
    /\ dead = {}

Publish(m) ==
    /\ m \notin Sent
    /\ sent' = Append(sent, m)
    /\ UNCHANGED <<failures, handled, dead>>

Handle(m) ==
    /\ m \in Sent
    /\ handled' = handled \cup {m}
    /\ UNCHANGED <<sent, failures, dead>>

Fail(m) ==
    /\ m \in Sent
    /\ failures' = [failures EXCEPT ![m] = @ + 1]
    /\ UNCHANGED <<sent, handled, dead>>

GiveUp(m) ==
    /\ m \in Sent
    /\ failures[m] > MaxRetries
    /\ dead' = dead \cup {m}
    /\ UNCHANGED <<sent, failures, handled>>

Next == \E m \in Message : Publish(m) \/ Handle(m) \/ Fail(m) \/ GiveUp(m)

Spec == Init /\ [][Next]_delivery
=============================================================================
