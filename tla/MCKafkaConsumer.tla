-------------------------- MODULE MCKafkaConsumer --------------------------
(* Small instances of KafkaConsumer: two processes, one partition of each  *)
(* topic.                                                                  *)
EXTENDS KafkaConsumer, TLC

CONSTANTS c1, c2, m1, m2
=============================================================================
