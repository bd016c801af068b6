----------------------------- MODULE KafkaGroup -----------------------------
(***************************************************************************)
(* A consumer group of the Kafka subscriber and the one partition it reads *)
(* (SubscriberConfig).  A message is its offset.                           *)
(***************************************************************************)
EXTENDS Integers, FiniteSets

CONSTANTS
    Members,       \* instances of the service sharing the group
    MaxOffset,     \* bound: messages published
    MaxGroupFaults \* bound: failed calls, rebalances and crashes

Offsets == 0..(MaxOffset - 1)

None == -1

Nobody == "nobody"

ASSUME KafkaAssumption ==
    /\ Nobody \notin Members
    /\ MaxOffset \in Nat
    /\ MaxGroupFaults \in Nat
=============================================================================
