---------------------------- MODULE KafkaConsumer ----------------------------
(***************************************************************************)
(* A consumer group of the Kafka subscriber (internal/platform/messaging/  *)
(* kafka) on one partition, the unit Kafka orders and hands out.           *)
(*                                                                         *)
(* A message is its offset.  The group has one committed offset, the next  *)
(* one to be read by whoever is given the partition; the owner's reader    *)
(* goes on from the last message it fetched, whatever was committed.       *)
(***************************************************************************)
EXTENDS KafkaGroup

VARIABLES
    kind,      \* what each message will turn out to be
    end,       \* the offset the next message published will have
    committed, \* the group's offset
    owner,     \* the consumer that holds the partition, if any
    position,  \* the offset the owner's reader fetches next
    pc,        \* the call each consumer is about to make
    hand,      \* the offset it is working on, None without one
    done,      \* messages whose handling has taken effect
    aside,     \* messages with a copy in the rejected topic
    faults,    \* failed calls, rebalances and crashes so far
    skipped,   \* history: unreadable messages that were read
    left       \* history: messages left uncommitted after a failure

partition == <<committed, owner, position>>
consumer == <<pc, hand>>
effect == <<done, aside>>
history == <<skipped, left>>
vars == <<kind, end, partition, consumer, effect, faults, history>>

\* As in CheckoutConsumer: a contradicting message is rejected, and a refused one
\* fails every time.
Kinds == {"good", "contradicting", "unreadable", "refused"}

-----------------------------------------------------------------------------
Init ==
    /\ kind \in [Offsets -> Kinds]
    /\ end = 0 /\ committed = 0 /\ owner = Nobody /\ position = 0
    /\ pc = [c \in Members |-> "loop"]
    /\ hand = [c \in Members |-> None]
    /\ done = {} /\ aside = {}
    /\ faults = 0
    /\ skipped = {} /\ left = {}

\* A message is appended to the partition.
Publish ==
    /\ end < MaxOffset
    /\ end' = end + 1
    /\ UNCHANGED <<kind, partition, consumer, effect, faults, history>>

\* Faulty variant of Assign: a group that has committed nothing starts at the end.
AssignLatest(c) ==
    /\ owner' = c
    /\ position' = IF committed = 0 THEN end ELSE committed
    /\ UNCHANGED <<kind, end, committed, consumer, effect, history>>

\* The group gives the partition to c, which reads from the group's offset, or
\* from the first one for a group that never ran (StartOffset).
Assign(c) ==
    /\ owner' = c
    /\ position' = committed
    /\ UNCHANGED <<kind, end, committed, consumer, effect, history>>

Join(c) == owner = Nobody /\ Assign(c) /\ UNCHANGED faults

\* The group moves the partition while its owner is alive, and perhaps at work.
Rebalance(c) ==
    /\ owner # Nobody
    /\ faults < MaxGroupFaults
    /\ faults' = faults + 1
    /\ Assign(c)

\* Faulty variant of Fetch: the offset is committed before the work is done.
FetchCommits(c) ==
    /\ pc[c] = "loop" /\ owner = c /\ position < end
    /\ hand' = [hand EXCEPT ![c] = position]
    /\ position' = position + 1
    /\ committed' = position + 1
    /\ IF kind[position] = "unreadable"
       THEN /\ skipped' = skipped \union {position}
            /\ pc' = [pc EXCEPT ![c] = "commit"]
       ELSE UNCHANGED skipped /\ pc' = [pc EXCEPT ![c] = "deliver"]
    /\ UNCHANGED <<kind, end, owner, effect, faults, left>>

\* Reader.FetchMessage and envelopeFrom: an unreadable message goes straight to
\* being committed.
Fetch(c) ==
    /\ pc[c] = "loop" /\ owner = c /\ position < end
    /\ hand' = [hand EXCEPT ![c] = position]
    /\ position' = position + 1
    /\ IF kind[position] = "unreadable"
       THEN /\ skipped' = skipped \union {position}
            /\ pc' = [pc EXCEPT ![c] = "commit"]
       ELSE UNCHANGED skipped /\ pc' = [pc EXCEPT ![c] = "deliver"]
    /\ UNCHANGED <<kind, end, committed, owner, effect, faults, left>>

\* On to the next message.
Continue(c) ==
    /\ pc' = [pc EXCEPT ![c] = "loop"]
    /\ hand' = [hand EXCEPT ![c] = None]

\* Faulty variant of Leave: the reader goes back to the message.
LeaveRereads(c) ==
    /\ Continue(c)
    /\ left' = left \union {hand[c]}
    /\ position' = IF owner = c THEN hand[c] ELSE position
    /\ UNCHANGED <<kind, end, committed, owner, skipped>>

\* After a failure the loop pauses and continues, without committing.
Leave(c) ==
    /\ Continue(c)
    /\ left' = left \union {hand[c]}
    /\ UNCHANGED <<kind, end, partition, skipped>>

\* The handler succeeds, or rejects the message.
Deliver(c) ==
    /\ pc[c] = "deliver"
    /\ \/ /\ kind[hand[c]] = "good"
          /\ done' = done \union {hand[c]}
          /\ pc' = [pc EXCEPT ![c] = "commit"]
       \/ /\ kind[hand[c]] = "contradicting"
          /\ pc' = [pc EXCEPT ![c] = "aside"]
          /\ UNCHANGED done
    /\ UNCHANGED <<kind, end, partition, hand, aside, faults, history>>

\* The handler fails: always on a refused message, on a good one by a failed call,
\* which may have taken effect.
DeliverFails(c) ==
    /\ pc[c] = "deliver"
    /\ \/ kind[hand[c]] = "refused" /\ UNCHANGED <<done, faults>>
       \/ /\ kind[hand[c]] = "good"
          /\ faults < MaxGroupFaults
          /\ faults' = faults + 1
          /\ done' \in {done, done \union {hand[c]}}
    /\ Leave(c)
    /\ UNCHANGED aside

\* Subscriber.setAside
SetAside(c) ==
    /\ pc[c] = "aside"
    /\ aside' = aside \union {hand[c]}
    /\ pc' = [pc EXCEPT ![c] = "commit"]
    /\ UNCHANGED <<kind, end, partition, hand, done, faults, history>>

SetAsideFails(c) ==
    /\ pc[c] = "aside"
    /\ faults < MaxGroupFaults
    /\ faults' = faults + 1
    /\ aside' \in {aside, aside \union {hand[c]}}
    /\ Leave(c)
    /\ UNCHANGED done

\* Reader.CommitMessages: the group's offset becomes the one behind the message.
\* A consumer that has lost the partition may be refused, or overwrite it.
Commit(c) ==
    /\ pc[c] = "commit"
    /\ \/ committed' = hand[c] + 1
       \/ owner # c /\ UNCHANGED committed
    /\ Continue(c)
    /\ UNCHANGED <<kind, end, owner, position, effect, faults, history>>

\* An error is logged, and the loop goes on as after a success.
CommitFails(c) ==
    /\ pc[c] = "commit"
    /\ faults < MaxGroupFaults
    /\ faults' = faults + 1
    /\ committed' \in {committed, hand[c] + 1}
    /\ Continue(c)
    /\ UNCHANGED <<kind, end, owner, position, effect, history>>

\* The process stops and starts again; its partition is free.
Crash(c) ==
    /\ faults < MaxGroupFaults
    /\ faults' = faults + 1
    /\ owner = c \/ pc[c] # "loop"
    /\ Continue(c)
    /\ owner' = IF owner = c THEN Nobody ELSE owner
    /\ UNCHANGED <<kind, end, committed, position, effect, history>>

\* Everything has been published and read.
Rest ==
    /\ end = MaxOffset /\ position = end /\ owner # Nobody
    /\ \A c \in Members : pc[c] = "loop"
    /\ UNCHANGED vars

-----------------------------------------------------------------------------
ConsumerStep(c) ==
    \/ Fetch(c) \/ Deliver(c) \/ DeliverFails(c)
    \/ SetAside(c) \/ SetAsideFails(c) \/ Commit(c) \/ CommitFails(c)

Next ==
    \/ Publish
    \/ \E c \in Members : Join(c) \/ Rebalance(c) \/ ConsumerStep(c) \/ Crash(c)
    \/ Rest

Spec == Init /\ [][Next]_vars

\* The loop runs and its calls return, and a free partition is given to someone.
FairSpec ==
    /\ Spec
    /\ \A c \in Members : WF_vars(ConsumerStep(c))
    /\ WF_vars(\E c \in Members : Join(c))

-----------------------------------------------------------------------------
\* Shape of the state; a consumer has a message in hand exactly while it works.
TypeOK ==
    /\ kind \in [Offsets -> Kinds]
    /\ end \in 0..MaxOffset
    /\ committed \in 0..end
    /\ position \in 0..end
    /\ owner \in Members \union {Nobody}
    /\ pc \in [Members -> {"loop", "deliver", "aside", "commit"}]
    /\ hand \in [Members -> (0..(end - 1)) \union {None}]
    /\ done \subseteq Offsets /\ aside \subseteq Offsets
    /\ faults \in 0..MaxGroupFaults
    /\ skipped \subseteq Offsets /\ left \subseteq Offsets
    /\ \A c \in Members : (hand[c] = None) <=> (pc[c] = "loop")

\* What message i deserves has been done.
Dealt(i) ==
    \/ kind[i] = "good" /\ i \in done
    \/ kind[i] = "contradicting" /\ i \in aside
    \/ kind[i] = "unreadable" /\ i \in skipped

\* The group's offset covers a message only when it was dealt with, or when a
\* consumer failed on it and went on: no crash, rebalance, late or lost commit
\* skips one (Subscribe commits after the handler, never before).
OnlyFailuresAreSkipped == \A i \in Offsets : i < committed => Dealt(i) \/ i \in left

\* A message is dealt with only after every earlier one was, or had failed: the
\* order of a partition is kept but for the failures it goes past, also by a
\* consumer that lost the partition and is still at work.
InPartitionOrder ==
    [][\A i \in (done' \union aside') \ (done \union aside) :
          \A j \in Offsets : j < i => Dealt(j) \/ j \in left]_vars

\* No message stops a partition: each is dealt with or failed on in the end.
PartitionMovesOn == \A i \in Offsets : i < end ~> Dealt(i) \/ i \in left

\* kafka/subscriber.go, Subscribe: a message whose handling failed is not
\* committed, so the group reads it again - so the group's offset does not
\* cover it before it was dealt with.
FailedIsReadAgain == \A i \in left : i < committed => Dealt(i)
=============================================================================
