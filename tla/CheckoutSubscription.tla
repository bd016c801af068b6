------------------------ MODULE CheckoutSubscription ------------------------
(***************************************************************************)
(* The subscription of the Ordering service as cmd/ordering wires it:      *)
(* messaging/broker reads the environment and builds the subscriber of the *)
(* broker it selects, RabbitMQ (CheckoutConsumer) or Kafka                 *)
(* (KafkaConsumer), or refuses and the service does not come up.           *)
(*                                                                         *)
(* Instances of a service share their environment, so one broker is in use *)
(* and nothing moves at the other.                                         *)
(***************************************************************************)
EXTENDS CheckoutConsumer, KafkaGroup

VARIABLES
    running, \* the selected broker, or "refused" when the service did not start
    groupKind, end, committed, owner, position, groupPc, groupHand, done, groupAside,
    groupFaults, skipped, left

K == INSTANCE KafkaConsumer WITH
        kind <- groupKind, pc <- groupPc, hand <- groupHand, aside <- groupAside,
        faults <- groupFaults

queue == vars
group == <<groupKind, end, committed, owner, position, groupPc, groupHand, done, groupAside,
           groupFaults, skipped, left>>
all == <<running, queue, group>>

-----------------------------------------------------------------------------
(* The environment of a service: the provider it names, and which of the   *)
(* other settings are there (the timeout may also not parse).              *)

Environments ==
    [provider : {"", "rabbitmq", "kafka", "other"}, url : BOOLEAN, brokers : BOOLEAN,
     timeout : {"unset", "duration", "malformed"}]

\* RabbitMQ unless another provider is named.
ProviderOf(env) == IF env.provider = "" THEN "rabbitmq" ELSE env.provider

\* Config.validate: a selected broker has an address.
Valid(env) ==
    \/ ProviderOf(env) = "rabbitmq" /\ env.url
    \/ ProviderOf(env) = "kafka" /\ env.brokers

\* ConfigFromEnv and NewSubscriber.  A malformed Kafka timeout is refused whatever
\* the provider.
Selected(env) ==
    IF env.timeout # "malformed" /\ Valid(env) THEN ProviderOf(env) ELSE "refused"

\* What is published goes to the selected broker: at the other, the kinds of the
\* messages are of no account.
SubscriptionInit ==
    /\ running \in {Selected(env) : env \in Environments}
    /\ Init /\ K!Init
    /\ running # "rabbitmq" => kind = [m \in Messages |-> "good"]
    /\ running # "kafka" => groupKind = [i \in Offsets |-> "good"]

OnQueue == running = "rabbitmq" /\ Next /\ UNCHANGED <<running, group>>

OnGroup == running = "kafka" /\ K!Next /\ UNCHANGED <<running, queue>>

\* The process has ended with the error.
Refused == running = "refused" /\ UNCHANGED all

SubscriptionNext == OnQueue \/ OnGroup \/ Refused

SubscriptionSpec == SubscriptionInit /\ [][SubscriptionNext]_all

\* The fairness of the broker's part that is in use.
SubscriptionFairSpec ==
    /\ SubscriptionSpec
    /\ \A c \in Consumers :
          /\ WF_all(running = "rabbitmq" /\ ConsumerStep(c) /\ UNCHANGED <<running, group>>)
          /\ WF_all(running = "rabbitmq" /\ Deliver(c) /\ UNCHANGED <<running, group>>)
          /\ SF_all(running = "rabbitmq" /\ DeliverInPause(c) /\ UNCHANGED <<running, group>>)
    /\ \A c \in Members :
          WF_all(running = "kafka" /\ K!ConsumerStep(c) /\ UNCHANGED <<running, queue>>)
    /\ WF_all(running = "kafka" /\ (\E c \in Members : K!Join(c)) /\ UNCHANGED <<running, queue>>)

-----------------------------------------------------------------------------
\* Kafka: the group's offset covers only messages that were dealt with or that a
\* consumer failed on (kafka/subscriber.go commits after the handler).
OnlyFailuresAreSkipped == K!OnlyFailuresAreSkipped

\* Kafka: the order of a partition is kept but for the failures it goes past.
InPartitionOrder == K!InPartitionOrder

\* Kafka: each message is dealt with or failed on in the end, none stops the
\* partition - when Kafka is the broker that was selected.
PartitionMovesOn == K!PartitionMovesOn
=============================================================================
