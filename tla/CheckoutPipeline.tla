--------------------------- MODULE CheckoutPipeline ---------------------------
(***************************************************************************)
(* From the recorded checkout to the order: the relays of the Basket       *)
(* service (CheckoutRelay) publish to RabbitMQ, and the consumers of the   *)
(* Ordering service (CheckoutConsumer) read its queue.                     *)
(*                                                                         *)
(* The two meet in the broker: what a relay gets accepted arrives at the   *)
(* queue in the same step.  All else interleaves.                          *)
(***************************************************************************)
EXTENDS CheckoutConsumer

CONSTANTS
    Relays, BatchSize, MaxAttempts, MaxMessages,
    MaxRelayFaults \* bound: failed calls and stops of relays

ASSUME PipelineAssumption ==
    /\ Messages = 1..MaxMessages
    /\ IsFiniteSet(Relays) /\ Relays # {}
    /\ BatchSize \in Nat \ {0}
    /\ MaxAttempts \in Nat \ {0}
    /\ MaxMessages \in Nat
    /\ MaxRelayFaults \in Nat

VARIABLES table, attempts, due, poisoned, accepted, relayPc, batch, read, relayFaults,
          recorded, ahead

R == INSTANCE CheckoutRelay WITH
        pc <- relayPc, faults <- relayFaults, MaxFaults <- MaxRelayFaults

relays == <<table, attempts, due, poisoned, accepted, relayPc, batch, read, relayFaults,
            recorded, ahead>>
pipeline == <<relays, vars>>

\* What Basket records carries an id and its metadata.  It may contradict itself
\* in Ordering's eyes (a line without a price, say), and be refused by Ordering's
\* database (a product name longer than its column).
PipelineInit ==
    /\ R!Init /\ Init
    /\ kind \in [1..MaxMessages -> {"good", "contradicting", "refused"}]

\* The relay gets a message accepted, with or without learning of it.
Handover(r, m) ==
    /\ \/ R!PublishAccepted(r, m)
       \/ R!PublishFailed(r, m) /\ m \in accepted'
    /\ Arrive(m)

\* A relay works on its table, or hears a refusal of what the broker has not got.
RelayAlone(r) ==
    /\ \/ R!Due(r)
       \/ \E m \in 1..MaxMessages : \/ R!Delete(r, m) \/ R!Fail(r, m) \/ R!Poison(r, m)
                                    \/ R!PublishFailed(r, m) /\ UNCHANGED accepted
    /\ UNCHANGED vars

RelayStep(r) == RelayAlone(r) \/ \E m \in 1..MaxMessages : Handover(r, m)

RelayBreaksOff(r) == R!BreakOff(r) /\ UNCHANGED vars

Basket ==
    /\ \E m \in 1..MaxMessages : R!Record(m) \/ R!BecomeDue(m)
    /\ UNCHANGED vars

ConsumerAlone(c) ==
    /\ \/ Deliver(c) \/ ConsumerStep(c)
       \/ CallFails(c) \/ Drop(c) \/ Crash(c)
    /\ UNCHANGED relays

\* Every checkout has been recorded and nobody has anything to do.
PipelineRest ==
    /\ recorded = 1..MaxMessages /\ due \subseteq poisoned
    /\ \A r \in Relays : relayPc[r] = "poll"
    /\ ready = {}
    /\ \A c \in Consumers : c \in connected /\ held[c] = <<>> /\ pc[c] = "loop"
    /\ UNCHANGED pipeline

PipelineNext ==
    \/ Basket
    \/ \E r \in Relays : RelayStep(r) \/ RelayBreaksOff(r)
    \/ \E c \in Consumers : ConsumerAlone(c)
    \/ PipelineRest

PipelineSpec == PipelineInit /\ [][PipelineNext]_pipeline

\* The fairness of the two parts.
PipelineFairSpec ==
    /\ PipelineSpec
    /\ \A m \in 1..MaxMessages : WF_pipeline(R!BecomeDue(m) /\ UNCHANGED vars)
    /\ \A r \in Relays : WF_pipeline(RelayStep(r))
    /\ \A c \in Consumers :
          /\ WF_pipeline(ConsumerStep(c) /\ UNCHANGED relays)
          /\ WF_pipeline(Deliver(c) /\ UNCHANGED relays)
          /\ SF_pipeline(DeliverInPause(c) /\ UNCHANGED relays)

-----------------------------------------------------------------------------
\* A recorded checkout is never in no place at all: it is a row of the outbox, a
\* copy in the queue, an order, or in the error queue - or it was published
\* before any consumer had created the queue (Publisher.Publish is not
\* mandatory), through every crash, retry, repeat and refusal on the way.
CheckoutSurvives ==
    \A m \in recorded :
        \/ m \in table
        \/ \E i \in Copy : body[i] = m /\ InQueue(i)
        \/ Dealt(m)
        \/ m \in dropped

\* A checkout Ordering can make an order of ends as one, or is given up on by the
\* relay, or met no queue, or is stuck behind a window of hopeless messages.
OrderedInTheEnd ==
    \A m \in 1..MaxMessages :
        (m \in recorded /\ kind[m] = "good")
            ~> (orders[m] > 0 \/ m \in poisoned \/ m \in dropped \/ Blocked)
=============================================================================
