--------------------------- MODULE CheckoutConsumer ---------------------------
(***************************************************************************)
(* How Ordering turns checkouts into orders when the broker is RabbitMQ:   *)
(* the consumer's queue, the subscription that reads it, the inbox that    *)
(* recognises repeats, and the handler that places the order.              *)
(*                                                                         *)
(* Publishers deliver at least once, so a message may be in the queue in   *)
(* several copies.  Copies are numbered as they arrive; the broker hands   *)
(* out the lowest one that is ready, which is how it also puts a copy that *)
(* was requeued back where it came from.                                   *)
(*                                                                         *)
(* A consumer is a process; each call it makes to the broker or to SQL     *)
(* Server is one action.                                                   *)
(***************************************************************************)
EXTENDS Integers, Sequences, FiniteSets

CONSTANTS
    Consumers, \* Ordering processes sharing one queue
    Messages,  \* checkouts that may be published
    Prefetch,  \* prefetch: copies one consumer may hold unacknowledged
    MaxCopies, \* bound: copies that arrive
    MaxFaults  \* bound: failed calls, dropped connections and crashes

ASSUME ConsumerAssumption ==
    /\ IsFiniteSet(Consumers)
    /\ Prefetch \in Nat \ {0}
    /\ MaxCopies \in Nat
    /\ MaxFaults \in Nat

VARIABLES
    kind,      \* what each message will turn out to be
    body,      \* the message of each copy that arrived
    ready,     \* copies waiting in the queue
    declared,  \* whether the queue exists: "no" until a consumer opened it
    aside,     \* messages with a copy in the error queue
    held,      \* copies delivered to each consumer's channel, not acknowledged
    connected, \* consumers whose channel is open
    pc,        \* the call each consumer is about to make
    hand,      \* the copy it is working on, 0 without one
    claimed,   \* InboxMessages: messages with a row
    processed, \* InboxMessages.ProcessedOnUtc: messages marked as finished
    orders,    \* orders placed for each message
    faults,    \* failed calls, dropped connections and crashes so far
    dropped,   \* history: messages published while there was no queue
    discarded  \* history: unreadable messages thrown away

broker  == <<body, ready, declared, aside>>
channel == <<held, connected>>
inbox   == <<claimed, processed>>
history == <<dropped, discarded>>
vars == <<kind, broker, channel, pc, hand, inbox, orders, faults, history>>

\* An order can be made of a good message.  A contradicting one fails the
\* handler's own checks.  An unreadable one has no usable metadata.  A refused
\* one fails in the database every time, as a value too long for its column
\* does, and an anonymous one carries the nil id, which the inbox turns down.
Kinds == {"good", "contradicting", "unreadable", "refused", "anonymous"}

\* Kinds that are put back every time.
Hopeless == {"refused", "anonymous"}

Copy == 1..Len(body)

Elements(s) == {s[i] : i \in DOMAIN s}

Distinct(s) == \A i, j \in DOMAIN s : s[i] = s[j] => i = j

Message(c) == body[hand[c]]

-----------------------------------------------------------------------------
Init ==
    /\ kind \in [Messages -> Kinds]
    /\ body = <<>> /\ ready = {} /\ declared = "no" /\ aside = {}
    /\ held = [c \in Consumers |-> <<>>]
    /\ connected = {}
    /\ pc = [c \in Consumers |-> "loop"]
    /\ hand = [c \in Consumers |-> 0]
    /\ claimed = {} /\ processed = {}
    /\ orders = [m \in Messages |-> 0]
    /\ faults = 0
    /\ dropped = {} /\ discarded = {}

(* The broker *)

\* A copy of m is published.  Without a queue bound to its type the broker
\* accepts it and drops it.
Arrive(m) ==
    /\ Len(body) < MaxCopies
    /\ \/ /\ declared = "yes"
          /\ body' = Append(body, m)
          /\ ready' = ready \union {Len(body) + 1}
          /\ UNCHANGED dropped
       \/ /\ declared = "no"
          /\ dropped' = dropped \union {m}
          /\ UNCHANGED <<body, ready>>
    /\ UNCHANGED <<kind, declared, aside, channel, pc, hand, inbox, orders, faults, discarded>>

\* Faulty variant of Deliver: no prefetch count was set on the channel.
DeliverUnbounded(c) ==
    /\ c \in connected
    /\ \E i \in ready :
          /\ \A j \in ready : i <= j
          /\ ready' = ready \ {i}
          /\ held' = [held EXCEPT ![c] = Append(@, i)]
    /\ UNCHANGED <<kind, body, declared, aside, connected, pc, hand, inbox, orders, faults,
                   history>>

\* The broker pushes the first ready copy to a consumer with room for it.
Deliver(c) ==
    /\ c \in connected
    /\ Len(held[c]) < Prefetch
    /\ \E i \in ready :
          /\ \A j \in ready : i <= j
          /\ ready' = ready \ {i}
          /\ held' = [held EXCEPT ![c] = Append(@, i)]
    /\ UNCHANGED <<kind, body, declared, aside, connected, pc, hand, inbox, orders, faults,
                   history>>

(* The subscription *)

\* KeepSubscribed opens the subscription, again whenever it has dropped.
Open(c) ==
    /\ pc[c] = "loop" /\ c \notin connected
    /\ connected' = connected \union {c}
    /\ declared' = "yes"
    /\ UNCHANGED <<kind, body, ready, aside, held, pc, hand, inbox, orders, faults, history>>

\* The next delivery is taken off the channel and its envelope rebuilt.
Take(c) ==
    /\ pc[c] = "loop" /\ c \in connected
    /\ held[c] # <<>>
    /\ hand' = [hand EXCEPT ![c] = Head(held[c])]
    /\ pc' = [pc EXCEPT ![c] = CASE kind[body[Head(held[c])]] = "unreadable" -> "discard"
                                 [] kind[body[Head(held[c])]] = "anonymous" -> "requeue"
                                 [] OTHER -> "begin"]
    /\ UNCHANGED <<kind, broker, channel, inbox, orders, faults, history>>

\* The consumer is through with the copy in hand and tells the broker, who
\* takes it back to the queue or forgets it.  On a channel that closed in the
\* meantime the answer goes nowhere.
Answer(c, back) ==
    /\ hand' = [hand EXCEPT ![c] = 0]
    /\ pc' = [pc EXCEPT ![c] = "loop"]
    /\ \/ /\ c \in connected
          /\ held' = [held EXCEPT ![c] = Tail(@)]
          /\ ready' = ready \union back
       \/ c \notin connected /\ UNCHANGED <<held, ready>>
    /\ UNCHANGED <<kind, body, declared, aside, connected, inbox, orders, faults>>

Ack(c) == pc[c] = "ack" /\ Answer(c, {}) /\ UNCHANGED history

\* After a pause the copy goes back to the queue.
Requeue(c) == pc[c] = "requeue" /\ Answer(c, {hand[c]}) /\ UNCHANGED history

\* An unreadable copy is refused for good.
Discard(c) ==
    /\ pc[c] = "discard"
    /\ discarded' = discarded \union {Message(c)}
    /\ Answer(c, {})
    /\ UNCHANGED dropped

(* The inbox and the handler *)

\* Faulty variant of Begin: the message is marked as finished when it is claimed.
BeginFinishes(c) ==
    /\ pc[c] = "begin"
    /\ claimed' = claimed \union {Message(c)}
    /\ processed' = processed \union {Message(c)}
    /\ pc' = [pc EXCEPT ![c] = IF Message(c) \in claimed THEN "state" ELSE "work"]
    /\ UNCHANGED <<kind, broker, channel, hand, orders, faults, history>>

\* InboxStore.Begin: the claim is an insert, and a row that is there already
\* is asked whether the message was finished.
Begin(c) ==
    /\ pc[c] = "begin"
    /\ claimed' = claimed \union {Message(c)}
    /\ pc' = [pc EXCEPT ![c] = IF Message(c) \in claimed THEN "state" ELSE "work"]
    /\ UNCHANGED <<kind, broker, channel, hand, processed, orders, faults, history>>

ReadState(c) ==
    /\ pc[c] = "state"
    /\ pc' = [pc EXCEPT ![c] = IF Message(c) \in processed THEN "ack" ELSE "work"]
    /\ UNCHANGED <<kind, broker, channel, hand, inbox, orders, faults, history>>

\* OrderRepository.Place: the customer, the products, the order and its events in
\* one transaction, under an id of its own.
Place(m) == [orders EXCEPT ![m] = @ + 1]

\* CheckoutHandler.Handle: a message that contradicts itself is rejected, any
\* other is placed in one transaction under a new order id.
Handle(c) ==
    /\ pc[c] = "work"
    /\ \/ /\ kind[Message(c)] = "contradicting"
          /\ pc' = [pc EXCEPT ![c] = "aside"]
          /\ UNCHANGED orders
       \/ /\ kind[Message(c)] = "refused"
          /\ pc' = [pc EXCEPT ![c] = "requeue"]
          /\ UNCHANGED orders
       \/ /\ kind[Message(c)] = "good"
          /\ pc' = [pc EXCEPT ![c] = "complete"]
          /\ orders' = Place(Message(c))
    /\ UNCHANGED <<kind, broker, channel, hand, inbox, faults, history>>

\* Faulty variant of Complete: the row is left unfinished.
CompleteForgets(c) ==
    /\ pc[c] = "complete"
    /\ pc' = [pc EXCEPT ![c] = "ack"]
    /\ UNCHANGED <<kind, broker, channel, hand, inbox, orders, faults, history>>

\* InboxStore.Complete
Complete(c) ==
    /\ pc[c] = "complete"
    /\ processed' = processed \union {Message(c)}
    /\ pc' = [pc EXCEPT ![c] = "ack"]
    /\ UNCHANGED <<kind, broker, channel, hand, claimed, orders, faults, history>>

\* Faulty variant of SetAside: a rejected message is retried like any other.
SetAsideRetries(c) ==
    /\ pc[c] = "aside"
    /\ pc' = [pc EXCEPT ![c] = "requeue"]
    /\ UNCHANGED <<kind, broker, channel, hand, inbox, orders, faults, history>>

\* A rejected message is copied to the error queue and acknowledged once the
\* copy is confirmed; without the connection there is no copy.
SetAside(c) ==
    /\ pc[c] = "aside"
    /\ \/ /\ c \in connected
          /\ aside' = aside \union {Message(c)}
          /\ pc' = [pc EXCEPT ![c] = "ack"]
       \/ /\ c \notin connected
          /\ pc' = [pc EXCEPT ![c] = "requeue"]
          /\ UNCHANGED aside
    /\ UNCHANGED <<kind, body, ready, declared, channel, hand, inbox, orders, faults, history>>

(* What goes wrong *)

\* A call reports an error, having taken effect or not; the delivery is put back.
CallFails(c) ==
    /\ faults < MaxFaults
    /\ faults' = faults + 1
    /\ \/ /\ pc[c] = "begin"
          /\ claimed' \in {claimed, claimed \union {Message(c)}}
          /\ UNCHANGED <<processed, orders, aside>>
       \/ pc[c] = "state" /\ UNCHANGED <<inbox, orders, aside>>
       \/ /\ pc[c] = "work" /\ kind[Message(c)] = "good"
          /\ orders' \in {orders, Place(Message(c))}
          /\ UNCHANGED <<inbox, aside>>
       \/ /\ pc[c] = "complete"
          /\ processed' \in {processed, processed \union {Message(c)}}
          /\ UNCHANGED <<claimed, orders, aside>>
       \/ /\ pc[c] = "aside"
          /\ aside' \in {aside, aside \union {Message(c)}}
          /\ UNCHANGED <<inbox, orders>>
    /\ pc' = [pc EXCEPT ![c] = "requeue"]
    /\ UNCHANGED <<kind, body, ready, declared, channel, hand, history>>

\* The broker takes back what it had delivered on a channel that is gone.
Disconnect(c) ==
    /\ faults < MaxFaults
    /\ faults' = faults + 1
    /\ connected' = connected \ {c}
    /\ ready' = ready \union Elements(held[c])
    /\ held' = [held EXCEPT ![c] = <<>>]
    /\ UNCHANGED <<kind, body, declared, aside, inbox, orders, history>>

\* The connection drops; the consumer goes on with the copy in hand.
Drop(c) == c \in connected /\ Disconnect(c) /\ UNCHANGED <<pc, hand>>

\* The process stops and starts again.
Crash(c) ==
    /\ c \in connected \/ pc[c] # "loop"
    /\ Disconnect(c)
    /\ pc' = [pc EXCEPT ![c] = "loop"]
    /\ hand' = [hand EXCEPT ![c] = 0]

\* Every copy that will come has been dealt with: consumers wait for more.
Rest ==
    /\ Len(body) = MaxCopies /\ ready = {}
    /\ \A c \in Consumers : c \in connected /\ held[c] = <<>> /\ pc[c] = "loop"
    /\ UNCHANGED vars

-----------------------------------------------------------------------------
ConsumerStep(c) ==
    \/ Open(c) \/ Take(c) \/ Ack(c) \/ Requeue(c) \/ Discard(c)
    \/ Begin(c) \/ ReadState(c) \/ Handle(c) \/ Complete(c) \/ SetAside(c)

Next ==
    \/ \E m \in Messages : Arrive(m)
    \/ \E c \in Consumers : \/ Deliver(c) \/ ConsumerStep(c)
                            \/ CallFails(c) \/ Drop(c) \/ Crash(c)
    \/ Rest

Spec == Init /\ [][Next]_vars

\* The push of a copy while the consumer pauses before putting another back.
DeliverInPause(c) == pc[c] = "requeue" /\ Deliver(c)

\* The loop runs until it is told to stop and its calls return.  The broker
\* pushes what it has to a channel with room, and does not miss every one of the
\* pauses of a second that precede a requeue (redeliveryDelay).
FairSpec ==
    /\ Spec
    /\ \A c \in Consumers : /\ WF_vars(ConsumerStep(c))
                           /\ WF_vars(Deliver(c))
                           /\ SF_vars(DeliverInPause(c))

-----------------------------------------------------------------------------
\* Shape of the state.  While its channel is open, the copy a consumer works on
\* is the first of those the broker counts as delivered to it; no copy is
\* in two places.
TypeOK ==
    /\ kind \in [Messages -> Kinds]
    /\ body \in Seq(Messages) /\ Len(body) <= MaxCopies
    /\ ready \subseteq Copy
    /\ declared \in {"no", "yes"}
    /\ aside \subseteq Messages
    /\ held \in [Consumers -> Seq(Copy)]
    /\ connected \subseteq Consumers
    /\ pc \in [Consumers -> {"loop", "discard", "requeue", "begin", "state", "work",
                             "complete", "aside", "ack"}]
    /\ hand \in [Consumers -> 0..Len(body)]
    /\ processed \subseteq claimed /\ claimed \subseteq Messages
    /\ orders \in [Messages -> Nat]
    /\ faults \in 0..MaxFaults
    /\ dropped \subseteq Messages /\ discarded \subseteq Messages
    /\ \A c \in Consumers :
          /\ Len(held[c]) <= Prefetch /\ Distinct(held[c])
          /\ c \notin connected => held[c] = <<>>
          /\ (hand[c] = 0) <=> (pc[c] = "loop")
          /\ pc[c] \in {"state", "work", "complete"} => Message(c) \in claimed
          /\ c \in connected /\ hand[c] # 0 => held[c] # <<>> /\ Head(held[c]) = hand[c]
          /\ \A d \in Consumers \ {c} : Elements(held[c]) \intersect Elements(held[d]) = {}
          /\ Elements(held[c]) \intersect ready = {}

\* The broker still has copy i.
InQueue(i) == i \in ready \/ \E c \in Consumers : i \in Elements(held[c])

\* What message m deserves has been done.
Dealt(m) ==
    \/ kind[m] = "good" /\ orders[m] > 0
    \/ kind[m] = "contradicting" /\ m \in aside
    \/ kind[m] = "unreadable" /\ m \in discarded

\* A copy leaves the queue only when its message became an order, was copied to
\* the error queue or cannot be read: one queue or both, never neither
\* (Subscriber.handle and setAside, Idempotent), whatever call failed or process
\* died in between, and whichever instance marked it as finished.
NothingLost == \A i \in Copy : InQueue(i) \/ Dealt(body[i])

\* A message becomes more than one order only by calls that failed and by
\* instances working on it at the same time: a repeat alone makes none
\* (InboxStore.Begin, Idempotent).
RepeatsAreAbsorbed ==
    \A m \in Messages : orders[m] <= Cardinality(Consumers) + faults

\* Copies that are put back for ever, filling the window of one consumer.
Blocked == Cardinality({i \in Copy : kind[body[i]] \in Hopeless}) >= Prefetch

\* Every copy leaves the queue, and so has been dealt with, while there are fewer
\* hopeless ones than the prefetch count: rejecting keeps messages that can never
\* succeed from holding up the checkouts behind them (CheckoutHandler.Handle).
QueueDrains ==
    \A i \in 1..MaxCopies :
        (i \in Copy /\ kind[body[i]] \notin Hopeless) ~> (~InQueue(i) \/ Blocked)
=============================================================================
