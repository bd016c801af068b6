---------------------------- MODULE CheckoutRelay ----------------------------
(***************************************************************************)
(* The relay of the Basket service (internal/basket/outbox): it publishes  *)
(* the checkouts that were recorded together with the removal of their     *)
(* baskets.  Every instance of the service runs one, over one table.       *)
(*                                                                         *)
(* A message is a number, and messages are numbered as they occurred; their*)
(* transactions may commit in another order.  Time is whether a row's next *)
(* attempt is due.                                                         *)
(***************************************************************************)
EXTENDS Integers, FiniteSets

CONSTANTS
    Relays,      \* instances of the service
    BatchSize,   \* Options.BatchSize
    MaxAttempts, \* Options.MaxAttempts
    MaxMessages, \* bound: checkouts recorded
    MaxFaults    \* bound: failed calls and stopped instances

ASSUME RelayAssumption ==
    /\ IsFiniteSet(Relays) /\ Relays # {}
    /\ BatchSize \in Nat \ {0}
    /\ MaxAttempts \in Nat \ {0}
    /\ MaxMessages \in Nat
    /\ MaxFaults \in Nat

VARIABLES
    table,    \* basket_outbox_messages
    attempts, \* the attempts column, 0 without a row
    due,      \* rows whose next_attempt_on_utc has come
    poisoned, \* rows with poisoned_on_utc
    accepted, \* messages the broker has taken at least once
    pc,       \* the call each relay is about to make
    batch,    \* rows it read and has not dealt with
    read,     \* the attempts it read with them
    faults,   \* failed calls and stopped instances so far
    recorded, \* history: messages ever recorded
    ahead     \* history: for each message, those recorded before it

rows == <<table, attempts, due, poisoned>>
relay == <<pc, batch, read>>
history == <<recorded, ahead>>
vars == <<rows, accepted, relay, faults, history>>

Message == 1..MaxMessages

\* ORDER BY occurred_on_utc LIMIT BatchSize
Oldest(S) == {m \in S : Cardinality({k \in S : k < m}) < BatchSize}

\* The message a relay with batch S is dealing with.
First(S) == {m \in S : \A k \in S : m <= k}

-----------------------------------------------------------------------------
Init ==
    /\ table = {} /\ due = {} /\ poisoned = {} /\ accepted = {}
    /\ attempts = [m \in Message |-> 0]
    /\ pc = [r \in Relays |-> "poll"]
    /\ batch = [r \in Relays |-> {}]
    /\ read = [r \in Relays |-> [m \in Message |-> 0]]
    /\ faults = 0
    /\ recorded = {} /\ ahead = [m \in Message |-> {}]

\* A checkout commits (recordCheckout); a repeat under the same id adds nothing.
Record(m) ==
    /\ m \notin recorded
    /\ recorded' = recorded \union {m}
    /\ ahead' = [ahead EXCEPT ![m] = recorded]
    /\ table' = table \union {m}
    /\ due' = due \union {m}
    /\ UNCHANGED <<attempts, poisoned, accepted, relay, faults>>

\* The time of a postponed attempt comes.
BecomeDue(m) ==
    /\ m \in table \ due
    /\ due' = due \union {m}
    /\ UNCHANGED <<table, attempts, poisoned, accepted, relay, faults, history>>

\* The cycle ends, here or because nothing is left of the batch.
EndCycle(r) ==
    /\ pc' = [pc EXCEPT ![r] = "poll"]
    /\ batch' = [batch EXCEPT ![r] = {}]
    /\ read' = [read EXCEPT ![r] = [m \in Message |-> 0]]

\* Message m has been dealt with: on to the next one.
NextMessage(r, m) ==
    \/ batch[r] = {m} /\ EndCycle(r)
    \/ /\ batch[r] # {m}
       /\ pc' = [pc EXCEPT ![r] = "publish"]
       /\ batch' = [batch EXCEPT ![r] = @ \ {m}]
       /\ UNCHANGED read

\* A faulty variant of Due: whatever is due is read, in no order.
DueUnordered(r) ==
    /\ pc[r] = "poll"
    /\ \E m \in due \ poisoned :
          /\ batch' = [batch EXCEPT ![r] = {m}]
          /\ read' = [read EXCEPT ![r][m] = attempts[m]]
    /\ pc' = [pc EXCEPT ![r] = "publish"]
    /\ UNCHANGED <<rows, accepted, faults, history>>

\* OutboxStore.Due, when it returns anything
Due(r) ==
    /\ pc[r] = "poll"
    /\ due \ poisoned # {}
    /\ batch' = [batch EXCEPT ![r] = Oldest(due \ poisoned)]
    /\ read' = [read EXCEPT ![r] = [m \in Message |-> IF m \in Oldest(due \ poisoned)
                                                      THEN attempts[m] ELSE 0]]
    /\ pc' = [pc EXCEPT ![r] = "publish"]
    /\ UNCHANGED <<rows, accepted, faults, history>>

\* The broker confirmed the message.
PublishAccepted(r, m) ==
    /\ pc[r] = "publish" /\ m \in First(batch[r])
    /\ accepted' = accepted \union {m}
    /\ pc' = [pc EXCEPT ![r] = "delete"]
    /\ UNCHANGED <<rows, batch, read, faults, history>>

\* Faulty variants of PublishFailed: attempts are not counted up to a limit, and
\* a refused message is removed like a published one.
PublishFailedAlways(r, m) ==
    /\ pc[r] = "publish" /\ m \in First(batch[r])
    /\ accepted' \in {accepted, accepted \union {m}}
    /\ pc' = [pc EXCEPT ![r] = "fail"]
    /\ UNCHANGED <<rows, batch, read, faults, history>>

PublishFailedDrops(r, m) ==
    /\ pc[r] = "publish" /\ m \in First(batch[r])
    /\ accepted' \in {accepted, accepted \union {m}}
    /\ pc' = [pc EXCEPT ![r] = "delete"]
    /\ UNCHANGED <<rows, batch, read, faults, history>>

\* The broker refused the message, or holds it and could not say so.  Whether
\* to give up is decided on the attempts that were read with the batch.
PublishFailed(r, m) ==
    /\ pc[r] = "publish" /\ m \in First(batch[r])
    /\ accepted' \in {accepted, accepted \union {m}}
    /\ pc' = [pc EXCEPT ![r] = IF read[r][m] + 1 >= MaxAttempts THEN "poison" ELSE "fail"]
    /\ UNCHANGED <<rows, batch, read, faults, history>>

\* OutboxStore.Delete
Delete(r, m) ==
    /\ pc[r] = "delete" /\ m \in First(batch[r])
    /\ table' = table \ {m} /\ due' = due \ {m} /\ poisoned' = poisoned \ {m}
    /\ attempts' = [attempts EXCEPT ![m] = 0]
    /\ NextMessage(r, m)
    /\ UNCHANGED <<accepted, faults, history>>

\* Faulty variant of Fail: the next attempt is put off, this one not counted.
FailUncounted(r, m) ==
    /\ pc[r] = "fail" /\ m \in First(batch[r])
    /\ due' = due \ {m}
    /\ NextMessage(r, m)
    /\ UNCHANGED <<table, attempts, poisoned, accepted, faults, history>>

\* OutboxStore.Fail: the attempt is counted and the next one put off, if the
\* row is still there.
Fail(r, m) ==
    /\ pc[r] = "fail" /\ m \in First(batch[r])
    /\ \/ /\ m \in table
          /\ attempts' = [attempts EXCEPT ![m] = @ + 1]
          /\ due' = due \ {m}
       \/ m \notin table /\ UNCHANGED <<attempts, due>>
    /\ NextMessage(r, m)
    /\ UNCHANGED <<table, poisoned, accepted, faults, history>>

\* OutboxStore.Poison: the first relay to give up marks the row.
Poison(r, m) ==
    /\ pc[r] = "poison" /\ m \in First(batch[r])
    /\ \/ /\ m \in table \ poisoned
          /\ attempts' = [attempts EXCEPT ![m] = @ + 1]
          /\ poisoned' = poisoned \union {m}
       \/ m \notin table \ poisoned /\ UNCHANGED <<attempts, poisoned>>
    /\ NextMessage(r, m)
    /\ UNCHANGED <<table, due, accepted, faults, history>>

\* A call fails, or the service is told to stop: the cycle ends where it is and
\* nothing is counted against the message.
BreakOff(r) ==
    /\ pc[r] # "poll"
    /\ faults < MaxFaults
    /\ faults' = faults + 1
    /\ EndCycle(r)
    /\ UNCHANGED <<rows, accepted, history>>

-----------------------------------------------------------------------------
RelayStep(r) ==
    \/ Due(r)
    \/ \E m \in Message : \/ PublishAccepted(r, m) \/ PublishFailed(r, m)
                          \/ Delete(r, m) \/ Fail(r, m) \/ Poison(r, m)

\* Nothing is recorded any more and nothing is due: the relays poll in vain.
Rest ==
    /\ recorded = Message /\ due \subseteq poisoned
    /\ \A r \in Relays : pc[r] = "poll"
    /\ UNCHANGED vars

Next ==
    \/ \E m \in Message : Record(m) \/ BecomeDue(m)
    \/ \E r \in Relays : RelayStep(r) \/ BreakOff(r)
    \/ Rest

Spec == Init /\ [][Next]_vars

\* The relay polls until the service stops, its calls return, and time passes.
\* Nothing makes the broker accept a message.
FairSpec ==
    /\ Spec
    /\ \A r \in Relays : WF_vars(RelayStep(r))
    /\ \A m \in Message : WF_vars(BecomeDue(m))

-----------------------------------------------------------------------------
\* Shape of the state; a relay holds messages exactly while it works on them, and
\* only waiting or poisoned rows carry attempts.
TypeOK ==
    /\ recorded \subseteq Message
    /\ table \subseteq recorded
    /\ due \subseteq table /\ poisoned \subseteq table
    /\ attempts \in [Message -> Nat]
    /\ accepted \subseteq recorded
    /\ pc \in [Relays -> {"poll", "publish", "delete", "fail", "poison"}]
    /\ batch \in [Relays -> SUBSET recorded]
    /\ read \in [Relays -> [Message -> Nat]]
    /\ faults \in 0..MaxFaults
    /\ ahead \in [Message -> SUBSET recorded]
    /\ \A r \in Relays : (batch[r] = {}) <=> (pc[r] = "poll")
    /\ \A m \in Message : m \notin table => attempts[m] = 0

\* A recorded checkout stays in the table until the broker has it, however many
\* relays work on the table and whatever calls fail (Relay.publish, ProcessOnce).
NothingLost == recorded \subseteq table \union accepted

\* Retries end although the decision to give up rests on a count that other
\* relays may have moved since it was read (Relay.publish, OutboxStore.Poison).
AttemptsBounded == \A m \in Message : attempts[m] < MaxAttempts + Cardinality(Relays)

\* A checkout is overtaken by a later one only when it was refused and waits for its
\* next attempt, or had not been recorded yet, although relays do not know of each
\* other (OutboxStore.Due reads the oldest first; a cycle that breaks off starts over).
OnlyRefusedAreOvertaken ==
    [][\A m \in accepted' \ accepted :
          \A k \in (ahead[m] \intersect 1..m) \ accepted : attempts[k] > 0]_vars

\* Every recorded checkout is sent or given up on in the end: one that is refused
\* again and again blocks neither itself nor the others for ever.
Delivery == \A m \in Message : m \in recorded ~> m \in accepted \union poisoned
=============================================================================
