--------------------------- MODULE BasketCheckout ---------------------------
(***************************************************************************)
(* One user's basket in the Basket service: the row in PostgreSQL, its     *)
(* entry in Redis, the checkout outbox, and the HTTP requests that work on *)
(* them.                                                                   *)
(*                                                                         *)
(* A basket is its version: every write chooses a fresh one, and all that  *)
(* matters of the contents is whether there are lines.  A checkout's       *)
(* message id is derived from the version the request read, so a message   *)
(* is that version too.  Version 0 stands for no row and no entry.         *)
(*                                                                         *)
(* Each call to PostgreSQL, Redis or Discount is one action; requests      *)
(* interleave between calls and may break off at any of them.              *)
(***************************************************************************)
EXTENDS Integers, FiniteSets

CONSTANTS
    Requests,   \* requests that can be in progress at the same time
    MaxVersion, \* bound: baskets stored
    MaxFaults   \* bound: failed calls and requests broken off

ASSUME BasketBounds == MaxVersion \in Nat /\ MaxFaults \in Nat

VARIABLES
    baskets,      \* the version in the row, 0 without one
    lastVersion,  \* versions chosen so far
    filled,       \* versions that have lines
    cache,        \* the version in the cache entry, 0 without one
    outbox,       \* basket_outbox_messages: checkouts waiting for the relay
    pc,           \* the call each request is about to make
    op,           \* what each request does
    seen,         \* the version it read, or wrote
    faults,       \* failed calls and broken-off requests so far
    announced,    \* history: checkouts ever recorded
    removed,      \* history: versions a checkout removed from the database
    acknowledged, \* history: versions whose Store reported success
    crossed       \* history: whether a store ever overlapped another request

request == <<pc, op, seen>>
history == <<announced, removed, acknowledged, crossed>>
vars == <<baskets, lastVersion, filled, cache, outbox, request, faults, history>>

Version == 1..MaxVersion

-----------------------------------------------------------------------------
Init ==
    /\ baskets = 0 /\ lastVersion = 0 /\ filled = {} /\ cache = 0 /\ outbox = {}
    /\ pc = [r \in Requests |-> "idle"]
    /\ op = [r \in Requests |-> "get"]
    /\ seen = [r \in Requests |-> 0]
    /\ faults = 0
    /\ announced = {} /\ removed = {} /\ acknowledged = {}
    /\ crossed = "no"

\* The answer goes out.
Respond(r) ==
    /\ pc' = [pc EXCEPT ![r] = "idle"]
    /\ op' = [op EXCEPT ![r] = "get"]
    /\ seen' = [seen EXCEPT ![r] = 0]

\* Bound: a store begins only while a version is left for it.
Room == lastVersion + Cardinality({q \in Requests : pc[q] \in {"discount", "write"}})
          < MaxVersion

\* A client that fills its basket only while nothing else of its own is under
\* way, and waits for that to end, sends o now.
Waits(r, o) ==
    \A q \in Requests \ {r} :
        pc[q] # "idle" => op[q] # "store" /\ o # "store"

Arrive(r, o) ==
    /\ pc[r] = "idle"
    /\ o = "store" => Room
    /\ op' = [op EXCEPT ![r] = o]
    /\ pc' = [pc EXCEPT ![r] = CASE o = "store" -> "discount"
                                 [] o = "delete" -> "delete"
                                 [] OTHER -> "lookup"]
    /\ crossed' = IF Waits(r, o) THEN crossed ELSE "yes"
    /\ UNCHANGED <<baskets, lastVersion, filled, cache, outbox, seen, faults, announced,
                   removed, acknowledged>>

(* Reading: GetBasket, and the first half of a checkout *)

\* Faulty variant of HaveBasket: an empty basket is checked out like any other.
HaveAnyBasket(r, v) ==
    \/ /\ op[r] = "checkout"
       /\ pc' = [pc EXCEPT ![r] = "commit"]
       /\ seen' = [seen EXCEPT ![r] = v]
       /\ UNCHANGED op
    \/ op[r] # "checkout" /\ Respond(r)

\* The handler has basket v.  A checkout goes on only when there are lines; an
\* empty basket is a bad request.
HaveBasket(r, v) ==
    \/ /\ op[r] = "checkout" /\ v \in filled
       /\ pc' = [pc EXCEPT ![r] = "commit"]
       /\ seen' = [seen EXCEPT ![r] = v]
       /\ UNCHANGED op
    \/ (op[r] # "checkout" \/ v \notin filled) /\ Respond(r)

CacheHit(r) ==
    /\ pc[r] = "lookup"
    /\ cache # 0
    /\ HaveBasket(r, cache)
    /\ UNCHANGED <<baskets, lastVersion, filled, cache, outbox, faults, history>>

\* No entry, or a Redis that does not answer: the database is read instead.
CacheMiss(r) ==
    /\ pc[r] = "lookup"
    /\ \/ cache = 0 /\ UNCHANGED faults
       \/ faults < MaxFaults /\ faults' = faults + 1
    /\ pc' = [pc EXCEPT ![r] = "fetch"]
    /\ UNCHANGED <<baskets, lastVersion, filled, cache, outbox, op, seen, history>>

\* BasketRepository.GetByUserName
Fetch(r) ==
    /\ pc[r] = "fetch"
    /\ \/ baskets = 0 /\ Respond(r)
       \/ /\ baskets # 0
          /\ seen' = [seen EXCEPT ![r] = baskets]
          /\ pc' = [pc EXCEPT ![r] = "fill"]
          /\ UNCHANGED op
    /\ UNCHANGED <<baskets, lastVersion, filled, cache, outbox, faults, history>>

\* The cache is populated with what was read; a failure to is ignored.
Fill(r) ==
    /\ pc[r] = "fill"
    /\ \/ cache' = seen[r] /\ UNCHANGED faults
       \/ faults < MaxFaults /\ faults' = faults + 1 /\ UNCHANGED cache
    /\ HaveBasket(r, seen[r])
    /\ UNCHANGED <<baskets, lastVersion, filled, outbox, history>>

(* Store *)

\* One lookup per line at the Discount service
Discount(r) ==
    /\ pc[r] = "discount"
    /\ pc' = [pc EXCEPT ![r] = "write"]
    /\ UNCHANGED <<baskets, lastVersion, filled, cache, outbox, op, seen, faults, history>>

\* Faulty variant of Write: the version counts up from the row instead of being
\* fresh.
WriteCounted(r) ==
    /\ pc[r] = "write"
    /\ baskets < MaxVersion
    /\ baskets' = baskets + 1
    /\ lastVersion' = IF lastVersion < baskets + 1 THEN baskets + 1 ELSE lastVersion
    /\ filled' \in {filled, filled \union {baskets + 1}}
    /\ seen' = [seen EXCEPT ![r] = baskets + 1]
    /\ pc' = [pc EXCEPT ![r] = "refresh"]
    /\ UNCHANGED <<cache, outbox, op, faults, history>>

\* A fresh version is chosen and the row replaced, with or without lines.
Write(r) ==
    /\ pc[r] = "write"
    /\ lastVersion < MaxVersion
    /\ lastVersion' = lastVersion + 1
    /\ baskets' = lastVersion + 1
    /\ filled' \in {filled, filled \union {lastVersion + 1}}
    /\ seen' = [seen EXCEPT ![r] = lastVersion + 1]
    /\ pc' = [pc EXCEPT ![r] = "refresh"]
    /\ UNCHANGED <<cache, outbox, op, faults, history>>

\* Faulty variant of Refresh: the entry is left as it was.
RefreshSkipped(r) ==
    /\ pc[r] = "refresh"
    /\ acknowledged' = acknowledged \union {seen[r]}
    /\ Respond(r)
    /\ UNCHANGED <<baskets, lastVersion, filled, cache, outbox, faults, announced, removed,
                   crossed>>

Refresh(r) ==
    /\ pc[r] = "refresh"
    /\ cache' = seen[r]
    /\ acknowledged' = acknowledged \union {seen[r]}
    /\ Respond(r)
    /\ UNCHANGED <<baskets, lastVersion, filled, outbox, faults, announced, removed,
                   crossed>>

(* Delete and checkout *)

DeleteRow(r) ==
    /\ pc[r] = "delete"
    /\ baskets' = 0
    /\ pc' = [pc EXCEPT ![r] = "evict"]
    /\ UNCHANGED <<lastVersion, filled, cache, outbox, op, seen, faults, history>>

\* Faulty variant of Checkout: the message is recorded whether or not a row was
\* deleted.
CheckoutUnchecked(r) ==
    /\ pc[r] = "commit"
    /\ baskets' = 0
    /\ outbox' = outbox \union {seen[r]}
    /\ announced' = announced \union {seen[r]}
    /\ removed' = IF baskets = 0 THEN removed ELSE removed \union {baskets}
    /\ pc' = [pc EXCEPT ![r] = "evict"]
    /\ UNCHANGED <<lastVersion, filled, cache, op, seen, faults, acknowledged, crossed>>

\* BasketRepository.Checkout: the user's row is deleted, whichever version it
\* holds, and the message recorded under the id of the version read, in one
\* transaction.  Without a row there is nothing to do.
Checkout(r) ==
    /\ pc[r] = "commit"
    /\ \/ /\ baskets # 0
          /\ baskets' = 0
          /\ outbox' = outbox \union {seen[r]}
          /\ announced' = announced \union {seen[r]}
          /\ removed' = removed \union {baskets}
          /\ pc' = [pc EXCEPT ![r] = "evict"]
          /\ UNCHANGED <<op, seen>>
       \/ /\ baskets = 0
          /\ Respond(r)
          /\ UNCHANGED <<baskets, outbox, announced, removed>>
    /\ UNCHANGED <<lastVersion, filled, cache, faults, acknowledged, crossed>>

Evict(r) ==
    /\ pc[r] = "evict"
    /\ cache' = 0
    /\ Respond(r)
    /\ UNCHANGED <<baskets, lastVersion, filled, outbox, faults, announced, removed,
                   acknowledged, crossed>>

(* What goes wrong, and what happens by itself *)

\* A call fails, the client hangs up or the process stops: the request ends
\* where it is, and what it has written stays.
BreakOff(r) ==
    /\ pc[r] # "idle"
    /\ faults < MaxFaults
    /\ faults' = faults + 1
    /\ Respond(r)
    /\ UNCHANGED <<baskets, lastVersion, filled, cache, outbox, announced, removed,
                   acknowledged, crossed>>

\* The entry reaches the end of its time to live.
Expire ==
    /\ cache # 0
    /\ cache' = 0
    /\ UNCHANGED <<baskets, lastVersion, filled, outbox, request, faults, history>>

\* The relay has published a checkout and removes it.
RelayTakes(v) ==
    /\ v \in outbox
    /\ outbox' = outbox \ {v}
    /\ UNCHANGED <<baskets, lastVersion, filled, cache, request, faults, history>>

-----------------------------------------------------------------------------
RequestStep(r) ==
    \/ CacheHit(r) \/ CacheMiss(r) \/ Fetch(r) \/ Fill(r)
    \/ Discount(r) \/ Write(r) \/ Refresh(r)
    \/ DeleteRow(r) \/ Checkout(r) \/ Evict(r)
    \/ BreakOff(r)

Environment == Expire \/ \E v \in Version : RelayTakes(v)

Operations == {"get", "store", "delete", "checkout"}

Next ==
    \/ \E r \in Requests : RequestStep(r) \/ \E o \in Operations : Arrive(r, o)
    \/ Environment

Spec == Init /\ [][Next]_vars

-----------------------------------------------------------------------------
\* Shape of the state; a request that works on a basket it read holds its version.
TypeOK ==
    /\ baskets \in 0..lastVersion
    /\ lastVersion \in 0..MaxVersion
    /\ filled \subseteq 1..lastVersion
    /\ cache \in 0..lastVersion
    /\ outbox \subseteq announced
    /\ pc \in [Requests -> {"idle", "lookup", "fetch", "fill", "discount", "write",
                            "refresh", "delete", "commit", "evict"}]
    /\ op \in [Requests -> Operations]
    /\ seen \in [Requests -> 0..lastVersion]
    /\ faults \in 0..MaxFaults
    /\ announced \subseteq 1..lastVersion
    /\ removed \subseteq 1..lastVersion
    /\ acknowledged \subseteq 1..lastVersion
    /\ crossed \in {"no", "yes"}
    /\ \A r \in Requests :
          /\ pc[r] \in {"fill", "refresh", "commit"} => seen[r] # 0
          /\ pc[r] = "evict" /\ op[r] = "checkout" => seen[r] # 0
          /\ pc[r] = "delete" => op[r] = "delete"

\* A checkout that was announced is over: the basket is not in the database any
\* more, so it cannot be checked out a second time (BasketRepository.Checkout
\* deletes and records in one transaction, Store never reuses a version).
AnnouncedIsGone == baskets \notin announced

\* There are never more announcements than baskets removed for them: a double
\* click, a stale entry or a repeated request does not charge the customer twice
\* (the row count in BasketRepository.Checkout, the id in CheckoutID).
OrdersNeverOutnumberBaskets == Cardinality(announced) <= Cardinality(removed)

\* No announcement of an order without lines, whatever was written between the
\* check and the transaction (CheckoutBasketHandler.Handle).
OnlyFilledAnnounced == announced \subseteq filled

\* For a client that waits with filling: a basket whose Store reported success
\* and that a checkout removed was announced, also when requests failed half way
\* and the cache was left behind (CachedRepository.Store reports such failures).
AcknowledgedIsOrdered ==
    crossed = "no" => removed \intersect acknowledged \subseteq announced

\* internal/basket/postgres/outbox.go, Checkout: the basket is emptied and the
\* message is certain to go out, or neither happens - so a basket a checkout
\* removed is one that was announced.
CheckoutLosesNothing == removed \subseteq announced
=============================================================================
