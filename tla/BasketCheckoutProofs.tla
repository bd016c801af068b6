------------------------ MODULE BasketCheckoutProofs ------------------------
(***************************************************************************)
(* Proofs about BasketCheckout for any number of requests, stored baskets  *)
(* and failures.                                                           *)
(***************************************************************************)
EXTENDS BasketCheckout, FiniteSetTheorems, TLAPS

LEMMA InitType == Init => TypeOK
  BY BasketBounds DEF Init, TypeOK, Operations

LEMMA ArriveType ==
    ASSUME TypeOK, NEW r \in Requests, NEW o \in Operations, Arrive(r, o)
    PROVE  TypeOK'
  BY DEF TypeOK, Arrive, Operations, history

LEMMA LookupType ==
    ASSUME TypeOK, NEW r \in Requests,
           CacheHit(r) \/ CacheMiss(r) \/ Fetch(r) \/ Fill(r)
    PROVE  TypeOK'
  <1>1. CASE CacheHit(r)
    BY <1>1 DEF TypeOK, CacheHit, HaveBasket, Respond, Operations, history
  <1>2. CASE CacheMiss(r)
    BY <1>2, BasketBounds DEF TypeOK, CacheMiss, Operations, history
  <1>3. CASE Fetch(r)
    BY <1>3 DEF TypeOK, Fetch, Respond, Operations, history
  <1>4. CASE Fill(r)
    BY <1>4, BasketBounds DEF TypeOK, Fill, HaveBasket, Respond, Operations, history
  <1>5. QED
    BY <1>1, <1>2, <1>3, <1>4

\* What TypeOK says of the requests.
RequestsOK ==
    /\ pc \in [Requests -> {"idle", "lookup", "fetch", "fill", "discount", "write",
                            "refresh", "delete", "commit", "evict"}]
    /\ op \in [Requests -> Operations]
    /\ seen \in [Requests -> 0..lastVersion]
    /\ \A r \in Requests :
          /\ pc[r] \in {"fill", "refresh", "commit"} => seen[r] # 0
          /\ pc[r] = "evict" /\ op[r] = "checkout" => seen[r] # 0
          /\ pc[r] = "delete" => op[r] = "delete"

\* An answered request is idle, and the others are where they were.
LEMMA RespondType ==
    ASSUME TypeOK, NEW r \in Requests, Respond(r), lastVersion' = lastVersion
    PROVE  RequestsOK'
  BY DEF TypeOK, RequestsOK, Respond, Operations

LEMMA StoreType ==
    ASSUME TypeOK, NEW r \in Requests, Discount(r) \/ Write(r) \/ Refresh(r)
    PROVE  TypeOK'
  <1>1. CASE Discount(r)
    BY <1>1 DEF TypeOK, Discount, Operations, history
  <1>2. CASE Write(r)
    BY <1>2, BasketBounds DEF TypeOK, Write, Operations, history
  <1>3. CASE Refresh(r)
    <2>1. seen[r] \in 1..lastVersion
      BY <1>3 DEF TypeOK, Refresh
    <2>2. Respond(r) /\ lastVersion' = lastVersion
      BY <1>3 DEF Refresh
    <2>3. RequestsOK'
      BY <2>2, RespondType
    <2>4. QED
      BY <1>3, <2>1, <2>3 DEF TypeOK, Refresh, RequestsOK
  <1>4. QED
    BY <1>1, <1>2, <1>3

LEMMA RemoveType ==
    ASSUME TypeOK, NEW r \in Requests, DeleteRow(r) \/ Checkout(r) \/ Evict(r)
    PROVE  TypeOK'
  <1>1. CASE DeleteRow(r)
    BY <1>1 DEF TypeOK, DeleteRow, Operations, history
  <1>2. CASE Checkout(r)
    <2>1. CASE baskets # 0
      <3>1. seen[r] \in 1..lastVersion /\ baskets \in 1..lastVersion
        BY <1>2, <2>1 DEF TypeOK, Checkout
      <3>2. announced' \subseteq 1..lastVersion /\ removed' \subseteq 1..lastVersion
        BY <1>2, <2>1, <3>1 DEF TypeOK, Checkout
      <3>3. RequestsOK'
        BY <1>2, <2>1, <3>1 DEF TypeOK, RequestsOK, Checkout
      <3>4. baskets' \in 0..lastVersion /\ outbox' \subseteq announced'
        <4>1. outbox \subseteq announced /\ lastVersion \in Nat
          BY BasketBounds DEF TypeOK
        <4>2. QED
          BY <1>2, <2>1, <4>1 DEF Checkout
      <3>5. UNCHANGED <<lastVersion, filled, cache, faults, acknowledged, crossed>>
        BY <1>2, <2>1 DEF Checkout
      <3>6. QED
        BY <3>2, <3>3, <3>4, <3>5 DEF TypeOK, RequestsOK
    <2>2. CASE baskets = 0
      <3>1. Respond(r) /\ lastVersion' = lastVersion
        BY <1>2, <2>2 DEF Checkout
      <3>2. RequestsOK'
        BY <3>1, RespondType
      <3>3. QED
        BY <1>2, <2>2, <3>2 DEF TypeOK, Checkout, RequestsOK
    <2>3. QED
      BY <2>1, <2>2
  <1>3. CASE Evict(r)
    <2>1. Respond(r) /\ lastVersion' = lastVersion
      BY <1>3 DEF Evict
    <2>2. RequestsOK'
      BY <2>1, RespondType
    <2>3. cache' \in 0..lastVersion
      BY <1>3, BasketBounds DEF TypeOK, Evict
    <2>4. UNCHANGED <<baskets, lastVersion, filled, outbox, faults, announced, removed,
                      acknowledged, crossed>>
      BY <1>3 DEF Evict
    <2>5. QED
      BY <2>2, <2>3, <2>4 DEF TypeOK, RequestsOK
  <1>4. QED
    BY <1>1, <1>2, <1>3

LEMMA BreakOffType == ASSUME TypeOK, NEW r \in Requests, BreakOff(r) PROVE TypeOK'
  <1>1. Respond(r) /\ lastVersion' = lastVersion
    BY DEF BreakOff
  <1>2. RequestsOK'
    BY <1>1, RespondType
  <1>3. QED
    BY <1>2, BasketBounds DEF TypeOK, BreakOff, RequestsOK

LEMMA EnvironmentType == ASSUME TypeOK, Environment PROVE TypeOK'
  <1>1. RequestsOK'
    BY DEF TypeOK, RequestsOK, Environment, Expire, RelayTakes, request
  <1>2. cache' \in 0..lastVersion /\ outbox' \subseteq announced
    <2>1. outbox \subseteq announced /\ cache \in 0..lastVersion /\ lastVersion \in Nat
      BY BasketBounds DEF TypeOK
    <2>2. cache' \in {0, cache} /\ outbox' \subseteq outbox
      BY DEF Environment, Expire, RelayTakes
    <2>3. QED
      BY <2>1, <2>2
  <1>3. UNCHANGED <<baskets, lastVersion, filled, faults, history>>
    BY DEF Environment, Expire, RelayTakes
  <1>4. QED
    BY <1>1, <1>2, <1>3 DEF TypeOK, RequestsOK, history

LEMMA NextType == TypeOK /\ [Next]_vars => TypeOK'
  <1> SUFFICES ASSUME TypeOK, [Next]_vars PROVE TypeOK'
    OBVIOUS
  <1>1. ASSUME NEW r \in Requests, RequestStep(r) PROVE TypeOK'
    BY <1>1, LookupType, StoreType, RemoveType, BreakOffType DEF RequestStep
  <1>2. CASE UNCHANGED vars
    BY <1>2 DEF TypeOK, vars, request, history
  <1>3. QED
    BY <1>1, <1>2, ArriveType, EnvironmentType DEF Next

\* The basket, its cache entry and every request keep their shape through every
\* interleaving and failure; no request works on a basket without a version.
THEOREM BasketTypeCorrect == Spec => []TypeOK
  <1>1. TypeOK /\ [Next]_vars => TypeOK'
    BY NextType
  <1>2. QED
    BY InitType, <1>1, PTL DEF Spec

-----------------------------------------------------------------------------
\* What a request is about to announce has lines.
CheckedLines == \A r \in Requests : pc[r] = "commit" => seen[r] \in filled

LEMMA CheckedLinesStays ==
    ASSUME TypeOK, CheckedLines, [Next]_vars PROVE CheckedLines'
  <1>1. filled \subseteq filled'
    BY DEF Next, RequestStep, Environment, Arrive, CacheHit, CacheMiss, Fetch, Fill, Discount,
           Write, Refresh, DeleteRow, Checkout, Evict, BreakOff, Expire, RelayTakes, vars
  <1>2. ASSUME NEW r \in Requests, pc'[r] = "commit"
        PROVE  (pc[r] = "commit" /\ seen'[r] = seen[r]) \/ seen'[r] \in filled
    BY <1>2 DEF TypeOK, Next, RequestStep, Environment, Arrive, CacheHit, CacheMiss, Fetch,
                Fill, Discount, Write, Refresh, DeleteRow, Checkout, Evict, BreakOff, Expire,
                RelayTakes, HaveBasket, Respond, vars, request
  <1>3. QED
    BY <1>1, <1>2 DEF CheckedLines

\* Only one step records a checkout, and it empties the row.
LEMMA AnnouncedBy ==
    ASSUME [Next]_vars, announced' # announced
    PROVE  \E r \in Requests : /\ pc[r] = "commit" /\ baskets # 0 /\ baskets' = 0
                               /\ announced' = announced \union {seen[r]}
                               /\ removed' = removed \union {baskets}
  <1>1. PICK r \in Requests : Checkout(r)
    BY DEF Next, RequestStep, Environment, Arrive, CacheHit, CacheMiss, Fetch, Fill, Discount,
           Write, Refresh, DeleteRow, Evict, BreakOff, Expire, RelayTakes, vars, history
  <1>2. QED
    BY <1>1 DEF Checkout

\* The row changes to nothing or to a version never used before.
LEMMA RowChanges ==
    ASSUME TypeOK, [Next]_vars
    PROVE  baskets' \in {baskets, 0, lastVersion + 1}
  BY DEF Next, RequestStep, Environment, Arrive, CacheHit, CacheMiss, Fetch, Fill, Discount,
         Write, Refresh, DeleteRow, Checkout, Evict, BreakOff, Expire, RelayTakes, vars

LEMMA GoneStays ==
    ASSUME TypeOK, AnnouncedIsGone, [Next]_vars PROVE AnnouncedIsGone'
  <1>1. 0 \notin announced /\ lastVersion + 1 \notin announced
    BY DEF TypeOK
  <1>2. CASE announced' = announced
    BY <1>1, <1>2, RowChanges DEF AnnouncedIsGone
  <1>3. CASE announced' # announced
    <2>1. 0 \notin announced'
      BY <1>3, <1>1, AnnouncedBy DEF TypeOK
    <2>2. baskets' = 0
      BY <1>3, AnnouncedBy
    <2>3. QED
      BY <2>1, <2>2 DEF AnnouncedIsGone
  <1>4. QED
    BY <1>2, <1>3

LEMMA FilledStays ==
    ASSUME TypeOK, CheckedLines, OnlyFilledAnnounced, [Next]_vars PROVE OnlyFilledAnnounced'
  <1>1. filled \subseteq filled'
    BY DEF Next, RequestStep, Environment, Arrive, CacheHit, CacheMiss, Fetch, Fill, Discount,
           Write, Refresh, DeleteRow, Checkout, Evict, BreakOff, Expire, RelayTakes, vars
  <1>2. announced' \subseteq filled
    BY AnnouncedBy DEF CheckedLines, OnlyFilledAnnounced
  <1>3. QED
    BY <1>1, <1>2 DEF OnlyFilledAnnounced

\* A checkout that was announced is never also still in the database
\* (BasketRepository.Checkout), and no announcement is without lines
\* (CheckoutBasketHandler.Handle), for any interleaving of any requests.
THEOREM BasketCheckedOutOnce == Spec => [](AnnouncedIsGone /\ OnlyFilledAnnounced)
  <1> DEFINE Inv == TypeOK /\ CheckedLines /\ AnnouncedIsGone /\ OnlyFilledAnnounced
  <1>1. Init => Inv
    BY InitType DEF Init, CheckedLines, AnnouncedIsGone, OnlyFilledAnnounced
  <1>2. Inv /\ [Next]_vars => Inv'
    BY NextType, CheckedLinesStays, GoneStays, FilledStays
  <1>3. QED
    BY <1>1, <1>2, PTL DEF Spec

-----------------------------------------------------------------------------
\* A version a checkout removed does not come back.
RemovedIsGone == baskets \notin removed

LEMMA RemovedBy ==
    ASSUME [Next]_vars, removed' # removed
    PROVE  \E r \in Requests : /\ baskets # 0 /\ baskets' = 0
                               /\ announced' = announced \union {seen[r]}
                               /\ removed' = removed \union {baskets}
  <1>1. PICK r \in Requests : Checkout(r)
    BY DEF Next, RequestStep, Environment, Arrive, CacheHit, CacheMiss, Fetch, Fill, Discount,
           Write, Refresh, DeleteRow, Evict, BreakOff, Expire, RelayTakes, vars, history
  <1>2. QED
    BY <1>1 DEF Checkout

LEMMA RemovedStays == ASSUME TypeOK, RemovedIsGone, [Next]_vars PROVE RemovedIsGone'
  <1>1. 0 \notin removed /\ lastVersion + 1 \notin removed /\ baskets \in Int
    BY BasketBounds DEF TypeOK
  <1>2. CASE removed' = removed
    BY <1>1, <1>2, RowChanges DEF RemovedIsGone
  <1>3. CASE removed' # removed
    BY <1>1, <1>3, RemovedBy DEF RemovedIsGone
  <1>4. QED
    BY <1>2, <1>3

LEMMA CountStays ==
    ASSUME TypeOK, RemovedIsGone, OrdersNeverOutnumberBaskets, [Next]_vars
    PROVE  OrdersNeverOutnumberBaskets'
  <1>1. /\ IsFiniteSet(announced) /\ IsFiniteSet(removed)
        /\ Cardinality(announced) \in Nat /\ Cardinality(removed) \in Nat
    <2>1. announced \subseteq 1..lastVersion /\ removed \subseteq 1..lastVersion
      BY DEF TypeOK
    <2>2. lastVersion \in Int
      BY BasketBounds DEF TypeOK
    <2>3. IsFiniteSet(1..lastVersion)
      BY <2>2, FS_Interval
    <2>4. QED
      BY <2>1, <2>3, FS_Subset, FS_CardinalityType
  <1>2. CASE announced' = announced /\ removed' = removed
    BY <1>2 DEF OrdersNeverOutnumberBaskets
  <1>3. CASE ~(announced' = announced /\ removed' = removed)
    <2>1. PICK r \in Requests : /\ announced' = announced \union {seen[r]}
                               /\ removed' = removed \union {baskets}
      BY <1>3, AnnouncedBy, RemovedBy
    <2>2. Cardinality(removed') = Cardinality(removed) + 1
      BY <1>1, <2>1, FS_AddElement DEF RemovedIsGone
    <2>3. /\ Cardinality(announced') \in Nat
          /\ Cardinality(announced') <= Cardinality(announced) + 1
      <3>1. CASE seen[r] \in announced
        <4>1. announced' = announced
          BY <2>1, <3>1
        <4>2. QED
          BY <1>1, <4>1
      <3>2. CASE seen[r] \notin announced
        <4>1. Cardinality(announced \union {seen[r]}) = Cardinality(announced) + 1
          BY <1>1, <3>2, FS_AddElement
        <4>2. QED
          BY <1>1, <2>1, <4>1
      <3>3. QED
        BY <3>1, <3>2
    <2>4. QED
      BY <1>1, <2>2, <2>3 DEF OrdersNeverOutnumberBaskets
  <1>4. QED
    BY <1>2, <1>3

\* However requests race, repeat or fail, there are never more announcements than
\* baskets removed for them (the row count BasketRepository.Checkout tests).
THEOREM BasketNeverChargedTwice == Spec => []OrdersNeverOutnumberBaskets
  <1> DEFINE Inv == TypeOK /\ RemovedIsGone /\ OrdersNeverOutnumberBaskets
  <1>1. Init => Inv
    BY InitType, FS_EmptySet DEF Init, RemovedIsGone, OrdersNeverOutnumberBaskets
  <1>2. Inv /\ [Next]_vars => Inv'
    BY NextType, RemovedStays, CountStays
  <1>3. QED
    BY <1>1, <1>2, PTL DEF Spec

-----------------------------------------------------------------------------
\* No announcement is without lines (CheckoutBasketHandler.Handle), whatever is
\* stored between the check and the transaction.
THEOREM BasketAnnouncedHasLines == Spec => []OnlyFilledAnnounced
  <1>1. OnlyFilledAnnounced /\ AnnouncedIsGone => OnlyFilledAnnounced
    OBVIOUS
  <1>2. QED
    BY BasketCheckedOutOnce, <1>1, PTL

-----------------------------------------------------------------------------
\* Storing uses its own calls, and an idle request stores nothing.
StoreCalls == \A r \in Requests : op[r] = "store" <=> pc[r] \in {"discount", "write", "refresh"}

\* While no store has overlapped another request, none does.
Alone ==
    crossed = "no" =>
        \A r, q \in Requests : r # q /\ pc[q] # "idle" => op[r] # "store"

\* And then cache and readers are in step with an acknowledged row, and so is the
\* store that is about to acknowledge it.
InStep ==
    crossed = "no" =>
        /\ \A r \in Requests : pc[r] = "refresh" => seen[r] = baskets
        /\ baskets \in acknowledged =>
              /\ cache \in {0, baskets}
              /\ \A r \in Requests : pc[r] \in {"fill", "commit"} => seen[r] = baskets

AckInv == /\ TypeOK /\ RemovedIsGone /\ StoreCalls /\ Alone /\ InStep
          /\ AcknowledgedIsOrdered

LEMMA StoreCallsStays == ASSUME TypeOK, StoreCalls, [Next]_vars PROVE StoreCalls'
  <1>1. ASSUME NEW r \in Requests, Arrive(r, "get") \/ Arrive(r, "store")
                                     \/ Arrive(r, "delete") \/ Arrive(r, "checkout")
        PROVE  StoreCalls'
    BY <1>1 DEF TypeOK, StoreCalls, Arrive
  <1>2. ASSUME NEW r \in Requests, RequestStep(r) PROVE StoreCalls'
    <2>1. CASE Respond(r)
      BY <2>1 DEF TypeOK, StoreCalls, Respond
    <2>2. CASE ~Respond(r)
      BY <1>2, <2>2 DEF TypeOK, StoreCalls, RequestStep, CacheHit, CacheMiss, Fetch, Fill,
                        Discount, Write, Refresh, DeleteRow, Checkout, Evict, BreakOff,
                        HaveBasket
    <2>3. QED
      BY <2>1, <2>2
  <1>3. CASE Environment \/ UNCHANGED vars
    BY <1>3 DEF StoreCalls, Environment, Expire, RelayTakes, vars, request
  <1>4. QED
    BY <1>1, <1>2, <1>3 DEF Next, Operations

\* A request under way does what it came for, or ends.
LEMMA OperationStays ==
    ASSUME TypeOK, NEW r \in Requests, RequestStep(r)
    PROVE  /\ crossed' = crossed
           /\ pc[r] # "idle"
           /\ \A q \in Requests \ {r} : pc'[q] = pc[q] /\ op'[q] = op[q] /\ seen'[q] = seen[q]
           /\ op'[r] = op[r] \/ op'[r] = "get"
  BY DEF TypeOK, RequestStep, CacheHit, CacheMiss, Fetch, Fill, Discount, Write, Refresh,
         DeleteRow, Checkout, Evict, BreakOff, HaveBasket, Respond, history

LEMMA AloneStays == ASSUME TypeOK, StoreCalls, Alone, [Next]_vars PROVE Alone'
  <1>1. ASSUME NEW r \in Requests, NEW o \in Operations, Arrive(r, o) PROVE Alone'
    <2>1. SUFFICES ASSUME crossed' = "no" PROVE Alone'
      BY DEF Alone
    <2>2. crossed = "no" /\ Waits(r, o)
      BY <1>1, <2>1 DEF Arrive, TypeOK
    <2>3. QED
      BY <1>1, <2>2 DEF Alone, Arrive, Waits, TypeOK, StoreCalls
  <1>2. ASSUME NEW r \in Requests, RequestStep(r) PROVE Alone'
    BY <1>2, OperationStays DEF Alone
  <1>3. CASE Environment \/ UNCHANGED vars
    BY <1>3 DEF Alone, Environment, Expire, RelayTakes, vars, request, history
  <1>4. QED
    BY <1>1, <1>2, <1>3 DEF Next

LEMMA InStepStays == ASSUME AckInv, [Next]_vars PROVE InStep'
  <1> SUFFICES ASSUME crossed' = "no" PROVE InStep'
    BY DEF InStep
  <1>0. /\ 0 \notin acknowledged /\ lastVersion + 1 \notin acknowledged
        /\ lastVersion \in Nat
    BY BasketBounds DEF AckInv, TypeOK
  <1>1. ASSUME NEW r \in Requests, NEW o \in Operations, Arrive(r, o) PROVE InStep'
    <2>1. crossed = "no"
      BY <1>1 DEF Arrive, AckInv, TypeOK
    <2>2. /\ UNCHANGED <<baskets, cache, acknowledged, seen>>
          /\ \A q \in Requests : pc'[q] \in {"fill", "commit", "refresh"} => pc'[q] = pc[q]
      BY <1>1 DEF Arrive, AckInv, TypeOK
    <2>3. QED
      BY <2>1, <2>2 DEF InStep, AckInv
  <1>2. ASSUME NEW r \in Requests, RequestStep(r) PROVE InStep'
    <2>1. crossed = "no" /\ pc[r] # "idle"
      BY <1>2, OperationStays DEF AckInv
    <2>2. /\ \A q \in Requests : pc[q] = "refresh" => seen[q] = baskets
          /\ baskets \in acknowledged =>
              /\ cache \in {0, baskets}
              /\ \A q \in Requests : pc[q] \in {"fill", "commit"} => seen[q] = baskets
      BY <2>1 DEF InStep, AckInv
    <2>3. \A q \in Requests \ {r} : pc[q] \notin {"discount", "write", "refresh"}
      BY <2>1 DEF AckInv, Alone, StoreCalls
    <2>4. \A q \in Requests \ {r} : pc'[q] = pc[q] /\ seen'[q] = seen[q]
      BY <1>2, OperationStays DEF AckInv
    <2>5. CASE baskets' = baskets /\ acknowledged' = acknowledged
      <3>1. baskets \in acknowledged => cache' \in {0, baskets}
        BY <1>2, <2>2, <2>5 DEF RequestStep, CacheHit, CacheMiss, Fetch, Fill, Discount, Write,
               Refresh, DeleteRow, Checkout, Evict, BreakOff, HaveBasket, history
      <3>2. pc'[r] = "refresh" => seen'[r] = baskets'
        BY <1>2, <2>2, <2>5 DEF RequestStep, CacheHit, CacheMiss, Fetch, Fill, Discount, Write,
               Refresh, DeleteRow, Checkout, Evict, BreakOff, HaveBasket, Respond, AckInv, TypeOK
      <3>3. baskets \in acknowledged /\ pc'[r] \in {"fill", "commit"} => seen'[r] = baskets
        BY <1>2, <2>2, <2>5 DEF RequestStep, CacheHit, CacheMiss, Fetch, Fill, Discount, Write,
               Refresh, DeleteRow, Checkout, Evict, BreakOff, HaveBasket, Respond, AckInv, TypeOK
      <3>4. QED
        BY <2>2, <2>3, <2>4, <2>5, <3>1, <3>2, <3>3 DEF InStep
    <2>6. CASE baskets' # baskets
      <3>1. /\ acknowledged' = acknowledged
            /\ baskets' \in {0, lastVersion + 1}
            /\ pc'[r] = "refresh" => seen'[r] = baskets'
        BY <1>2, <2>6 DEF RequestStep, CacheHit, CacheMiss, Fetch, Fill, Discount, Write,
               Refresh, DeleteRow, Checkout, Evict, BreakOff, HaveBasket, Respond, history,
               AckInv, TypeOK
      <3>2. QED
        BY <1>0, <2>3, <2>4, <3>1 DEF InStep
    <2>7. CASE acknowledged' # acknowledged
      <3>1. Refresh(r)
        BY <1>2, <2>7 DEF RequestStep, CacheHit, CacheMiss, Fetch, Fill, Discount, Write,
               DeleteRow, Checkout, Evict, BreakOff, history
      <3>2. cache' = baskets' /\ pc'[r] = "idle"
        BY <3>1, <2>2 DEF Refresh, Respond, AckInv, TypeOK
      <3>3. \A q \in Requests \ {r} : pc'[q] = "idle"
        BY <3>1, <2>1, <2>4 DEF Refresh, AckInv, Alone, StoreCalls
      <3>4. QED
        BY <3>2, <3>3 DEF InStep
    <2>8. QED
      BY <2>5, <2>6, <2>7
  <1>3. CASE Environment \/ UNCHANGED vars
    BY <1>3 DEF AckInv, InStep, Environment, Expire, RelayTakes, vars, request, history
  <1>4. QED
    BY <1>1, <1>2, <1>3 DEF Next

LEMMA OrderedStays == ASSUME AckInv, [Next]_vars PROVE AcknowledgedIsOrdered'
  <1> SUFFICES ASSUME crossed' = "no" PROVE AcknowledgedIsOrdered'
    BY DEF AcknowledgedIsOrdered
  <1>1. crossed = "no"
    BY OperationStays DEF AckInv, TypeOK, Next, Arrive, Environment, Expire, RelayTakes, vars,
                          history
  <1>2. removed \intersect acknowledged \subseteq announced
    BY <1>1 DEF AckInv, AcknowledgedIsOrdered
  <1>3. CASE UNCHANGED <<removed, acknowledged, announced>>
    BY <1>2, <1>3 DEF AcknowledgedIsOrdered
  <1>4. ASSUME NEW r \in Requests, Checkout(r) PROVE AcknowledgedIsOrdered'
    <2>1. baskets \in acknowledged => seen[r] = baskets
      BY <1>1, <1>4 DEF Checkout, AckInv, InStep
    <2>2. QED
      BY <1>2, <1>4, <2>1 DEF Checkout, AcknowledgedIsOrdered
  <1>5. ASSUME NEW r \in Requests, Refresh(r) PROVE AcknowledgedIsOrdered'
    <2>1. seen[r] = baskets /\ baskets \notin removed
      BY <1>1, <1>5 DEF Refresh, AckInv, InStep, RemovedIsGone
    <2>2. QED
      BY <1>2, <1>5, <2>1 DEF Refresh, AcknowledgedIsOrdered
  <1>6. QED
    BY <1>3, <1>4, <1>5 DEF Next, RequestStep, Environment, Arrive, CacheHit, CacheMiss, Fetch,
           Fill, Discount, Write, DeleteRow, Evict, BreakOff, Expire, RelayTakes, vars, history

\* For a client that waits with filling its basket, a basket whose Store reported
\* success and that a checkout removed is the one announced
\* (CachedRepository.Store, CachedRepository.GetByUserName and
\* BasketRepository.Checkout), for any number of requests and failures.
THEOREM BasketOrdersWhatWasStored == Spec => []AcknowledgedIsOrdered
  <1>1. Init => AckInv
    BY InitType DEF Init, AckInv, RemovedIsGone, StoreCalls, Alone, InStep,
                    AcknowledgedIsOrdered
  <1>2. AckInv /\ [Next]_vars => AckInv'
    BY NextType, RemovedStays, StoreCallsStays, AloneStays, InStepStays, OrderedStays
       DEF AckInv
  <1>3. AckInv => AcknowledgedIsOrdered
    BY DEF AckInv
  <1>4. QED
    BY <1>1, <1>2, <1>3, PTL DEF Spec
=============================================================================
