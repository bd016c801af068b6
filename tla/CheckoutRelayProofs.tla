-------------------------- MODULE CheckoutRelayProofs --------------------------
(***************************************************************************)
(* Theorems about CheckoutRelay, for any number of relays, messages and    *)
(* faults, any batch size and any attempt limit.                           *)
(*                                                                         *)
(* AttemptsBounded is not inductive: a relay counts against a row what it  *)
(* decided on a count read earlier.  What is, is a count of the relays     *)
(* that may still do so without giving up (Stale).  Once a row is one      *)
(* attempt short of the limit no further relay joins them, and each one    *)
(* that counts leaves them.                                                *)
(*                                                                         *)
(* Order rests on the batches: what was recorded before a row of a batch   *)
(* and still waits is in that batch, or was refused (Earlier), also when   *)
(* other relays delete, postpone or give up on rows in the meantime.       *)
(***************************************************************************)
EXTENDS CheckoutRelay, FiniteSetTheorems, WellFoundedInduction, TLAPS

\* A relay deletes only what the broker has confirmed.
Deleting == \A r \in Relays : pc[r] = "delete" => First(batch[r]) \subseteq accepted

\* The count a relay read is not ahead of the row's.
Reads == \A r \in Relays : \A m \in batch[r] \intersect table : read[r][m] <= attempts[m]

\* Whether to give up was decided on the count that was read.
Decided ==
    \A r \in Relays : \A m \in First(batch[r]) :
        /\ pc[r] = "fail" => read[r][m] + 1 < MaxAttempts
        /\ pc[r] = "poison" => read[r][m] + 1 >= MaxAttempts

\* Relays that may still count a refusal of m without giving up on it.
Stale(m) == {r \in Relays : m \in batch[r] /\ read[r][m] + 1 < MaxAttempts}

\* Refusals that may still be counted are bounded with those that were.
Bounded(m) ==
    attempts[m] + 1 >= MaxAttempts =>
        attempts[m] + Cardinality(Stale(m))
            <= MaxAttempts + Cardinality(Relays) - (IF m \in poisoned THEN 1 ELSE 2)

IInv ==
    /\ TypeOK
    /\ NothingLost
    /\ Deleting
    /\ Reads
    /\ Decided
    /\ \A m \in table : Bounded(m)

-----------------------------------------------------------------------------
(* Messages and batches                                                    *)

LEMMA MessageInt == Message \subseteq Nat
  BY RelayAssumption DEF Message

LEMMA OldestIn == \A S : Oldest(S) \subseteq S
  BY DEF Oldest

LEMMA FirstIn == \A S : First(S) \subseteq S
  BY DEF First

LEMMA FirstUnique ==
    ASSUME NEW S \in SUBSET Message, NEW m \in First(S), NEW k \in First(S)
    PROVE  m = k
  BY MessageInt DEF First

\* The first message that qualifies is always read, so a batch is not empty.
LEMMA OldestNonEmpty ==
    ASSUME NEW S \in SUBSET Message, S # {}
    PROVE  Oldest(S) # {}
  <1>1. S \subseteq Nat
    BY MessageInt
  <1>2. PICK m \in S : \A k \in S : <<k, m>> \notin OpToRel(<, Nat)
    BY <1>1, WFMin, NatLessThanWellFounded, Zenon
  <1>3. \A k \in S : ~(k < m)
    BY <1>1, <1>2, Zenon DEF OpToRel
  <1>4. {k \in S : k < m} = {}
    BY <1>3
  <1>5. m \in Oldest(S)
    BY <1>4, FS_EmptySet, RelayAssumption DEF Oldest
  <1>6. QED
    BY <1>5

-----------------------------------------------------------------------------
(* Types                                                                   *)

\* What TypeOK says of the relays.
RelaysOK ==
    /\ pc \in [Relays -> {"poll", "publish", "delete", "fail", "poison"}]
    /\ batch \in [Relays -> SUBSET recorded]
    /\ read \in [Relays -> [Message -> Nat]]
    /\ \A r \in Relays : (batch[r] = {}) <=> (pc[r] = "poll")

\* What TypeOK says of the table.
TableOK ==
    /\ recorded \subseteq Message
    /\ table \subseteq recorded
    /\ due \subseteq table /\ poisoned \subseteq table
    /\ attempts \in [Message -> Nat]
    /\ accepted \subseteq recorded
    /\ faults \in 0..MaxFaults
    /\ ahead \in [Message -> SUBSET recorded]
    /\ \A m \in Message : m \notin table => attempts[m] = 0

LEMMA TypeSplit ==
    /\ TypeOK <=> RelaysOK /\ TableOK
    /\ TypeOK' <=> RelaysOK' /\ TableOK'
  BY DEF TypeOK, RelaysOK, TableOK

LEMMA InitType == Init => TypeOK
  BY RelayAssumption DEF Init, TypeOK

\* A relay that is through with a message holds the rest of its batch.
LEMMA NextMessageType ==
    ASSUME RelaysOK, NEW r \in Relays, NEW m \in First(batch[r]), NextMessage(r, m),
           recorded' = recorded
    PROVE  RelaysOK'
  <1>1. m \in batch[r] /\ batch[r] # {}
    BY FirstIn
  <1>2. CASE batch[r] = {m} /\ EndCycle(r)
    BY <1>2 DEF RelaysOK, EndCycle
  <1>3. CASE /\ batch[r] # {m}
             /\ pc' = [pc EXCEPT ![r] = "publish"]
             /\ batch' = [batch EXCEPT ![r] = @ \ {m}]
             /\ UNCHANGED read
    BY <1>1, <1>3 DEF RelaysOK
  <1>4. QED
    BY <1>2, <1>3 DEF NextMessage

LEMMA DueType ==
    ASSUME TypeOK, NEW r \in Relays, Due(r)
    PROVE  TypeOK'
  <1>1. due \ poisoned \in SUBSET Message /\ due \ poisoned # {}
    BY DEF TypeOK, Due
  <1>2. Oldest(due \ poisoned) # {} /\ Oldest(due \ poisoned) \subseteq due \ poisoned
    BY <1>1, OldestNonEmpty, OldestIn
  <1> DEFINE old == Oldest(due \ poisoned)
  <1>3. batch' = [batch EXCEPT ![r] = old] /\ pc' = [pc EXCEPT ![r] = "publish"]
        /\ read' = [read EXCEPT ![r] = [m \in Message |-> IF m \in old THEN attempts[m] ELSE 0]]
        /\ UNCHANGED <<rows, accepted, faults, history>>
    BY DEF Due
  <1> HIDE DEF old
  <1>4. old # {} /\ old \subseteq recorded
    BY <1>2 DEF old, TypeOK
  <1>5. [m \in Message |-> IF m \in old THEN attempts[m] ELSE 0] \in [Message -> Nat]
    BY DEF TypeOK
  <1>6. RelaysOK'
    BY <1>3, <1>4, <1>5 DEF TypeOK, RelaysOK, history
  <1>7. TableOK'
    BY <1>3 DEF TypeOK, TableOK, rows, history
  <1>8. QED
    BY <1>6, <1>7, TypeSplit

LEMMA RelayType ==
    ASSUME TypeOK, NEW r \in Relays, NEW m \in Message,
           \/ PublishAccepted(r, m) \/ PublishFailed(r, m)
           \/ Delete(r, m) \/ Fail(r, m) \/ Poison(r, m)
    PROVE  TypeOK'
  <1>1. m \in batch[r] /\ m \in recorded
    BY FirstIn DEF TypeOK, PublishAccepted, PublishFailed, Delete, Fail, Poison
  <1>2. CASE PublishAccepted(r, m)
    BY <1>1, <1>2 DEF TypeOK, PublishAccepted, rows, history
  <1>3. CASE PublishFailed(r, m)
    BY <1>1, <1>3 DEF TypeOK, PublishFailed, rows, history
  <1>4. CASE Delete(r, m)
    <2>1. RelaysOK'
      BY <1>4, NextMessageType, TypeSplit DEF Delete, history
    <2>2. TableOK'
      BY <1>4 DEF TypeOK, TableOK, Delete, history
    <2>3. QED
      BY <2>1, <2>2, TypeSplit
  <1>5. CASE Fail(r, m)
    <2>1. RelaysOK'
      BY <1>5, NextMessageType, TypeSplit DEF Fail, history
    <2>2. TableOK'
      BY <1>5 DEF TypeOK, TableOK, Fail, history
    <2>3. QED
      BY <2>1, <2>2, TypeSplit
  <1>6. CASE Poison(r, m)
    <2>1. RelaysOK'
      BY <1>6, NextMessageType, TypeSplit DEF Poison, history
    <2>2. TableOK'
      BY <1>6 DEF TypeOK, TableOK, Poison, history
    <2>3. QED
      BY <2>1, <2>2, TypeSplit
  <1>7. QED
    BY <1>2, <1>3, <1>4, <1>5, <1>6

LEMMA NextType == TypeOK /\ [Next]_vars => TypeOK'
  <1> SUFFICES ASSUME TypeOK, [Next]_vars
               PROVE  TypeOK'
    OBVIOUS
  <1>1. ASSUME NEW m \in Message, Record(m)
        PROVE  TypeOK'
    BY <1>1 DEF TypeOK, Record, relay
  <1>2. ASSUME NEW m \in Message, BecomeDue(m)
        PROVE  TypeOK'
    BY <1>2 DEF TypeOK, BecomeDue, relay, history
  <1>3. ASSUME NEW r \in Relays, BreakOff(r)
        PROVE  TypeOK'
    BY <1>3, RelayAssumption DEF TypeOK, BreakOff, EndCycle, rows, history
  <1>4. CASE UNCHANGED vars
    BY <1>4 DEF TypeOK, vars, rows, relay, history
  <1>5. QED
    BY <1>1, <1>2, <1>3, <1>4, DueType, RelayType DEF Next, RelayStep, Rest

\* The rows, batches and counts of the relays keep their shape.
THEOREM RelayTypeCorrect == Spec => []TypeOK
  BY InitType, NextType, PTL DEF Spec

-----------------------------------------------------------------------------
(* At-least-once                                                           *)

\* What the other relays hold is left alone.
OthersKeep(r) ==
    \A q \in Relays \ {r} : pc'[q] = pc[q] /\ batch'[q] = batch[q] /\ read'[q] = read[q]

LEMMA NextMessageMoves ==
    ASSUME RelaysOK, NEW r \in Relays, NEW m \in First(batch[r]), NextMessage(r, m)
    PROVE  /\ OthersKeep(r)
           /\ pc'[r] \in {"poll", "publish"}
           /\ batch'[r] = batch[r] \ {m}
           /\ batch'[r] = {} \/ read'[r] = read[r]
  <1>1. CASE batch[r] = {m} /\ EndCycle(r)
    BY <1>1 DEF RelaysOK, EndCycle, OthersKeep
  <1>2. CASE /\ batch[r] # {m}
             /\ pc' = [pc EXCEPT ![r] = "publish"]
             /\ batch' = [batch EXCEPT ![r] = @ \ {m}]
             /\ UNCHANGED read
    BY <1>2 DEF RelaysOK, OthersKeep
  <1>3. QED
    BY <1>1, <1>2 DEF NextMessage

\* Every step of a relay on message m, as far as other relays see it.
LEMMA StepMoves ==
    ASSUME TypeOK, NEW r \in Relays, NEW m \in Message,
           Delete(r, m) \/ Fail(r, m) \/ Poison(r, m)
    PROVE  /\ m \in First(batch[r])
           /\ OthersKeep(r)
           /\ pc'[r] \in {"poll", "publish"}
           /\ batch'[r] = batch[r] \ {m}
           /\ batch'[r] = {} \/ read'[r] = read[r]
  BY NextMessageMoves, TypeSplit DEF Delete, Fail, Poison

LEMMA DeletingStays ==
    ASSUME TypeOK, Deleting, [Next]_vars
    PROVE  Deleting'
  <1>1. ASSUME NEW r \in Relays, NEW m \in Message,
               Delete(r, m) \/ Fail(r, m) \/ Poison(r, m)
        PROVE  Deleting'
    <2>1. accepted' = accepted
      BY <1>1 DEF Delete, Fail, Poison
    <2>2. QED
      BY <1>1, <2>1, StepMoves DEF Deleting, OthersKeep
  <1>2. ASSUME NEW r \in Relays, NEW m \in Message, PublishAccepted(r, m)
        PROVE  Deleting'
    <2>1. First(batch[r]) \subseteq {m}
      BY <1>2, FirstUnique DEF PublishAccepted, TypeOK
    <2>2. QED
      BY <1>2, <2>1 DEF Deleting, PublishAccepted, TypeOK
  <1>3. ASSUME NEW r \in Relays, NEW m \in Message, PublishFailed(r, m)
        PROVE  Deleting'
    BY <1>3 DEF Deleting, PublishFailed, TypeOK
  <1>4. ASSUME NEW r \in Relays, Due(r) \/ BreakOff(r)
        PROVE  Deleting'
    BY <1>4 DEF Deleting, Due, BreakOff, EndCycle, TypeOK
  <1>5. ASSUME NEW m \in Message, Record(m) \/ BecomeDue(m)
        PROVE  Deleting'
    BY <1>5 DEF Deleting, Record, BecomeDue, relay
  <1>6. CASE UNCHANGED vars
    BY <1>6 DEF Deleting, vars, relay
  <1>7. QED
    BY <1>1, <1>2, <1>3, <1>4, <1>5, <1>6 DEF Next, RelayStep, Rest

LEMMA NothingLostStays ==
    ASSUME TypeOK, Deleting, NothingLost, [Next]_vars
    PROVE  NothingLost'
  <1>1. ASSUME NEW r \in Relays, NEW m \in Message, Delete(r, m)
        PROVE  NothingLost'
    BY <1>1 DEF NothingLost, Deleting, Delete, history
  <1>2. ASSUME NEW r \in Relays, RelayStep(r) \/ BreakOff(r),
               \A m \in Message : ~Delete(r, m)
        PROVE  NothingLost'
    BY <1>2 DEF NothingLost, RelayStep, Due, PublishAccepted, PublishFailed, Fail, Poison,
                BreakOff, rows, history
  <1>3. ASSUME NEW m \in Message, Record(m) \/ BecomeDue(m)
        PROVE  NothingLost'
    BY <1>3 DEF NothingLost, Record, BecomeDue, history
  <1>4. CASE UNCHANGED vars
    BY <1>4 DEF NothingLost, vars, rows, history
  <1>5. QED
    BY <1>1, <1>2, <1>3, <1>4 DEF Next, RelayStep, Rest

-----------------------------------------------------------------------------
(* Retries end                                                             *)

\* A step in which relay r holds no more than before and read nothing new.
Lets(r) ==
    /\ OthersKeep(r)
    /\ batch'[r] \subseteq batch[r]
    /\ batch'[r] = {} \/ read'[r] = read[r]

LEMMA BreakOffMoves ==
    ASSUME TypeOK, NEW r \in Relays, BreakOff(r)
    PROVE  Lets(r) /\ batch'[r] = {}
  BY DEF TypeOK, BreakOff, EndCycle, Lets, OthersKeep

LEMMA StepLets ==
    ASSUME TypeOK, NEW r \in Relays, NEW m \in Message,
           Delete(r, m) \/ Fail(r, m) \/ Poison(r, m)
    PROVE  Lets(r)
  BY StepMoves DEF Lets

LEMMA PublishKeeps ==
    ASSUME TypeOK, NEW r \in Relays, NEW m \in Message,
           PublishAccepted(r, m) \/ PublishFailed(r, m)
    PROVE  /\ UNCHANGED <<table, attempts, poisoned, batch, read>>
           /\ \A q \in Relays \ {r} : pc'[q] = pc[q]
           /\ m \in First(batch[r])
  BY DEF TypeOK, PublishAccepted, PublishFailed, rows

LEMMA ReadsStays ==
    ASSUME TypeOK, Reads, [Next]_vars
    PROVE  Reads'
  <1>1. ASSUME NEW r \in Relays, NEW k \in Message,
               Delete(r, k) \/ Fail(r, k) \/ Poison(r, k)
        PROVE  Reads'
    <2>1. Lets(r)
      BY <1>1, StepLets
    <2>2. /\ table' \subseteq table
          /\ \A m \in table' : attempts[m] <= attempts'[m]
      <3>1. /\ attempts \in [Message -> Nat] /\ table \subseteq Message
            /\ \A n \in Nat : n <= n /\ n <= n + 1
        BY DEF TypeOK
      <3>2. CASE Delete(r, k)
        BY <3>1, <3>2 DEF Delete
      <3>3. CASE Fail(r, k)
        BY <3>1, <3>3 DEF Fail
      <3>4. CASE Poison(r, k)
        BY <3>1, <3>4 DEF Poison
      <3>5. QED
        BY <1>1, <3>2, <3>3, <3>4
    <2>3. /\ \A q \in Relays : batch'[q] \subseteq batch[q]
          /\ \A q \in Relays : batch'[q] = {} \/ read'[q] = read[q]
      BY <2>1 DEF Lets, OthersKeep
    <2>4. SUFFICES ASSUME NEW q \in Relays, NEW m \in batch'[q] \intersect table'
                   PROVE  read'[q][m] <= attempts'[m]
      BY DEF Reads
    <2>5. m \in batch[q] \intersect table /\ read'[q][m] = read[q][m]
      BY <2>2, <2>3, <2>4
    <2>6. read[q][m] <= attempts[m]
      BY <2>5 DEF Reads
    <2>7. read[q][m] \in Nat /\ attempts[m] \in Nat /\ attempts'[m] \in Nat
      BY <2>5, NextType DEF TypeOK
    <2>8. QED
      BY <2>2, <2>4, <2>5, <2>6, <2>7
  <1>2. ASSUME NEW r \in Relays, NEW k \in Message,
               PublishAccepted(r, k) \/ PublishFailed(r, k)
        PROVE  Reads'
    BY <1>2, PublishKeeps DEF Reads
  <1>3. ASSUME NEW r \in Relays, Due(r)
        PROVE  Reads'
    <2> DEFINE old == Oldest(due \ poisoned)
    <2>1. /\ batch' = [batch EXCEPT ![r] = old]
          /\ read' = [read EXCEPT ![r] = [m \in Message |-> IF m \in old THEN attempts[m] ELSE 0]]
          /\ table' = table /\ attempts' = attempts
      BY <1>3 DEF Due, rows
    <2>2. old \subseteq Message
      BY OldestIn DEF TypeOK
    <2> HIDE DEF old
    <2>3. \A m \in old : read'[r][m] = attempts[m] /\ attempts[m] \in Nat
      BY <2>1, <2>2 DEF TypeOK
    <2>4. \A q \in Relays \ {r} : batch'[q] = batch[q] /\ read'[q] = read[q]
      BY <2>1 DEF TypeOK
    <2>5. batch'[r] = old
      BY <2>1 DEF TypeOK
    <2>6. QED
      BY <2>1, <2>3, <2>4, <2>5 DEF Reads
  <1>4. ASSUME NEW r \in Relays, BreakOff(r)
        PROVE  Reads'
    BY <1>4, BreakOffMoves DEF Reads, BreakOff, Lets, OthersKeep, rows
  <1>5. ASSUME NEW k \in Message, Record(k)
        PROVE  Reads'
    <2>1. \A r \in Relays : k \notin batch[r]
      BY <1>5 DEF Record, TypeOK
    <2>2. QED
      BY <1>5, <2>1 DEF Reads, Record, relay
  <1>6. ASSUME NEW k \in Message, BecomeDue(k)
        PROVE  Reads'
    BY <1>6 DEF Reads, BecomeDue, relay
  <1>7. CASE UNCHANGED vars
    BY <1>7 DEF Reads, vars, rows, relay
  <1>8. QED
    BY <1>1, <1>2, <1>3, <1>4, <1>5, <1>6, <1>7 DEF Next, RelayStep, Rest

LEMMA DecidedStays ==
    ASSUME TypeOK, Decided, [Next]_vars
    PROVE  Decided'
  <1>1. ASSUME NEW r \in Relays, NEW k \in Message,
               Delete(r, k) \/ Fail(r, k) \/ Poison(r, k)
        PROVE  Decided'
    BY <1>1, StepMoves DEF Decided, OthersKeep
  <1>2. ASSUME NEW r \in Relays, NEW k \in Message, PublishAccepted(r, k)
        PROVE  Decided'
    BY <1>2 DEF Decided, PublishAccepted, TypeOK
  <1>3. ASSUME NEW r \in Relays, NEW k \in Message, PublishFailed(r, k)
        PROVE  Decided'
    <2>1. \A m \in First(batch[r]) : m = k
      BY <1>3, FirstUnique DEF PublishFailed, TypeOK
    <2>2. read[r][k] + 1 >= MaxAttempts \/ read[r][k] + 1 < MaxAttempts
      BY RelayAssumption DEF TypeOK
    <2>3. QED
      BY <1>3, <2>1, <2>2 DEF Decided, PublishFailed, TypeOK
  <1>4. ASSUME NEW r \in Relays, Due(r) \/ BreakOff(r)
        PROVE  Decided'
    BY <1>4 DEF Decided, Due, BreakOff, EndCycle, TypeOK
  <1>5. ASSUME NEW k \in Message, Record(k) \/ BecomeDue(k)
        PROVE  Decided'
    BY <1>5 DEF Decided, Record, BecomeDue, relay
  <1>6. CASE UNCHANGED vars
    BY <1>6 DEF Decided, vars, relay
  <1>7. QED
    BY <1>1, <1>2, <1>3, <1>4, <1>5, <1>6 DEF Next, RelayStep, Rest

LEMMA StaleFinite ==
    ASSUME NEW m
    PROVE  /\ IsFiniteSet(Stale(m)) /\ Cardinality(Stale(m)) \in Nat
           /\ IsFiniteSet(Stale(m)') /\ Cardinality(Stale(m)') \in Nat
           /\ Cardinality(Relays) \in Nat
  <1>1. Stale(m) \subseteq Relays /\ Stale(m)' \subseteq Relays
    BY DEF Stale
  <1>2. QED
    BY <1>1, RelayAssumption, FS_Subset, FS_CardinalityType

\* Fewer relays that may count, and no more counted: the bound is kept.
LEMMA BoundKept ==
    ASSUME TypeOK, NEW m \in Message, Bounded(m), Stale(m)' \subseteq Stale(m),
           attempts'[m] = attempts[m], m \in poisoned => m \in poisoned'
    PROVE  Bounded(m)'
  <1>1. Cardinality(Stale(m)') <= Cardinality(Stale(m))
    BY StaleFinite, FS_Subset
  <1>2. attempts[m] \in Nat /\ MaxAttempts \in Nat
    BY RelayAssumption DEF TypeOK
  <1>3. QED
    BY <1>1, <1>2, StaleFinite DEF Bounded

LEMMA LetsShrinks ==
    ASSUME TypeOK, NEW r \in Relays, Lets(r), NEW m \in Message
    PROVE  Stale(m)' \subseteq Stale(m)
  BY DEF Lets, OthersKeep, Stale

\* A relay counts a refusal of its row and leaves those that may.
LEMMA FailBounded ==
    ASSUME TypeOK, Decided, NEW r \in Relays, NEW m \in Message, Fail(r, m),
           m \in table, Bounded(m)
    PROVE  Bounded(m)'
  <1>1. /\ r \in Stale(m) /\ r \notin Stale(m)'
        /\ Stale(m)' \subseteq Stale(m)
    <2>1. m \in First(batch[r]) /\ m \in batch[r] /\ batch'[r] = batch[r] \ {m}
      BY StepMoves, FirstIn
    <2>2. QED
      BY <2>1, StepLets, LetsShrinks DEF Stale, Decided, Fail
  <1>2. /\ Cardinality(Stale(m)') <= Cardinality(Stale(m)) - 1
        /\ Cardinality(Stale(m)') <= Cardinality(Relays) - 1
    <2>1. Stale(m)' \subseteq Stale(m) \ {r} /\ Stale(m)' \subseteq Relays \ {r}
      BY <1>1 DEF Stale
    <2>2. /\ IsFiniteSet(Stale(m) \ {r})
          /\ Cardinality(Stale(m) \ {r}) = Cardinality(Stale(m)) - 1
      BY <1>1, StaleFinite, FS_RemoveElement
    <2>3. /\ IsFiniteSet(Relays \ {r})
          /\ Cardinality(Relays \ {r}) = Cardinality(Relays) - 1
      BY RelayAssumption, FS_RemoveElement
    <2>4. QED
      BY <2>1, <2>2, <2>3, FS_Subset
  <1>3. attempts'[m] = attempts[m] + 1 /\ poisoned' = poisoned
    BY DEF Fail, TypeOK
  <1>4. attempts[m] \in Nat /\ MaxAttempts \in Nat
    BY RelayAssumption DEF TypeOK
  <1>5. CASE attempts[m] + 1 >= MaxAttempts
    BY <1>2, <1>3, <1>4, <1>5, StaleFinite DEF Bounded
  <1>6. CASE attempts[m] + 1 < MaxAttempts
    BY <1>2, <1>3, <1>4, <1>6, StaleFinite DEF Bounded
  <1>7. QED
    BY <1>4, <1>5, <1>6

\* A relay gives up on a row: from now on no relay reads it.
LEMMA PoisonBounded ==
    ASSUME TypeOK, Reads, Decided, NEW r \in Relays, NEW m \in Message, Poison(r, m),
           m \in table \ poisoned, Bounded(m)
    PROVE  Bounded(m)'
  <1>1. Stale(m)' \subseteq Stale(m)
    BY StepLets, LetsShrinks
  <1>2. Cardinality(Stale(m)') <= Cardinality(Stale(m))
    BY <1>1, StaleFinite, FS_Subset
  <1>3. attempts'[m] = attempts[m] + 1 /\ m \in poisoned'
    BY DEF Poison, TypeOK
  <1>4. attempts[m] \in Nat /\ MaxAttempts \in Nat /\ read[r][m] \in Nat
    BY RelayAssumption DEF TypeOK
  <1>5. read[r][m] <= attempts[m] /\ read[r][m] + 1 >= MaxAttempts
    BY FirstIn DEF Reads, Decided, Poison
  <1>6. QED
    BY <1>2, <1>3, <1>4, <1>5, StaleFinite DEF Bounded

LEMMA BoundedStays ==
    ASSUME TypeOK, Reads, Decided, \A m \in table : Bounded(m), [Next]_vars
    PROVE  \A m \in table' : Bounded(m)'
  <1> SUFFICES ASSUME NEW m \in table'
               PROVE  Bounded(m)'
    OBVIOUS
  <1>1. m \in Message
    BY NextType DEF TypeOK
  <1>2. ASSUME NEW r \in Relays, NEW k \in Message,
               Delete(r, k) \/ Fail(r, k) \/ Poison(r, k)
        PROVE  Bounded(m)'
    <2>1. m \in table
      BY <1>2 DEF Delete, Fail, Poison
    <2>2. Stale(m)' \subseteq Stale(m)
      BY <1>1, <1>2, StepLets, LetsShrinks
    <2>3. CASE attempts'[m] = attempts[m] /\ (m \in poisoned => m \in poisoned')
      BY <1>1, <2>1, <2>2, <2>3, BoundKept
    <2>4. CASE ~(attempts'[m] = attempts[m] /\ (m \in poisoned => m \in poisoned'))
      <3>1. m = k /\ ~Delete(r, k)
        BY <1>1, <1>2, <2>4 DEF TypeOK, Delete, Fail, Poison
      <3>2. CASE Fail(r, k)
        BY <1>1, <2>1, <3>1, <3>2, FailBounded
      <3>3. CASE Poison(r, k)
        <4>1. m \in table \ poisoned
          BY <2>4, <3>1, <3>3 DEF Poison
        <4>2. QED
          BY <1>1, <2>1, <3>1, <3>3, <4>1, PoisonBounded
      <3>4. QED
        BY <1>2, <3>1, <3>2, <3>3
    <2>5. QED
      BY <2>3, <2>4
  <1>3. ASSUME NEW r \in Relays, NEW k \in Message,
               PublishAccepted(r, k) \/ PublishFailed(r, k)
        PROVE  Bounded(m)'
    <2>1. m \in table /\ Stale(m)' = Stale(m) /\ attempts' = attempts /\ poisoned' = poisoned
      BY <1>3, PublishKeeps DEF Stale
    <2>2. QED
      BY <1>1, <2>1, BoundKept
  <1>4. ASSUME NEW r \in Relays, Due(r)
        PROVE  Bounded(m)'
    <2>1. table' = table /\ attempts' = attempts /\ poisoned' = poisoned
      BY <1>4 DEF Due, rows
    <2>2. attempts[m] \in Nat /\ MaxAttempts \in Nat
      BY <1>1, RelayAssumption DEF TypeOK
    <2>3. CASE attempts[m] + 1 < MaxAttempts
      BY <2>1, <2>2, <2>3 DEF Bounded
    <2>4. CASE attempts[m] + 1 >= MaxAttempts
      <3>1. \A q \in Relays \ {r} : batch'[q] = batch[q] /\ read'[q] = read[q]
        BY <1>4 DEF Due, TypeOK
      <3>2. m \in batch'[r] => read'[r][m] = attempts[m]
        BY <1>1, <1>4 DEF Due, TypeOK
      <3>3. Stale(m)' \subseteq Stale(m)
        BY <2>2, <2>4, <3>1, <3>2 DEF Stale
      <3>4. QED
        BY <1>1, <2>1, <3>3, BoundKept
    <2>5. QED
      BY <2>2, <2>3, <2>4
  <1>5. ASSUME NEW r \in Relays, BreakOff(r)
        PROVE  Bounded(m)'
    <2>1. table' = table /\ attempts' = attempts /\ poisoned' = poisoned
      BY <1>5 DEF BreakOff, rows
    <2>2. QED
      BY <1>1, <1>5, <2>1, BreakOffMoves, LetsShrinks, BoundKept
  <1>6. ASSUME NEW k \in Message, Record(k)
        PROVE  Bounded(m)'
    <2>1. CASE m = k
      <3>1. \A r \in Relays : m \notin batch[r]
        BY <1>6, <2>1 DEF Record, TypeOK
      <3>2. Stale(m)' = {}
        BY <1>6, <3>1 DEF Stale, Record, relay
      <3>3. attempts'[m] = 0
        BY <1>1, <1>6, <2>1 DEF Record, TypeOK
      <3>4. Cardinality(Relays) # 0
        BY RelayAssumption, FS_EmptySet
      <3>5. QED
        BY <3>2, <3>3, <3>4, StaleFinite, FS_EmptySet, RelayAssumption DEF Bounded
    <2>2. CASE m # k
      <3>1. m \in table /\ Stale(m)' = Stale(m) /\ attempts' = attempts /\ poisoned' = poisoned
        BY <1>6, <2>2 DEF Stale, Record, relay
      <3>2. QED
        BY <1>1, <3>1, BoundKept
    <2>3. QED
      BY <2>1, <2>2
  <1>7. CASE UNCHANGED vars \/ \E k \in Message : BecomeDue(k)
    <2>1. table' = table /\ Stale(m)' = Stale(m) /\ attempts' = attempts
          /\ poisoned' = poisoned
      BY <1>7 DEF Stale, BecomeDue, vars, rows, relay
    <2>2. QED
      BY <1>1, <2>1, BoundKept
  <1>8. QED
    BY <1>2, <1>3, <1>4, <1>5, <1>6, <1>7 DEF Next, RelayStep, Rest

LEMMA BoundEnough ==
    ASSUME TypeOK, \A m \in table : Bounded(m)
    PROVE  AttemptsBounded
  <1> SUFFICES ASSUME NEW m \in Message
               PROVE  attempts[m] < MaxAttempts + Cardinality(Relays)
    BY DEF AttemptsBounded
  <1>1. /\ attempts[m] \in Nat /\ MaxAttempts \in Nat /\ MaxAttempts > 0
        /\ m \notin table => attempts[m] = 0
    BY RelayAssumption DEF TypeOK
  <1>2. Cardinality(Stale(m)) \in Nat /\ Cardinality(Relays) \in Nat
    BY StaleFinite
  <1>3. Cardinality(Relays) # 0
    BY RelayAssumption, FS_EmptySet
  <1>4. QED
    BY <1>1, <1>2, <1>3 DEF Bounded

\* The invariant that is kept by every step.
THEOREM RelayInvariant == Spec => []IInv
  <1>1. Init => IInv
    BY InitType DEF Init, IInv, NothingLost, Deleting, Reads, Decided
  <1>2. IInv /\ [Next]_vars => IInv'
    BY NextType, NothingLostStays, DeletingStays, ReadsStays, DecidedStays, BoundedStays
       DEF IInv
  <1>3. QED
    BY <1>1, <1>2, PTL DEF Spec

\* A recorded checkout stays in the table until the broker has it, however many
\* relays share the table and whatever fails (Relay.publish, ProcessOnce).
THEOREM RelayLosesNothing == Spec => []NothingLost
  <1>1. IInv => NothingLost
    BY DEF IInv
  <1>2. QED
    BY <1>1, RelayInvariant, PTL

\* Relays sharing a table refuse no row more often than the limit, and once more
\* for each relay but one, although each decides on a count it read earlier
\* (Relay.publish, OutboxStore.Fail and Poison).
THEOREM RelayRetriesEnd == Spec => []AttemptsBounded
  <1>1. IInv => AttemptsBounded
    BY BoundEnough DEF IInv
  <1>2. QED
    BY <1>1, RelayInvariant, PTL

-----------------------------------------------------------------------------
(* Order                                                                   *)

\* A row that is not due, or given up on, was refused.
Waited == \A m \in table \ (due \ poisoned) : attempts[m] > 0

\* What was recorded before a message of a batch, and is waiting still, is in that
\* batch too, or was refused.
Earlier ==
    \A r \in Relays : \A m \in batch[r] :
        \A k \in (ahead[m] \intersect 1..m) \intersect table :
            k # m => k \in batch[r] \/ attempts[k] > 0

\* A message was not recorded before itself.
Fresh == \A m \in Message : m \notin ahead[m]

LEMMA FreshStays ==
    ASSUME TypeOK, Fresh, [Next]_vars
    PROVE  Fresh'
  <1>1. ASSUME NEW m \in Message, Record(m)
        PROVE  Fresh'
    BY <1>1 DEF Record, Fresh, TypeOK
  <1>2. CASE UNCHANGED ahead
    BY <1>2 DEF Fresh
  <1>3. QED
    BY <1>1, <1>2 DEF Next, RelayStep, Rest, vars, history, BecomeDue, BreakOff, Due,
       PublishAccepted, PublishFailed, Delete, Fail, Poison

\* A refused row stays refused while it is there.
LEMMA RefusedStays ==
    ASSUME TypeOK, [Next]_vars, NEW k \in table', k \in table, attempts[k] > 0
    PROVE  attempts'[k] > 0
  <1>1. k \in Message /\ attempts[k] \in Nat /\ attempts \in [Message -> Nat]
    BY DEF TypeOK
  <1>2. ASSUME NEW r \in Relays, NEW m \in Message,
               Delete(r, m) \/ Fail(r, m) \/ Poison(r, m)
        PROVE  attempts'[k] > 0
    BY <1>1, <1>2 DEF Delete, Fail, Poison
  <1>3. ASSUME NEW r \in Relays, Due(r) \/ BreakOff(r)
        PROVE  attempts'[k] > 0
    BY <1>3 DEF Due, BreakOff, rows
  <1>4. ASSUME NEW r \in Relays, NEW m \in Message,
               PublishAccepted(r, m) \/ PublishFailed(r, m)
        PROVE  attempts'[k] > 0
    BY <1>4 DEF PublishAccepted, PublishFailed, rows
  <1>5. ASSUME NEW m \in Message, Record(m) \/ BecomeDue(m)
        PROVE  attempts'[k] > 0
    BY <1>5 DEF Record, BecomeDue
  <1>6. CASE UNCHANGED vars
    BY <1>6 DEF vars, rows
  <1>7. QED
    BY <1>2, <1>3, <1>4, <1>5, <1>6 DEF Next, RelayStep, Rest

LEMMA WaitedStays ==
    ASSUME TypeOK, Waited, [Next]_vars
    PROVE  Waited'
  <1> SUFFICES ASSUME NEW k \in table', k \notin due' \ poisoned'
               PROVE  attempts'[k] > 0
    BY DEF Waited
  <1>1. k \in Message /\ attempts[k] \in Nat /\ attempts \in [Message -> Nat]
    BY NextType DEF TypeOK
  <1>2. CASE k \in table /\ k \notin due \ poisoned
    BY <1>2, RefusedStays DEF Waited
  <1>3. CASE ~(k \in table /\ k \notin due \ poisoned)
    <2>1. ASSUME NEW r \in Relays, NEW m \in Message,
                 Delete(r, m) \/ Fail(r, m) \/ Poison(r, m)
          PROVE  attempts'[k] > 0
      <3>1. k = m /\ ~Delete(r, m)
        BY <1>3, <2>1 DEF Delete, Fail, Poison
      <3>2. CASE Fail(r, m)
        BY <1>1, <1>3, <3>1, <3>2 DEF Fail
      <3>3. CASE Poison(r, m)
        BY <1>1, <1>3, <3>1, <3>3 DEF Poison
      <3>4. QED
        BY <2>1, <3>1, <3>2, <3>3
    <2>2. ASSUME NEW r \in Relays, RelayStep(r) \/ BreakOff(r),
                 \A m \in Message : ~(Delete(r, m) \/ Fail(r, m) \/ Poison(r, m))
          PROVE  FALSE
      BY <1>3, <2>2 DEF RelayStep, Due, BreakOff, PublishAccepted, PublishFailed, rows
    <2>3. ASSUME NEW m \in Message, Record(m) \/ BecomeDue(m)
          PROVE  FALSE
      BY <1>3, <2>3 DEF Record, BecomeDue, TypeOK
    <2>4. ~UNCHANGED vars
      BY <1>3 DEF vars, rows
    <2>5. QED
      BY <2>1, <2>2, <2>3, <2>4 DEF Next, Rest
  <1>4. QED
    BY <1>2, <1>3

\* A batch that holds a row holds every row it was chosen from that is older.
LEMMA OldestFirst ==
    ASSUME NEW S \in SUBSET Message, NEW m \in Oldest(S), NEW k \in S, k < m
    PROVE  k \in Oldest(S)
  <1> DEFINE Before(x) == {j \in S : j < x}
  <1>1. Before(k) \subseteq Before(m)
    <2>1. S \subseteq Nat /\ m \in S
      BY MessageInt, OldestIn
    <2>2. ASSUME NEW j \in S, j < k
          PROVE  j < m
      BY <2>1, <2>2
    <2>3. QED
      BY <2>2
  <1>2. IsFiniteSet(Message)
    BY RelayAssumption, FS_Interval DEF Message
  <1>3. IsFiniteSet(Before(k)) /\ IsFiniteSet(Before(m))
    <2>1. Before(k) \subseteq Message /\ Before(m) \subseteq Message
      OBVIOUS
    <2>2. QED
      BY <1>2, <2>1, FS_Subset
  <1>4. /\ Cardinality(Before(k)) <= Cardinality(Before(m))
        /\ Cardinality(Before(k)) \in Nat /\ Cardinality(Before(m)) \in Nat
    BY <1>1, <1>3, FS_Subset, FS_CardinalityType
  <1>5. Cardinality(Before(m)) < BatchSize
    BY DEF Oldest
  <1>6. Cardinality(Before(k)) < BatchSize
    BY <1>4, <1>5, RelayAssumption
  <1>7. QED
    BY <1>6 DEF Oldest

LEMMA EarlierStays ==
    ASSUME TypeOK, Waited, Earlier, [Next]_vars
    PROVE  Earlier'
  <1> SUFFICES ASSUME NEW q \in Relays, NEW m \in batch'[q],
                      NEW k \in (ahead'[m] \intersect 1..m) \intersect table', k # m
               PROVE  k \in batch'[q] \/ attempts'[k] > 0
    BY DEF Earlier
  <1>0. TypeOK'
    BY NextType
  <1>1. m \in Message /\ k \in Message
    BY <1>0 DEF TypeOK
  <1>2. CASE m \in batch[q] /\ k \in batch[q] /\ k \in batch'[q]
    BY <1>2
  <1>3. ASSUME m \in batch[q], k \in ahead[m], k \in table, k \in batch[q] => k \in batch'[q]
        PROVE  k \in batch'[q] \/ attempts'[k] > 0
    BY <1>3, RefusedStays DEF Earlier
  <1>4. ASSUME NEW r \in Relays, NEW j \in Message,
               Delete(r, j) \/ Fail(r, j) \/ Poison(r, j)
        PROVE  k \in batch'[q] \/ attempts'[k] > 0
    <2>1. /\ j \in First(batch[r]) /\ batch'[r] = batch[r] \ {j}
          /\ \A p \in Relays \ {r} : batch'[p] = batch[p]
      BY <1>4, StepMoves DEF OthersKeep
    <2>2. m \in batch[q] /\ ahead' = ahead /\ table' \subseteq table
      BY <1>4, <2>1 DEF Delete, Fail, Poison, history
    <2>3. CASE k \in batch[q] /\ k \notin batch'[q]
      <3>1. k = j /\ q = r /\ k \in table /\ attempts \in [Message -> Nat]
        BY <2>1, <2>2, <2>3 DEF TypeOK
      <3>2. CASE Delete(r, j)
        BY <3>1, <3>2 DEF Delete
      <3>3. CASE Fail(r, j)
        BY <1>1, <3>1, <3>3 DEF Fail
      <3>4. CASE Poison(r, j)
        <4>1. CASE j \in table \ poisoned
          BY <1>1, <3>1, <3>4, <4>1 DEF Poison
        <4>2. CASE j \in poisoned
          BY <2>2, <3>1, <4>2, RefusedStays DEF Waited
        <4>3. QED
          BY <3>1, <4>1, <4>2
      <3>5. QED
        BY <1>4, <3>2, <3>3, <3>4
    <2>4. QED
      BY <1>3, <2>2, <2>3
  <1>5. ASSUME NEW r \in Relays, NEW j \in Message,
               PublishAccepted(r, j) \/ PublishFailed(r, j)
        PROVE  k \in batch'[q] \/ attempts'[k] > 0
    <2>1. batch' = batch /\ ahead' = ahead /\ table' = table
      BY <1>5 DEF PublishAccepted, PublishFailed, rows, history
    <2>2. QED
      BY <1>3, <2>1
  <1>6. ASSUME NEW r \in Relays, Due(r)
        PROVE  k \in batch'[q] \/ attempts'[k] > 0
    <2>1. /\ batch' = [batch EXCEPT ![r] = Oldest(due \ poisoned)]
          /\ UNCHANGED <<table, attempts, ahead>>
      BY <1>6 DEF Due, rows, history
    <2>2. CASE q # r
      <3>1. batch'[q] = batch[q]
        BY <2>1, <2>2 DEF TypeOK
      <3>2. QED
        BY <1>3, <2>1, <3>1
    <2>3. CASE q = r
      <3>1. batch'[q] = Oldest(due \ poisoned) /\ due \ poisoned \in SUBSET Message
        BY <2>1, <2>3 DEF TypeOK
      <3>2. k < m
        BY <1>1, MessageInt
      <3>3. CASE k \in due \ poisoned
        BY <3>1, <3>2, <3>3, OldestFirst
      <3>4. CASE k \notin due \ poisoned
        BY <2>1, <3>4 DEF Waited
      <3>5. QED
        BY <3>3, <3>4
    <2>4. QED
      BY <2>2, <2>3
  <1>7. ASSUME NEW r \in Relays, BreakOff(r)
        PROVE  k \in batch'[q] \/ attempts'[k] > 0
    <2>1. /\ batch'[r] = {} /\ \A p \in Relays \ {r} : batch'[p] = batch[p]
          /\ ahead' = ahead /\ table' = table
      BY <1>7, BreakOffMoves DEF Lets, OthersKeep, BreakOff, rows, history
    <2>2. QED
      BY <1>3, <2>1
  <1>8. ASSUME NEW j \in Message, Record(j)
        PROVE  k \in batch'[q] \/ attempts'[k] > 0
    <2>1. /\ batch' = batch /\ j \notin recorded /\ table' = table \union {j}
          /\ ahead' = [ahead EXCEPT ![j] = recorded]
      BY <1>8 DEF Record, relay
    <2>2. m \in batch[q] /\ m \in recorded /\ m # j
      BY <2>1 DEF TypeOK
    <2>3. ahead'[m] = ahead[m] /\ ahead[m] \subseteq recorded
      BY <1>1, <2>1, <2>2 DEF TypeOK
    <2>4. k \in ahead[m] /\ k \in table
      BY <2>1, <2>3
    <2>5. QED
      BY <1>3, <2>1, <2>2, <2>4
  <1>9. CASE UNCHANGED vars \/ \E j \in Message : BecomeDue(j)
    <2>1. batch' = batch /\ ahead' = ahead /\ table' = table
      BY <1>9 DEF BecomeDue, vars, rows, relay, history
    <2>2. QED
      BY <1>3, <2>1
  <1>10. QED
    BY <1>4, <1>5, <1>6, <1>7, <1>8, <1>9 DEF Next, RelayStep, Rest

\* However many relays share the table, none sends a message while an earlier one,
\* recorded before it, waits without having been refused (OutboxStore.Due,
\* Relay.ProcessOnce).
THEOREM RelayKeepsOrder == Spec => OnlyRefusedAreOvertaken
  <1>1. Init => Waited /\ Earlier /\ Fresh
    BY DEF Init, Waited, Earlier, Fresh
  <1>2. IInv /\ Waited /\ Earlier /\ Fresh /\ [Next]_vars
            => Waited' /\ Earlier' /\ Fresh'
    BY WaitedStays, EarlierStays, FreshStays DEF IInv
  <1>3. IInv /\ Waited /\ Earlier /\ Fresh /\ [Next]_vars =>
          [\A m \in accepted' \ accepted :
              \A k \in (ahead[m] \intersect 1..m) \ accepted : attempts[k] > 0]_vars
    <2> SUFFICES ASSUME IInv, Earlier, Fresh, Next, NEW m \in accepted' \ accepted,
                        NEW k \in (ahead[m] \intersect 1..m) \ accepted
                 PROVE  attempts[k] > 0
      OBVIOUS
    <2>1. PICK r \in Relays : PublishAccepted(r, m) \/ PublishFailed(r, m)
      <3>1. PICK r \in Relays, j \in Message : PublishAccepted(r, j) \/ PublishFailed(r, j)
        BY DEF Next, Rest, vars, RelayStep, Record, BecomeDue, Due, Delete, Fail, Poison, BreakOff
      <3>2. j = m
        BY <3>1 DEF PublishAccepted, PublishFailed
      <3>3. QED
        BY <3>1, <3>2
    <2>2. m \in First(batch[r]) /\ m \in batch[r]
      BY <2>1, FirstIn DEF PublishAccepted, PublishFailed
    <2>3. m \in Message /\ k \in recorded /\ k \in Nat
      BY <2>2, MessageInt DEF IInv, TypeOK
    <2>4. k \in table /\ k # m
      <3>1. k \in table
        BY <2>3 DEF IInv, NothingLost
      <3>2. k # m
        BY <2>3 DEF Fresh
      <3>3. QED
        BY <3>1, <3>2
    <2>5. k \notin batch[r]
      BY <2>2, <2>3, <2>4, MessageInt DEF First
    <2>6. QED
      BY <2>2, <2>4, <2>5 DEF Earlier
  <1>4. QED
    BY <1>1, <1>2, <1>3, RelayInvariant, PTL DEF Spec, OnlyRefusedAreOvertaken
=============================================================================
