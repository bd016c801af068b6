------------------------- MODULE OutboxWorkerProofs -------------------------
(***************************************************************************)
(* Proofs about OutboxWorker for every number of workers, batch size,      *)
(* attempt limit and bound.                                                *)
(* The last section shows that one worker implements OutboxStream, through *)
(* the mapping of OutboxRefinement.                                        *)
(***************************************************************************)
EXTENDS OutboxRefinement, FiniteSetTheorems, TLAPS

-----------------------------------------------------------------------------
(* Type correctness                                                        *)

LEMMA InitType == Init => TypeOK
  BY OptionsAssumption, BoundsAssumption DEF Init, TypeOK

LEMMA CommitType == ASSUME TypeOK, NEW n \in 0..MaxPerTx, Commit(n) PROVE TypeOK'
  <1>1. \A i \in 1..n : <<lastLsn + 1, i>> \in Msg
    BY BoundsAssumption DEF TypeOK, Commit, Msg
  <1>2. written' \subseteq Msg
    BY <1>1 DEF TypeOK, Commit
  <1>3. QED
    BY <1>2, BoundsAssumption DEF TypeOK, Commit, store, cycle

LEMMA CaptureType == ASSUME TypeOK, NEW l \in 1..MaxLsn, Capture(l) PROVE TypeOK'
  BY BoundsAssumption DEF TypeOK, Capture, store, cycle

LEMMA CleanupType == ASSUME TypeOK, NEW l \in 1..MaxLsn, Cleanup(l) PROVE TypeOK'
  BY BoundsAssumption DEF TypeOK, Cleanup, store, cycle

LEMMA StartType == ASSUME TypeOK, NEW w \in Workers, Start(w) PROVE TypeOK'
  BY DEF TypeOK, Start, server, store, cycle

LEMMA BecomeReadyType == ASSUME TypeOK, NEW w \in Workers, BecomeReady(w) PROVE TypeOK'
  BY DEF TypeOK, BecomeReady, server, store, cycle

LEMMA LoadType == ASSUME TypeOK, NEW w \in Workers, Load(w) PROVE TypeOK'
  BY DEF TypeOK, Load, server, store

LEMMA StopType == ASSUME TypeOK, NEW w \in Workers, Stop(w) PROVE TypeOK'
  BY OptionsAssumption, BoundsAssumption DEF TypeOK, Stop, server, store

LEMMA EndCycleType ==
    ASSUME TypeOK, NEW w \in Workers, NEW f \in 0..UnhealthyAfter, EndCycle(w, f),
           UNCHANGED <<server, faults>>,
           attempts' \in [Msg -> Nat], checkpoint' \in 0..MaxLsn, poisoned' \subseteq Msg,
           accepted' \subseteq Msg, base' \in 0..MaxLsn
    PROVE  TypeOK'
  BY BoundsAssumption DEF TypeOK, EndCycle, server

LEMMA FailCycleEnds ==
    ASSUME TypeOK, NEW w \in Workers, FailCycle(w)
    PROVE  \E f \in 0..UnhealthyAfter : EndCycle(w, f)
  BY OptionsAssumption DEF TypeOK, FailCycle

LEMMA ReadBoundsType == ASSUME TypeOK, NEW w \in Workers, ReadBounds(w) PROVE TypeOK'
  BY OptionsAssumption, BoundsAssumption DEF TypeOK, ReadBounds, server, store

LEMMA ReadRefusedType == ASSUME TypeOK, NEW w \in Workers, ReadRefused(w) PROVE TypeOK'
  <1>1. PICK f \in 0..UnhealthyAfter : EndCycle(w, f)
    BY FailCycleEnds DEF ReadRefused
  <1>2. QED
    BY <1>1, EndCycleType DEF ReadRefused, store, server, TypeOK

LEMMA ReadBatchSubset == ASSUME NEW lo, NEW hi PROVE ReadBatch(lo, hi) \subseteq Rows(lo, hi)
  BY DEF ReadBatch, Top

LEMMA ReadChangesType == ASSUME TypeOK, NEW w \in Workers, ReadChanges(w) PROVE TypeOK'
  <1>1. ReadBatch(from[w], to[w]) \subseteq Msg
    BY ReadBatchSubset DEF TypeOK, Rows
  <1>2. CASE EndCycle(w, 0)
    BY <1>2, EndCycleType, OptionsAssumption DEF ReadChanges, store, server, TypeOK
  <1>3. CASE ~EndCycle(w, 0)
    BY <1>1, <1>3 DEF ReadChanges, store, server, TypeOK
  <1>4. QED
    BY <1>2, <1>3

LEMMA MsgParts == \A m \in Msg : Lsn(m) \in 1..MaxLsn /\ m[2] \in 1..MaxPerTx
  BY BoundsAssumption DEF Msg, Lsn

LEMMA HandledType ==
    ASSUME TypeOK, NEW w \in Workers, NEW m \in batch[w], Handled(w, m),
           UNCHANGED <<server, checkpoint, start, from, to, streak, faults, base>>,
           attempts' \in [Msg -> Nat], poisoned' \subseteq Msg, accepted' \subseteq Msg
    PROVE  TypeOK'
  <1>1. m \in Msg /\ Lsn(m) \in 0..MaxLsn
    BY MsgParts, BoundsAssumption DEF TypeOK
  <1>2. batch' \in [Workers -> SUBSET Msg] /\ group' \in [Workers -> 0..MaxLsn]
    BY <1>1 DEF TypeOK, Handled
  <1>3. pc' \in [Workers -> {"down", "wait", "load", "bounds", "changes", "get",
                            "publish", "record", "poison", "save"}]
    BY DEF TypeOK, Handled
  <1>4. ASSUME NEW v \in Workers
        PROVE  /\ pc'[v] \in {"down", "wait", "load", "bounds", "changes"} => batch'[v] = {}
               /\ pc'[v] \in {"get", "publish", "record", "poison"} => batch'[v] # {}
    BY DEF TypeOK, Handled
  <1>5. QED
    BY <1>2, <1>3, <1>4 DEF TypeOK, server

LEMMA GetFailureType == ASSUME TypeOK, NEW w \in Workers, GetFailure(w) PROVE TypeOK'
  <1>1. PICK m \in Heads(batch[w]) :
          \/ m \in poisoned /\ Handled(w, m)
          \/ /\ m \notin poisoned
             /\ pc' = [pc EXCEPT ![w] = "publish"]
             /\ UNCHANGED <<batch, group>>
    BY DEF GetFailure
  <1>2. CASE Handled(w, m)
    BY <1>2, HandledType DEF GetFailure, Heads, store, server, TypeOK
  <1>3. CASE ~Handled(w, m)
    BY <1>1, <1>3 DEF GetFailure, Heads, store, server, TypeOK
  <1>4. QED
    BY <1>2, <1>3

LEMMA PublishAcceptedType ==
    ASSUME TypeOK, NEW w \in Workers, PublishAccepted(w) PROVE TypeOK'
  <1>1. PICK m \in Heads(batch[w]) : accepted' = accepted \union {m} /\ Handled(w, m)
    BY DEF PublishAccepted
  <1>2. m \in batch[w] /\ m \in Msg
    BY DEF Heads, TypeOK
  <1>3. QED
    BY <1>1, <1>2, HandledType DEF PublishAccepted, store, server, TypeOK

LEMMA PublishFailedType ==
    ASSUME TypeOK, NEW w \in Workers, PublishFailed(w) PROVE TypeOK'
  <1>1. accepted' \subseteq Msg
    BY DEF PublishFailed, Heads, TypeOK
  <1>2. QED
    BY <1>1 DEF PublishFailed, store, server, cycle, TypeOK

LEMMA RecordFailureType ==
    ASSUME TypeOK, NEW w \in Workers, RecordFailure(w) PROVE TypeOK'
  <1>1. attempts' \in [Msg -> Nat]
    BY DEF RecordFailure, Heads, TypeOK
  <1>2. CASE FailCycle(w)
    <2>1. PICK f \in 0..UnhealthyAfter : EndCycle(w, f)
      BY <1>2, FailCycleEnds
    <2>2. QED
      BY <1>1, <2>1, EndCycleType DEF RecordFailure, server, TypeOK
  <1>3. CASE ~FailCycle(w)
    BY <1>1, <1>3 DEF RecordFailure, server, cycle, TypeOK
  <1>4. QED
    BY <1>2, <1>3

LEMMA MarkPoisonedType ==
    ASSUME TypeOK, NEW w \in Workers, MarkPoisoned(w) PROVE TypeOK'
  <1>1. PICK m \in Heads(batch[w]) : poisoned' = poisoned \union {m} /\ Handled(w, m)
    BY DEF MarkPoisoned
  <1>2. m \in batch[w] /\ m \in Msg
    BY DEF Heads, TypeOK
  <1>3. QED
    BY <1>1, <1>2, HandledType DEF MarkPoisoned, server, TypeOK

LEMMA SaveType == ASSUME TypeOK, NEW w \in Workers, Save(w) PROVE TypeOK'
  <1>1. CASE EndCycle(w, 0)
    BY <1>1, EndCycleType, OptionsAssumption DEF Save, server, TypeOK
  <1>2. CASE ~EndCycle(w, 0)
    BY <1>2 DEF Save, server, cycle, TypeOK
  <1>3. QED
    BY <1>1, <1>2

LEMMA CallFailsType == ASSUME TypeOK, NEW w \in Workers, CallFails(w) PROVE TypeOK'
  <1>1. PICK f \in 0..UnhealthyAfter : EndCycle(w, f)
    BY FailCycleEnds DEF CallFails
  <1>2. QED
    BY <1>1, BoundsAssumption DEF CallFails, EndCycle, store, server, TypeOK

LEMMA NextType == TypeOK /\ [Next]_vars => TypeOK'
  <1> SUFFICES ASSUME TypeOK, [Next]_vars PROVE TypeOK'
    OBVIOUS
  <1>1. CASE ServerStep
    BY <1>1, CommitType, CaptureType, CleanupType DEF ServerStep
  <1>2. ASSUME NEW w \in Workers, WorkerStep(w) PROVE TypeOK'
    BY <1>2, StartType, BecomeReadyType, LoadType, ReadBoundsType, ReadRefusedType,
       ReadChangesType, GetFailureType, PublishAcceptedType, PublishFailedType,
       RecordFailureType, MarkPoisonedType, SaveType DEF WorkerStep
  <1>3. ASSUME NEW w \in Workers, CallFails(w) \/ Stop(w) PROVE TypeOK'
    BY <1>3, CallFailsType, StopType
  <1>4. CASE UNCHANGED vars
    BY <1>4 DEF vars, server, store, cycle, TypeOK
  <1>5. QED
    BY <1>1, <1>2, <1>3, <1>4 DEF Next

\* The state keeps its shape through every step of every worker, of SQL Server's
\* jobs and of a crash (ProcessOnce and the loop around it).
THEOREM OutboxTypeCorrect == Spec => []TypeOK
  <1>1. TypeOK /\ [Next]_vars => TypeOK'
    BY NextType
  <1>2. QED
    BY InitType, <1>1, PTL DEF Spec

-----------------------------------------------------------------------------
(* What a batch contains                                                   *)

LEMMA RowsFinite == ASSUME TypeOK, NEW lo, NEW hi PROVE IsFiniteSet(Rows(lo, hi))
  <1>1. IsFiniteSet(Msg)
    <2>1. IsFiniteSet(1..MaxLsn) /\ IsFiniteSet(1..MaxPerTx)
      BY BoundsAssumption, FS_Interval
    <2>2. QED
      BY <2>1, FS_Product DEF Msg
  <1>2. QED
    BY <1>1, FS_Subset DEF Rows, TypeOK

\* TOP keeps whatever comes before a row it keeps.
LEMMA TopIsPrefix ==
    ASSUME NEW rows \in SUBSET Msg, IsFiniteSet(rows), NEW n \in Nat,
           NEW c \in Top(n, rows), NEW m \in rows, Before(m, c)
    PROVE  m \in Top(n, rows)
  <1> DEFINE Earlier(x) == {k \in rows : Before(k, x)}
  <1>1. Earlier(m) \subseteq Earlier(c)
    <2> SUFFICES ASSUME NEW k \in rows, Before(k, m) PROVE Before(k, c)
      OBVIOUS
    <2>1. c \in Msg /\ m \in Msg /\ k \in Msg
      BY DEF Top
    <2>2. /\ Lsn(c) \in Int /\ Lsn(m) \in Int /\ Lsn(k) \in Int
          /\ c[2] \in Int /\ m[2] \in Int /\ k[2] \in Int
      BY <2>1, MsgParts
    <2>3. QED
      BY <2>2 DEF Before
  <1>2. IsFiniteSet(Earlier(c)) /\ IsFiniteSet(Earlier(m))
    BY FS_Subset
  <1>3. Cardinality(Earlier(m)) <= Cardinality(Earlier(c))
    BY <1>1, <1>2, FS_Subset
  <1>4. Cardinality(Earlier(c)) < n
    BY DEF Top
  <1>5. Cardinality(Earlier(m)) \in Nat /\ Cardinality(Earlier(c)) \in Nat
    BY <1>2, FS_CardinalityType
  <1>6. Cardinality(Earlier(m)) < n
    BY <1>3, <1>4, <1>5
  <1>7. QED
    BY <1>6 DEF Top

\* A batch is whole: it holds every row of the range up to the last transaction
\* it reaches, so no transaction is cut and none is left out (Reader.Read).
LEMMA ReadBatchWhole ==
    ASSUME TypeOK, NEW lo, NEW hi,
           NEW b \in ReadBatch(lo, hi), NEW m \in Rows(lo, hi), Lsn(m) <= Lsn(b)
    PROVE  m \in ReadBatch(lo, hi)
  <1> DEFINE rows == Rows(lo, hi)
             top  == Top(BatchSize + 1, rows)
             kept == {x \in top : \E k \in top : Lsn(x) < Lsn(k)}
  <1>1. rows \subseteq Msg /\ IsFiniteSet(rows)
    <2>1. rows \subseteq Msg
      BY DEF Rows, TypeOK
    <2>2. IsFiniteSet(Rows(lo, hi))
      BY RowsFinite
    <2>3. QED
      BY <2>1, <2>2
  <1>2. BatchSize + 1 \in Nat
    BY OptionsAssumption
  <1>3. b \in rows /\ m \in rows
    BY ReadBatchSubset
  <1>4. top \subseteq rows
    BY DEF Top
  <1>5. \A x \in rows : Lsn(x) \in Int
    BY <1>1, MsgParts
  <1>6. ASSUME NEW k \in top, Lsn(m) < Lsn(k) PROVE m \in kept
    <2>1. Before(m, k)
      BY <1>6 DEF Before
    <2>2. m \in top
      BY <1>1, <1>2, <1>3, <2>1, TopIsPrefix
    <2>3. QED
      BY <1>6, <2>2
  <1>7. CASE Cardinality(rows) <= BatchSize
    BY <1>3, <1>7 DEF ReadBatch
  <1>8. CASE ~(Cardinality(rows) <= BatchSize) /\ kept # {}
    <2>1. ReadBatch(lo, hi) = kept
      BY <1>8 DEF ReadBatch
    <2>2. PICK k \in top : Lsn(b) < Lsn(k)
      BY <2>1
    <2>3. Lsn(m) < Lsn(k)
      BY <2>2, <1>3, <1>4, <1>5
    <2>4. QED
      BY <1>6, <2>1, <2>3
  <1>9. CASE ~(Cardinality(rows) <= BatchSize) /\ kept = {}
    <2>1. ReadBatch(lo, hi) = {x \in rows : \E k \in top : Lsn(x) = Lsn(k)}
      BY <1>9 DEF ReadBatch
    <2>2. PICK k \in top : Lsn(b) = Lsn(k)
      BY <2>1
    <2>3. ~(Lsn(m) < Lsn(k))
      BY <1>6, <1>9
    <2>4. Lsn(m) = Lsn(k)
      BY <2>2, <2>3, <1>3, <1>4, <1>5
    <2>5. QED
      BY <2>1, <2>4, <1>3
  <1>10. QED
    BY <1>7, <1>8, <1>9

-----------------------------------------------------------------------------
(* At-least-once                                                           *)

\* No position runs ahead of the log.
Positions ==
    /\ captured <= lastLsn /\ minLsn <= captured /\ checkpoint <= captured
    /\ \A m \in written : Lsn(m) <= lastLsn
    /\ \A w \in Workers :
          /\ start[w] <= captured /\ from[w] <= captured /\ to[w] <= captured
          /\ group[w] <= captured
          /\ \A b \in batch[w] : Lsn(b) <= captured

\* What worker w has read or begun: everything up to the group in hand, or up
\* to the last group of its batch.
Reached(w, m) == Lsn(m) <= group[w] \/ \E b \in batch[w] : Lsn(m) <= Lsn(b)

\* Between two calls of worker w, each message its position covers or its
\* reading went past is settled or still in its hands.
Accounted(w) ==
    /\ \A m \in written : Lsn(m) <= start[w] => Settled(m)
    /\ pc[w] \in {"down", "wait", "load", "bounds", "changes"} => group[w] = 0
    /\ pc[w] = "changes" =>
          \A m \in written : Lsn(m) < from[w] => Settled(m)
    /\ pc[w] \in {"get", "publish", "record", "poison", "save"} =>
          \A m \in written : Reached(w, m) => m \in batch[w] \/ Settled(m)
    /\ pc[w] = "save" => \A b \in batch[w] : Lsn(b) > group[w]

IInv ==
    /\ TypeOK
    /\ Positions
    /\ CheckpointCovers
    /\ \A w \in Workers : Accounted(w)

\* Nothing un-settles a message.
SettledStays == accepted \subseteq accepted' /\ poisoned \subseteq poisoned' /\ base <= base'

LEMMA SettledMonotone ==
    ASSUME TypeOK, TypeOK', SettledStays, NEW m \in Msg, Settled(m)
    PROVE  Settled(m)'
  <1>1. Lsn(m) \in Int /\ base \in Int /\ base' \in Int
    BY MsgParts DEF TypeOK
  <1>2. QED
    BY <1>1 DEF Settled, SettledStays, Lsn

\* A step that does not touch worker v keeps what is known about it.
LEMMA UntouchedAccounted ==
    ASSUME TypeOK, TypeOK', NEW v \in Workers, Accounted(v), SettledStays,
           written' = written, pc'[v] = pc[v], start'[v] = start[v],
           from'[v] = from[v], group'[v] = group[v], batch'[v] = batch[v]
    PROVE  Accounted(v)'
  <1>1. \A m \in written : Settled(m) => Settled(m)'
    BY SettledMonotone DEF TypeOK
  <1>2. QED
    BY <1>1 DEF Accounted, Reached, Lsn

\* A worker whose cycle is over owes nothing.
LEMMA RestingAccounted ==
    ASSUME TypeOK, TypeOK', NEW w \in Workers, pc'[w] \in {"down", "load"},
           start'[w] = 0, group'[w] = 0
    PROVE  Accounted(w)'
  <1>1. \A m \in written' : Lsn(m) >= 1 /\ Lsn(m) \in Int
    BY MsgParts DEF TypeOK
  <1>2. QED
    BY <1>1 DEF Accounted, Lsn

\* Dealing with the head of the batch keeps the account, once it is settled.
LEMMA HandledAccounted ==
    ASSUME TypeOK, TypeOK', NEW w \in Workers, Accounted(w), SettledStays,
           NEW m \in Heads(batch[w]), Settled(m)', Handled(w, m),
           pc[w] \in {"get", "publish", "poison"},
           written' = written, start'[w] = start[w]
    PROVE  Accounted(w)'
  <1>1. \A k \in written : Settled(k) => Settled(k)'
    BY SettledMonotone DEF TypeOK
  <1>2. m \in batch[w] /\ batch[w] \subseteq Msg /\ m \in Msg
    BY DEF Heads, TypeOK
  <1>3. /\ batch'[w] = batch[w] \ {m}
        /\ group'[w] = Lsn(m)
        /\ pc'[w] = IF \E k \in batch[w] \ {m} : Lsn(k) = Lsn(m) THEN "get" ELSE "save"
    BY DEF Handled, TypeOK
  <1>4. ASSUME NEW k \in written', Reached(w, k)' PROVE k \in batch'[w] \/ Settled(k)'
    <2>1. Reached(w, k)
      BY <1>2, <1>3, <1>4 DEF Reached, Lsn
    <2>2. k \in batch[w] \/ Settled(k)
      BY <2>1 DEF Accounted
    <2>3. QED
      BY <1>1, <1>3, <2>2
  <1>5. ASSUME pc'[w] = "save", NEW b \in batch'[w] PROVE Lsn(b) > group'[w]
    <2>1. Lsn(b) # Lsn(m) /\ b \in batch[w]
      BY <1>3, <1>5
    <2>2. ~Before(b, m)
      BY <2>1 DEF Heads
    <2>3. Lsn(b) \in Int /\ Lsn(m) \in Int
      BY <1>2, <2>1, MsgParts
    <2>4. QED
      BY <1>3, <2>1, <2>2, <2>3 DEF Before
  <1>6. pc'[w] \notin {"down", "wait", "load", "bounds", "changes"}
    BY <1>3
  <1>7. \A k \in written' : Lsn(k) <= start'[w] => Settled(k)'
    BY <1>1 DEF Accounted
  <1>8. QED
    BY <1>4, <1>5, <1>6, <1>7 DEF Accounted, Lsn

-----------------------------------------------------------------------------
(* No position runs ahead                                                  *)

LEMMA ServerPositions ==
    ASSUME TypeOK, Positions, ServerStep PROVE Positions'
  <1>1. ASSUME NEW n \in 0..MaxPerTx, Commit(n) PROVE Positions'
    <2>1. \A m \in written' : Lsn(m) <= lastLsn'
      <3>1. \A m \in written : Lsn(m) \in Int
        BY MsgParts DEF TypeOK
      <3>2. lastLsn \in Int
        BY DEF TypeOK
      <3>3. QED
        BY <1>1, <3>1, <3>2 DEF Positions, Commit, Lsn
    <2>2. QED
      BY <1>1, <2>1 DEF Positions, Commit, store, cycle, TypeOK, Lsn
  <1>2. ASSUME NEW l \in 1..MaxLsn, Capture(l) PROVE Positions'
    <2>1. ASSUME NEW w \in Workers
          PROVE  /\ start'[w] <= captured' /\ from'[w] <= captured' /\ to'[w] <= captured'
                 /\ group'[w] <= captured'
                 /\ \A b \in batch'[w] : Lsn(b) <= captured'
      <3>1. \A b \in batch[w] : Lsn(b) \in Int
        BY MsgParts DEF TypeOK
      <3>2. QED
        BY <1>2, <3>1 DEF Positions, Capture, store, cycle, TypeOK
    <2>2. QED
      BY <1>2, <2>1 DEF Positions, Capture, store, cycle, TypeOK, Lsn
  <1>3. ASSUME NEW l \in 1..MaxLsn, Cleanup(l) PROVE Positions'
    BY <1>3 DEF Positions, Cleanup, store, cycle, TypeOK, Lsn
  <1>4. QED
    BY <1>1, <1>2, <1>3 DEF ServerStep

LEMMA EndCyclePositions ==
    ASSUME TypeOK, Positions, NEW w \in Workers, NEW f, EndCycle(w, f),
           UNCHANGED server, checkpoint' <= captured
    PROVE  Positions'
  BY DEF Positions, EndCycle, server, TypeOK, Lsn

LEMMA HandledPositions ==
    ASSUME TypeOK, Positions, NEW w \in Workers, NEW m \in batch[w], Handled(w, m),
           UNCHANGED <<server, checkpoint, start, from, to>>
    PROVE  Positions'
  BY DEF Positions, Handled, server, TypeOK, Lsn

LEMMA WorkerPositions ==
    ASSUME TypeOK, Positions, NEW w \in Workers, WorkerStep(w) \/ CallFails(w) \/ Stop(w)
    PROVE  Positions'
  <1>1. CASE Start(w) \/ BecomeReady(w)
    BY <1>1 DEF Start, BecomeReady, Positions, server, store, cycle, Lsn
  <1>2. CASE Load(w)
    BY <1>2 DEF Load, Positions, server, store, TypeOK, Lsn
  <1>3. CASE ReadBounds(w)
    BY <1>3 DEF ReadBounds, Positions, server, store, TypeOK, Lsn
  <1>4. CASE ReadRefused(w) \/ CallFails(w)
    <2>1. \E f \in 0..UnhealthyAfter : EndCycle(w, f)
      BY <1>4, FailCycleEnds DEF ReadRefused, CallFails
    <2>2. UNCHANGED <<server, store>>
      BY <1>4 DEF ReadRefused, CallFails
    <2>3. QED
      BY <2>1, <2>2, EndCyclePositions DEF store, Positions
  <1>5. CASE ReadChanges(w)
    <2>1. CASE EndCycle(w, 0)
      BY <1>5, <2>1, EndCyclePositions DEF ReadChanges, store, Positions
    <2>2. CASE ~EndCycle(w, 0)
      <3>1. \A b \in ReadBatch(from[w], to[w]) : Lsn(b) <= to[w] /\ Lsn(b) \in Int
        BY ReadBatchSubset, MsgParts DEF Rows, TypeOK
      <3>2. \A b \in ReadBatch(from[w], to[w]) : Lsn(b) <= captured
        BY <3>1 DEF Positions, TypeOK
      <3>3. QED
        BY <1>5, <2>2, <3>2 DEF ReadChanges, Positions, server, store, TypeOK, Lsn
    <2>3. QED
      BY <2>1, <2>2
  <1>6. CASE GetFailure(w)
    <2>1. PICK m \in Heads(batch[w]) :
              Handled(w, m) \/ UNCHANGED <<batch, group>>
      BY <1>6 DEF GetFailure
    <2>2. CASE Handled(w, m)
      BY <1>6, <2>1, <2>2, HandledPositions DEF GetFailure, Heads, store
    <2>3. CASE UNCHANGED <<batch, group>>
      BY <1>6, <2>3 DEF GetFailure, Positions, server, store, Lsn
    <2>4. QED
      BY <2>1, <2>2, <2>3
  <1>7. CASE PublishAccepted(w)
    BY <1>7, HandledPositions DEF PublishAccepted, Heads, store
  <1>8. CASE PublishFailed(w)
    BY <1>8 DEF PublishFailed, Positions, server, store, cycle, Lsn
  <1>9. CASE RecordFailure(w)
    <2>1. CASE FailCycle(w)
      <3>1. \E f \in 0..UnhealthyAfter : EndCycle(w, f)
        BY <2>1, FailCycleEnds
      <3>2. QED
        BY <1>9, <3>1, EndCyclePositions DEF RecordFailure, Positions
    <2>2. CASE ~FailCycle(w)
      BY <1>9, <2>2 DEF RecordFailure, Positions, server, cycle, Lsn
    <2>3. QED
      BY <2>1, <2>2
  <1>10. CASE MarkPoisoned(w)
    BY <1>10, HandledPositions DEF MarkPoisoned, Heads
  <1>11. CASE Save(w)
    <2>1. checkpoint' <= captured
      BY <1>11 DEF Save, Positions
    <2>2. CASE EndCycle(w, 0)
      BY <1>11, <2>1, <2>2, EndCyclePositions DEF Save
    <2>3. CASE ~EndCycle(w, 0)
      BY <1>11, <2>1, <2>3 DEF Save, Positions, server, cycle, Lsn
    <2>4. QED
      BY <2>2, <2>3
  <1>12. CASE Stop(w)
    BY <1>12 DEF Stop, Positions, server, store, TypeOK, Lsn
  <1>13. QED
    BY <1>1, <1>2, <1>3, <1>4, <1>5, <1>6, <1>7, <1>8, <1>9, <1>10, <1>11, <1>12
       DEF WorkerStep

-----------------------------------------------------------------------------
(* The invariant is inductive                                              *)

LEMMA InitInv == Init => IInv
  <1> SUFFICES ASSUME Init PROVE IInv
    OBVIOUS
  <1>1. TypeOK
    BY InitType
  <1>2. Positions /\ CheckpointCovers
    BY DEF Init, Positions, CheckpointCovers
  <1>3. \A w \in Workers : Accounted(w)
    BY DEF Init, Accounted
  <1>4. QED
    BY <1>1, <1>2, <1>3 DEF IInv

LEMMA ServerInv == ASSUME IInv, TypeOK', ServerStep PROVE IInv'
  <1> USE DEF IInv
  <1>1. Positions'
    BY ServerPositions
  <1>2. UNCHANGED <<store, accepted, pc, cycle, streak, faults, base>>
    BY DEF ServerStep, Commit, Capture, Cleanup
  <1>3. \A m \in written' \ written : Lsn(m) = lastLsn + 1
    BY DEF ServerStep, Commit, Capture, Cleanup, Lsn
  <1>4. \A m \in written : Settled(m) <=> Settled(m)'
    BY <1>2 DEF Settled, store, Lsn
  <1>5. CheckpointCovers'
    BY <1>2, <1>3, <1>4 DEF CheckpointCovers, Positions, TypeOK, store, Lsn
  <1>6. ASSUME NEW w \in Workers PROVE Accounted(w)'
    <2>1. UNCHANGED <<pc[w], start[w], from[w], group[w], batch[w]>>
      BY <1>2 DEF cycle
    <2>2. ASSUME NEW m \in written' \ written
          PROVE  /\ ~(Lsn(m) <= start[w]) /\ ~(Lsn(m) < from[w]) /\ ~Reached(w, m)
      <3>1. \A b \in batch[w] : Lsn(b) \in Int /\ Lsn(b) <= captured
        BY MsgParts DEF TypeOK, Positions
      <3>2. /\ start[w] <= captured /\ from[w] <= captured /\ group[w] <= captured
            /\ captured <= lastLsn
            /\ start[w] \in Int /\ from[w] \in Int /\ group[w] \in Int
            /\ captured \in Int /\ lastLsn \in Int
        BY DEF Positions, TypeOK
      <3>3. QED
        BY <1>3, <2>2, <3>1, <3>2 DEF Reached
    <2>3. Accounted(w)
      OBVIOUS
    <2>4. QED
      BY <1>4, <2>1, <2>2, <2>3 DEF Accounted, Reached, Lsn
  <1>7. QED
    BY <1>1, <1>5, <1>6

\* A step of a worker that leaves the stored position alone keeps it covering
\* settled messages only.
LEMMA CoversStays ==
    ASSUME TypeOK, TypeOK', CheckpointCovers, SettledStays,
           written' = written, checkpoint' = checkpoint
    PROVE  CheckpointCovers'
  BY SettledMonotone DEF CheckpointCovers, TypeOK, Lsn

LEMMA StepSettledStays ==
    ASSUME TypeOK, NEW w \in Workers, WorkerStep(w) \/ CallFails(w) \/ Stop(w)
    PROVE  SettledStays
  <1>1. /\ accepted \subseteq accepted' /\ poisoned \subseteq poisoned'
    BY DEF WorkerStep, Start, BecomeReady, Load, ReadBounds, ReadRefused, ReadChanges,
           GetFailure, PublishAccepted, PublishFailed, RecordFailure, MarkPoisoned, Save,
           CallFails, Stop, server, store, cycle
  <1>2. base <= base'
    BY DEF WorkerStep, Start, BecomeReady, Load, ReadBounds, ReadRefused, ReadChanges,
           GetFailure, PublishAccepted, PublishFailed, RecordFailure, MarkPoisoned, Save,
           CallFails, Stop, server, store, cycle, TypeOK
  <1>3. QED
    BY <1>1, <1>2 DEF SettledStays

\* A step of worker w leaves the memory of the others, and the outbox, alone.
LEMMA StepIsLocal ==
    ASSUME TypeOK, NEW w \in Workers, WorkerStep(w) \/ CallFails(w) \/ Stop(w),
           NEW v \in Workers, v # w
    PROVE  /\ pc'[v] = pc[v] /\ start'[v] = start[v] /\ from'[v] = from[v]
           /\ group'[v] = group[v] /\ batch'[v] = batch[v]
  BY DEF WorkerStep, Start, BecomeReady, Load, ReadBounds, ReadRefused, ReadChanges,
         GetFailure, PublishAccepted, PublishFailed, RecordFailure, MarkPoisoned, Save,
         CallFails, Stop, EndCycle, FailCycle, Handled, server, store, cycle, TypeOK

LEMMA StepWritesNothing ==
    ASSUME NEW w \in Workers, WorkerStep(w) \/ CallFails(w) \/ Stop(w)
    PROVE  written' = written /\ (checkpoint' = checkpoint \/ Save(w))
  BY DEF WorkerStep, Start, BecomeReady, Load, ReadBounds, ReadRefused, ReadChanges,
         GetFailure, PublishAccepted, PublishFailed, RecordFailure, MarkPoisoned,
         CallFails, Stop, Save, server, store

\* What each step of worker w itself leaves w accountable for.
LEMMA OwnAccounted ==
    ASSUME IInv, TypeOK', SettledStays, NEW w \in Workers,
           WorkerStep(w) \/ CallFails(w) \/ Stop(w)
    PROVE  Accounted(w)'
  <1> USE DEF IInv
  <1>0. Accounted(w) /\ written' = written
    BY StepWritesNothing
  <1>1. \A m \in written : Settled(m) => Settled(m)'
    BY SettledMonotone DEF TypeOK
  <1>2. CASE Start(w) \/ BecomeReady(w)
    BY <1>0, <1>1, <1>2 DEF Start, BecomeReady, Accounted, Reached, TypeOK, cycle, server, Lsn
  <1>3. CASE Load(w)
    <2>1. /\ start'[w] = checkpoint /\ pc'[w] = "bounds" /\ pc[w] = "load"
          /\ group'[w] = group[w]
      BY <1>3 DEF Load, TypeOK
    <2>2. QED
      BY <1>0, <1>1, <2>1 DEF Accounted, CheckpointCovers, Lsn
  <1>4. CASE ReadBounds(w)
    <2>1. CASE pc'[w] = "load"
      <3>1. start'[w] = 0 /\ group'[w] = 0
        BY <1>0, <1>4, <2>1 DEF ReadBounds, Accounted, TypeOK
      <3>2. QED
        BY <2>1, <3>1, RestingAccounted
    <2>2. CASE pc'[w] = "changes"
      <3>1. /\ start'[w] = start[w] /\ group'[w] = group[w] /\ pc[w] = "bounds"
            /\ from'[w] = IF start[w] = 0 THEN minLsn ELSE start[w] + 1
            /\ start[w] = 0 => from'[w] <= base'
        BY <1>4, <2>2 DEF ReadBounds, TypeOK
      <3>2. ASSUME NEW m \in written, Lsn(m) < from'[w] PROVE Settled(m)'
        <4>1. Lsn(m) \in Int /\ from'[w] \in Int /\ base' \in Int /\ start[w] \in Int
          BY MsgParts DEF TypeOK
        <4>2. CASE start[w] = 0
          BY <3>1, <3>2, <4>1, <4>2 DEF Settled, Lsn
        <4>3. CASE start[w] # 0
          <5>1. Lsn(m) <= start[w]
            BY <3>1, <3>2, <4>1, <4>3
          <5>2. QED
            BY <1>0, <1>1, <5>1 DEF Accounted
        <4>4. QED
          BY <4>2, <4>3
      <3>3. QED
        BY <1>0, <1>1, <2>2, <3>1, <3>2 DEF Accounted, Lsn
    <2>3. QED
      BY <1>4, <2>1, <2>2 DEF ReadBounds, TypeOK
  <1>5. CASE ReadRefused(w) \/ CallFails(w) \/ Stop(w)
    BY <1>5, RestingAccounted
       DEF ReadRefused, CallFails, Stop, FailCycle, EndCycle, TypeOK
  <1>6. CASE ReadChanges(w)
    <2>1. CASE EndCycle(w, 0)
      BY <2>1, RestingAccounted DEF EndCycle, TypeOK
    <2>2. CASE ~EndCycle(w, 0)
      <3>1. /\ batch'[w] = ReadBatch(from[w], to[w])
            /\ pc'[w] = "get" /\ pc[w] = "changes"
            /\ start'[w] = start[w] /\ group'[w] = group[w]
        BY <1>6, <2>2 DEF ReadChanges, TypeOK
      <3>2. ASSUME NEW m \in written, Reached(w, m)' PROVE m \in batch'[w] \/ Settled(m)'
        <4>1. CASE Lsn(m) < from[w]
          BY <1>0, <1>1, <3>1, <4>1 DEF Accounted
        <4>2. CASE ~(Lsn(m) < from[w]) /\ \E b \in batch'[w] : Lsn(m) <= Lsn(b)
          <5>1. PICK b \in ReadBatch(from[w], to[w]) : Lsn(m) <= Lsn(b)
            BY <3>1, <4>2
          <5>2. /\ b \in Rows(from[w], to[w])
                /\ Lsn(m) \in Int /\ Lsn(b) \in Int /\ from[w] \in Int /\ to[w] \in Int
            BY <5>1, ReadBatchSubset, MsgParts DEF Rows, TypeOK
          <5>3. m \in Rows(from[w], to[w])
            BY <4>2, <5>1, <5>2 DEF Rows
          <5>4. QED
            BY <3>1, <5>1, <5>3, ReadBatchWhole
        <4>3. CASE ~(Lsn(m) < from[w]) /\ Lsn(m) <= group[w]
          <5>1. group[w] = 0
            BY <1>0, <3>1 DEF Accounted
          <5>2. Lsn(m) \in 1..MaxLsn
            BY MsgParts DEF TypeOK
          <5>3. QED
            BY <4>3, <5>1, <5>2
        <4>4. QED
          BY <3>1, <3>2, <4>1, <4>2, <4>3 DEF Reached, Lsn
      <3>3. QED
        BY <1>0, <1>1, <3>1, <3>2 DEF Accounted, Lsn
    <2>3. QED
      BY <2>1, <2>2
  <1>7. CASE GetFailure(w)
    <2>1. PICK m \in Heads(batch[w]) :
              \/ m \in poisoned /\ Handled(w, m)
              \/ pc' = [pc EXCEPT ![w] = "publish"] /\ UNCHANGED <<batch, group>>
      BY <1>7 DEF GetFailure
    <2>2. pc[w] = "get" /\ poisoned' = poisoned /\ start' = start /\ from' = from
      BY <1>7 DEF GetFailure, store
    <2>3. CASE m \in poisoned /\ Handled(w, m)
      <3>1. Settled(m)'
        BY <2>2, <2>3 DEF Settled
      <3>2. QED
        BY <1>0, <2>2, <2>3, <3>1, HandledAccounted
    <2>4. CASE pc' = [pc EXCEPT ![w] = "publish"] /\ UNCHANGED <<batch, group>>
      BY <1>0, <1>1, <2>2, <2>4 DEF Accounted, Reached, TypeOK, Lsn
    <2>5. QED
      BY <2>1, <2>3, <2>4
  <1>8. CASE PublishAccepted(w)
    <2>1. PICK m \in Heads(batch[w]) : accepted' = accepted \union {m} /\ Handled(w, m)
      BY <1>8 DEF PublishAccepted
    <2>2. Settled(m)'
      BY <2>1 DEF Settled
    <2>3. QED
      BY <1>0, <1>8, <2>1, <2>2, HandledAccounted DEF PublishAccepted
  <1>9. CASE PublishFailed(w)
    BY <1>0, <1>1, <1>9 DEF PublishFailed, Accounted, Reached, TypeOK, cycle, Lsn
  <1>10. CASE RecordFailure(w)
    <2>1. CASE FailCycle(w)
      BY <2>1, RestingAccounted DEF FailCycle, EndCycle, TypeOK
    <2>2. CASE ~FailCycle(w)
      BY <1>0, <1>1, <1>10, <2>2 DEF RecordFailure, Accounted, Reached, TypeOK, cycle, Lsn
    <2>3. QED
      BY <2>1, <2>2
  <1>11. CASE MarkPoisoned(w)
    <2>1. PICK m \in Heads(batch[w]) : poisoned' = poisoned \union {m} /\ Handled(w, m)
      BY <1>11 DEF MarkPoisoned
    <2>2. Settled(m)'
      BY <2>1 DEF Settled
    <2>3. QED
      BY <1>0, <1>11, <2>1, <2>2, HandledAccounted DEF MarkPoisoned
  <1>12. CASE Save(w)
    <2>1. CASE EndCycle(w, 0)
      BY <2>1, RestingAccounted DEF EndCycle, TypeOK
    <2>2. CASE ~EndCycle(w, 0)
      BY <1>0, <1>1, <1>12, <2>2 DEF Save, Accounted, Reached, TypeOK, cycle, Lsn
    <2>3. QED
      BY <2>1, <2>2
  <1>13. QED
    BY <1>2, <1>3, <1>4, <1>5, <1>6, <1>7, <1>8, <1>9, <1>10, <1>11, <1>12
       DEF WorkerStep

LEMMA StepCovers ==
    ASSUME IInv, TypeOK', SettledStays, NEW w \in Workers,
           WorkerStep(w) \/ CallFails(w) \/ Stop(w)
    PROVE  CheckpointCovers'
  <1>1. CASE checkpoint' = checkpoint
    BY <1>1, StepWritesNothing, CoversStays DEF IInv
  <1>2. CASE Save(w)
    <2>1. checkpoint' = group[w] /\ pc[w] = "save" /\ written' = written
      BY <1>2, StepWritesNothing DEF Save
    <2>2. ASSUME NEW m \in written, Lsn(m) <= group[w] PROVE Settled(m)'
      <3>1. m \in batch[w] \/ Settled(m)
        BY <2>1, <2>2 DEF IInv, Accounted, Reached
      <3>2. m \in Msg /\ Lsn(m) \in Int /\ group[w] \in Int
        BY MsgParts DEF IInv, TypeOK
      <3>3. m \notin batch[w]
        BY <2>1, <2>2, <3>2 DEF IInv, Accounted
      <3>4. QED
        BY <3>1, <3>2, <3>3, SettledMonotone DEF IInv
    <2>3. QED
      BY <2>1, <2>2 DEF CheckpointCovers, Lsn
  <1>3. QED
    BY <1>1, <1>2, StepWritesNothing

LEMMA NextInv == IInv /\ [Next]_vars => IInv'
  <1> SUFFICES ASSUME IInv, [Next]_vars PROVE IInv'
    OBVIOUS
  <1>1. TypeOK'
    BY NextType DEF IInv
  <1>2. CASE ServerStep
    BY <1>1, <1>2, ServerInv
  <1>3. ASSUME NEW w \in Workers, WorkerStep(w) \/ CallFails(w) \/ Stop(w) PROVE IInv'
    <2>1. SettledStays
      BY <1>3, StepSettledStays DEF IInv
    <2>2. Positions' /\ CheckpointCovers'
      BY <1>1, <1>3, <2>1, WorkerPositions, StepCovers DEF IInv
    <2>3. ASSUME NEW v \in Workers PROVE Accounted(v)'
      <3>1. CASE v = w
        BY <1>1, <1>3, <2>1, <3>1, OwnAccounted
      <3>2. CASE v # w
        BY <1>1, <1>3, <2>1, <3>2, StepIsLocal, StepWritesNothing, UntouchedAccounted DEF IInv
      <3>3. QED
        BY <3>1, <3>2
    <2>4. QED
      BY <1>1, <2>2, <2>3 DEF IInv
  <1>4. CASE UNCHANGED vars
    BY <1>4 DEF vars, server, store, cycle, IInv, TypeOK, Positions, CheckpointCovers,
                Accounted, Reached, Settled, Lsn
  <1>5. QED
    BY <1>2, <1>3, <1>4 DEF Next

\* The inductive invariant holds at every step: besides the property itself, each
\* worker accounts for what its reading has gone past.
THEOREM OutboxInvariant == Spec => []IInv
  <1>1. IInv /\ [Next]_vars => IInv'
    BY NextInv
  <1>2. QED
    BY InitInv, <1>1, PTL DEF Spec

\* At-least-once for any number of workers on one checkpoint row, any crash and
\* any failed call: the stored position covers settled messages only
\* (Processor.ProcessOnce saves after the whole group, Reader.Read cuts nothing).
THEOREM OutboxAtLeastOnce == Spec => []CheckpointCovers
  <1>1. IInv => CheckpointCovers
    BY DEF IInv
  <1>2. QED
    BY <1>1, OutboxInvariant, PTL

\* Messages leave in commit order, whatever was retried, given up on or read
\* twice (the cycle stops at the first message it could not settle).
THEOREM OutboxInOrder == Spec => InOrder
  <1>1. IInv /\ [Next]_vars =>
          [\A m \in accepted' \ accepted :
              \A k \in written : Before(k, m) => Settled(k)]_vars
    <2> SUFFICES ASSUME IInv, Next, NEW m \in accepted' \ accepted,
                        NEW k \in written, Before(k, m)
                 PROVE  Settled(k)
      OBVIOUS
    <2>1. PICK w \in Workers : PublishAccepted(w) \/ PublishFailed(w)
      BY DEF Next, ServerStep, Commit, Capture, Cleanup, WorkerStep, Start, BecomeReady,
             Load, ReadBounds, ReadRefused, ReadChanges, GetFailure, RecordFailure,
             MarkPoisoned, Save, CallFails, Stop
    <2>2. m \in Heads(batch[w]) /\ pc[w] = "publish"
      BY <2>1 DEF PublishAccepted, PublishFailed
    <2>3. m \in batch[w] /\ k \notin batch[w]
      BY <2>2 DEF Heads
    <2>4. m \in Msg /\ k \in Msg /\ Lsn(m) \in Int /\ Lsn(k) \in Int
      BY <2>3, MsgParts DEF IInv, TypeOK
    <2>5. Lsn(k) <= Lsn(m)
      BY <2>4 DEF Before
    <2>6. QED
      BY <2>2, <2>3, <2>5 DEF IInv, Accounted, Reached
  <1>2. QED
    BY <1>1, OutboxInvariant, PTL DEF Spec, InOrder

-----------------------------------------------------------------------------
(* Retries end                                                             *)

\* The workers that may still have a refusal of m to count, and those that counted
\* the last one and are about to give up on m.
Refusing(m) == {w \in Workers : pc[w] \in {"publish", "record"} /\ m \in Heads(batch[w])}

GivingUp(m) == {w \in Workers : pc[w] = "poison" /\ m \in Heads(batch[w])}

\* Every refusal from the limit on has a worker that is about to give up or was
\* prevented from it; after that only those already past failures.Get count.
Counted(m) ==
    /\ m \notin poisoned =>
          attempts[m] < MaxAttempts + Cardinality(GivingUp(m)) + faults
    /\ m \in poisoned =>
          attempts[m] + Cardinality(Refusing(m))
              < MaxAttempts + Cardinality(Workers) + faults

LEMMA HeadIsOne ==
    ASSUME TypeOK, NEW w \in Workers, NEW m \in Heads(batch[w]), NEW k \in Heads(batch[w])
    PROVE  m = k
  <1>1. m \in Msg /\ k \in Msg /\ m \in batch[w] /\ k \in batch[w]
    BY DEF TypeOK, Heads
  <1>2. /\ m[1] \in Int /\ m[2] \in Int /\ k[1] \in Int /\ k[2] \in Int
        /\ m = <<m[1], m[2]>> /\ k = <<k[1], k[2]>>
    BY <1>1, BoundsAssumption DEF Msg
  <1>3. ~Before(m, k) /\ ~Before(k, m)
    BY <1>1 DEF Heads
  <1>4. m[1] = k[1] /\ m[2] = k[2]
    BY <1>2, <1>3 DEF Before, Lsn
  <1>5. QED
    BY <1>2, <1>4

LEMMA CountsFinite ==
    ASSUME NEW m
    PROVE  /\ IsFiniteSet(Refusing(m)) /\ Cardinality(Refusing(m)) \in Nat
           /\ IsFiniteSet(GivingUp(m)) /\ Cardinality(GivingUp(m)) \in Nat
           /\ Cardinality(Workers) \in Nat
           /\ Cardinality(Refusing(m)) + Cardinality(GivingUp(m)) <= Cardinality(Workers)
  <1>1. /\ Refusing(m) \subseteq Workers /\ GivingUp(m) \subseteq Workers
        /\ Refusing(m) \union GivingUp(m) \subseteq Workers
        /\ Refusing(m) \intersect GivingUp(m) = {}
    BY DEF Refusing, GivingUp
  <1>2. /\ IsFiniteSet(Refusing(m)) /\ IsFiniteSet(GivingUp(m))
        /\ Cardinality(Refusing(m) \union GivingUp(m)) <= Cardinality(Workers)
    BY <1>1, WorkersAssumption, FS_Subset
  <1>3. /\ Cardinality(Refusing(m)) \in Nat /\ Cardinality(GivingUp(m)) \in Nat
        /\ Cardinality(Workers) \in Nat
    BY <1>2, WorkersAssumption, FS_CardinalityType
  <1>4. Cardinality(Refusing(m) \union GivingUp(m))
            = Cardinality(Refusing(m)) + Cardinality(GivingUp(m))
              - Cardinality(Refusing(m) \intersect GivingUp(m))
    BY <1>2, FS_Union
  <1>5. Cardinality(Refusing(m) \intersect GivingUp(m)) = 0
    BY <1>1, FS_EmptySet
  <1>6. QED
    BY <1>2, <1>3, <1>4, <1>5

\* Nothing is counted, and nobody about to give up is lost but to a failure.
LEMMA CountedKept ==
    ASSUME TypeOK, TypeOK', NEW m \in Msg, Counted(m), attempts'[m] = attempts[m],
           m \in poisoned' <=> m \in poisoned,
           m \in poisoned => Refusing(m)' \subseteq Refusing(m),
           NEW w \in Workers,
           \/ faults' = faults /\ GivingUp(m) \subseteq GivingUp(m)'
           \/ faults' = faults + 1 /\ GivingUp(m) \ {w} \subseteq GivingUp(m)'
    PROVE  Counted(m)'
  <1>1. attempts[m] \in Nat /\ faults \in Nat /\ MaxAttempts \in Nat
    BY OptionsAssumption, BoundsAssumption DEF TypeOK
  <1>2. /\ IsFiniteSet(GivingUp(m)') /\ Cardinality(GivingUp(m)') \in Nat
        /\ Cardinality(Refusing(m)') \in Nat
    <2>1. Refusing(m)' \subseteq Workers /\ GivingUp(m)' \subseteq Workers
      BY DEF Refusing, GivingUp
    <2>2. QED
      BY <2>1, WorkersAssumption, FS_Subset, FS_CardinalityType
  <1>3. CASE m \in poisoned
    <2>1. Cardinality(Refusing(m)') <= Cardinality(Refusing(m))
      BY <1>3, CountsFinite, FS_Subset
    <2>2. QED
      BY <1>1, <1>2, <1>3, <2>1, CountsFinite DEF Counted
  <1>4. CASE m \notin poisoned
    <2>1. Cardinality(GivingUp(m)) + faults <= Cardinality(GivingUp(m)') + faults'
      <3>1. CASE faults' = faults /\ GivingUp(m) \subseteq GivingUp(m)'
        <4>1. Cardinality(GivingUp(m)) <= Cardinality(GivingUp(m)')
          BY <1>2, <3>1, FS_Subset
        <4>2. QED
          BY <1>1, <1>2, <3>1, <4>1, CountsFinite
      <3>2. CASE faults' = faults + 1 /\ GivingUp(m) \ {w} \subseteq GivingUp(m)'
        <4>1. Cardinality(GivingUp(m) \ {w}) <= Cardinality(GivingUp(m)')
          BY <1>2, <3>2, FS_Subset
        <4>2. Cardinality(GivingUp(m)) <= Cardinality(GivingUp(m) \ {w}) + 1
          <5>1. CASE w \in GivingUp(m)
            <6>1. Cardinality(GivingUp(m) \ {w}) = Cardinality(GivingUp(m)) - 1
              BY <5>1, CountsFinite, FS_RemoveElement
            <6>2. QED
              BY <6>1, CountsFinite
          <5>2. CASE w \notin GivingUp(m)
            <6>1. GivingUp(m) \ {w} = GivingUp(m)
              BY <5>2
            <6>2. Cardinality(GivingUp(m) \ {w}) = Cardinality(GivingUp(m))
              BY <6>1, Zenon
            <6>3. QED
              BY <6>2, CountsFinite
          <5>3. QED
            BY <5>1, <5>2
        <4>3. Cardinality(GivingUp(m) \ {w}) \in Nat
          BY CountsFinite, FS_RemoveElement, FS_Subset, FS_CardinalityType
        <4>4. QED
          BY <1>1, <1>2, <3>2, <4>1, <4>2, <4>3, CountsFinite
      <3>3. QED
        BY <3>1, <3>2
    <2>2. QED
      BY <1>1, <1>2, <1>4, <2>1, CountsFinite DEF Counted
  <1>5. QED
    BY <1>3, <1>4

LEMMA RecordCounted ==
    ASSUME TypeOK, TypeOK', NEW w \in Workers, RecordFailure(w), NEW m \in Msg, Counted(m)
    PROVE  Counted(m)'
  <1>1. PICK k \in Heads(batch[w]) :
            /\ attempts' = [attempts EXCEPT ![k] = @ + 1]
            /\ \/ /\ attempts[k] + 1 >= MaxAttempts
                  /\ pc' = [pc EXCEPT ![w] = "poison"]
                  /\ UNCHANGED <<cycle, streak>>
               \/ attempts[k] + 1 < MaxAttempts /\ FailCycle(w)
    BY DEF RecordFailure
  <1>2. \A v \in Workers : v # w => pc'[v] = pc[v] /\ batch'[v] = batch[v]
    BY StepIsLocal DEF WorkerStep
  <1>3. pc[w] = "record" /\ poisoned' = poisoned /\ faults' = faults
    BY DEF RecordFailure
  <1>4. pc'[w] = "load" \/ (pc'[w] = "poison" /\ batch'[w] = batch[w])
    BY <1>1 DEF FailCycle, EndCycle, cycle, TypeOK
  <1>5. Refusing(m)' \subseteq Refusing(m) \ {w} /\ GivingUp(m) \subseteq GivingUp(m)'
    BY <1>2, <1>3, <1>4 DEF Refusing, GivingUp
  <1>6. CASE k # m
    <2>1. attempts'[m] = attempts[m]
      BY <1>1, <1>6 DEF TypeOK
    <2>2. QED
      BY <1>3, <1>5, <2>1, CountedKept
  <1>7. CASE k = m
    <2>1. w \in Refusing(m) /\ w \notin GivingUp(m)
      BY <1>1, <1>3, <1>7 DEF Refusing, GivingUp
    <2>2. attempts'[m] = attempts[m] + 1
      BY <1>1, <1>7 DEF TypeOK
    <2>3. attempts[m] \in Nat /\ faults \in Nat /\ MaxAttempts \in Nat
      BY OptionsAssumption, BoundsAssumption DEF TypeOK
    <2>4. /\ Refusing(m)' \subseteq Workers /\ GivingUp(m)' \subseteq Workers
          /\ IsFiniteSet(GivingUp(m)')
          /\ Cardinality(Refusing(m)') \in Nat /\ Cardinality(GivingUp(m)') \in Nat
      <3>1. Refusing(m)' \subseteq Workers /\ GivingUp(m)' \subseteq Workers
        BY DEF Refusing, GivingUp
      <3>2. QED
        BY <3>1, WorkersAssumption, FS_Subset, FS_CardinalityType
    <2>5. CASE m \in poisoned
      <3>1. Cardinality(Refusing(m) \ {w}) = Cardinality(Refusing(m)) - 1
        BY <2>1, CountsFinite, FS_RemoveElement
      <3>2. Cardinality(Refusing(m)') <= Cardinality(Refusing(m) \ {w})
        BY <1>5, CountsFinite, FS_RemoveElement, FS_Subset
      <3>3. QED
        BY <1>3, <2>2, <2>3, <2>4, <2>5, <3>1, <3>2, CountsFinite DEF Counted
    <2>6. CASE m \notin poisoned /\ attempts[m] + 1 < MaxAttempts
      BY <1>3, <2>2, <2>3, <2>4, <2>6 DEF Counted
    <2>7. CASE m \notin poisoned /\ ~(attempts[m] + 1 < MaxAttempts)
      <3>1. w \in GivingUp(m)'
        BY <1>1, <1>7, <2>7 DEF GivingUp, cycle, TypeOK
      <3>2. GivingUp(m) \union {w} \subseteq GivingUp(m)'
        BY <1>5, <3>1
      <3>3. Cardinality(GivingUp(m) \union {w}) = Cardinality(GivingUp(m)) + 1
        BY <2>1, CountsFinite, FS_AddElement
      <3>4. Cardinality(GivingUp(m) \union {w}) <= Cardinality(GivingUp(m)')
        BY <2>4, <3>2, FS_Subset
      <3>5. QED
        BY <1>3, <2>2, <2>3, <2>4, <2>7, <3>3, <3>4, CountsFinite DEF Counted
    <2>8. QED
      BY <2>5, <2>6, <2>7
  <1>8. QED
    BY <1>6, <1>7

LEMMA PoisonCounted ==
    ASSUME TypeOK, TypeOK', NEW w \in Workers, MarkPoisoned(w), NEW m \in Msg, Counted(m)
    PROVE  Counted(m)'
  <1>1. PICK k \in Heads(batch[w]) : poisoned' = poisoned \union {k} /\ Handled(w, k)
    BY DEF MarkPoisoned
  <1>2. \A v \in Workers : v # w => pc'[v] = pc[v] /\ batch'[v] = batch[v]
    BY StepIsLocal DEF WorkerStep
  <1>3. /\ pc[w] = "poison" /\ attempts' = attempts /\ faults' = faults
        /\ pc'[w] \in {"get", "save"}
    BY <1>1 DEF MarkPoisoned, Handled, TypeOK
  <1>4. Refusing(m)' \subseteq Refusing(m)
    BY <1>2, <1>3 DEF Refusing
  <1>5. CASE k # m
    <2>1. w \notin GivingUp(m)
      BY <1>1, <1>5, HeadIsOne DEF GivingUp
    <2>2. GivingUp(m) \subseteq GivingUp(m)'
      BY <1>2, <2>1 DEF GivingUp
    <2>3. QED
      BY <1>1, <1>3, <1>4, <1>5, <2>2, CountedKept
  <1>6. CASE k = m
    <2>1. attempts[m] \in Nat /\ faults \in Nat /\ MaxAttempts \in Nat
      BY OptionsAssumption, BoundsAssumption DEF TypeOK
    <2>2. /\ Cardinality(Refusing(m)') \in Nat
          /\ Cardinality(Refusing(m)') <= Cardinality(Refusing(m))
      BY <1>4, CountsFinite, FS_Subset, FS_CardinalityType
    <2>3. m \in poisoned'
      BY <1>1, <1>6
    <2>4. QED
      BY <1>3, <2>1, <2>2, <2>3, CountsFinite DEF Counted
  <1>7. QED
    BY <1>5, <1>6

LEMMA FailureCounted ==
    ASSUME TypeOK, TypeOK', NEW w \in Workers, CallFails(w) \/ Stop(w),
           NEW m \in Msg, Counted(m)
    PROVE  Counted(m)'
  <1>1. \A v \in Workers : v # w => pc'[v] = pc[v] /\ batch'[v] = batch[v]
    BY StepIsLocal
  <1>2. /\ attempts' = attempts /\ poisoned' = poisoned /\ faults' = faults + 1
        /\ pc'[w] \in {"load", "down"}
    BY DEF CallFails, Stop, FailCycle, EndCycle, store, TypeOK
  <1>3. Refusing(m)' \subseteq Refusing(m) /\ GivingUp(m) \ {w} \subseteq GivingUp(m)'
    BY <1>1, <1>2 DEF Refusing, GivingUp
  <1>4. QED
    BY <1>2, <1>3, CountedKept

LEMMA StepCounted ==
    ASSUME TypeOK, TypeOK', NEW w \in Workers, WorkerStep(w), NEW m \in Msg, Counted(m)
    PROVE  Counted(m)'
  <1>1. CASE RecordFailure(w) \/ MarkPoisoned(w)
    BY <1>1, RecordCounted, PoisonCounted
  <1>2. CASE ~(RecordFailure(w) \/ MarkPoisoned(w))
    <2>1. \A v \in Workers : v # w => pc'[v] = pc[v] /\ batch'[v] = batch[v]
      BY StepIsLocal
    <2>2. /\ attempts' = attempts /\ poisoned' = poisoned /\ faults' = faults
          /\ pc[w] # "poison"
      BY <1>2 DEF WorkerStep, Start, BecomeReady, Load, ReadBounds, ReadRefused, ReadChanges,
             GetFailure, PublishAccepted, PublishFailed, Save, store
    <2>3. GivingUp(m) \subseteq GivingUp(m)'
      BY <2>1, <2>2 DEF GivingUp
    <2>4. ASSUME m \in poisoned, pc'[w] \in {"publish", "record"}, m \in Heads(batch'[w])
          PROVE  w \in Refusing(m)
      <3>1. CASE PublishFailed(w)
        BY <2>4, <3>1 DEF PublishFailed, Refusing, cycle
      <3>2. CASE GetFailure(w)
        <4>1. PICK k \in Heads(batch[w]) : k \notin poisoned /\ batch' = batch
          BY <2>4, <3>2 DEF GetFailure, Handled, TypeOK
        <4>2. k = m
          BY <2>4, <4>1, HeadIsOne
        <4>3. QED
          BY <2>4, <4>1, <4>2
      <3>3. CASE ~(PublishFailed(w) \/ GetFailure(w))
        BY <1>2, <2>4, <3>3 DEF WorkerStep, Start, BecomeReady, Load, ReadBounds, ReadRefused,
               ReadChanges, PublishAccepted, Save, Handled, EndCycle, FailCycle, TypeOK
      <3>4. QED
        BY <3>1, <3>2, <3>3
    <2>5. m \in poisoned => Refusing(m)' \subseteq Refusing(m)
      BY <2>1, <2>4 DEF Refusing
    <2>6. QED
      BY <2>2, <2>3, <2>5, CountedKept
  <1>3. QED
    BY <1>1, <1>2

LEMMA NextCounted ==
    ASSUME TypeOK, TypeOK', [Next]_vars, NEW m \in Msg, Counted(m)
    PROVE  Counted(m)'
  <1>1. CASE ServerStep \/ UNCHANGED vars
    <2>1. UNCHANGED <<attempts, poisoned, faults, pc, batch>>
      BY <1>1 DEF ServerStep, Commit, Capture, Cleanup, vars, store, cycle
    <2>2. Refusing(m)' = Refusing(m) /\ GivingUp(m)' = GivingUp(m)
      BY <2>1 DEF Refusing, GivingUp
    <2>3. QED
      BY <2>1, <2>2 DEF Counted
  <1>2. ASSUME NEW w \in Workers, WorkerStep(w) \/ CallFails(w) \/ Stop(w)
        PROVE  Counted(m)'
    BY <1>2, StepCounted, FailureCounted
  <1>3. QED
    BY <1>1, <1>2 DEF Next

\* Retries end for any number of workers on one set of counts: a message is
\* refused at most MaxAttempts times, and once more for each failure and each
\* further worker (RecordFailure, MarkPoisoned and the Poisoned test of
\* Processor.publish).
THEOREM OutboxRetriesEnd == Spec => []AttemptsBounded
  <1> DEFINE Inv == TypeOK /\ \A m \in Msg : Counted(m)
  <1>1. Init => Inv
    <2> SUFFICES ASSUME Init, NEW m \in Msg PROVE Counted(m)
      BY InitType
    <2>1. attempts[m] = 0 /\ faults = 0 /\ m \notin poisoned
      BY DEF Init
    <2>2. QED
      BY <2>1, CountsFinite, OptionsAssumption DEF Counted
  <1>2. Inv /\ [Next]_vars => Inv'
    BY NextType, NextCounted
  <1>3. Inv => AttemptsBounded
    <2> SUFFICES ASSUME TypeOK, NEW m \in Msg, Counted(m)
                 PROVE  attempts[m] < MaxAttempts + Cardinality(Workers) + faults
      BY DEF AttemptsBounded
    <2>1. attempts[m] \in Nat /\ faults \in Nat /\ MaxAttempts \in Nat
      BY OptionsAssumption, BoundsAssumption DEF TypeOK
    <2>2. QED
      BY <2>1, CountsFinite DEF Counted
  <1>4. QED
    BY <1>1, <1>2, <1>3, PTL DEF Spec

-----------------------------------------------------------------------------
(* One worker implements OutboxStream                                      *)

OneWorker == \A v, w \in Workers : v = w

\* What the only worker may rely on: nobody else moves the stored position or gives up
\* on a message, so what it reads lies past the one and is none of the other.
Sole(w) ==
    /\ batch[w] \subseteq written
    /\ pc[w] = "bounds" => start[w] = checkpoint
    /\ pc[w] = "changes" => checkpoint < from[w]
    /\ pc[w] \in {"get", "publish", "record", "poison", "save"} =>
          \A b \in batch[w] : checkpoint < Lsn(b)
    /\ pc[w] = "save" => checkpoint < group[w]
    /\ pc[w] \in {"publish", "record", "poison"} => Heads(batch[w]) \intersect poisoned = {}

\* SQL Server's jobs and transactions leave the worker what it has.
LEMMA ServerSole ==
    ASSUME TypeOK, ServerStep, NEW w \in Workers, Sole(w)
    PROVE  Sole(w)'
  <1>1. /\ written \subseteq written'
        /\ UNCHANGED <<checkpoint, poisoned, pc, start, from, group, batch>>
    BY DEF ServerStep, Commit, Capture, Cleanup, store, cycle
  <1>2. QED
    BY <1>1 DEF Sole, Heads, Lsn

\* A worker that reads nothing and holds nothing relies on nothing.
LEMMA RestingSole ==
    ASSUME NEW w \in Workers, pc'[w] \in {"down", "wait", "load"}, batch'[w] = {}
    PROVE  Sole(w)'
  BY DEF Sole

LEMMA HandledSole ==
    ASSUME TypeOK, NEW w \in Workers, Sole(w), NEW m \in Heads(batch[w]), Handled(w, m),
           pc[w] \in {"get", "publish", "poison"},
           UNCHANGED <<written, checkpoint>>
    PROVE  Sole(w)'
  <1>1. /\ batch'[w] = batch[w] \ {m} /\ group'[w] = Lsn(m) /\ pc'[w] \in {"get", "save"}
    BY DEF Handled, TypeOK
  <1>2. m \in batch[w]
    BY DEF Heads
  <1>3. checkpoint < Lsn(m)
    BY <1>2 DEF Sole
  <1>4. QED
    BY <1>1, <1>3 DEF Sole, Lsn

LEMMA StepSole ==
    ASSUME IInv, NEW w \in Workers, Sole(w), WorkerStep(w) \/ CallFails(w) \/ Stop(w)
    PROVE  Sole(w)'
  <1>0. TypeOK /\ \A f : EndCycle(w, f) => pc'[w] = "load" /\ batch'[w] = {}
    BY DEF IInv, TypeOK, EndCycle
  <1>1. CASE Start(w) \/ BecomeReady(w)
    <2>1. pc'[w] \in {"wait", "load"} /\ batch'[w] = {}
      BY <1>0, <1>1 DEF Start, BecomeReady, cycle, TypeOK
    <2>2. QED
      BY <2>1, RestingSole
  <1>2. CASE ReadRefused(w) \/ CallFails(w)
    BY <1>0, <1>2, RestingSole DEF ReadRefused, CallFails, FailCycle
  <1>3. CASE Stop(w)
    BY <1>0, <1>3, RestingSole DEF Stop, TypeOK
  <1>4. CASE Load(w)
    BY <1>0, <1>4 DEF Load, Sole, TypeOK, server, store
  <1>5. CASE ReadBounds(w)
    <2>1. batch'[w] = {} /\ checkpoint' = checkpoint /\ written' = written
      BY <1>0, <1>5 DEF ReadBounds, TypeOK, store, server
    <2>2. CASE pc'[w] = "load"
      BY <2>1, <2>2, RestingSole
    <2>3. CASE pc'[w] # "load"
      <3>1. /\ pc'[w] = "changes"
            /\ from'[w] = IF start[w] = 0 THEN minLsn ELSE start[w] + 1
            /\ minLsn # 0 /\ start[w] = checkpoint
        BY <1>0, <1>5, <2>3 DEF ReadBounds, TypeOK, Sole
      <3>2. checkpoint < from'[w]
        BY <1>0, <3>1 DEF TypeOK
      <3>3. QED
        BY <2>1, <3>1, <3>2 DEF Sole
    <2>4. QED
      BY <2>2, <2>3
  <1>6. CASE ReadChanges(w)
    <2>1. CASE EndCycle(w, 0)
      BY <1>0, <2>1, RestingSole
    <2>2. CASE ~EndCycle(w, 0)
      <3>1. /\ batch'[w] = ReadBatch(from[w], to[w]) /\ pc[w] = "changes" /\ pc'[w] = "get"
            /\ checkpoint' = checkpoint /\ written' = written
        BY <1>0, <1>6, <2>2 DEF ReadChanges, TypeOK, store, server
      <3>2. batch'[w] \subseteq Rows(from[w], to[w])
        BY <3>1, ReadBatchSubset
      <3>3. \A b \in Rows(from[w], to[w]) : b \in written /\ from[w] <= Lsn(b) /\ Lsn(b) \in Int
        BY <1>0, MsgParts DEF Rows, TypeOK
      <3>4. checkpoint < from[w] /\ checkpoint \in Int /\ from[w] \in Int
        BY <1>0, <3>1 DEF Sole, TypeOK
      <3>5. \A b \in batch'[w] : b \in written /\ checkpoint < Lsn(b)
        BY <3>2, <3>3, <3>4
      <3>6. QED
        BY <3>1, <3>5 DEF Sole, Lsn
    <2>3. QED
      BY <2>1, <2>2
  <1>7. CASE GetFailure(w)
    <2>1. PICK m \in Heads(batch[w]) :
              \/ m \in poisoned /\ Handled(w, m)
              \/ /\ m \notin poisoned
                 /\ pc' = [pc EXCEPT ![w] = "publish"]
                 /\ UNCHANGED <<batch, group>>
      BY <1>7 DEF GetFailure
    <2>2. CASE Handled(w, m)
      BY <1>0, <1>7, <2>2, HandledSole DEF GetFailure, store, server
    <2>3. CASE ~Handled(w, m)
      <3>1. /\ m \notin poisoned /\ pc'[w] = "publish" /\ pc[w] = "get" /\ batch'[w] = batch[w]
            /\ UNCHANGED <<written, checkpoint, poisoned>>
        BY <1>0, <1>7, <2>1, <2>3 DEF GetFailure, store, server, TypeOK
      <3>2. Heads(batch[w]) \intersect poisoned = {}
        BY <1>0, <3>1, HeadIsOne
      <3>3. QED
        BY <3>1, <3>2 DEF Sole, Heads, Lsn
    <2>4. QED
      BY <2>2, <2>3
  <1>8. CASE PublishAccepted(w)
    BY <1>0, <1>8, HandledSole DEF PublishAccepted, store, server
  <1>9. CASE PublishFailed(w)
    BY <1>0, <1>9 DEF PublishFailed, Sole, Heads, Lsn, TypeOK, store, server, cycle
  <1>10. CASE RecordFailure(w)
    <2>1. CASE FailCycle(w)
      BY <1>0, <2>1, RestingSole DEF FailCycle
    <2>2. CASE ~FailCycle(w)
      BY <1>0, <1>10, <2>2 DEF RecordFailure, Sole, Heads, Lsn, TypeOK, server, cycle
    <2>3. QED
      BY <2>1, <2>2
  <1>11. CASE MarkPoisoned(w)
    BY <1>0, <1>11, HandledSole DEF MarkPoisoned, server
  <1>12. CASE Save(w)
    <2>1. CASE EndCycle(w, 0)
      BY <1>0, <2>1, RestingSole
    <2>2. CASE ~EndCycle(w, 0)
      <3>1. /\ pc[w] = "save" /\ pc'[w] = "get" /\ checkpoint' = group[w]
            /\ batch'[w] = batch[w] /\ written' = written
        BY <1>0, <1>12, <2>2 DEF Save, cycle, server, TypeOK
      <3>2. \A b \in batch[w] : group[w] < Lsn(b)
        <4>1. \A b \in batch[w] : Lsn(b) > group[w] /\ Lsn(b) \in Int
          BY <1>0, <3>1, MsgParts DEF IInv, Accounted, TypeOK
        <4>2. group[w] \in Int
          BY <1>0 DEF TypeOK
        <4>3. QED
          BY <4>1, <4>2
      <3>3. QED
        BY <3>1, <3>2 DEF Sole, Lsn
    <2>3. QED
      BY <2>1, <2>2
  <1>13. QED
    BY <1>1, <1>2, <1>3, <1>4, <1>5, <1>6, <1>7, <1>8, <1>9, <1>10, <1>11, <1>12
       DEF WorkerStep

LEMMA NextSole ==
    ASSUME OneWorker, IInv, [Next]_vars, \A w \in Workers : Sole(w)
    PROVE  \A w \in Workers : Sole(w)'
  <1> SUFFICES ASSUME NEW w \in Workers PROVE Sole(w)'
    OBVIOUS
  <1>1. CASE ServerStep
    BY <1>1, ServerSole DEF IInv
  <1>2. CASE \E v \in Workers : WorkerStep(v) \/ CallFails(v) \/ Stop(v)
    <2>1. WorkerStep(w) \/ CallFails(w) \/ Stop(w)
      BY <1>2 DEF OneWorker
    <2>2. QED
      BY <2>1, StepSole
  <1>3. CASE UNCHANGED vars
    BY <1>3 DEF vars, server, store, cycle, Sole, Heads, Lsn
  <1>4. QED
    BY <1>1, <1>2, <1>3 DEF Next

\* Every position is that of some message.
LEMMA AllPositions == Stream!Positions = 1..MaxLsn
  <1>1. \A p \in 1..MaxLsn : <<p, 1>> \in Msg /\ Lsn(<<p, 1>>) = p
    BY BoundsAssumption DEF Msg, Lsn
  <1>2. \A m \in Msg : Lsn(m) \in 1..MaxLsn
    BY MsgParts
  <1>3. QED
    BY <1>1, <1>2 DEF Stream!Positions

\* The head of a batch is the next message of the stream.
LEMMA HeadInTurn ==
    ASSUME IInv, NEW w \in Workers, Sole(w), NEW m \in Heads(batch[w]),
           pc[w] \in {"get", "publish", "record", "poison"}
    PROVE  m \in Msg /\ m \in written /\ Stream!InTurn(m)
  <1>1. m \in batch[w] /\ m \in written /\ m \in Msg
    BY DEF Heads, Sole, IInv, TypeOK
  <1>2. ASSUME NEW k \in written, Before(k, m) PROVE Settled(k)
    <2>1. k \in Msg /\ Lsn(m) \in Int /\ Lsn(k) \in Int
      BY <1>1, MsgParts DEF IInv, TypeOK
    <2>2. k \notin batch[w] /\ Lsn(k) <= Lsn(m)
      BY <1>2, <2>1 DEF Heads, Before
    <2>3. QED
      BY <1>1, <2>2 DEF IInv, Accounted, Reached
  <1>3. QED
    BY <1>1, <1>2 DEF Stream!InTurn, Stream!Settled, Settled

\* What the stream sees of the worker's state.
Seen == <<written, accepted, poisoned, checkpoint, base>>

LEMMA ServerStreams ==
    ASSUME IInv, ServerStep
    PROVE  Stream!Next \/ UNCHANGED Seen
  <1>1. CASE \E l \in 1..MaxLsn : Capture(l) \/ Cleanup(l)
    BY <1>1 DEF Capture, Cleanup, store, Seen
  <1>2. ASSUME NEW n \in 0..MaxPerTx, Commit(n) PROVE Stream!Next
    <2> DEFINE ms == {<<lastLsn + 1, i>> : i \in 1..n}
    <2>1. /\ written' = written \union ms
          /\ UNCHANGED <<accepted, poisoned, checkpoint, base>>
          /\ lastLsn + 1 \in 1..MaxLsn /\ lastLsn \in Int
      BY <1>2, BoundsAssumption DEF Commit, store, IInv, TypeOK
    <2>2. \A m \in ms : m \in Msg /\ Lsn(m) = lastLsn + 1
      BY <2>1, BoundsAssumption DEF Msg, Lsn
    <2>3. \A k \in written : Lsn(k) <= lastLsn /\ Lsn(k) \in Int
      BY MsgParts DEF IInv, TypeOK, Positions
    <2>4. checkpoint < lastLsn + 1
      BY BoundsAssumption DEF IInv, TypeOK, Positions
    <2> HIDE DEF ms
    <2>5. /\ \A m \in ms, k \in written : Lsn(k) < Lsn(m)
          /\ \A m \in ms : checkpoint < Lsn(m)
      BY <2>1, <2>2, <2>3, <2>4
    <2>6. Stream!Append(ms)
      BY <2>1, <2>5 DEF Stream!Append
    <2>7. lastLsn + 1 \in Stream!Positions /\ ms \in SUBSET {m \in Msg : Lsn(m) = lastLsn + 1}
      BY <2>1, <2>2, AllPositions
    <2>8. QED
      BY <2>6, <2>7 DEF Stream!Next
  <1>3. QED
    BY <1>1, <1>2 DEF ServerStep

LEMMA WorkerStreams ==
    ASSUME IInv, NEW w \in Workers, Sole(w), WorkerStep(w) \/ CallFails(w) \/ Stop(w)
    PROVE  Stream!Next \/ UNCHANGED Seen
  <1>1. CASE Start(w) \/ BecomeReady(w) \/ Load(w) \/ ReadRefused(w) \/ ReadChanges(w)
    BY <1>1 DEF Start, BecomeReady, Load, ReadRefused, ReadChanges, server, store, Seen
  <1>2. CASE GetFailure(w) \/ RecordFailure(w) \/ CallFails(w) \/ Stop(w)
    BY <1>2 DEF GetFailure, RecordFailure, CallFails, Stop, server, store, Seen
  <1>3. CASE ReadBounds(w)
    <2>1. UNCHANGED <<written, accepted, poisoned, checkpoint>>
      BY <1>3 DEF ReadBounds, server, store
    <2>2. CASE base' = base
      BY <2>1, <2>2 DEF Seen
    <2>3. CASE base' # base
      <3>1. base' = minLsn /\ base < minLsn /\ start[w] = 0 /\ minLsn # 0 /\ checkpoint = 0
        BY <1>3, <2>3 DEF ReadBounds, Sole
      <3>2. minLsn \in 1..MaxLsn
        BY <3>1, BoundsAssumption DEF IInv, TypeOK
      <3>3. Stream!RaiseFloor(minLsn)
        BY <2>1, <3>1 DEF Stream!RaiseFloor
      <3>4. QED
        BY <3>2, <3>3, AllPositions DEF Stream!Next
    <2>4. QED
      BY <2>2, <2>3
  <1>4. ASSUME NEW m \in Heads(batch[w]), pc[w] = "publish", accepted' = accepted \union {m},
               UNCHANGED <<written, poisoned, checkpoint, base>>
        PROVE  Stream!Next
    <2>1. m \in Msg /\ m \in written /\ Stream!InTurn(m) /\ m \notin poisoned
      BY <1>4, HeadInTurn DEF Sole
    <2>2. Stream!Deliver(m)
      BY <1>4, <2>1 DEF Stream!Deliver
    <2>3. QED
      BY <2>1, <2>2 DEF Stream!Next
  <1>5. CASE PublishAccepted(w)
    BY <1>4, <1>5 DEF PublishAccepted, server, store
  <1>6. CASE PublishFailed(w)
    <2>1. PICK m \in Heads(batch[w]) : accepted' \in {accepted, accepted \union {m}}
      BY <1>6 DEF PublishFailed
    <2>2. pc[w] = "publish" /\ UNCHANGED <<written, poisoned, checkpoint, base>>
      BY <1>6 DEF PublishFailed, server, store
    <2>3. QED
      BY <1>4, <2>1, <2>2 DEF Seen
  <1>7. CASE MarkPoisoned(w)
    <2>1. PICK m \in Heads(batch[w]) : poisoned' = poisoned \union {m}
      BY <1>7 DEF MarkPoisoned
    <2>2. m \in Msg /\ m \in written /\ Stream!InTurn(m)
      BY <1>7, HeadInTurn DEF MarkPoisoned
    <2>3. Stream!Abandon(m)
      BY <1>7, <2>1, <2>2 DEF Stream!Abandon, MarkPoisoned, server
    <2>4. QED
      BY <2>2, <2>3 DEF Stream!Next
  <1>8. CASE Save(w)
    <2>1. /\ checkpoint' = group[w] /\ pc[w] = "save"
          /\ UNCHANGED <<written, accepted, poisoned, base>>
      BY <1>8 DEF Save, server
    <2>2. /\ checkpoint < group[w] /\ group[w] \in 1..MaxLsn
          /\ checkpoint \in Int /\ group[w] \in Int
      BY <2>1, BoundsAssumption DEF Sole, IInv, TypeOK
    <2>3. ASSUME NEW m \in written, Lsn(m) <= group[w] PROVE Stream!Settled(m)
      <3>1. m \in batch[w] \/ Settled(m)
        BY <2>1, <2>3 DEF IInv, Accounted, Reached
      <3>2. Lsn(m) \in Int
        BY MsgParts DEF IInv, TypeOK
      <3>3. m \notin batch[w]
        BY <2>1, <2>2, <2>3, <3>2 DEF IInv, Accounted
      <3>4. QED
        BY <3>1, <3>3 DEF Settled, Stream!Settled
    <2>4. Stream!Advance(group[w])
      BY <2>1, <2>2, <2>3 DEF Stream!Advance
    <2>5. QED
      BY <2>2, <2>4, AllPositions DEF Stream!Next
  <1>9. QED
    BY <1>1, <1>2, <1>3, <1>5, <1>6, <1>7, <1>8 DEF WorkerStep

\* One ordering-worker keeps the promise of the stream, for every batch size, attempt
\* limit and bound: each message is handed over at least once, in commit order, or
\* given up on and not handed over after that, and the stored position only moves
\* forward, over settled messages (Processor.ProcessOnce).  Two workers on one
\* checkpoint row need not, as each goes by what it read before the other stored.
THEOREM OneWorkerStreams == ASSUME OneWorker PROVE Spec => StreamSpec
  <1> DEFINE Inv == IInv /\ \A w \in Workers : Sole(w)
  <1>1. Init => Inv
    <2>1. Init => \A w \in Workers : Sole(w)
      BY DEF Init, Sole
    <2>2. QED
      BY <2>1, InitInv
  <1>2. Inv /\ [Next]_vars => Inv'
    BY NextInv, NextSole
  <1>3. Init => Stream!Init
    BY DEF Init, Stream!Init
  <1>4. Inv /\ [Next]_vars => [Stream!Next]_(Stream!vars)
    <2> SUFFICES ASSUME Inv, [Next]_vars PROVE Stream!Next \/ UNCHANGED Seen
      BY DEF Seen, Stream!vars
    <2>1. CASE ServerStep
      BY <2>1, ServerStreams
    <2>2. CASE \E w \in Workers : WorkerStep(w) \/ CallFails(w) \/ Stop(w)
      BY <2>2, WorkerStreams
    <2>3. CASE UNCHANGED vars
      BY <2>3 DEF vars, server, store, Seen
    <2>4. QED
      BY <2>1, <2>2, <2>3 DEF Next
  <1> HIDE DEF Inv
  <1>5. QED
    BY <1>1, <1>2, <1>3, <1>4, PTL DEF Spec, StreamSpec, Stream!Spec
=============================================================================
