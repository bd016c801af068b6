---------------------------- MODULE OutboxWorker ----------------------------
(***************************************************************************)
(* The publishing half of Ordering's transactional outbox: the             *)
(* ordering-worker process (internal/ordering/outbox) that reads committed *)
(* outbox inserts out of SQL Server's change table and hands them to the   *)
(* broker, remembering in SQL Server how far it has got.                   *)
(*                                                                         *)
(* A position (LSN) is a natural number, 0 meaning "no position".  Every   *)
(* source transaction takes the next one; a message is the pair of its     *)
(* transaction's position and its place inside that transaction, so the    *)
(* messages of one transaction (a group) share their first component.      *)
(*                                                                         *)
(* SQL Server's capture and cleanup jobs run beside the workers, and each  *)
(* database or broker call of a worker is one action, so that the jobs,    *)
(* another worker or a crash can come between any two calls.               *)
(***************************************************************************)
EXTENDS Integers, FiniteSets

CONSTANTS
    Workers,        \* ordering-worker processes sharing one consumer name
    BatchSize,      \* Options.BatchSize
    MaxAttempts,    \* Options.MaxPublishAttempts
    UnhealthyAfter, \* unhealthyAfter: failed cycles before Health complains
    MaxLsn,         \* bound: source transactions
    MaxPerTx,       \* bound: outbox rows written by one transaction
    MaxMessages,    \* bound: outbox rows in all
    MaxFaults       \* bound: stopped workers and failed database calls

ASSUME OptionsAssumption ==
    /\ BatchSize \in Nat \ {0}
    /\ MaxAttempts \in Nat \ {0}
    /\ UnhealthyAfter \in Nat \ {0}

ASSUME BoundsAssumption ==
    /\ MaxLsn \in Nat
    /\ MaxPerTx \in Nat \ {0}
    /\ MaxMessages \in Nat
    /\ MaxFaults \in Nat

ASSUME WorkersAssumption == IsFiniteSet(Workers)

VARIABLES
    written,    \* OutboxMessages: every message committed so far
    lastLsn,    \* the position of the last committed transaction
    captured,   \* fn_cdc_get_max_lsn: the last position capture has processed
    minLsn,     \* fn_cdc_get_min_lsn: the oldest position still retained
    checkpoint, \* OutboxCdcCheckpoints.LastProcessedLsn, 0 when there is no row
    attempts,   \* OutboxPublishFailures.Attempts, 0 when there is no row
    poisoned,   \* messages whose OutboxPublishFailures.PoisonedOnUtc is set
    accepted,   \* messages the broker has taken at least once
    pc,         \* the call each worker is about to make
    start,      \* the position Load returned
    from,       \* the lower end of the range the cycle reads
    to,         \* the upper end: the maximum LSN the last bounds query reported
    batch,      \* messages read in this cycle and not yet handled
    group,      \* the LSN of the group the cycle is working through
    streak,     \* consecutiveFailures, counted up to UnhealthyAfter
    faults,     \* crashes and failed calls so far
    base        \* history: the highest floor a worker without a checkpoint began at

server == <<written, lastLsn, captured, minLsn>>
store  == <<checkpoint, attempts, poisoned>>
cycle  == <<start, from, to, batch, group>>
vars   == <<server, store, accepted, pc, cycle, streak, faults, base>>

-----------------------------------------------------------------------------
(* Messages and their order                                                *)

Msg == (1..MaxLsn) \X (1..MaxPerTx)

Lsn(m) == m[1]

\* ORDER BY __$start_lsn, __$seqval
Before(m, k) == \/ Lsn(m) < Lsn(k)
                \/ Lsn(m) = Lsn(k) /\ m[2] < k[2]

\* The messages nothing in S comes before: the next one the cycle takes.
Heads(S) == {m \in S : \A k \in S : ~Before(k, m)}

\* TOP (n) of an ordered result
Top(n, rows) == {m \in rows : Cardinality({k \in rows : Before(k, m)}) < n}

\* cdc.fn_cdc_get_all_changes between two positions
Rows(lo, hi) == {m \in written : lo <= Lsn(m) /\ Lsn(m) <= hi}

\* Faulty variant of ReadBatch: the group the limit cut is not dropped.
ReadBatchCut(lo, hi) == Top(BatchSize + 1, Rows(lo, hi))

\* The batch a read returns.  One row over the limit shows that the last group
\* may have been cut: it is dropped, and when nothing else was read it is
\* fetched whole instead.
ReadBatch(lo, hi) ==
    LET rows == Rows(lo, hi)
        top  == Top(BatchSize + 1, rows)
        kept == {m \in top : \E k \in top : Lsn(m) < Lsn(k)}
    IN  IF Cardinality(rows) <= BatchSize THEN rows
        ELSE IF kept # {} THEN kept
        ELSE {m \in rows : \E k \in top : Lsn(m) = Lsn(k)}

-----------------------------------------------------------------------------
Init ==
    /\ written = {} /\ lastLsn = 0 /\ captured = 0 /\ minLsn = 0
    /\ checkpoint = 0
    /\ attempts = [m \in Msg |-> 0]
    /\ poisoned = {}
    /\ accepted = {}
    /\ pc = [w \in Workers |-> "down"]
    /\ start = [w \in Workers |-> 0]
    /\ from = [w \in Workers |-> 0]
    /\ to = [w \in Workers |-> 0]
    /\ batch = [w \in Workers |-> {}]
    /\ group = [w \in Workers |-> 0]
    /\ streak = [w \in Workers |-> 0]
    /\ faults = 0
    /\ base = 0

(* SQL Server *)

\* A transaction commits with n outbox rows.  With none it is a position capture
\* records all the same, as it does in periods without changes.
Commit(n) ==
    /\ lastLsn < MaxLsn
    /\ Cardinality(written) + n <= MaxMessages
    /\ lastLsn' = lastLsn + 1
    /\ written' = written \union {<<lastLsn + 1, i>> : i \in 1..n}
    /\ UNCHANGED <<captured, minLsn, store, accepted, pc, cycle, streak, faults, base>>

\* The capture job has copied the log up to position l.  The first run gives
\* the capture instance its minimum.
Capture(l) ==
    /\ captured < l /\ l <= lastLsn
    /\ captured' = l
    /\ minLsn' = IF minLsn = 0 THEN 1 ELSE minLsn
    /\ UNCHANGED <<written, lastLsn, store, accepted, pc, cycle, streak, faults, base>>

\* The cleanup job discards the changes before position l.
Cleanup(l) ==
    /\ minLsn < l /\ l <= captured
    /\ minLsn' = l
    /\ UNCHANGED <<written, lastLsn, captured, store, accepted, pc, cycle, streak, faults, base>>

(* The polling loop *)

\* The cycle is over: its memory goes, except for the bounds last seen.
EndCycle(w, failures) ==
    /\ pc' = [pc EXCEPT ![w] = "load"]
    /\ start' = [start EXCEPT ![w] = 0]
    /\ from' = [from EXCEPT ![w] = 0]
    /\ batch' = [batch EXCEPT ![w] = {}]
    /\ group' = [group EXCEPT ![w] = 0]
    /\ streak' = [streak EXCEPT ![w] = failures]
    /\ UNCHANGED to

FailCycle(w) ==
    EndCycle(w, IF streak[w] < UnhealthyAfter THEN streak[w] + 1 ELSE streak[w])

\* The process comes up and waits for capture to be usable.
Start(w) ==
    /\ pc[w] = "down"
    /\ pc' = [pc EXCEPT ![w] = "wait"]
    /\ UNCHANGED <<server, store, accepted, cycle, streak, faults, base>>

BecomeReady(w) ==
    /\ pc[w] = "wait"
    /\ captured # 0
    /\ pc' = [pc EXCEPT ![w] = "load"]
    /\ UNCHANGED <<server, store, accepted, cycle, streak, faults, base>>

\* checkpoints.Load
Load(w) ==
    /\ pc[w] = "load"
    /\ start' = [start EXCEPT ![w] = checkpoint]
    /\ pc' = [pc EXCEPT ![w] = "bounds"]
    /\ UNCHANGED <<server, store, accepted, from, to, batch, group, streak, faults, base>>

\* What a worker at position p would be told: its next position has been
\* cleaned up.
Expired(p) == p # 0 /\ p + 1 < minLsn

\* The bounds query found a readable range, possibly an empty one.
ReadBounds(w) ==
    LET lower == IF start[w] = 0 THEN minLsn ELSE start[w] + 1
    IN  /\ pc[w] = "bounds"
        /\ captured # 0 /\ minLsn # 0
        /\ ~Expired(start[w])
        /\ to' = [to EXCEPT ![w] = captured]
        /\ base' = IF start[w] = 0 /\ base < lower THEN lower ELSE base
        /\ \/ /\ lower <= captured
              /\ from' = [from EXCEPT ![w] = lower]
              /\ pc' = [pc EXCEPT ![w] = "changes"]
              /\ UNCHANGED <<start, batch, group, streak>>
           \/ /\ lower > captured
              /\ pc' = [pc EXCEPT ![w] = "load"]
              /\ start' = [start EXCEPT ![w] = 0]
              /\ streak' = [streak EXCEPT ![w] = 0]
              /\ UNCHANGED <<from, batch, group>>
        /\ UNCHANGED <<server, store, accepted, faults>>

\* Faulty variant of ReadRefused: a refused read counts as an idle cycle.
ReadRefusedQuietly(w) ==
    /\ \/ pc[w] = "bounds" /\ (captured = 0 \/ minLsn = 0 \/ Expired(start[w]))
       \/ pc[w] = "changes" /\ from[w] < minLsn
    /\ EndCycle(w, 0)
    /\ UNCHANGED <<server, store, accepted, faults, base>>

\* NotReadyError, CheckpointExpiredError, or a range whose lower end was
\* cleaned up after the bounds were read.
ReadRefused(w) ==
    /\ \/ pc[w] = "bounds" /\ (captured = 0 \/ minLsn = 0 \/ Expired(start[w]))
       \/ pc[w] = "changes" /\ from[w] < minLsn
    /\ FailCycle(w)
    /\ UNCHANGED <<server, store, accepted, faults, base>>

\* Faulty variant of ReadChanges: an empty batch is worked through like any other.
ReadChangesUnguarded(w) ==
    /\ pc[w] = "changes"
    /\ from[w] >= minLsn
    /\ batch' = [batch EXCEPT ![w] = ReadBatch(from[w], to[w])]
    /\ pc' = [pc EXCEPT ![w] = "get"]
    /\ UNCHANGED <<server, store, accepted, start, from, to, group, streak, faults, base>>

\* The change table between the bounds read earlier.  The second query a group
\* larger than a batch needs reads rows that cannot change any more.
ReadChanges(w) ==
    LET read == ReadBatch(from[w], to[w])
    IN  /\ pc[w] = "changes"
        /\ from[w] >= minLsn
        /\ \/ /\ read # {}
              /\ batch' = [batch EXCEPT ![w] = read]
              /\ pc' = [pc EXCEPT ![w] = "get"]
              /\ UNCHANGED <<start, from, to, group, streak>>
           \/ read = {} /\ EndCycle(w, 0)
        /\ UNCHANGED <<server, store, accepted, faults, base>>

(* One message *)

\* Faulty variant of Handled: the position is saved after every message.
HandledEarly(w, m) ==
    /\ batch' = [batch EXCEPT ![w] = @ \ {m}]
    /\ group' = [group EXCEPT ![w] = Lsn(m)]
    /\ pc' = [pc EXCEPT ![w] = "save"]

\* Message m needs nothing more: on to the rest of its group, or to saving the
\* position when there is no rest.
Handled(w, m) ==
    /\ batch' = [batch EXCEPT ![w] = @ \ {m}]
    /\ group' = [group EXCEPT ![w] = Lsn(m)]
    /\ pc' = [pc EXCEPT ![w] = IF \E k \in batch[w] \ {m} : Lsn(k) = Lsn(m)
                               THEN "get" ELSE "save"]

\* failures.Get
GetFailure(w) ==
    /\ pc[w] = "get"
    /\ \E m \in Heads(batch[w]) :
          \/ m \in poisoned /\ Handled(w, m)
          \/ /\ m \notin poisoned
             /\ pc' = [pc EXCEPT ![w] = "publish"]
             /\ UNCHANGED <<batch, group>>
    /\ UNCHANGED <<server, store, accepted, start, from, to, streak, faults, base>>

\* The broker confirmed the message.
PublishAccepted(w) ==
    /\ pc[w] = "publish"
    /\ \E m \in Heads(batch[w]) :
          /\ accepted' = accepted \union {m}
          /\ Handled(w, m)
    /\ UNCHANGED <<server, store, start, from, to, streak, faults, base>>

\* The broker, or the registry of contracts, refused the message.  The broker may
\* hold it all the same: a confirmation that never arrives is an error too.
PublishFailed(w) ==
    /\ pc[w] = "publish"
    /\ \E m \in Heads(batch[w]) : accepted' \in {accepted, accepted \union {m}}
    /\ pc' = [pc EXCEPT ![w] = "record"]
    /\ UNCHANGED <<server, store, cycle, streak, faults, base>>

\* Faulty variants of RecordFailure: one attempt too many, going on past the
\* refused message, and not counting.
RecordFailureLate(w) ==
    /\ pc[w] = "record"
    /\ \E m \in Heads(batch[w]) :
          /\ attempts' = [attempts EXCEPT ![m] = @ + 1]
          /\ \/ /\ attempts[m] + 1 > MaxAttempts
                /\ pc' = [pc EXCEPT ![w] = "poison"]
                /\ UNCHANGED <<cycle, streak>>
             \/ attempts[m] + 1 <= MaxAttempts /\ FailCycle(w)
    /\ UNCHANGED <<server, checkpoint, poisoned, accepted, faults, base>>

RecordFailureSkips(w) ==
    /\ pc[w] = "record"
    /\ \E m \in Heads(batch[w]) :
          /\ attempts' = [attempts EXCEPT ![m] = @ + 1]
          /\ Handled(w, m)
    /\ UNCHANGED <<server, checkpoint, poisoned, accepted, start, from, to, streak,
                   faults, base>>

RecordFailureUncounted(w) ==
    /\ pc[w] = "record"
    /\ FailCycle(w)
    /\ UNCHANGED <<server, store, accepted, faults, base>>

\* failures.RecordFailure: below the limit the cycle ends as faulted.
RecordFailure(w) ==
    /\ pc[w] = "record"
    /\ \E m \in Heads(batch[w]) :
          /\ attempts' = [attempts EXCEPT ![m] = @ + 1]
          /\ \/ /\ attempts[m] + 1 >= MaxAttempts
                /\ pc' = [pc EXCEPT ![w] = "poison"]
                /\ UNCHANGED <<cycle, streak>>
             \/ attempts[m] + 1 < MaxAttempts /\ FailCycle(w)
    /\ UNCHANGED <<server, checkpoint, poisoned, accepted, faults, base>>

\* failures.MarkPoisoned
MarkPoisoned(w) ==
    /\ pc[w] = "poison"
    /\ \E m \in Heads(batch[w]) :
          /\ poisoned' = poisoned \union {m}
          /\ Handled(w, m)
    /\ UNCHANGED <<server, checkpoint, attempts, accepted, start, from, to, streak, faults, base>>

\* checkpoints.Save, an unconditional upsert, after the last message of a group
Save(w) ==
    /\ pc[w] = "save"
    /\ checkpoint' = group[w]
    /\ \/ /\ batch[w] # {}
          /\ pc' = [pc EXCEPT ![w] = "get"]
          /\ UNCHANGED <<cycle, streak>>
       \/ batch[w] = {} /\ EndCycle(w, 0)
    /\ UNCHANGED <<server, attempts, poisoned, accepted, faults, base>>

(* What goes wrong *)

\* A call fails: the cycle ends with an error and nothing is undone.  A publish
\* that ended with its context or at a deadline is such an error, not a refusal,
\* and is not counted against the message.
CallFails(w) ==
    /\ pc[w] \in {"load", "bounds", "changes", "get", "publish", "record", "poison", "save"}
    /\ faults < MaxFaults
    /\ faults' = faults + 1
    /\ FailCycle(w)
    /\ UNCHANGED <<server, store, accepted, base>>

\* The process stops, by a crash or because it is told to: its memory is gone.
Stop(w) ==
    /\ pc[w] # "down"
    /\ faults < MaxFaults
    /\ faults' = faults + 1
    /\ pc' = [pc EXCEPT ![w] = "down"]
    /\ start' = [start EXCEPT ![w] = 0]
    /\ from' = [from EXCEPT ![w] = 0]
    /\ to' = [to EXCEPT ![w] = 0]
    /\ batch' = [batch EXCEPT ![w] = {}]
    /\ group' = [group EXCEPT ![w] = 0]
    /\ streak' = [streak EXCEPT ![w] = 0]
    /\ UNCHANGED <<server, store, accepted, base>>

-----------------------------------------------------------------------------
WorkerStep(w) ==
    \/ Start(w) \/ BecomeReady(w)
    \/ Load(w) \/ ReadBounds(w) \/ ReadRefused(w) \/ ReadChanges(w)
    \/ GetFailure(w) \/ PublishAccepted(w) \/ PublishFailed(w)
    \/ RecordFailure(w) \/ MarkPoisoned(w) \/ Save(w)

ServerStep ==
    \/ \E n \in 0..MaxPerTx : Commit(n)
    \/ \E l \in 1..MaxLsn : Capture(l) \/ Cleanup(l)

Next ==
    \/ ServerStep
    \/ \E w \in Workers : WorkerStep(w) \/ CallFails(w) \/ Stop(w)

Spec == Init /\ [][Next]_vars

\* The worker loops until it is stopped and is started again afterwards, and
\* the capture job keeps running.  Nothing makes the broker accept a message,
\* a transaction commit or the cleanup job run.
FairSpec ==
    /\ Spec
    /\ \A w \in Workers : WF_vars(WorkerStep(w))
    /\ WF_vars(\E l \in 1..MaxLsn : Capture(l))

-----------------------------------------------------------------------------
(* Properties                                                              *)

\* Shape of the state: positions and counters stay in range, and a worker holds
\* messages exactly while it is publishing them (the locals of ProcessOnce).
TypeOK ==
    /\ written \subseteq Msg
    /\ lastLsn \in 0..MaxLsn
    /\ captured \in 0..MaxLsn
    /\ minLsn \in 0..MaxLsn
    /\ checkpoint \in 0..MaxLsn
    /\ attempts \in [Msg -> Nat]
    /\ poisoned \subseteq Msg
    /\ accepted \subseteq Msg
    /\ pc \in [Workers -> {"down", "wait", "load", "bounds", "changes", "get",
                           "publish", "record", "poison", "save"}]
    /\ start \in [Workers -> 0..MaxLsn]
    /\ from \in [Workers -> 0..MaxLsn]
    /\ to \in [Workers -> 0..MaxLsn]
    /\ batch \in [Workers -> SUBSET Msg]
    /\ group \in [Workers -> 0..MaxLsn]
    /\ streak \in [Workers -> 0..UnhealthyAfter]
    /\ faults \in 0..MaxFaults
    /\ base \in 0..MaxLsn
    /\ \A w \in Workers :
          /\ pc[w] \in {"down", "wait", "load", "bounds", "changes"} => batch[w] = {}
          /\ pc[w] \in {"get", "publish", "record", "poison"} => batch[w] # {}

\* Nothing more is owed for m: the broker has it, it was given up on, or capture
\* had discarded it before any worker had a position.
Settled(m) == m \in accepted \/ m \in poisoned \/ Lsn(m) < base

\* At-least-once (Processor.ProcessOnce): the stored position never covers a
\* message that was neither accepted nor given up on, whatever crashed in
\* between and however many workers share the row.
CheckpointCovers == \A m \in written : Lsn(m) <= checkpoint => Settled(m)

\* Messages leave in commit order (the return at the first unhandled message):
\* the broker is handed a message only once everything committed before it is
\* settled, so a retried message holds back every later one.
InOrder ==
    [][\A m \in accepted' \ accepted :
          \A k \in written : Before(k, m) => Settled(k)]_vars

\* Retries end (RecordFailure's stored count): a message is refused at most
\* MaxAttempts times, once more for each call lost after counting and for each
\* further worker that was already past failures.Get.
AttemptsBounded ==
    \A m \in Msg : attempts[m] < MaxAttempts + Cardinality(Workers) + faults

\* Every committed message is eventually settled, unless the stored position
\* falls out of the retention window: no broker outage and no refused message
\* blocks the stream for ever (recordFailure gives up in the end).
Delivery ==
    \A m \in Msg : m \in written ~> Settled(m) \/ Expired(checkpoint)

\* A worker stuck on an expired position says so (Worker.Health).
StuckIsReported ==
    \A w \in Workers :
        Expired(checkpoint) ~> (streak[w] >= UnhealthyAfter \/ ~Expired(checkpoint))
=============================================================================
