-------------------------- MODULE OutboxOperations --------------------------
(***************************************************************************)
(* The recovery that CheckpointExpiredError asks for and the runbook of    *)
(* the ordering-worker spells out: with the workers stopped, republish     *)
(* what fell out of the retention window, then set the stored position to  *)
(* the oldest one still retained and start again.                          *)
(***************************************************************************)
EXTENDS OutboxWorker

\* The messages after the stored position that capture no longer has.
Gap == {m \in written : checkpoint < Lsn(m) /\ Lsn(m) < minLsn}

\* UPDATE OutboxCdcCheckpoints SET LastProcessedLsn = sys.fn_cdc_get_min_lsn(...)
Recover ==
    /\ Expired(checkpoint)
    /\ \A w \in Workers : pc[w] = "down"
    /\ accepted' = accepted \union Gap
    /\ checkpoint' = minLsn
    /\ UNCHANGED <<server, attempts, poisoned, pc, cycle, streak, faults, base>>

OperatedSpec == Init /\ [][Next \/ Recover]_vars

\* docs/ordering-worker-runbook.md, step 4 of the recovery: with the position at
\* the oldest retained one and the gap republished, nothing is missing.  But the
\* position names the last transaction that is done (Reader.Read starts after
\* it), and the transaction at the retention floor is not.
RecoveryIsComplete == \A m \in written : Lsn(m) <= checkpoint => Settled(m)
=============================================================================
