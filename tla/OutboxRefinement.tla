-------------------------- MODULE OutboxRefinement --------------------------
(***************************************************************************)
(* One ordering-worker implements OutboxStream: the tables and the broker  *)
(* are the log, the deliveries and the position; bounds, batches, retries  *)
(* and restarts are invisible.                                             *)
(***************************************************************************)
EXTENDS OutboxWorker

Stream == INSTANCE OutboxStream WITH
    Message    <- Msg,
    PositionOf <- Lsn,
    log        <- written,
    delivered  <- accepted,
    abandoned  <- poisoned,
    position   <- checkpoint,
    floor      <- base

\* Every step of the worker, of SQL Server's jobs and of a crash is a step of
\* the promised stream, or changes nothing it can see.
StreamSpec == Stream!Spec
=============================================================================
