---------------------------- MODULE OutboxStream ----------------------------
(***************************************************************************)
(* What one ordering-worker promises about the messages of the outbox,     *)
(* without saying how it reads, retries or crashes.                        *)
(*                                                                         *)
(* The log is a set of messages ordered by Before.  Each is delivered at   *)
(* least once, in order, or abandoned; the position moves forward over     *)
(* settled messages only.  Until there is a position the promise starts at *)
(* a floor, below which messages are not looked at.                        *)
(***************************************************************************)
EXTENDS Naturals

CONSTANTS
    Message,          \* every message there can be
    Before(_, _),     \* the order messages are committed in
    PositionOf(_)     \* where in the log a message is

VARIABLES
    log,        \* messages committed so far
    delivered,  \* messages handed over at least once
    abandoned,  \* messages given up on
    position,   \* everything up to here is settled, 0 before the first move
    floor       \* messages below are not owed

vars == <<log, delivered, abandoned, position, floor>>

Settled(m) == m \in delivered \/ m \in abandoned \/ PositionOf(m) < floor

\* Everything committed before m is settled: m is the next message to deal with.
InTurn(m) == \A k \in log : Before(k, m) => Settled(k)

Init ==
    /\ log = {} /\ delivered = {} /\ abandoned = {}
    /\ position = 0 /\ floor = 0

\* A transaction appends its messages, at one position, after everything already
\* there.
Append(ms) ==
    /\ \A m \in ms, k \in log : PositionOf(k) < PositionOf(m)
    /\ \A m \in ms : position < PositionOf(m)
    /\ log' = log \union ms
    /\ UNCHANGED <<delivered, abandoned, position, floor>>

\* A message that was given up on is not handed over afterwards.
Deliver(m) ==
    /\ m \in log /\ InTurn(m)
    /\ m \notin abandoned
    /\ delivered' = delivered \union {m}
    /\ UNCHANGED <<log, abandoned, position, floor>>

Abandon(m) ==
    /\ m \in log /\ InTurn(m)
    /\ abandoned' = abandoned \union {m}
    /\ UNCHANGED <<log, delivered, position, floor>>

Advance(p) ==
    /\ p > position
    /\ \A m \in log : PositionOf(m) <= p => Settled(m)
    /\ position' = p
    /\ UNCHANGED <<log, delivered, abandoned, floor>>

RaiseFloor(p) ==
    /\ position = 0
    /\ p > floor
    /\ floor' = p
    /\ UNCHANGED <<log, delivered, abandoned, position>>

Positions == {PositionOf(m) : m \in Message}

Next ==
    \/ \E m \in Message : Deliver(m) \/ Abandon(m)
    \/ \E p \in Positions : Advance(p) \/ RaiseFloor(p)
    \/ \E p \in Positions : \E ms \in SUBSET {m \in Message : PositionOf(m) = p} : Append(ms)

Spec == Init /\ [][Next]_vars
=============================================================================
