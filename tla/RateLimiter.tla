----------------------------- MODULE RateLimiter -----------------------------
(***************************************************************************)
(* The gateway's rate limit (internal/gateway): a fixed window per caller, *)
(* counted under one lock, with a sweep that forgets the windows that are  *)
(* over.                                                                   *)
(*                                                                         *)
(* A request reads the clock before it gets the lock, so requests are not  *)
(* counted in the order of their times, and the sweep of one caller's      *)
(* request may come between the two steps of another's.                    *)
(***************************************************************************)
EXTENDS Integers, FiniteSets

CONSTANTS
    Callers, \* addresses requests come from (callerOf)
    Slots,   \* requests the gateway works on at the same time
    Limit,   \* requests per window
    Window,  \* the window's length, in ticks of the clock
    MaxNow   \* bound: the last tick

NoOne == "no one"

\* NewFixedWindow replaces a limit or window that is not positive.
ASSUME LimiterAssumption ==
    /\ NoOne \notin Callers
    /\ IsFiniteSet(Slots)
    /\ Limit \in Nat \ {0}
    /\ Window \in Nat \ {0}
    /\ MaxNow \in Nat

VARIABLES
    now,       \* the clock
    count,     \* counter.count of each caller, 0 for one not in the map
    windowEnd, \* counter.windowEnd, 0 for one not in the map
    lastSweep, \* the time of the last sweep
    pc,        \* how far each request has got
    caller,    \* who made it
    stamp,     \* the time it read
    watched,   \* history: the caller and the start of the interval looked at
    inside,    \* history: its requests let through within a window's length of that start
    held,      \* history: its requests that waited for the lock at that start
    since,     \* history: its requests let through from that start on, up to Limit
    opened,    \* history: when the counter of each caller was made
    latest     \* history: the latest time a handled request had read

counters == <<count, windowEnd, lastSweep>>
requests == <<pc, caller, stamp>>
passed   == <<inside, since, opened, latest>>
history  == <<held, passed>>
vars == <<now, counters, requests, watched, history>>

-----------------------------------------------------------------------------
Init ==
    /\ now = 0
    /\ count = [c \in Callers |-> 0]
    /\ windowEnd = [c \in Callers |-> 0]
    /\ lastSweep = 0
    /\ pc = [s \in Slots |-> "idle"]
    /\ caller = [s \in Slots |-> NoOne]
    /\ stamp = [s \in Slots |-> 0]
    /\ watched \in [caller : Callers, from : 0..MaxNow]
    /\ inside = 0 /\ held = 0 /\ since = 0
    /\ opened = [c \in Callers |-> 0]
    /\ latest = 0

\* Requests of a caller that have read the clock and wait for the lock.
Waiting(c) == {s \in Slots : pc[s] = "stamped" /\ caller[s] = c}

Tick ==
    /\ now < MaxNow
    /\ now' = now + 1
    /\ held' = IF now' = watched.from THEN Cardinality(Waiting(watched.caller)) ELSE held
    /\ UNCHANGED <<counters, requests, watched, passed>>

\* A request for a service arrives, and the middleware reads the clock for it.
Arrive(s, c) ==
    /\ pc[s] = "idle"
    /\ pc' = [pc EXCEPT ![s] = "stamped"]
    /\ caller' = [caller EXCEPT ![s] = c]
    /\ stamp' = [stamp EXCEPT ![s] = now]
    /\ UNCHANGED <<now, counters, watched, history>>

(* FixedWindow.allow, at the time t its request read *)

Known(c) == count[c] > 0

Over(c, t) == t > windowEnd[c]

\* Faulty variant of SweepDue: the map is never swept.
SweepDueNever(t) == FALSE

SweepDue(t) == t - lastSweep >= Window

\* Faulty variant of Swept: the sweep clears the map.
SweptAll(t) == IF SweepDue(t) THEN Callers ELSE {}

Swept(t) == IF SweepDue(t) THEN {c \in Callers : Known(c) /\ Over(c, t)} ELSE {}

\* The request finds no counter it still counts in.
OpensWindow(c, t) == ~Known(c) \/ c \in Swept(t) \/ Over(c, t)

\* Faulty variants of AtLimit: one request too many, and one counter for everybody.
AtLimitLate(c) == count[c] > Limit

AtLimitTogether(c) == \E d \in Callers : count[d] >= Limit

AtLimit(c) == count[c] >= Limit

Passes(s) ==
    /\ pc' = [pc EXCEPT ![s] = "passed"]
    /\ IF caller[s] = watched.caller
       THEN /\ since' = IF now >= watched.from /\ since < Limit THEN since + 1 ELSE since
            /\ inside' = IF now \in watched.from..watched.from + Window
                         THEN inside + 1 ELSE inside
       ELSE UNCHANGED <<since, inside>>

\* A caller with room in its window, or with a new one.
LetThrough(s, c, t) ==
    /\ \/ /\ OpensWindow(c, t)
          /\ count' = [d \in Callers |-> IF d = c THEN 1
                                         ELSE IF d \in Swept(t) THEN 0 ELSE count[d]]
          /\ windowEnd' = [d \in Callers |-> IF d = c THEN t + Window
                                             ELSE IF d \in Swept(t) THEN 0 ELSE windowEnd[d]]
          /\ opened' = [opened EXCEPT ![c] = now]
       \/ /\ ~OpensWindow(c, t) /\ ~AtLimit(c)
          /\ count' = [d \in Callers |-> IF d = c THEN count[c] + 1
                                         ELSE IF d \in Swept(t) THEN 0 ELSE count[d]]
          /\ windowEnd' = [d \in Callers |-> IF d \in Swept(t) THEN 0 ELSE windowEnd[d]]
          /\ UNCHANGED opened
    /\ Passes(s)

Refuse(s, c, t) ==
    /\ ~OpensWindow(c, t) /\ AtLimit(c)
    /\ count' = [d \in Callers |-> IF d \in Swept(t) THEN 0 ELSE count[d]]
    /\ windowEnd' = [d \in Callers |-> IF d \in Swept(t) THEN 0 ELSE windowEnd[d]]
    /\ pc' = [pc EXCEPT ![s] = "refused"]
    /\ UNCHANGED <<inside, since, opened>>

\* The request holds the lock: the sweep, if one is due, and the count.
Allow(s) ==
    LET t == stamp[s]
    IN  /\ pc[s] = "stamped"
        /\ lastSweep' = IF SweepDue(t) THEN t ELSE lastSweep
        /\ LetThrough(s, caller[s], t) \/ Refuse(s, caller[s], t)
        /\ latest' = IF latest < t THEN t ELSE latest
        /\ UNCHANGED <<now, caller, stamp, watched, held>>

\* The caller is answered: by the service it was forwarded to, for an
\* unreachable one with 502, and with 429 when it was refused.
Answer(s) ==
    /\ pc[s] \in {"passed", "refused"}
    /\ pc' = [pc EXCEPT ![s] = "idle"]
    /\ caller' = [caller EXCEPT ![s] = NoOne]
    /\ stamp' = [stamp EXCEPT ![s] = 0]
    /\ UNCHANGED <<now, counters, watched, history>>

Next ==
    \/ Tick
    \/ \E s \in Slots : Allow(s) \/ Answer(s) \/ \E c \in Callers : Arrive(s, c)

Spec == Init /\ [][Next]_vars

-----------------------------------------------------------------------------
\* Shape of the state.  A counter is never at more than the limit, and a window
\* never ends before it began.
TypeOK ==
    /\ now \in 0..MaxNow
    /\ count \in [Callers -> 0..Limit]
    /\ windowEnd \in [Callers -> Nat]
    /\ lastSweep \in 0..now
    /\ pc \in [Slots -> {"idle", "stamped", "passed", "refused"}]
    /\ caller \in [Slots -> Callers \union {NoOne}]
    /\ stamp \in [Slots -> 0..now]
    /\ watched \in [caller : Callers, from : 0..MaxNow]
    /\ inside \in Nat /\ held \in Nat
    /\ since \in 0..Limit
    /\ opened \in [Callers -> 0..now]
    /\ latest \in 0..now
    /\ \A s \in Slots : pc[s] = "idle" <=> caller[s] = NoOne
    /\ \A c \in Callers : Known(c) => Window <= windowEnd[c] /\ windowEnd[c] <= opened[c] + Window

\* One caller cannot lock another out (FixedWindow: per caller rather than per
\* gateway): a caller is refused only when as many of its own requests as the
\* limit were let through during the last window's length, whatever other
\* callers do and whatever their sweeps forget.
RefusedOnlyOverLimit ==
    \A s \in Slots :
        /\ pc[s] = "refused" /\ caller[s] = watched.caller
        /\ stamp[s] >= watched.from + Window \/ watched.from = 0
        => since = Limit

\* In an interval as long as a window, fewer than twice the limit pass, as
\* FixedWindow's comment has it, when no request of the caller waits for the lock as
\* it begins.  One that does has an older time: it may pass whatever came later, and
\* after a sweep open a window that is over within the interval.  Then each of them
\* may pass, and of those that come in the interval fewer than three times the limit.
BurstBounded == inside <= held + (IF held = 0 THEN 2 * Limit - 1 ELSE 3 * Limit - 2)

\* The map does not grow with every address ever seen (FixedWindow.sweep): when a
\* request read time t, each caller still remembered opened its window less than
\* two window lengths before.
MapIsSwept == \A c \in Callers : Known(c) => latest < opened[c] + 2 * Window
=============================================================================
