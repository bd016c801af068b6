-------------------------- MODULE RateLimiterProofs --------------------------
(***************************************************************************)
(* Proofs about RateLimiter for every limit, window, number of callers and *)
(* of requests at the same time.                                           *)
(*                                                                         *)
(* The invariant speaks of the watched caller's window in three classes by *)
(* where it ends: before the watched interval, inside it, or at its end or *)
(* later.  A window of the last class was opened inside the interval and   *)
(* outlasts it.  One that ends inside was opened by a request that came    *)
(* before the interval, and only a sweep lets a second one of that kind    *)
(* follow: a second sweep would come too late.  The account is of Came,    *)
(* which leaves out what waited for the lock when the interval began.      *)
(***************************************************************************)
EXTENDS RateLimiter, FiniteSetTheorems, TLAPS

From == watched.from

Last == watched.from + Window

\* The watched caller's requests that came before the interval and wait still.
Late == {s \in Waiting(watched.caller) : stamp[s] < From}

\* What passed in the interval, when each that waited at its start is taken to have
\* passed or not according to whether it waits still.
Came == inside + Cardinality(Late) - held

\* What windows before the present one may have let through in the interval.
Bonus == IF lastSweep > From THEN Limit - 1 ELSE 0

\* What a second window that ends in the interval may let through.
Extra == IF held = 0 THEN 0 ELSE Limit - 1

\* The sweep is never behind by a window, and it took every window that had ended.
Fresh ==
    /\ latest < lastSweep + Window
    /\ \A c \in Callers : Known(c) => lastSweep <= windowEnd[c] \/ lastSweep <= opened[c]

\* Every request counted in a window that was opened in the interval was let
\* through in it.
Counted ==
    LET w == watched.caller
    IN  Known(w) /\ windowEnd[w] >= Last => count[w] <= since

\* The requests let through while the interval lasts.
Burst ==
    LET w == watched.caller
    IN  /\ now < From => inside = 0 /\ held = 0
        /\ From <= now => Cardinality(Late) <= held
        /\ From <= now /\ now <= Last =>
              /\ ~Known(w) => Came <= Bonus
              /\ Known(w) /\ windowEnd[w] < From => Came <= Bonus
              /\ Known(w) /\ From <= windowEnd[w] /\ windowEnd[w] < Last =>
                    /\ Came <= Bonus + count[w] - 1
                    /\ Came <= Extra + count[w] - 1
              /\ Known(w) /\ Last <= windowEnd[w] =>
                    Came <= Extra + Limit - 1 + count[w]

IInv == TypeOK /\ Fresh /\ Counted /\ Burst /\ RefusedOnlyOverLimit /\ BurstBounded

-----------------------------------------------------------------------------
\* Waiting requests can be counted.
LEMMA LateFinite ==
    /\ IsFiniteSet(Late) /\ Cardinality(Late) \in Nat
    /\ \A c : IsFiniteSet(Waiting(c)) /\ Cardinality(Waiting(c)) \in Nat
  <1>1. Late \subseteq Slots /\ \A c : Waiting(c) \subseteq Slots
    BY DEF Late, Waiting
  <1>2. \A T \in SUBSET Slots : IsFiniteSet(T) /\ Cardinality(T) \in Nat
    BY LimiterAssumption, FS_Subset, FS_CardinalityType
  <1>3. QED
    BY <1>1, <1>2

LEMMA InitHolds == Init => IInv
  <1> SUFFICES ASSUME Init PROVE IInv
    OBVIOUS
  <1>1. Late = {}
    BY DEF Init, Late, Waiting
  <1>2. Cardinality(Late) = 0
    BY <1>1, FS_EmptySet
  <1>3. TypeOK
    BY LimiterAssumption DEF Init, TypeOK, Known
  <1>4. Burst
    BY <1>2, LimiterAssumption DEF Init, Burst, Known, From, Last, Bonus, Extra, Came
  <1>5. QED
    BY <1>3, <1>4, LimiterAssumption
       DEF Init, IInv, Fresh, Counted, RefusedOnlyOverLimit, BurstBounded, Known, Last

LEMMA TickHolds == ASSUME IInv, Tick PROVE IInv'
  <1>1. /\ now \in Nat /\ now' = now + 1 /\ From \in Nat /\ held \in Nat /\ inside \in Nat
        /\ UNCHANGED <<counters, requests, watched, passed>>
        /\ held' = IF now + 1 = From THEN Cardinality(Waiting(watched.caller)) ELSE held
    BY DEF Tick, From, IInv, TypeOK
  <1>2. TypeOK'
    BY <1>1, LateFinite, LimiterAssumption
       DEF IInv, TypeOK, Tick, counters, requests, passed, Known
  <1>3. Late' = Late /\ Cardinality(Late') = Cardinality(Late)
    BY <1>1 DEF Late, Waiting, requests, From
  <1>4. now < From => Late = Waiting(watched.caller)
    BY <1>1 DEF Late, Waiting, IInv, TypeOK
  <1>5. Burst'
    <2>1. CASE now + 1 < From
      BY <1>1, <2>1 DEF IInv, Burst, From, passed
    <2>2. CASE now + 1 = From
      <3>1. inside' = 0 /\ held' = Cardinality(Late) /\ Came' = 0
        BY <1>1, <1>3, <1>4, <2>2, LateFinite DEF IInv, Burst, passed, Came
      <3>2. Bonus' \in Nat /\ Extra' \in Nat /\ Limit \in Nat \ {0}
        BY LimiterAssumption DEF Bonus, Extra
      <3>3. count' \in [Callers -> 0..Limit] /\ watched.caller \in Callers
            /\ From' = From /\ watched' = watched
        BY <1>1, <1>2 DEF TypeOK, IInv, From
      <3>4. QED
        BY <1>1, <1>3, <2>2, <3>1, <3>2, <3>3, LateFinite DEF Burst, Known
    <2>3. CASE From < now + 1
      BY <1>1, <1>3, <2>3, LimiterAssumption
         DEF IInv, Burst, From, Last, Bonus, Extra, Came, Known, counters, passed
    <2>4. QED
      BY <1>1, <2>1, <2>2, <2>3
  <1>6. BurstBounded'
    <2>1. CASE now + 1 = From
      BY <1>1, <2>1, LateFinite, LimiterAssumption DEF IInv, Burst, BurstBounded, passed
    <2>2. CASE now + 1 # From
      BY <1>1, <2>2 DEF IInv, BurstBounded, passed
    <2>3. QED
      BY <2>1, <2>2
  <1>7. QED
    BY <1>1, <1>2, <1>5, <1>6
       DEF IInv, counters, requests, passed, Fresh, Counted, RefusedOnlyOverLimit, Known, Last

\* Steps that leave the counters, the clock and the histories alone.
LEMMA BurstKept ==
    ASSUME IInv, UNCHANGED <<now, counters, watched, history>>, From <= now => Late' = Late
    PROVE  Fresh' /\ Counted' /\ Burst' /\ BurstBounded'
  <1>1. Fresh' /\ Counted' /\ BurstBounded'
    BY DEF IInv, counters, history, passed, Fresh, Counted, BurstBounded, Known, Last
  <1>2. Burst'
    BY DEF IInv, counters, history, passed, Burst, Known, From, Last, Bonus, Extra, Came
  <1>3. QED
    BY <1>1, <1>2

LEMMA ArriveHolds ==
    ASSUME IInv, NEW s \in Slots, NEW c \in Callers, Arrive(s, c) PROVE IInv'
  <1>1. TypeOK'
    BY LimiterAssumption DEF IInv, TypeOK, Arrive, counters, history, passed, Known
  <1>2. RefusedOnlyOverLimit'
    BY DEF IInv, TypeOK, Arrive, history, passed, RefusedOnlyOverLimit
  <1>3. From <= now => Late' = Late
    BY DEF IInv, TypeOK, Arrive, Late, Waiting, From
  <1>4. QED
    BY <1>1, <1>2, <1>3, BurstKept DEF IInv, Arrive

LEMMA AnswerHolds == ASSUME IInv, NEW s \in Slots, Answer(s) PROVE IInv'
  <1>1. TypeOK'
    BY LimiterAssumption DEF IInv, TypeOK, Answer, counters, history, passed, Known
  <1>2. RefusedOnlyOverLimit'
    BY DEF IInv, TypeOK, Answer, history, passed, RefusedOnlyOverLimit
  <1>3. Late' = Late
    BY DEF IInv, TypeOK, Answer, Late, Waiting, From
  <1>4. QED
    BY <1>1, <1>2, <1>3, BurstKept DEF IInv, Answer

-----------------------------------------------------------------------------
(* A request with the lock                                                 *)

\* What happens to the counter of a caller d: it is made, counted up, swept or
\* left alone.
Made(d, t) ==
    /\ OpensWindow(d, t)
    /\ count'[d] = 1 /\ windowEnd'[d] = t + Window /\ opened'[d] = now

Raised(d, t) ==
    /\ ~OpensWindow(d, t) /\ count[d] < Limit
    /\ count'[d] = count[d] + 1 /\ windowEnd'[d] = windowEnd[d] /\ opened'[d] = opened[d]

Forgotten(d, t) ==
    /\ d \in Swept(t)
    /\ count'[d] = 0 /\ windowEnd'[d] = 0 /\ opened'[d] = opened[d]

Kept(d, t) ==
    /\ d \notin Swept(t)
    /\ count'[d] = count[d] /\ windowEnd'[d] = windowEnd[d] /\ opened'[d] = opened[d]

LEMMA AllowCases ==
    ASSUME TypeOK, NEW s \in Slots, Allow(s)
    PROVE  /\ caller[s] \in Callers
           /\ stamp[s] \in 0..now
           /\ \/ Made(caller[s], stamp[s]) /\ Passes(s)
              \/ Raised(caller[s], stamp[s]) /\ Passes(s)
              \/ /\ ~OpensWindow(caller[s], stamp[s]) /\ AtLimit(caller[s])
                 /\ Kept(caller[s], stamp[s])
                 /\ pc' = [pc EXCEPT ![s] = "refused"]
                 /\ UNCHANGED <<inside, since>>
           /\ \A d \in Callers \ {caller[s]} : Forgotten(d, stamp[s]) \/ Kept(d, stamp[s])
  <1>1. caller[s] \in Callers /\ stamp[s] \in 0..now
    BY DEF TypeOK, Allow
  <1>2. caller[s] \in Swept(stamp[s]) => OpensWindow(caller[s], stamp[s])
    BY DEF OpensWindow
  <1>3. CASE LetThrough(s, caller[s], stamp[s])
    <2>1. CASE OpensWindow(caller[s], stamp[s])
      <3>1. Made(caller[s], stamp[s]) /\ Passes(s)
        BY <1>1, <1>3, <2>1 DEF LetThrough, Made, TypeOK
      <3>2. ASSUME NEW d \in Callers \ {caller[s]}
            PROVE  Forgotten(d, stamp[s]) \/ Kept(d, stamp[s])
        BY <1>1, <1>3, <2>1 DEF LetThrough, Forgotten, Kept, TypeOK
      <3>3. QED
        BY ONLY <1>1, <3>1, <3>2
    <2>2. CASE ~OpensWindow(caller[s], stamp[s])
      <3>1. Raised(caller[s], stamp[s]) /\ Passes(s)
        BY <1>1, <1>2, <1>3, <2>2, LimiterAssumption
           DEF LetThrough, Raised, AtLimit, OpensWindow, TypeOK
      <3>2. ASSUME NEW d \in Callers \ {caller[s]}
            PROVE  Forgotten(d, stamp[s]) \/ Kept(d, stamp[s])
        BY <1>1, <1>3, <2>2 DEF LetThrough, Forgotten, Kept, TypeOK
      <3>3. QED
        BY ONLY <1>1, <3>1, <3>2
    <2>3. QED
      BY <2>1, <2>2
  <1>4. CASE Refuse(s, caller[s], stamp[s])
    BY <1>1, <1>2, <1>4 DEF Refuse, Forgotten, Kept, TypeOK
  <1>5. QED
    BY <1>3, <1>4 DEF Allow

\* The functions of the next state have the callers for their domain.
LEMMA AllowShapes ==
    ASSUME TypeOK, NEW s \in Slots, Allow(s)
    PROVE  /\ count' = [d \in Callers |-> count'[d]]
           /\ windowEnd' = [d \in Callers |-> windowEnd'[d]]
           /\ opened' = [d \in Callers |-> opened'[d]]
           /\ pc' \in [Slots -> {"idle", "stamped", "passed", "refused"}]
           /\ pc[s] = "stamped" /\ pc'[s] \in {"passed", "refused"}
           /\ \A r \in Slots \ {s} : pc'[r] = pc[r]
           /\ inside' \in {inside, inside + 1}
           /\ since' \in {since, since + 1} /\ since' <= Limit
  <1>1. CASE LetThrough(s, caller[s], stamp[s])
    BY <1>1, LimiterAssumption DEF Allow, LetThrough, Passes, TypeOK
  <1>2. CASE Refuse(s, caller[s], stamp[s])
    BY <1>2, LimiterAssumption DEF Allow, Refuse, TypeOK
  <1>3. QED
    BY <1>1, <1>2 DEF Allow

LEMMA AllowType == ASSUME TypeOK, NEW s \in Slots, Allow(s) PROVE TypeOK'
  <1>1. ASSUME NEW d \in Callers
        PROVE  /\ count'[d] \in 0..Limit /\ windowEnd'[d] \in Nat /\ opened'[d] \in 0..now
               /\ count'[d] > 0 =>
                     Window <= windowEnd'[d] /\ windowEnd'[d] <= opened'[d] + Window
    BY AllowCases, LimiterAssumption DEF Made, Raised, Forgotten, Kept, TypeOK, Known,
       OpensWindow
  <1>2. /\ count' \in [Callers -> 0..Limit]
        /\ windowEnd' \in [Callers -> Nat]
        /\ opened' \in [Callers -> 0..now]
    BY <1>1, AllowShapes
  <1>3. lastSweep' \in 0..now /\ latest' \in 0..now
    BY AllowCases DEF Allow, TypeOK
  <1>4. since' \in 0..Limit /\ inside' \in Nat
    BY AllowShapes, LimiterAssumption DEF TypeOK
  <1>5. \A r \in Slots : pc'[r] = "idle" <=> caller[r] = NoOne
    BY AllowShapes, AllowCases, LimiterAssumption DEF TypeOK
  <1>6. QED
    BY <1>1, <1>2, <1>3, <1>4, <1>5, AllowShapes DEF Allow, TypeOK, Known

LEMMA AllowFresh == ASSUME IInv, NEW s \in Slots, Allow(s) PROVE Fresh'
  <1>1. latest' < lastSweep' + Window
    BY AllowCases, LimiterAssumption DEF IInv, TypeOK, Fresh, Allow, SweepDue
  <1>2. ASSUME NEW d \in Callers, count'[d] > 0
        PROVE  lastSweep' <= windowEnd'[d] \/ lastSweep' <= opened'[d]
    <2>1. CASE Made(d, stamp[s])
      BY <2>1, AllowCases, LimiterAssumption DEF Made, IInv, TypeOK, Allow
    <2>2. CASE d \notin Swept(stamp[s]) /\ (Raised(d, stamp[s]) \/ Kept(d, stamp[s]))
      <3>1. Known(d)
        BY <1>2, <2>2, LimiterAssumption DEF Raised, Kept, Known, OpensWindow, IInv, TypeOK
      <3>2. CASE SweepDue(stamp[s])
        <4>1. ~Over(d, stamp[s])
          BY <2>2, <3>1, <3>2 DEF Swept
        <4>2. stamp[s] <= windowEnd[d]
          BY <4>1, AllowCases DEF Over, IInv, TypeOK
        <4>3. lastSweep' = stamp[s] /\ windowEnd'[d] = windowEnd[d]
          BY <2>2, <3>2 DEF Raised, Kept, Allow
        <4>4. QED
          BY <4>2, <4>3
      <3>3. CASE ~SweepDue(stamp[s])
        BY <2>2, <3>1, <3>3 DEF Raised, Kept, Allow, IInv, Fresh
      <3>4. QED
        BY <3>2, <3>3
    <2>3. CASE Forgotten(d, stamp[s])
      BY <1>2, <2>3 DEF Forgotten
    <2>4. QED
      BY <2>1, <2>2, <2>3, AllowCases DEF Kept, Raised, OpensWindow, IInv
  <1>3. QED
    BY <1>1, <1>2 DEF Fresh, Known

LEMMA AllowCounted == ASSUME IInv, NEW s \in Slots, Allow(s) PROVE Counted'
  <1> DEFINE w == watched.caller
  <1>1. w \in Callers /\ watched' = watched /\ now' = now /\ From \in Nat
    BY DEF IInv, TypeOK, Allow, From
  <1>2. CASE caller[s] = w /\ Made(w, stamp[s]) /\ Passes(s)
    <2>1. stamp[s] + Window >= Last => now >= From
      BY <1>1, AllowCases, LimiterAssumption DEF IInv, TypeOK, Last, From
    <2>2. now >= From => since' >= 1
      BY <1>1, <1>2, LimiterAssumption DEF Passes, From, IInv, TypeOK
    <2>3. QED
      BY <1>1, <1>2, <2>1, <2>2 DEF Made, Counted, Last
  <1>3. CASE caller[s] = w /\ Raised(w, stamp[s]) /\ Passes(s)
    <2>1. Known(w)
      BY <1>1, <1>3 DEF Raised, OpensWindow
    <2>2. windowEnd[w] >= Last => now >= From
      BY <1>1, <2>1, LimiterAssumption DEF IInv, TypeOK, Last, From
    <2>3. windowEnd[w] >= Last => since' >= count[w] + 1
      BY <1>1, <1>3, <2>1, <2>2 DEF Passes, From, IInv, TypeOK, Counted, Raised
    <2>4. QED
      BY <1>1, <1>3, <2>3 DEF Raised, Counted, Last
  <1>4. CASE (Forgotten(w, stamp[s]) \/ Kept(w, stamp[s])) /\ UNCHANGED since
    BY <1>1, <1>4 DEF Forgotten, Kept, Counted, Known, Last, IInv
  <1>5. caller[s] # w => UNCHANGED since
    BY DEF Allow, LetThrough, Refuse, Passes
  <1>6. CASE caller[s] # w
    <2>1. Forgotten(w, stamp[s]) \/ Kept(w, stamp[s])
      BY <1>1, <1>6, AllowCases DEF IInv
    <2>2. QED
      BY <1>4, <1>5, <1>6, <2>1
  <1>7. CASE caller[s] = w
    BY <1>2, <1>3, <1>4, <1>7, AllowCases DEF IInv
  <1>8. QED
    BY <1>6, <1>7

\* The request with the lock waits no longer.
LEMMA LateSteps ==
    ASSUME IInv, NEW s \in Slots, Allow(s)
    PROVE  /\ Cardinality(Late) \in Nat /\ Cardinality(Late') \in Nat
           /\ caller[s] = watched.caller /\ stamp[s] < From =>
                 Cardinality(Late') = Cardinality(Late) - 1
           /\ ~(caller[s] = watched.caller /\ stamp[s] < From) =>
                 Cardinality(Late') = Cardinality(Late)
  <1>1. IsFiniteSet(Late) /\ Cardinality(Late) \in Nat
    BY LateFinite
  <1>2. Late' = Late \ {s}
    BY AllowShapes DEF IInv, Late, Waiting, Allow, From
  <1>3. s \in Late <=> caller[s] = watched.caller /\ stamp[s] < From
    BY AllowShapes DEF IInv, Late, Waiting
  <1>4. /\ IsFiniteSet(Late \ {s})
        /\ Cardinality(Late \ {s}) = IF s \in Late THEN Cardinality(Late) - 1 ELSE Cardinality(Late)
    BY <1>1, FS_RemoveElement
  <1>5. Cardinality(Late') \in Nat
    BY <1>2, <1>4, FS_CardinalityType
  <1>6. QED
    BY <1>1, <1>2, <1>3, <1>4, <1>5

\* The watched caller's requests in the interval, by the class of its window.
LEMMA AllowBurst == ASSUME IInv, NEW s \in Slots, Allow(s) PROVE Burst'
  <1> DEFINE w == watched.caller
             t == stamp[s]
  <1>1. /\ w \in Callers /\ watched' = watched /\ now' = now
        /\ From \in Nat /\ now \in Nat /\ lastSweep \in Nat /\ t \in 0..now
        /\ inside \in Nat /\ count[w] \in 0..Limit /\ windowEnd[w] \in Nat
        /\ From' = From /\ Last = From + Window /\ Last' = Last
    BY DEF IInv, TypeOK, Allow, From, Last
  <1>2. Limit \in Nat \ {0} /\ Window \in Nat \ {0}
    BY LimiterAssumption
  <1>3. now < From => inside' = 0
    BY <1>1, AllowCases, AllowShapes DEF IInv, Burst, Passes, Allow, LetThrough, Refuse, From
  <1> DEFINE late == Cardinality(Late)
             late1 == Cardinality(Late')
  <1>4. /\ late \in Nat /\ late1 \in Nat /\ held \in Nat /\ held' = held /\ inside' \in Nat
        /\ Came = inside + late - held /\ Came' = inside' + late1 - held
        /\ Came \in Int /\ Came' \in Int
    <2>1. late \in Nat /\ late1 \in Nat
      BY LateSteps
    <2>2. held \in Nat /\ held' = held /\ inside' \in Nat
      BY <1>1, AllowShapes DEF IInv, TypeOK, Allow
    <2>3. QED
      BY <1>1, <2>1, <2>2 DEF Came
  <1>5. /\ caller[s] = w /\ t < From => late1 = late - 1
        /\ ~(caller[s] = w /\ t < From) => late1 = late
    BY LateSteps DEF From
  <1>6. From <= now => late <= held
    BY DEF IInv, Burst
  <1>7. now < From => inside' = 0 /\ held' = 0
    BY <1>3, <1>4 DEF IInv, Burst
  <1>8. From <= now => late1 <= held'
    BY <1>4, <1>5, <1>6
  <1> HIDE DEF late, late1
  <1>9. SUFFICES ASSUME From <= now, now <= Last
        PROVE  /\ ~Known(w)' => Came' <= Bonus'
               /\ Known(w)' /\ windowEnd'[w] < From => Came' <= Bonus'
               /\ Known(w)' /\ From <= windowEnd'[w] /\ windowEnd'[w] < Last =>
                     /\ Came' <= Bonus' + count'[w] - 1
                     /\ Came' <= Extra' + count'[w] - 1
               /\ Known(w)' /\ Last <= windowEnd'[w] =>
                     Came' <= Extra' + Limit - 1 + count'[w]
    BY <1>1, <1>7, <1>8 DEF Burst, late1
  <1>10. lastSweep' \in Nat /\ lastSweep <= lastSweep'
    BY <1>1, <1>2 DEF Allow, SweepDue
  <1>11. Bonus \in {0, Limit - 1} /\ Bonus' \in {0, Limit - 1} /\ Bonus <= Bonus'
    BY <1>1, <1>2, <1>10 DEF Bonus
  <1>12. /\ Extra \in {0, Limit - 1} /\ Extra' = Extra
         /\ caller[s] = w /\ t < From => Extra = Limit - 1
    BY <1>2, <1>4, <1>5, <1>6, <1>9 DEF Extra
  \* A window that reached into the interval is swept once at most.
  <1>13. w \in Swept(t) =>
            /\ Known(w) /\ windowEnd[w] < t /\ windowEnd[w] < Last
            /\ From <= windowEnd[w] => Bonus = 0 /\ Bonus' = Limit - 1
    BY <1>1, <1>2, <1>9 DEF Swept, SweepDue, Over, Bonus, Allow
  <1>14. Came' <= Came \/ (Came' = Came + 1 /\ caller[s] = w /\ From <= t)
    <2>1. inside' = inside \/ (inside' = inside + 1 /\ caller[s] = w)
      BY <1>1 DEF Allow, LetThrough, Refuse, Passes
    <2>2. QED
      BY <1>1, <1>4, <1>5, <2>1
  \* What had passed in the interval when the window that was there is given up.
  <1>15. OpensWindow(w, t) =>
            /\ Came <= Extra + Limit - 1
            /\ t < From => Came <= Bonus'
    <2>1. CASE ~Known(w)
      BY <1>1, <1>2, <1>4, <1>9, <1>11, <1>12, <2>1 DEF IInv, Burst
    <2>2. CASE Known(w) /\ w \in Swept(t)
      BY <1>1, <1>2, <1>4, <1>9, <1>11, <1>12, <1>13, <2>2 DEF IInv, Burst
    <2>3. CASE Known(w) /\ Over(w, t)
      BY <1>1, <1>2, <1>4, <1>9, <1>11, <1>12, <2>3 DEF IInv, Burst, Over
    <2>4. QED
      BY <2>1, <2>2, <2>3 DEF OpensWindow
  <1>16. CASE caller[s] = w /\ Made(w, t)
    BY <1>1, <1>2, <1>4, <1>11, <1>12, <1>14, <1>15, <1>16 DEF Made, Known
  \* The present class, and what the next step is to show of it.
  <1>17. /\ ~(count[w] > 0) => Came <= Bonus
         /\ count[w] > 0 /\ windowEnd[w] < From => Came <= Bonus
         /\ count[w] > 0 /\ From <= windowEnd[w] /\ windowEnd[w] < Last =>
               /\ Came <= Bonus + count[w] - 1
               /\ Came <= Extra + count[w] - 1
         /\ count[w] > 0 /\ Last <= windowEnd[w] => Came <= Extra + Limit - 1 + count[w]
    BY <1>9 DEF IInv, Burst, Known
  <1>18. /\ Bonus \in Int /\ Bonus' \in Int /\ Extra \in Int /\ Bonus <= Bonus' /\ Extra' = Extra
         /\ Came \in Int /\ Came' \in Int /\ Limit \in Nat
         /\ count[w] \in Nat /\ windowEnd[w] \in Nat /\ From \in Nat /\ t \in Nat /\ Last \in Nat
    BY <1>1, <1>2, <1>4, <1>11, <1>12
  <1>19. Known(w)' <=> count'[w] > 0
    BY <1>1 DEF Known
  <1>20. CASE Raised(w, t)
    <2>1. /\ count'[w] = count[w] + 1 /\ windowEnd'[w] = windowEnd[w]
          /\ count[w] > 0 /\ t <= windowEnd[w]
      BY <1>1, <1>20 DEF Raised, OpensWindow, Over, Known
    <2>2. Came' <= Came \/ (Came' = Came + 1 /\ From <= t)
      BY <1>14
    <2>3. count'[w] > 0 /\ windowEnd'[w] < From => Came' <= Bonus'
      BY <1>17, <1>18, <2>1, <2>2
    <2>4. count'[w] > 0 /\ From <= windowEnd'[w] /\ windowEnd'[w] < Last =>
                /\ Came' <= Bonus' + count'[w] - 1
                /\ Came' <= Extra' + count'[w] - 1
      BY <1>17, <1>18, <2>1, <2>2
    <2>5. count'[w] > 0 /\ Last <= windowEnd'[w] => Came' <= Extra' + Limit - 1 + count'[w]
      BY <1>17, <1>18, <2>1, <2>2
    <2>6. count'[w] > 0
      BY <1>18, <2>1
    <2>7. QED
      BY <1>19, <2>3, <2>4, <2>5, <2>6
  <1>21. CASE Forgotten(w, t) /\ Came' <= Came
    <2>1. count'[w] = 0 /\ w \in Swept(t)
      BY <1>21 DEF Forgotten
    <2>2. /\ count[w] > 0 /\ windowEnd[w] < Last /\ count[w] <= Limit
          /\ From <= windowEnd[w] => Bonus = 0 /\ Bonus' = Limit - 1
      BY <1>1, <1>2, <1>13, <2>1 DEF Known
    <2>3. Came' <= Bonus'
      BY <1>17, <1>18, <1>21, <2>2
    <2>4. QED
      BY <1>19, <2>1, <2>3
  <1>22. CASE Kept(w, t) /\ Came' <= Came
    <2>1. count'[w] = count[w] /\ windowEnd'[w] = windowEnd[w]
      BY <1>22 DEF Kept
    <2>2. /\ ~(count'[w] > 0) => Came' <= Bonus'
          /\ count'[w] > 0 /\ windowEnd'[w] < From => Came' <= Bonus'
      BY <1>17, <1>18, <1>22, <2>1
    <2>3. count'[w] > 0 /\ From <= windowEnd'[w] /\ windowEnd'[w] < Last =>
                /\ Came' <= Bonus' + count'[w] - 1
                /\ Came' <= Extra' + count'[w] - 1
      BY <1>17, <1>18, <1>22, <2>1
    <2>4. count'[w] > 0 /\ Last <= windowEnd'[w] => Came' <= Extra' + Limit - 1 + count'[w]
      BY <1>17, <1>18, <1>22, <2>1
    <2>5. QED
      BY <1>19, <2>2, <2>3, <2>4
  <1>23. caller[s] = w /\ Kept(w, t) /\ UNCHANGED inside => Came' <= Came
    BY <1>1, <1>4, <1>5
  <1>24. QED
    <2>1. CASE caller[s] = w
      BY <1>1, <1>16, <1>20, <1>22, <1>23, <2>1, AllowCases DEF IInv
    <2>2. CASE caller[s] # w
      BY <1>1, <1>14, <1>21, <1>22, <2>2, AllowCases DEF IInv
    <2>3. QED
      BY <2>1, <2>2

LEMMA AllowBounded ==
    ASSUME IInv, NEW s \in Slots, Allow(s), Burst', TypeOK' PROVE BurstBounded'
  <1>1. /\ watched' = watched /\ now' = now /\ From \in Nat /\ now \in Nat
        /\ From' = From /\ Last = From + Window /\ Last' = Last
        /\ watched.caller \in Callers /\ Window \in Nat /\ Limit \in Nat \ {0} /\ inside' \in Nat
        /\ count'[watched.caller] \in 0..Limit /\ windowEnd'[watched.caller] \in Nat
        /\ held' = held /\ held \in Nat
    BY LimiterAssumption DEF IInv, TypeOK, Allow, From, Last
  <1>2. Bonus' \in {0, Limit - 1} /\ Extra' = IF held = 0 THEN 0 ELSE Limit - 1
    BY <1>1 DEF Bonus, Extra
  <1>3. CASE From <= now /\ now <= Last
    <2>1. Cardinality(Late') \in Nat /\ Came' = inside' + Cardinality(Late') - held
      BY <1>1, LateSteps DEF Came
    <2>2. inside' <= held + Came'
      BY <1>1, <2>1
    <2>3. Cardinality(Late') <= held
      BY <1>1, <1>3 DEF Burst
    <2>4. Came' <= Extra' + Limit - 1 + Limit
      <3>1. Came' \in Int
        BY <1>1, <2>1
      <3>2. QED
        BY <1>1, <1>2, <1>3, <3>1 DEF Burst, Known
    <2>5. QED
      BY <1>1, <1>2, <2>1, <2>2, <2>4 DEF BurstBounded
  <1>4. CASE ~(From <= now /\ now <= Last)
    <2>1. inside' = inside
      BY <1>1, <1>4 DEF Allow, LetThrough, Refuse, Passes, From, Last
    <2>2. QED
      BY <1>1, <2>1 DEF IInv, BurstBounded
  <1>5. QED
    BY <1>3, <1>4

LEMMA AllowRefused == ASSUME IInv, NEW s \in Slots, Allow(s) PROVE RefusedOnlyOverLimit'
  <1> SUFFICES ASSUME NEW r \in Slots, pc'[r] = "refused", caller[r] = watched.caller,
                      stamp[r] >= watched.from + Window \/ watched.from = 0
               PROVE  since' = Limit
    BY DEF RefusedOnlyOverLimit, Allow
  <1>1. /\ since \in 0..Limit /\ since' \in {since, since + 1} /\ since' <= Limit
        /\ Limit \in Nat \ {0} /\ Window \in Nat \ {0} /\ From \in Nat
    BY AllowShapes, LimiterAssumption DEF IInv, TypeOK, From
  <1>2. CASE r # s
    <2>1. pc[r] = "refused"
      BY <1>2, AllowShapes DEF IInv
    <2>2. since = Limit
      BY <2>1 DEF IInv, RefusedOnlyOverLimit
    <2>3. QED
      BY <1>1, <2>2
  <1>3. CASE r = s
    <2> DEFINE w == watched.caller
    <2>1. w \in Callers /\ w = caller[s] /\ stamp[s] \in Nat /\ windowEnd[w] \in Nat
          /\ count[w] \in 0..Limit
      BY <1>3 DEF IInv, TypeOK
    <2>2. ~OpensWindow(w, stamp[s]) /\ AtLimit(w) /\ since' = since
      BY <1>3, <2>1, AllowCases DEF IInv, TypeOK, Allow, LetThrough, Refuse, Passes
    <2>3. Known(w) /\ stamp[s] <= windowEnd[w] /\ count[w] = Limit
      BY <1>1, <2>1, <2>2 DEF OpensWindow, Over, AtLimit
    <2>4. windowEnd[w] >= Last
      <3>1. Window <= windowEnd[w]
        BY <2>1, <2>3 DEF IInv, TypeOK
      <3>2. QED
        BY <1>1, <1>3, <2>1, <2>3, <3>1 DEF From, Last
    <2>5. count[w] <= since
      BY <2>3, <2>4 DEF IInv, Counted
    <2>6. QED
      BY <1>1, <2>2, <2>3, <2>5
  <1>4. QED
    BY <1>2, <1>3

-----------------------------------------------------------------------------
\* The inductive invariant: besides the properties, which windows the requests let
\* through in the watched interval were counted in.
THEOREM LimiterInvariant == Spec => []IInv
  <1>1. IInv /\ [Next]_vars => IInv'
    <2> SUFFICES ASSUME IInv, [Next]_vars PROVE IInv'
      OBVIOUS
    <2>1. CASE Tick
      BY <2>1, TickHolds
    <2>2. CASE \E s \in Slots : Allow(s)
      BY <2>2, AllowType, AllowFresh, AllowCounted, AllowBurst, AllowBounded, AllowRefused
         DEF IInv
    <2>3. CASE \E s \in Slots : Answer(s)
      BY <2>3, AnswerHolds
    <2>4. CASE \E s \in Slots : \E c \in Callers : Arrive(s, c)
      BY <2>4, ArriveHolds
    <2>5. CASE UNCHANGED vars
      <3>1. UNCHANGED <<now, counters, requests, watched, history>> /\ Late' = Late
        BY <2>5 DEF vars, requests, Late, Waiting, From
      <3>2. QED
        BY <3>1, BurstKept
           DEF counters, requests, history, passed, IInv, TypeOK, RefusedOnlyOverLimit, Known
    <2>6. QED
      BY <2>1, <2>2, <2>3, <2>4, <2>5 DEF Next
  <1>2. QED
    BY <1>1, InitHolds, PTL DEF Spec

\* Counters, windows and requests keep their shape; no counter exceeds the limit
\* (FixedWindow.allow).
THEOREM LimiterTypeCorrect == Spec => []TypeOK
  BY LimiterInvariant, PTL DEF IInv

\* A caller is refused only over its own requests, whoever else uses the gateway
\* (FixedWindow counts per caller).
THEOREM LimiterIsolates == Spec => []RefusedOnlyOverLimit
  BY LimiterInvariant, PTL DEF IInv

\* In an interval as long as a window fewer than twice the limit pass when none waits
\* for the lock as it begins, else each that does and fewer than three times the limit
\* of the others, in whatever order requests get the lock (FixedWindow.allow).
THEOREM LimiterBoundsBursts == Spec => []BurstBounded
  BY LimiterInvariant, PTL DEF IInv

\* The map holds only callers whose window was opened lately (FixedWindow.sweep).
THEOREM LimiterForgets == Spec => []MapIsSwept
  <1>1. IInv => MapIsSwept
    BY LimiterAssumption DEF IInv, TypeOK, Fresh, MapIsSwept, Known
  <1>2. QED
    BY <1>1, LimiterInvariant, PTL
=============================================================================
