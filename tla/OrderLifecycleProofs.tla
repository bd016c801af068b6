------------------------ MODULE OrderLifecycleProofs ------------------------
(***************************************************************************)
(* Proofs about OrderLifecycle and OrderQueries, for every number of       *)
(* concurrent updates, products, prices, page sizes and every bound: the   *)
(* type invariant, that orders keep their lines, that the outbox tells the *)
(* state of the orders, that what was deleted in peace is gone, and what   *)
(* readers see of all that.                                                *)
(***************************************************************************)
EXTENDS OrderQueries, FiniteSetTheorems, SequenceTheorems, TLAPS

-----------------------------------------------------------------------------
(* Lines and rounding *)

\* Rounding once is rounding for good: what was stored and loaded again is
\* stored as it is.
LEMMA CentOnce == \A a \in Nat : Cent(a) \in Nat /\ Cent(Cent(a)) = Cent(a)
  BY DEF Cent

\* Amounts are numbers, and rounding leads to one of them.
LEMMA AmountsClosed == \A a \in Amounts : a \in Nat /\ Cent(a) \in Amounts
  BY CentOnce, OrderBounds DEF Amounts

\* Membership in Lines, without its union.
LEMMA LinesAre ==
    ASSUME NEW S, NEW ls
    PROVE  ls \in Lines(S) <=> DOMAIN ls \in SUBSET Products /\ ls \in [DOMAIN ls -> S]
  <1>1. ASSUME ls \in Lines(S)
        PROVE  DOMAIN ls \in SUBSET Products /\ ls \in [DOMAIN ls -> S]
    <2>1. PICK P \in SUBSET Products : ls \in [P -> S]
      BY <1>1 DEF Lines
    <2>2. DOMAIN ls = P
      BY <2>1
    <2>3. QED
      BY <2>1, <2>2
  <1>2. ASSUME DOMAIN ls \in SUBSET Products, ls \in [DOMAIN ls -> S]
        PROVE  ls \in Lines(S)
    BY <1>2 DEF Lines
  <1>3. QED
    BY <1>1, <1>2

LEMMA RoundedLines ==
    ASSUME NEW ls \in Lines(Amounts)
    PROVE  /\ Rounded(ls) \in Lines(Amounts)
           /\ DOMAIN Rounded(ls) = DOMAIN ls
           /\ Rounded(Rounded(ls)) = Rounded(ls)
  <1>1. DOMAIN ls \in SUBSET Products /\ ls \in [DOMAIN ls -> Amounts]
    BY LinesAre
  <1>2. DOMAIN Rounded(ls) = DOMAIN ls
    BY DEF Rounded
  <1>3. Rounded(ls) \in [DOMAIN ls -> Amounts]
    BY <1>1, AmountsClosed DEF Rounded
  <1>4. Rounded(ls) \in Lines(Amounts)
    BY <1>1, <1>2, <1>3, LinesAre
  <1>5. \A p \in DOMAIN ls : Cent(Cent(ls[p])) = Cent(ls[p])
    BY <1>1, AmountsClosed, CentOnce
  <1>6. Rounded(Rounded(ls)) = Rounded(ls)
    BY <1>2, <1>5 DEF Rounded
  <1>7. QED
    BY <1>2, <1>4, <1>6

LEMMA NoLinesIsRounded == NoLines \in Lines(Amounts) /\ Rounded(NoLines) = NoLines
  <1>1. DOMAIN NoLines = {} /\ NoLines \in [{} -> Amounts]
    BY DEF NoLines
  <1>2. NoLines \in Lines(Amounts)
    BY <1>1, LinesAre
  <1>3. QED
    BY <1>1, <1>2 DEF Rounded, NoLines

\* What a new order's lines may be.
LEMMA GivenLines ==
    ASSUME NEW ls \in Lines(Prices)
    PROVE  ls \in Lines(Amounts) /\ DOMAIN ls \subseteq Products
  BY LinesAre DEF Amounts

-----------------------------------------------------------------------------
(* The invariant *)

\* What an update knows of its order at each call.
InHand ==
    \A r \in Requests :
        /\ pc[r] = "lines" => row[hand[r]] # 0 \/ hand[r] \in deleted
        /\ pc[r] = "save" =>
              \/ loaded[r] = Rounded(placed[hand[r]])
              \/ hand[r] \in deleted /\ loaded[r] = NoLines

\* Nobody works on an order that was deleted in peace.
Released == \A o \in final : \A r \in Requests : hand[r] # o

\* Events are of orders and changes that exist.
Past == \A e \in outbox : e.order <= orders /\ e.change <= changes

IInv ==
    /\ TypeOK
    /\ WholeOrders
    /\ EventsTellTheState
    /\ FinallyGone
    /\ InHand
    /\ Released
    /\ Past

\* The parts of TypeOK that speak of updates, as facts about one of them.
LEMMA Loading ==
    ASSUME TypeOK, NEW r \in Requests, pc[r] # "idle"
    PROVE  hand[r] \in Ids /\ hand[r] <= orders /\ loaded[r] \in Lines(Amounts)
  BY OrderBounds DEF TypeOK, Ids

-----------------------------------------------------------------------------
(* Saving *)

LEMMA SaveType ==
    ASSUME TypeOK, NEW o \in Ids, NEW ls \in Lines(Amounts), NEW b \in BOOLEAN,
           Save(o, ls, b)
    PROVE  /\ changes' = changes + 1 /\ changes' \in 0..MaxChanges
           /\ row' \in [Ids -> 0..changes']
           /\ row'[o] = changes + 1
           /\ \A i \in Ids \ {o} : row'[i] = row[i]
           /\ lines' \in [Ids -> Lines(Amounts)]
           /\ lines'[o] = Rounded(ls)
           /\ \A i \in Ids \ {o} : lines'[i] = lines[i]
           /\ outbox' \subseteq Event
           /\ outbox' \in {outbox,
                           outbox \union {[order |-> o, change |-> changes + 1, lines |-> ls]}}
           /\ b => [order |-> o, change |-> changes + 1, lines |-> ls] \in outbox'
  <1>1. changes' = changes + 1 /\ changes' \in 0..MaxChanges /\ changes \in Nat
    BY OrderBounds DEF TypeOK, Save
  <1>2. row' = [row EXCEPT ![o] = changes + 1] /\ lines' = [lines EXCEPT ![o] = Rounded(ls)]
    BY DEF Save, ReplaceLines
  <1>3. row \in [Ids -> 0..changes] /\ lines \in [Ids -> Lines(Amounts)]
    BY DEF TypeOK
  <1>4. row' \in [Ids -> 0..changes']
    BY <1>1, <1>2, <1>3
  <1>5. lines' \in [Ids -> Lines(Amounts)]
    BY <1>2, <1>3, RoundedLines
  <1>6. outbox' \in {outbox,
                     outbox \union {[order |-> o, change |-> changes + 1, lines |-> ls]}}
    BY DEF Save, Stage
  <1>7. [order |-> o, change |-> changes + 1, lines |-> ls] \in Event
    BY <1>1 DEF Event
  <1>8. outbox' \subseteq Event
    BY <1>6, <1>7 DEF TypeOK
  <1>9. b => [order |-> o, change |-> changes + 1, lines |-> ls] \in outbox'
    BY DEF Save, Stage
  <1>10. QED
    BY <1>1, <1>2, <1>3, <1>4, <1>5, <1>6, <1>8, <1>9

-----------------------------------------------------------------------------
(* Types *)

LEMMA InitType == Init => TypeOK
  <1> SUFFICES ASSUME Init PROVE TypeOK
    OBVIOUS
  <1>1. NoLines \in Lines(Amounts) /\ DOMAIN NoLines = {}
    BY NoLinesIsRounded DEF NoLines
  <1>2. QED
    BY <1>1, OrderBounds DEF Init, TypeOK, Ids

LEMMA NewOrderType ==
    ASSUME TypeOK, NEW ls \in Lines(Prices), Create(ls) \/ Place(ls)
    PROVE  TypeOK'
  <1>1. ls \in Lines(Amounts) /\ DOMAIN ls \subseteq Products
    BY GivenLines
  <1>2. NewOrder(ls) /\ known' \subseteq Products /\ known \subseteq known'
          /\ DOMAIN ls \subseteq known'
    BY <1>1 DEF TypeOK, Create, Place, AddUnknown
  <1>3. PICK b \in BOOLEAN : Save(orders + 1, ls, b)
    BY <1>2 DEF NewOrder
  <1>4. orders + 1 \in Ids /\ orders' = orders + 1 /\ orders \in Nat /\ orders' \in 0..MaxOrders
    BY <1>2, OrderBounds DEF NewOrder, TypeOK, Ids
  <1>5. /\ changes' = changes + 1 /\ changes' \in 0..MaxChanges
        /\ row' \in [Ids -> 0..changes']
        /\ row'[orders + 1] = changes + 1
        /\ \A i \in Ids \ {orders + 1} : row'[i] = row[i]
        /\ lines' \in [Ids -> Lines(Amounts)]
        /\ lines'[orders + 1] = Rounded(ls)
        /\ \A i \in Ids \ {orders + 1} : lines'[i] = lines[i]
        /\ outbox' \subseteq Event
    BY <1>1, <1>3, <1>4, SaveType
  <1>6. placed' \in [Ids -> Lines(Amounts)]
    BY <1>1, <1>2, <1>4 DEF NewOrder, TypeOK
  <1>7. UNCHANGED <<pc, hand, loaded, deleted, final>>
    BY <1>2 DEF NewOrder, update
  <1>8. hand' \in [Requests -> 0..orders'] /\ deleted' \subseteq 1..orders'
    BY <1>4, <1>7 DEF TypeOK
  <1>9. \A o \in Ids : /\ DOMAIN lines'[o] \subseteq known'
                       /\ row'[o] = 0 => lines'[o] = NoLines
                       /\ o > orders' => row'[o] = 0
    <2> SUFFICES ASSUME NEW o \in Ids
                 PROVE  /\ DOMAIN lines'[o] \subseteq known'
                        /\ row'[o] = 0 => lines'[o] = NoLines
                        /\ o > orders' => row'[o] = 0
      OBVIOUS
    <2>1. CASE o = orders + 1
      <3>1. row'[o] # 0
        BY <1>5, <2>1 DEF TypeOK
      <3>2. DOMAIN lines'[o] \subseteq known'
        BY <1>1, <1>2, <1>5, <2>1, RoundedLines
      <3>3. QED
        BY <1>4, <2>1, <3>1, <3>2
    <2>2. CASE o # orders + 1
      <3>1. /\ DOMAIN lines[o] \subseteq known
            /\ row[o] = 0 => lines[o] = NoLines
            /\ o > orders => row[o] = 0
        BY DEF TypeOK
      <3>2. row'[o] = row[o] /\ lines'[o] = lines[o]
        BY <1>5, <2>2
      <3>3. o > orders' => o > orders
        BY <1>4 DEF Ids
      <3>4. QED
        BY <1>2, <3>1, <3>2, <3>3
    <2>3. QED
      BY <2>1, <2>2
  <1>10. \A r \in Requests : DOMAIN loaded'[r] \subseteq known'
    BY <1>2, <1>7 DEF TypeOK
  <1>11. QED
    BY <1>2, <1>4, <1>5, <1>6, <1>7, <1>8, <1>9, <1>10 DEF TypeOK

LEMMA UpdateType ==
    ASSUME TypeOK, NEW r \in Requests, Update(r)
    PROVE  TypeOK'
  <1>1. ASSUME NEW o \in Ids, LoadOrder(r, o) PROVE TypeOK'
    <2>1. o \in 1..orders
      BY <1>1 DEF TypeOK, LoadOrder, Ids
    <2>2. hand' \in [Requests -> 0..orders] /\ pc' \in [Requests -> {"idle", "lines", "save"}]
      BY <1>1, <2>1 DEF TypeOK, LoadOrder
    <2>3. \A q \in Requests : (pc'[q] = "idle") <=> (hand'[q] = 0)
      BY <1>1, <2>1 DEF TypeOK, LoadOrder
    <2>4. UNCHANGED <<row, lines, outbox, changes, known, orders, loaded, placed, deleted, final>>
      BY <1>1 DEF LoadOrder, tables
    <2>5. QED
      BY <2>2, <2>3, <2>4 DEF TypeOK
  <1>2. ASSUME LoadLines(r) PROVE TypeOK'
    <2>1. lines[hand[r]] \in Lines(Amounts)
      BY <1>2, Loading DEF LoadLines, TypeOK
    <2>2. loaded' \in [Requests -> Lines(Amounts)]
          /\ \A q \in Requests : DOMAIN loaded'[q] \subseteq known
      BY <1>2, <2>1, Loading DEF TypeOK, LoadLines
    <2>3. pc' \in [Requests -> {"idle", "lines", "save"}]
          /\ \A q \in Requests : (pc'[q] = "idle") <=> (hand[q] = 0)
      BY <1>2 DEF TypeOK, LoadLines
    <2>4. UNCHANGED <<row, lines, outbox, changes, known, orders, hand, placed, deleted, final>>
      BY <1>2 DEF LoadLines, tables
    <2>5. QED
      BY <2>2, <2>3, <2>4 DEF TypeOK
  <1>3. ASSUME Finish(r) PROVE /\ pc' \in [Requests -> {"idle", "lines", "save"}]
                               /\ hand' \in [Requests -> 0..orders]
                               /\ loaded' \in [Requests -> Lines(Amounts)]
                               /\ \A q \in Requests :
                                     /\ (pc'[q] = "idle") <=> (hand'[q] = 0)
                                     /\ DOMAIN loaded'[q] \subseteq known
    <2>1. DOMAIN NoLines = {}
      BY DEF NoLines
    <2>2. QED
      BY <1>3, <2>1, NoLinesIsRounded DEF TypeOK, Finish
  <1>4. ASSUME SaveUpdate(r) PROVE TypeOK'
    <2>1. Finish(r) /\ UNCHANGED <<known, orders, placed, deleted, final>>
      BY <1>4 DEF SaveUpdate
    <2>2. hand[r] \in Ids /\ hand[r] <= orders /\ loaded[r] \in Lines(Amounts)
      BY <1>4, Loading DEF SaveUpdate
    <2>3. Save(hand[r], loaded[r], TRUE)
      BY <1>4 DEF SaveUpdate
    <2>4. /\ changes' = changes + 1 /\ changes' \in 0..MaxChanges
          /\ row' \in [Ids -> 0..changes']
          /\ row'[hand[r]] = changes + 1
          /\ \A i \in Ids \ {hand[r]} : row'[i] = row[i]
          /\ lines' \in [Ids -> Lines(Amounts)]
          /\ lines'[hand[r]] = Rounded(loaded[r])
          /\ \A i \in Ids \ {hand[r]} : lines'[i] = lines[i]
          /\ outbox' \subseteq Event
      BY <2>2, <2>3, SaveType
    <2>5. \A o \in Ids : /\ DOMAIN lines'[o] \subseteq known
                         /\ row'[o] = 0 => lines'[o] = NoLines
                         /\ o > orders => row'[o] = 0
      <3> SUFFICES ASSUME NEW o \in Ids
                   PROVE  /\ DOMAIN lines'[o] \subseteq known
                          /\ row'[o] = 0 => lines'[o] = NoLines
                          /\ o > orders => row'[o] = 0
        OBVIOUS
      <3>1. CASE o = hand[r]
        <4>1. DOMAIN lines'[o] = DOMAIN loaded[r]
          BY <2>2, <2>4, <3>1, RoundedLines
        <4>2. row'[o] # 0 /\ ~(o > orders)
          BY <2>2, <2>4, <3>1 DEF TypeOK, Ids
        <4>3. QED
          BY <4>1, <4>2 DEF TypeOK
      <3>2. CASE o # hand[r]
        BY <2>4, <3>2 DEF TypeOK
      <3>3. QED
        BY <3>1, <3>2
    <2>6. QED
      BY <1>3, <2>1, <2>4, <2>5 DEF TypeOK
  <1>5. ASSUME GiveUp(r) PROVE TypeOK'
    <2>1. Finish(r) /\ UNCHANGED <<row, lines, outbox, changes, known, orders, placed, deleted, final>>
      BY <1>5 DEF GiveUp, tables
    <2>2. QED
      BY <1>3, <2>1 DEF TypeOK
  <1>6. QED
    BY <1>1, <1>2, <1>4, <1>5 DEF Update

LEMMA DeleteType == ASSUME TypeOK, NEW o \in Ids, Delete(o) PROVE TypeOK'
  <1>1. UNCHANGED <<known, outbox, orders, changes, pc, hand, loaded, placed>>
    BY DEF Delete, update
  <1>2. o \in 1..orders
    BY DEF Delete, TypeOK, Ids
  <1>3. row' \in [Ids -> 0..changes] /\ row'[o] = 0 /\ \A i \in Ids \ {o} : row'[i] = row[i]
    BY OrderBounds DEF Delete, TypeOK
  <1>4. lines' \in [Ids -> Lines(Amounts)] /\ lines'[o] = NoLines /\ DOMAIN NoLines = {}
          /\ \A i \in Ids \ {o} : lines'[i] = lines[i]
    BY NoLinesIsRounded DEF Delete, TypeOK, NoLines
  <1>5. deleted' \subseteq 1..orders /\ final' \subseteq deleted'
    BY <1>2 DEF Delete, TypeOK
  <1>6. QED
    BY <1>1, <1>3, <1>4, <1>5 DEF TypeOK

LEMMA NextType == TypeOK /\ [Next]_vars => TypeOK'
  <1> SUFFICES ASSUME TypeOK, [Next]_vars PROVE TypeOK'
    OBVIOUS
  <1>1. CASE \E ls \in Lines(Prices) : Create(ls) \/ Place(ls)
    BY <1>1, NewOrderType
  <1>2. CASE \E r \in Requests : Update(r)
    BY <1>2, UpdateType
  <1>3. CASE \E o \in Ids : Delete(o)
    BY <1>3, DeleteType
  <1>4. CASE UNCHANGED vars
    BY <1>4 DEF vars, tables, update, TypeOK
  <1>5. QED
    BY <1>1, <1>2, <1>3, <1>4 DEF Next

\* The tables and every update keep their shape, and every line's product is one
\* that Ordering knows.
THEOREM OrderTypeCorrect == Spec => []TypeOK
  BY InitType, NextType, PTL DEF Spec

-----------------------------------------------------------------------------
(* The outbox *)

\* A save that is announced, or of an order nothing was announced of, leaves the
\* outbox telling the state.
LEMMA SaveTells ==
    ASSUME TypeOK, EventsTellTheState, Past,
           NEW o \in Ids, NEW ls \in Lines(Amounts), NEW b \in BOOLEAN, Save(o, ls, b),
           b \/ \A e \in outbox : e.order # o,
           orders' \in Nat, o <= orders', orders <= orders'
    PROVE  EventsTellTheState' /\ Past'
  <1> DEFINE n == [order |-> o, change |-> changes + 1, lines |-> ls]
  <1>1. /\ changes' = changes + 1 /\ changes \in Nat /\ orders \in Nat
        /\ row'[o] = changes + 1 /\ lines'[o] = Rounded(ls)
        /\ \A i \in Ids \ {o} : row'[i] = row[i] /\ lines'[i] = lines[i]
    <2>1. changes \in Nat /\ orders \in Nat
      BY OrderBounds DEF TypeOK
    <2>2. QED
      BY <2>1, SaveType
  <1>2. \/ outbox' = outbox \union {n}
        \/ ~b /\ outbox' = outbox
    BY DEF Save, Stage
  <1>3. \/ n \in outbox'
        \/ outbox' = outbox /\ \A e \in outbox : e.order # o
    BY <1>2
  <1>4. \A e \in outbox : e.order \in Ids /\ e.change \in Nat /\ e.change <= changes
                            /\ e.order <= orders
    BY OrderBounds DEF TypeOK, Past, Event
  <1>5. n.order = o /\ n.change = changes + 1 /\ n.lines = ls
    OBVIOUS
  <1> HIDE DEF n
  <1>6. Past'
    <2> SUFFICES ASSUME NEW e \in outbox' PROVE e.order <= orders' /\ e.change <= changes'
      BY DEF Past
    <2>1. CASE e = n
      BY <1>1, <1>5, <2>1
    <2>2. CASE e \in outbox
      BY <1>1, <1>4, <2>2 DEF Ids
    <2>3. QED
      BY <1>2, <2>1, <2>2
  <1>7. EventsTellTheState'
    <2> SUFFICES ASSUME NEW e \in outbox', row'[e.order] # 0,
                        \A f \in outbox' : f.order = e.order => f.change <= e.change
                 PROVE  e.change = row'[e.order] /\ Rounded(e.lines) = lines'[e.order]
      BY DEF EventsTellTheState
    <2>1. CASE e = n
      BY <1>1, <1>5, <2>1
    <2>2. CASE e # n
      <3>1. e \in outbox
        BY <1>2, <2>2
      <3>2. e.order # o
        BY <1>1, <1>3, <1>4, <1>5, <3>1
      <3>3. row[e.order] = row'[e.order] /\ lines[e.order] = lines'[e.order]
        BY <1>1, <1>4, <3>1, <3>2
      <3>4. \A f \in outbox : f.order = e.order => f.change <= e.change
        BY <1>2
      <3>5. QED
        BY <3>1, <3>3, <3>4 DEF EventsTellTheState
    <2>3. QED
      BY <2>1, <2>2
  <1>8. QED
    BY <1>6, <1>7

-----------------------------------------------------------------------------
(* The invariant holds *)

LEMMA InitInvariant == Init => IInv
  <1> SUFFICES ASSUME Init PROVE IInv
    OBVIOUS
  <1>1. TypeOK
    BY InitType
  <1>2. WholeOrders /\ EventsTellTheState /\ FinallyGone /\ InHand /\ Released /\ Past
    BY DEF Init, WholeOrders, EventsTellTheState, FinallyGone, InHand, Released, Past
  <1>3. QED
    BY <1>1, <1>2 DEF IInv

\* A new order has an id nobody has worked on.
LEMMA NewOrderKeeps ==
    ASSUME IInv, NEW ls \in Lines(Prices), Create(ls) \/ Place(ls)
    PROVE  IInv'
  <1>1. ls \in Lines(Amounts)
    BY GivenLines
  <1>2. NewOrder(ls)
    BY DEF Create, Place
  <1>3. PICK b \in BOOLEAN : Save(orders + 1, ls, b)
    BY <1>2 DEF NewOrder
  <1>4. TypeOK /\ TypeOK' /\ orders' = orders + 1 /\ orders \in Nat /\ orders' \in Nat
          /\ orders + 1 \in Ids
    <2>1. TypeOK /\ TypeOK'
      BY NewOrderType DEF IInv
    <2>2. orders' = orders + 1 /\ orders \in Nat /\ orders < MaxOrders
      BY <1>2, <2>1, OrderBounds DEF NewOrder, TypeOK
    <2>3. QED
      BY <2>1, <2>2, OrderBounds DEF Ids
  <1>5. /\ \A i \in Ids \ {orders + 1} :
              row'[i] = row[i] /\ lines'[i] = lines[i] /\ placed'[i] = placed[i]
        /\ lines'[orders + 1] = Rounded(ls) /\ placed'[orders + 1] = ls
    <2>1. /\ \A i \in Ids \ {orders + 1} : row'[i] = row[i] /\ lines'[i] = lines[i]
          /\ lines'[orders + 1] = Rounded(ls)
      BY <1>1, <1>3, <1>4, SaveType
    <2>2. placed \in [Ids -> Lines(Amounts)] /\ placed' = [placed EXCEPT ![orders + 1] = ls]
      BY <1>2, <1>4 DEF NewOrder, TypeOK
    <2>3. QED
      BY <1>4, <2>1, <2>2
  <1>6. UNCHANGED <<pc, hand, loaded, deleted, final>>
    BY <1>2 DEF NewOrder, update
  <1>7. orders + 1 \notin deleted /\ orders + 1 \notin final
          /\ \A r \in Requests : hand[r] # orders + 1
    BY <1>4 DEF TypeOK
  <1>8. EventsTellTheState' /\ Past'
    <2>1. \A e \in outbox : e.order # orders + 1
      BY <1>4 DEF IInv, Past
    <2>2. QED
      BY <1>1, <1>3, <1>4, <2>1, SaveTells DEF IInv
  <1>9. WholeOrders'
    BY <1>5, <1>6 DEF IInv, WholeOrders
  <1>10. InHand'
    <2> SUFFICES ASSUME NEW r \in Requests, pc[r] # "idle"
                 PROVE  /\ pc[r] = "lines" => row'[hand[r]] # 0 \/ hand[r] \in deleted
                        /\ pc[r] = "save" =>
                              \/ loaded[r] = Rounded(placed'[hand[r]])
                              \/ hand[r] \in deleted /\ loaded[r] = NoLines
      BY <1>6 DEF InHand
    <2>1. hand[r] \in Ids \ {orders + 1}
      BY <1>4, <1>7, Loading
    <2>2. row'[hand[r]] = row[hand[r]] /\ placed'[hand[r]] = placed[hand[r]]
      BY <1>5, <2>1
    <2>3. QED
      BY <2>2 DEF IInv, InHand
  <1>11. FinallyGone' /\ Released'
    <2>1. \A o \in final : o \in Ids \ {orders + 1}
      <3>1. final \subseteq 1..orders /\ orders < MaxOrders
        BY <1>2, <1>4 DEF TypeOK, NewOrder
      <3>2. QED
        BY <1>4, <3>1, OrderBounds DEF Ids
    <2>2. QED
      BY <1>5, <1>6, <2>1 DEF IInv, FinallyGone, Released
  <1>12. QED
    BY <1>4, <1>8, <1>9, <1>10, <1>11 DEF IInv

\* An order's lines are rounded, or gone with the order.
LEMMA LoadKeeps ==
    ASSUME IInv, NEW r \in Requests, (\E o \in Ids : LoadOrder(r, o)) \/ LoadLines(r) \/ GiveUp(r)
    PROVE  IInv'
  <1>1. TypeOK /\ TypeOK'
    <2>1. Update(r)
      BY DEF Update
    <2>2. QED
      BY <2>1, UpdateType DEF IInv
  <1>2. UNCHANGED <<row, lines, outbox, changes, orders, placed, deleted, final>>
    BY DEF LoadOrder, LoadLines, GiveUp, tables
  <1>3. WholeOrders' /\ EventsTellTheState' /\ FinallyGone' /\ Past'
    BY <1>2 DEF IInv, WholeOrders, EventsTellTheState, FinallyGone, Past
  <1>4. Released'
    <2>1. CASE \E o \in Ids : LoadOrder(r, o)
      <3>1. PICK o \in Ids : LoadOrder(r, o)
        BY <2>1
      <3>2. o \notin final
        BY <3>1 DEF LoadOrder, IInv, FinallyGone
      <3>3. \A q \in Requests : hand'[q] \in {hand[q], o}
        BY <1>1, <3>1 DEF LoadOrder, TypeOK
      <3>4. QED
        BY <1>2, <3>2, <3>3 DEF IInv, Released
    <2>2. CASE LoadLines(r)
      BY <1>2, <2>2 DEF LoadLines, IInv, Released
    <2>3. CASE GiveUp(r)
      <3>1. \A q \in Requests : hand'[q] \in {hand[q], 0}
        BY <1>1, <2>3 DEF GiveUp, Finish, TypeOK
      <3>2. 0 \notin final
        BY <1>1 DEF TypeOK
      <3>3. QED
        BY <1>2, <3>1, <3>2 DEF IInv, Released
    <2>4. QED
      BY <2>1, <2>2, <2>3
  <1>5. InHand'
    <2>1. CASE \E o \in Ids : LoadOrder(r, o)
      BY <1>1, <1>2, <2>1 DEF LoadOrder, IInv, InHand, TypeOK
    <2>2. CASE LoadLines(r)
      <3>1. hand[r] \in Ids /\ (row[hand[r]] # 0 \/ hand[r] \in deleted)
        BY <2>2, Loading DEF LoadLines, IInv, InHand
      <3>2. \/ lines[hand[r]] = Rounded(placed[hand[r]])
            \/ hand[r] \in deleted /\ lines[hand[r]] = NoLines
        BY <3>1 DEF IInv, WholeOrders, TypeOK
      <3>3. QED
        BY <1>1, <1>2, <2>2, <3>2 DEF LoadLines, IInv, InHand, TypeOK
    <2>3. CASE GiveUp(r)
      BY <1>1, <1>2, <2>3 DEF GiveUp, Finish, IInv, InHand, TypeOK
    <2>4. QED
      BY <2>1, <2>2, <2>3
  <1>6. QED
    BY <1>1, <1>3, <1>4, <1>5 DEF IInv

LEMMA SaveUpdateKeeps == ASSUME IInv, NEW r \in Requests, SaveUpdate(r) PROVE IInv'
  <1>1. TypeOK /\ TypeOK'
    <2>1. Update(r)
      BY DEF Update
    <2>2. QED
      BY <2>1, UpdateType DEF IInv
  <1>2. Finish(r) /\ UNCHANGED <<orders, placed, deleted, final>>
    BY DEF SaveUpdate
  <1>3. hand[r] \in Ids /\ hand[r] <= orders /\ loaded[r] \in Lines(Amounts)
    BY <1>1, Loading DEF SaveUpdate
  <1>4. Save(hand[r], loaded[r], TRUE)
    BY DEF SaveUpdate
  <1>5. /\ \A i \in Ids \ {hand[r]} : row'[i] = row[i] /\ lines'[i] = lines[i]
        /\ lines'[hand[r]] = Rounded(loaded[r])
        /\ row'[hand[r]] = changes + 1 /\ changes \in Nat
    <2>1. changes \in Nat
      BY <1>1, OrderBounds DEF TypeOK
    <2>2. QED
      BY <1>1, <1>3, <1>4, <2>1, SaveType
  <1>6. EventsTellTheState' /\ Past'
    <2>1. EventsTellTheState /\ Past
      BY DEF IInv
    <2>2. orders' \in Nat /\ hand[r] <= orders' /\ orders <= orders'
      BY <1>1, <1>2, <1>3, OrderBounds DEF TypeOK
    <2>3. TypeOK
      BY <1>1
    <2>4. QED
      BY <1>3, <1>4, <2>1, <2>2, <2>3, SaveTells
  <1>7. WholeOrders'
    <2>1. \/ loaded[r] = Rounded(placed[hand[r]])
          \/ hand[r] \in deleted /\ loaded[r] = NoLines
      BY DEF SaveUpdate, IInv, InHand
    <2>2. placed[hand[r]] \in Lines(Amounts)
      BY <1>1, <1>3 DEF TypeOK
    <2>3. \/ Rounded(loaded[r]) = Rounded(placed[hand[r]])
          \/ hand[r] \in deleted /\ Rounded(loaded[r]) = NoLines
      BY <2>1, <2>2, RoundedLines, NoLinesIsRounded
    <2>4. QED
      BY <1>2, <1>3, <1>5, <2>3 DEF IInv, WholeOrders
  <1>8. \A q \in Requests : \/ pc'[q] = "idle" /\ hand'[q] = 0
                            \/ pc'[q] = pc[q] /\ hand'[q] = hand[q] /\ loaded'[q] = loaded[q]
    BY <1>1, <1>2 DEF Finish, TypeOK
  <1>9. InHand'
    <2> SUFFICES ASSUME NEW q \in Requests, pc'[q] # "idle"
                 PROVE  /\ pc'[q] = "lines" => row'[hand'[q]] # 0 \/ hand'[q] \in deleted
                        /\ pc'[q] = "save" =>
                              \/ loaded'[q] = Rounded(placed[hand'[q]])
                              \/ hand'[q] \in deleted /\ loaded'[q] = NoLines
      BY <1>2 DEF InHand
    <2>1. pc'[q] = pc[q] /\ hand'[q] = hand[q] /\ loaded'[q] = loaded[q] /\ hand[q] \in Ids
      BY <1>1, <1>8, Loading
    <2>2. row[hand[q]] # 0 => row'[hand[q]] # 0
      BY <1>5, <2>1
    <2>3. QED
      BY <2>1, <2>2 DEF IInv, InHand
  <1>10. FinallyGone' /\ Released'
    <2>1. \A o \in final : o \in Ids /\ o # 0 /\ o # hand[r]
      BY <1>1, OrderBounds DEF IInv, Released, TypeOK, Ids
    <2>2. QED
      BY <1>2, <1>5, <1>8, <2>1 DEF IInv, FinallyGone, Released
  <1>11. QED
    BY <1>1, <1>6, <1>7, <1>9, <1>10 DEF IInv

LEMMA DeleteKeeps == ASSUME IInv, NEW o \in Ids, Delete(o) PROVE IInv'
  <1>1. TypeOK /\ TypeOK'
    BY DeleteType DEF IInv
  <1>2. UNCHANGED <<outbox, orders, changes, pc, hand, loaded, placed>>
    BY DEF Delete, update
  <1>3. row'[o] = 0 /\ \A i \in Ids \ {o} : row'[i] = row[i] /\ lines'[i] = lines[i]
    BY <1>1 DEF Delete, TypeOK
  <1>4. deleted' = deleted \union {o}
    BY DEF Delete
  <1>5. WholeOrders'
    BY <1>2, <1>3, <1>4 DEF IInv, WholeOrders
  <1>6. EventsTellTheState' /\ Past'
    <2>1. \A e \in outbox : e.order \in Ids
      BY <1>1 DEF TypeOK, Event
    <2>2. EventsTellTheState'
      BY <1>2, <1>3, <2>1 DEF IInv, EventsTellTheState
    <2>3. QED
      BY <1>2, <2>2 DEF IInv, Past
  <1>7. InHand'
    <2>1. \A r \in Requests : pc[r] # "idle" => hand[r] \in Ids
      BY <1>1, Loading
    <2>2. QED
      BY <1>2, <1>3, <1>4, <2>1 DEF IInv, InHand
  <1>8. FinallyGone'
    <2>1. \A p \in final' : p \in Ids /\ (p = o \/ p \in final)
      <3>1. final \subseteq 1..orders /\ orders <= MaxOrders /\ orders \in Nat
        BY <1>1, OrderBounds DEF TypeOK
      <3>2. final' \subseteq final \union {o}
        BY DEF Delete
      <3>3. QED
        BY <3>1, <3>2, OrderBounds DEF Ids
    <2>2. QED
      BY <1>3, <2>1 DEF IInv, FinallyGone
  <1>9. Released'
    BY <1>2 DEF Delete, IInv, Released
  <1>10. QED
    BY <1>1, <1>5, <1>6, <1>7, <1>8, <1>9 DEF IInv

LEMMA NextKeeps == IInv /\ [Next]_vars => IInv'
  <1> SUFFICES ASSUME IInv, [Next]_vars PROVE IInv'
    OBVIOUS
  <1>1. CASE \E ls \in Lines(Prices) : Create(ls) \/ Place(ls)
    BY <1>1, NewOrderKeeps
  <1>2. CASE \E r \in Requests : Update(r)
    BY <1>2, LoadKeeps, SaveUpdateKeeps DEF Update
  <1>3. CASE \E o \in Ids : Delete(o)
    BY <1>3, DeleteKeeps
  <1>4. CASE UNCHANGED vars
    <2>1. TypeOK'
      BY <1>4, NextType DEF IInv
    <2>2. QED
      BY <1>4, <2>1 DEF vars, tables, update, IInv, WholeOrders, EventsTellTheState,
            FinallyGone, InHand, Released, Past
  <1>5. QED
    BY <1>1, <1>2, <1>3, <1>4 DEF Next

\* The inductive invariant: besides the properties themselves, what an update in
\* progress knows of its order.
THEOREM OrderInvariant == Spec => []IInv
  BY InitInvariant, NextKeeps, PTL DEF Spec

\* Updates that overlap each other and the placing of orders never lose a line;
\* only a delete in the middle of an update can.
THEOREM OrdersKeepTheirLines == Spec => []WholeOrders
  <1>1. IInv => WholeOrders
    BY DEF IInv
  <1>2. QED
    BY OrderInvariant, <1>1, PTL

\* The last event of every stored order tells its state: staging in the
\* transaction of the save leaves no change unannounced.
THEOREM OrdersAreAnnounced == Spec => []EventsTellTheState
  <1>1. IInv => EventsTellTheState
    BY DEF IInv
  <1>2. QED
    BY OrderInvariant, <1>1, PTL

\* An order deleted while nobody updates it never comes back.
THEOREM DeletedInPeaceIsGone == Spec => []FinallyGone
  <1>1. IInv => FinallyGone
    BY DEF IInv
  <1>2. QED
    BY OrderInvariant, <1>1, PTL

-----------------------------------------------------------------------------
(* Reading *)

\* Whatever is read, and however its queries mix with the commands, OrderQueries
\* implements OrderLifecycle: a command is one of its steps, a query is none.
THEOREM QueriesChangeNothing == QuerySpec => Spec
  <1>1. QueryInit => Init
    BY DEF QueryInit
  <1>2. ASSUME [QueryNext]_queryVars
        PROVE  [Next]_vars
    <2>1. CASE Command
      BY <2>1 DEF Command
    <2>2. CASE Read
      <3>1. ASSUME NEW o \in Ids, ReadOne(o) PROVE UNCHANGED vars
        BY <3>1 DEF ReadOne
      <3>2. CASE ReadCustomer \/ CountOrders \/ ListPage
        BY <3>2 DEF ReadCustomer, CountOrders, ListPage
      <3>3. CASE ReadLines \/ AnswerOne \/ AnswerCustomer \/ AnswerPage
        BY <3>3 DEF ReadLines, AnswerOne, AnswerCustomer, AnswerPage
      <3>4. CASE FailRead \/ EndWalk
        BY <3>4 DEF FailRead, EndWalk
      <3>5. QED
        BY <2>2, <3>1, <3>2, <3>3, <3>4 DEF Read
    <2>3. CASE UNCHANGED queryVars
      BY <2>3 DEF queryVars
    <2>4. QED
      BY <1>2, <2>1, <2>2, <2>3 DEF QueryNext
  <1>3. QED
    BY <1>1, <1>2, PTL DEF QuerySpec, Spec

\* So orders keep their lines, are announced and stay deleted whoever reads them.
THEOREM ReadOrdersKeepTheirLines ==
    QuerySpec => [](WholeOrders /\ EventsTellTheState /\ FinallyGone)
  BY QueriesChangeNothing, OrdersKeepTheirLines, OrdersAreAnnounced, DeletedInPeaceIsGone, PTL

-----------------------------------------------------------------------------
(* Lists *)

\* The elements of s after the first n.
After(s, n) == {s[i] : i \in {j \in DOMAIN s : j > n}}

Distinct(s) == \A i, j \in DOMAIN s : s[i] = s[j] => i = j

\* An element that is put into a list pushes one other, or itself, past the n-th place.
LEMMA Insertion ==
    ASSUME NEW S, NEW s \in Seq(S), NEW o \in S, NEW i \in 1..Len(s) + 1, NEW n \in Nat,
           NEW t, t = InsertAt(s, i, o)
    PROVE  /\ t \in Seq(S) /\ Len(t) = Len(s) + 1
           /\ ToSet(t) = ToSet(s) \union {o}
           /\ Distinct(s) /\ o \notin ToSet(s) => Distinct(t)
           /\ After(s, n) \subseteq After(t, n)
           /\ After(t, n) \subseteq After(s, n) \union {IF i > n THEN o ELSE t[n + 1]}
  <1> DEFINE a == SubSeq(s, 1, i - 1)
             b == SubSeq(s, i, Len(s))
  <1>1. /\ a \in Seq(S) /\ Len(a) = i - 1 /\ \A j \in 1..i - 1 : a[j] = s[j]
        /\ b \in Seq(S) /\ Len(b) = Len(s) + 1 - i
        /\ \A j \in 1..Len(s) + 1 - i : b[j] = s[i + j - 1]
    BY SubSeqProperties
  <1> HIDE DEF a, b
  <1>2. /\ a \o <<o>> \in Seq(S) /\ Len(a \o <<o>>) = i
        /\ \A j \in 1..i : (a \o <<o>>)[j] = IF j = i THEN o ELSE s[j]
    BY <1>1, ConcatProperties
  <1>3. t = (a \o <<o>>) \o b
    BY DEF InsertAt, a, b
  <1>4. /\ t \in Seq(S) /\ Len(t) = Len(s) + 1
        /\ \A j \in 1..Len(s) + 1 :
              t[j] = IF j < i THEN s[j] ELSE IF j = i THEN o ELSE s[j - 1]
    <2> DEFINE c == a \o <<o>>
    <2> HIDE DEF c
    <2>1. c \in Seq(S) /\ Len(c) = i /\ t = c \o b
      BY <1>2, <1>3 DEF c
    <2>2. /\ t \in Seq(S) /\ Len(t) = Len(c) + Len(b)
          /\ \A j \in 1..Len(c) + Len(b) : t[j] = IF j <= Len(c) THEN c[j] ELSE b[j - Len(c)]
      BY <1>1, <2>1, ConcatProperties
    <2>3. \A j \in 1..i : c[j] = IF j = i THEN o ELSE s[j]
      BY <1>2 DEF c
    <2>4. \A j \in i + 1..Len(s) + 1 : b[j - i] = s[j - 1]
      BY <1>1
    <2>5. Len(c) + Len(b) = Len(s) + 1
      BY <1>1, <2>1
    <2>6. QED
      BY <2>1, <2>2, <2>3, <2>4, <2>5
  <1>5. /\ DOMAIN t = 1..Len(s) + 1 /\ DOMAIN s = 1..Len(s)
        /\ t[i] = o /\ i \in DOMAIN t
        /\ \A j \in DOMAIN s : \/ j < i /\ j \in DOMAIN t /\ t[j] = s[j]
                               \/ j >= i /\ j + 1 \in DOMAIN t /\ t[j + 1] = s[j]
        /\ \A j \in DOMAIN t : \/ j < i /\ j \in DOMAIN s /\ t[j] = s[j]
                               \/ j = i
                               \/ j > i /\ j - 1 \in DOMAIN s /\ t[j] = s[j - 1]
    BY <1>4
  <1>6. ToSet(t) = ToSet(s) \union {o}
    BY <1>5 DEF ToSet
  <1>7. ASSUME Distinct(s), o \notin ToSet(s) PROVE Distinct(t)
    BY <1>5, <1>7 DEF Distinct, ToSet
  <1>8. After(s, n) \subseteq After(t, n)
    BY <1>5 DEF After
  <1>9. After(t, n) \subseteq After(s, n) \union {IF i > n THEN o ELSE t[n + 1]}
    <2>1. CASE i > n
      <3>1. After(t, n) \subseteq After(s, n) \union {o}
        BY <1>5, <2>1 DEF After
      <3>2. QED
        BY <2>1, <3>1
    <2>2. CASE i <= n
      <3>1. After(t, n) \subseteq After(s, n) \union {t[n + 1]}
        <4>1. ASSUME NEW j \in DOMAIN t, j > n, j # n + 1
              PROVE  t[j] \in After(s, n)
          <5>1. j - 1 \in DOMAIN s /\ t[j] = s[j - 1] /\ j - 1 > n
            BY <1>5, <2>2, <4>1
          <5>2. QED
            BY <5>1 DEF After
        <4>2. QED
          BY <4>1 DEF After
      <3>2. QED
        <4>1. ~(i > n)
          BY <2>2
        <4>2. QED
          BY <3>1, <4>1
    <2>3. i > n \/ i <= n
      OBVIOUS
    <2>4. QED
      BY <2>1, <2>2, <2>3
  <1>10. QED
    BY <1>4, <1>6, <1>7, <1>8, <1>9

\* What is taken from a list pulls one other at most to a place before.
LEMMA Removal ==
    ASSUME NEW S, NEW s \in Seq(S), NEW i \in DOMAIN s, NEW n \in Nat,
           NEW t, t = RemoveAt(s, i)
    PROVE  /\ t \in Seq(S) /\ Len(t) = Len(s) - 1
           /\ Distinct(s) => Distinct(t) /\ ToSet(t) = ToSet(s) \ {s[i]}
           /\ After(t, n) \subseteq After(s, n)
           /\ \E x : After(s, n) \subseteq After(t, n) \union {x, s[i]}
  <1> DEFINE a == SubSeq(s, 1, i - 1)
             b == SubSeq(s, i + 1, Len(s))
  <1>1. /\ a \in Seq(S) /\ Len(a) = i - 1 /\ \A j \in 1..i - 1 : a[j] = s[j]
        /\ b \in Seq(S) /\ Len(b) = Len(s) - i
        /\ \A j \in 1..Len(s) - i : b[j] = s[i + j]
    BY SubSeqProperties
  <1> HIDE DEF a, b
  <1>2. t = a \o b
    BY DEF RemoveAt, a, b
  <1>3. /\ t \in Seq(S) /\ Len(t) = Len(s) - 1
        /\ \A j \in 1..Len(s) - 1 : t[j] = IF j < i THEN s[j] ELSE s[j + 1]
    BY <1>1, <1>2, ConcatProperties
  <1>4. /\ DOMAIN t = 1..Len(s) - 1 /\ DOMAIN s = 1..Len(s)
        /\ \A j \in DOMAIN t : \/ j < i /\ j \in DOMAIN s /\ t[j] = s[j]
                               \/ j >= i /\ j + 1 \in DOMAIN s /\ t[j] = s[j + 1]
        /\ \A j \in DOMAIN s : \/ j < i /\ j \in DOMAIN t /\ t[j] = s[j]
                               \/ j = i
                               \/ j > i /\ j - 1 \in DOMAIN t /\ t[j - 1] = s[j]
    <2>1. DOMAIN t = 1..Len(s) - 1 /\ DOMAIN s = 1..Len(s) /\ Len(s) \in Nat
      BY <1>3
    <2>2. QED
      BY <1>3, <2>1
  <1>5. ASSUME Distinct(s) PROVE Distinct(t)
    BY <1>4, <1>5 DEF Distinct
  <1>6. ASSUME Distinct(s) PROVE ToSet(t) = ToSet(s) \ {s[i]}
    BY <1>4, <1>6 DEF Distinct, ToSet
  <1>7. After(t, n) \subseteq After(s, n)
    BY <1>4 DEF After
  <1>8. After(s, n) \subseteq After(t, n) \union {s[n + 1], s[i]}
    <2>1. ASSUME NEW j \in DOMAIN s, j > n, j # n + 1, j # i
          PROVE  s[j] \in After(t, n)
      <3>1. CASE j < i
        BY <1>4, <2>1, <3>1 DEF After
      <3>2. CASE j > i
        <4>1. j - 1 \in DOMAIN t /\ t[j - 1] = s[j] /\ j - 1 > n
          BY <1>4, <2>1, <3>2
        <4>2. QED
          BY <4>1 DEF After
      <3>3. QED
        BY <1>4, <2>1, <3>1, <3>2
    <2>2. QED
      BY <2>1 DEF After
  <1>9. QED
    BY <1>3, <1>5, <1>6, <1>7, <1>8

\* What a page shows of a list, and what it leaves to later ones.
LEMMA PageIs ==
    ASSUME NEW S, NEW s \in Seq(S), NEW k \in Nat
    PROVE  LET p == PageOf(s, k)
               n == k * PageSize
           IN  /\ n \in Nat /\ (k + 1) * PageSize = n + PageSize
               /\ p \in Seq(S)
               /\ ToSet(p) \subseteq After(s, n)
               /\ After(s, n + PageSize) \subseteq After(s, n)
               /\ After(s, n) \subseteq ToSet(p) \union After(s, n + PageSize)
               /\ Distinct(s) => Distinct(p) /\ ToSet(p) \intersect After(s, n + PageSize) = {}
  <1> DEFINE p == PageOf(s, k)
             n == k * PageSize
             m == IF Len(s) < n + PageSize THEN Len(s) ELSE n + PageSize
  <1>1. n \in Nat /\ (k + 1) * PageSize = n + PageSize /\ PageSize \in Nat \ {0}
    BY QueryBounds
  <1>0. p = SubSeq(s, n + 1, IF Len(s) < (k + 1) * PageSize THEN Len(s) ELSE (k + 1) * PageSize)
    BY DEF PageOf
  <1> HIDE DEF n, p
  <1>2. p = SubSeq(s, n + 1, m) /\ m \in Nat /\ m <= Len(s) /\ m <= n + PageSize
    BY <1>0, <1>1
  <1>3. DOMAIN s = 1..Len(s) /\ Len(s) \in Nat
    OBVIOUS
  <1>4. /\ p \in Seq(S) /\ Len(p) = IF n + 1 <= m THEN m - n ELSE 0
        /\ \A i \in 1..m - n : p[i] = s[n + i]
    <2>1. \A i \in n + 1..m : s[i] \in S
      BY <1>1, <1>2, <1>3
    <2>2. /\ SubSeq(s, n + 1, m) \in Seq(S)
          /\ Len(SubSeq(s, n + 1, m)) = IF n + 1 <= m THEN m - (n + 1) + 1 ELSE 0
          /\ \A i \in 1..m - (n + 1) + 1 : SubSeq(s, n + 1, m)[i] = s[n + 1 + i - 1]
      BY <1>1, <1>2, <2>1, SubSeqProperties
    <2> HIDE DEF m
    <2>3. m - (n + 1) + 1 = m - n
      BY <1>1, <1>2
    <2>4. ASSUME NEW i \in 1..m - n PROVE p[i] = s[n + i]
      <3>1. i \in 1..m - (n + 1) + 1 /\ n + 1 + i - 1 = n + i
        BY <1>1, <1>2
      <3>2. p[i] = s[n + 1 + i - 1]
        BY <1>2, <2>2, <3>1
      <3>3. QED
        BY <3>1, <3>2
    <2>5. p \in Seq(S) /\ Len(p) = IF n + 1 <= m THEN m - n ELSE 0
      BY <1>2, <2>2, <2>3
    <2>6. QED
      BY <2>4, <2>5
  <1>5. /\ DOMAIN p = 1..Len(p)
        /\ \A i \in DOMAIN p : n + i \in DOMAIN s /\ p[i] = s[n + i] /\ n + i <= n + PageSize
        /\ \A j \in DOMAIN s : j > n => j - n \in DOMAIN p \/ j > n + PageSize
    BY <1>1, <1>2, <1>3, <1>4
  <1>6. ToSet(p) \subseteq After(s, n)
    BY <1>1, <1>5 DEF ToSet, After
  <1>7. After(s, n + PageSize) \subseteq After(s, n)
    BY <1>1, <1>3 DEF After
  <1>8. After(s, n) \subseteq ToSet(p) \union After(s, n + PageSize)
    <2>1. ASSUME NEW j \in DOMAIN s, j > n, ~(j > n + PageSize)
          PROVE  s[j] \in ToSet(p)
      <3>1. j - n \in DOMAIN p /\ n + (j - n) = j
        BY <1>1, <1>3, <1>5, <2>1
      <3>2. p[j - n] = s[j]
        BY <1>5, <3>1
      <3>3. QED
        BY <3>1, <3>2 DEF ToSet
    <2>2. QED
      BY <2>1 DEF After
  <1>9. ASSUME Distinct(s)
        PROVE  Distinct(p) /\ ToSet(p) \intersect After(s, n + PageSize) = {}
    <2>1. Distinct(p)
      BY <1>1, <1>5, <1>9 DEF Distinct
    <2>2. ASSUME NEW i \in DOMAIN p, NEW j \in DOMAIN s, j > n + PageSize
          PROVE  p[i] # s[j]
      <3>1. n + i \in DOMAIN s /\ p[i] = s[n + i] /\ n + i # j
        BY <1>1, <1>3, <1>5, <2>2
      <3>2. QED
        BY <1>9, <3>1 DEF Distinct
    <2>3. QED
      BY <2>1, <2>2 DEF ToSet, After
  <1>10. QED
    BY <1>1, <1>4, <1>6, <1>7, <1>8, <1>9 DEF n, p

\* A list without repetition has as many elements as places.
LEMMA DistinctSize ==
    ASSUME NEW S, NEW s \in Seq(S), Distinct(s)
    PROVE  IsFiniteSet(ToSet(s)) /\ Cardinality(ToSet(s)) = Len(s)
  <1>1. s \in Bijection(1..Len(s), ToSet(s))
    BY DEF Distinct, ToSet, Bijection, Injection, Surjection, IsInjective
  <1>2. ExistsBijection(1..Len(s), ToSet(s))
    BY <1>1 DEF ExistsBijection
  <1>3. Len(s) \in Nat
    OBVIOUS
  <1>4. IsFiniteSet(ToSet(s))
    BY <1>2, <1>3, FS_NatBijection
  <1>5. QED
    BY <1>2, <1>3, <1>4, FS_CountingElements

\* After the first n places there are at most as many elements as further places.
LEMMA AfterSize ==
    ASSUME NEW S, NEW s \in Seq(S), NEW n \in Nat, NEW more \in Nat, Len(s) <= n + more
    PROVE  IsFiniteSet(After(s, n)) /\ Cardinality(After(s, n)) <= more
  <1> DEFINE f == [i \in 1..more |-> IF n + i \in DOMAIN s THEN s[n + i] ELSE n]
             T == {f[i] : i \in 1..more}
  <1>1. ASSUME NEW j \in DOMAIN s, j > n PROVE s[j] \in T
    <2>1. j - n \in 1..more /\ n + (j - n) = j
      BY <1>1
    <2>2. f[j - n] = s[j]
      BY <2>1
    <2>3. QED
      BY <2>1, <2>2
  <1>2. After(s, n) \subseteq T
    BY <1>1 DEF After
  <1>3. f \in Surjection(1..more, T)
    BY DEF Surjection
  <1>4. IsFiniteSet(1..more) /\ Cardinality(1..more) = more
    BY FS_Interval
  <1> HIDE DEF T
  <1>5. IsFiniteSet(T) /\ Cardinality(T) <= more
    BY <1>3, <1>4, FS_Surjection
  <1>6. /\ IsFiniteSet(After(s, n)) /\ Cardinality(After(s, n)) <= Cardinality(T)
    BY <1>2, <1>5, FS_Subset
  <1>7. Cardinality(After(s, n)) \in Nat /\ Cardinality(T) \in Nat
    BY <1>5, <1>6, FS_CardinalityType
  <1>8. QED
    BY <1>5, <1>6, <1>7

-----------------------------------------------------------------------------
(* What readers see                                                        *)
(*                                                                         *)
(* After so many pages, the orders that come up again and the enduring     *)
(* ones passed over are counted by where they are in the list: an insert   *)
(* pushes one of them at most behind the place where the next page begins, *)
(* and a delete pulls one at most in front of it.                          *)

\* Where the page begins that is asked for next.
Start == index * PageSize

\* Orders on pages so far that come up on a later one, once n places are passed.
Again(n, seen) == Cardinality(After(listed, n) \intersect seen)

\* Enduring orders that are on no page so far nor on a later one.
Missed(n, seen) == Cardinality(enduring \ (seen \union After(listed, n)))

\* The list has every stored order once.
ListIsRight == listed \in Seq(Ids) /\ ToSet(listed) = Stored /\ Distinct(listed)

\* The shape of a request.
RequestOK ==
    /\ call \in {"idle", "page", "lines", "done"}
    /\ asked \in {"nothing", "one", "customer", "page"}
    /\ call \in {"page", "done"} => asked = "page"
    /\ call = "idle" => asked \in {"nothing", "page"}
    /\ call # "lines" => rows = <<>> /\ views = <<>>
    /\ index \in Nat /\ total \in Nat
    /\ rows \in Seq(Ids) /\ views \in Seq({ViewOf(ls) : ls \in Lines(Amounts)})
    /\ Len(views) <= Len(rows)

\* What was read is stored, or was deleted since.
Found == \A i \in DOMAIN rows : row[rows[i]] # 0 \/ rows[i] \in deleted

\* The account of a walk; without one it is empty.
WalkOK ==
    /\ repeats \in Nat /\ inserts \in Nat /\ late \in Nat /\ deletes \in Nat
    /\ shown \subseteq Ids /\ enduring \subseteq Stored
    /\ asked # "page" =>
          index = 0 /\ shown = {} /\ enduring = {} /\ repeats = 0 /\ inserts = 0 /\ deletes = 0

PageRead == call = "lines" /\ asked = "page"

\* Each order that comes up again was pushed back by an insert.
RepeatsArePaid ==
    /\ RepeatsNeedInserts
    /\ call # "done" => Again(Start, shown) + repeats <= inserts
    /\ PageRead =>
          Again(Start + PageSize, shown \union ToSet(rows)) + Len(rows) + repeats
          <= inserts + Cardinality(ToSet(rows) \ shown)

\* Each enduring order that is passed over was pulled forward by a delete.
MissesArePaid ==
    /\ MissesNeedDeletes
    /\ call # "done" => Missed(Start, shown) <= deletes
    /\ PageRead => Missed(Start + PageSize, shown \union ToSet(rows)) <= deletes
    /\ call = "page" \/ PageRead => Len(listed) <= total + late

QueryInv ==
    /\ IInv /\ ListIsRight /\ RequestOK /\ Found /\ ViewsAreWhole
    /\ WalkOK /\ RepeatsArePaid /\ MissesArePaid

-----------------------------------------------------------------------------
(* The commands, as readers see them *)

\* Sets of orders are finite, and counted.
LEMMA OrdersFinite ==
    ASSUME NEW T, T \subseteq Ids
    PROVE  IsFiniteSet(T) /\ Cardinality(T) \in Nat
  <1>1. IsFiniteSet(Ids)
    BY FS_Interval, OrderBounds DEF Ids
  <1>2. IsFiniteSet(T)
    BY <1>1, FS_Subset
  <1>3. QED
    BY <1>2, FS_CardinalityType

LEMMA FewerOrders ==
    ASSUME NEW T, T \subseteq Ids, NEW U, U \subseteq T
    PROVE  Cardinality(U) <= Cardinality(T)
  BY OrdersFinite, FS_Subset

LEMMA OneMoreOrder ==
    ASSUME NEW T, T \subseteq Ids, NEW U, U \subseteq Ids, NEW x, U \subseteq T \union {x}
    PROVE  Cardinality(U) <= Cardinality(T) + 1
  <1>1. IsFiniteSet(T) /\ Cardinality(T) \in Nat /\ Cardinality(U) \in Nat
    BY OrdersFinite
  <1>2. /\ IsFiniteSet(T \union {x})
        /\ Cardinality(T \union {x}) \in {Cardinality(T), Cardinality(T) + 1}
    BY <1>1, FS_AddElement
  <1>3. Cardinality(U) <= Cardinality(T \union {x})
    BY <1>2, FS_Subset
  <1>4. QED
    BY <1>1, <1>2, <1>3

\* A command saves or deletes one order; what it deletes is on record, and it places
\* none that is stored or was deleted.
LEMMA OneOrder ==
    ASSUME TypeOK, Next
    PROVE  /\ \E o \in Ids : \A q \in Ids \ {o} : row'[q] = row[q]
           /\ Deleted \subseteq deleted' /\ deleted \subseteq deleted'
           /\ \A o \in Ids : row[o] # 0 \/ o \in deleted => placed'[o] = placed[o]
  <1> DEFINE Good == /\ \E o \in Ids : \A q \in Ids \ {o} : row'[q] = row[q]
                     /\ Deleted \subseteq deleted' /\ deleted \subseteq deleted'
                     /\ \A o \in Ids : row[o] # 0 \/ o \in deleted => placed'[o] = placed[o]
  <1>1. ASSUME NEW ls, NewOrder(ls) PROVE Good
    <2>1. /\ orders + 1 \in Ids /\ changes \in Nat
          /\ row' = [row EXCEPT ![orders + 1] = changes + 1]
          /\ placed' = [placed EXCEPT ![orders + 1] = ls] /\ deleted' = deleted
      BY <1>1, OrderBounds DEF NewOrder, Save, TypeOK, Ids
    <2>2. /\ \A o \in Ids : row[o] # 0 \/ o \in deleted => o # orders + 1
          /\ row \in [Ids -> 0..changes] /\ placed \in [Ids -> Lines(Amounts)]
      BY OrderBounds DEF TypeOK, Ids
    <2>3. QED
      BY <2>1, <2>2 DEF Deleted
  <1>2. ASSUME NEW r \in Requests, Update(r) PROVE Good
    <2>1. CASE SaveUpdate(r)
      <3>1. /\ hand[r] \in Ids /\ changes \in Nat
            /\ row' = [row EXCEPT ![hand[r]] = changes + 1]
            /\ UNCHANGED <<placed, deleted>>
        BY <2>1, OrderBounds DEF SaveUpdate, Save, TypeOK, Ids
      <3>2. row \in [Ids -> 0..changes]
        BY DEF TypeOK
      <3>3. QED
        BY <3>1, <3>2 DEF Deleted
    <2>2. CASE ~SaveUpdate(r)
      <3>1. UNCHANGED <<row, placed, deleted>>
        BY <1>2, <2>2 DEF Update, LoadOrder, LoadLines, GiveUp, tables
      <3>2. PICK o : o \in Ids
        <4>1. CASE pc[r] = "idle"
          BY <1>2, <2>2, <4>1 DEF Update, LoadLines, GiveUp
        <4>2. QED
          BY <4>1, Loading
      <3>3. QED
        BY <3>1, <3>2 DEF Deleted
    <2>3. QED
      BY <2>1, <2>2
  <1>3. ASSUME NEW o \in Ids, Delete(o) PROVE Good
    BY <1>3 DEF Delete, Deleted, TypeOK
  <1>4. QED
    BY <1>1, <1>2, <1>3 DEF Next, Create, Place

\* How a command moves the list: not at all, or by one order that comes or goes.
LEMMA Moves ==
    ASSUME TypeOK, ListIsRight, Command
    PROVE  /\ ListIsRight'
           /\ Stored' = (Stored \union Inserted) \ Deleted
           /\ \/ Inserted = {} /\ Deleted = {} /\ listed' = listed
              \/ /\ \E o \in Ids : Inserted = {o}
                 /\ Deleted = {}
                 /\ Len(listed') = Len(listed) + 1
                 /\ \A n \in Nat :
                       /\ After(listed, n) \subseteq After(listed', n)
                       /\ \E x : After(listed', n) \subseteq After(listed, n) \union {x}
              \/ /\ Inserted = {}
                 /\ Len(listed') = Len(listed) - 1
                 /\ \E o \in Ids :
                       /\ Deleted = {o}
                       /\ \A n \in Nat :
                             /\ After(listed', n) \subseteq After(listed, n)
                             /\ \E x : After(listed, n) \subseteq After(listed', n) \union {x, o}
  <1>1. PICK one \in Ids : \A q \in Ids \ {one} : row'[q] = row[q]
    BY OneOrder DEF Command
  <1>2. /\ Inserted \subseteq {one} /\ Deleted \subseteq {one}
        /\ Inserted = {} \/ Deleted = {}
        /\ Inserted \intersect Stored = {} /\ Deleted \subseteq Stored
    BY <1>1 DEF Inserted, Deleted, Stored
  <1>3. Stored' = (Stored \union Inserted) \ Deleted
    BY DEF Inserted, Deleted, Stored
  <1>4. listed \in Seq(Ids) /\ ToSet(listed) = Stored /\ Distinct(listed)
    BY DEF ListIsRight
  <1>5. CASE Inserted = {} /\ Deleted = {} /\ UNCHANGED listed
    <2>1. Stored' = Stored
      BY <1>3, <1>5
    <2>2. ListIsRight'
      BY <1>4, <1>5, <2>1 DEF ListIsRight
    <2>3. QED
      BY <1>3, <1>5, <2>2
  <1>6. ASSUME NEW o \in Inserted, NEW i \in 1..Len(listed) + 1, listed' = InsertAt(listed, i, o)
        PROVE  /\ ListIsRight'
               /\ \E q \in Ids : Inserted = {q}
               /\ Deleted = {}
               /\ Len(listed') = Len(listed) + 1
               /\ \A n \in Nat :
                     /\ After(listed, n) \subseteq After(listed', n)
                     /\ \E x : After(listed', n) \subseteq After(listed, n) \union {x}
    <2>1. Inserted = {one} /\ o = one /\ o \in Ids /\ Deleted = {} /\ o \notin Stored
      BY <1>2, <1>6
    <2>2. ASSUME NEW n \in Nat
          PROVE  /\ After(listed, n) \subseteq After(listed', n)
                 /\ \E x : After(listed', n) \subseteq After(listed, n) \union {x}
      <3>1. After(listed, n) \subseteq After(listed', n)
        BY <1>4, <1>6, <2>1, Insertion
      <3>2. After(listed', n)
              \subseteq After(listed, n) \union {IF i > n THEN o ELSE listed'[n + 1]}
        BY <1>4, <1>6, <2>1, Insertion
      <3>3. QED
        BY <3>1, <3>2
    <2>3. /\ listed' \in Seq(Ids) /\ Len(listed') = Len(listed) + 1
          /\ ToSet(listed') = ToSet(listed) \union {o} /\ Distinct(listed')
      <3>1. 0 \in Nat /\ o \in Ids /\ o \notin ToSet(listed)
        BY <1>4, <2>1
      <3>2. QED
        BY <1>4, <1>6, <3>1, Insertion
    <2>4. ListIsRight'
      BY <1>3, <1>4, <2>1, <2>3 DEF ListIsRight
    <2>5. QED
      BY <2>1, <2>2, <2>3, <2>4
  <1>7. ASSUME NEW i \in DOMAIN listed, listed[i] \in Deleted, listed' = RemoveAt(listed, i)
        PROVE  /\ ListIsRight'
               /\ Inserted = {}
               /\ Len(listed') = Len(listed) - 1
               /\ \E o \in Ids :
                     /\ Deleted = {o}
                     /\ \A n \in Nat :
                           /\ After(listed', n) \subseteq After(listed, n)
                           /\ \E x : After(listed, n) \subseteq After(listed', n) \union {x, o}
    <2>1. Deleted = {one} /\ listed[i] = one /\ Inserted = {}
      BY <1>2, <1>7
    <2>2. ASSUME NEW n \in Nat
          PROVE  /\ After(listed', n) \subseteq After(listed, n)
                 /\ \E x : After(listed, n) \subseteq After(listed', n) \union {x, listed[i]}
      BY <1>4, <1>7, Removal
    <2>3. /\ listed' \in Seq(Ids) /\ Len(listed') = Len(listed) - 1
          /\ ToSet(listed') = ToSet(listed) \ {listed[i]} /\ Distinct(listed')
      <3>1. 0 \in Nat
        OBVIOUS
      <3>2. QED
        BY <1>4, <1>7, <3>1, Removal
    <2>4. ListIsRight'
      BY <1>3, <1>4, <2>1, <2>3 DEF ListIsRight
    <2>5. QED
      BY <2>1, <2>2, <2>3, <2>4
  <1>8. Relist
    BY DEF Command
  <1>9. QED
    BY <1>3, <1>5, <1>6, <1>7, <1>8 DEF Relist

\* What that costs a walk: an insert makes one more order come up again at most, a
\* delete makes one more be passed over at most.
LEMMA CommandCounts ==
    ASSUME TypeOK, ListIsRight, Command, enduring \subseteq Stored,
           NEW n \in Nat, NEW seen, seen \subseteq Ids
    PROVE  /\ Cardinality(Inserted) \in Nat /\ Cardinality(Deleted) \in Nat
           /\ Cardinality(After(listed', n) \intersect seen)
              <= Again(n, seen) + Cardinality(Inserted)
           /\ Cardinality((enduring \ Deleted) \ (seen \union After(listed', n)))
              <= Missed(n, seen) + Cardinality(Deleted)
           /\ Len(listed') <= Len(listed) + Cardinality(Inserted)
  <1> DEFINE now == After(listed, n)
             next == After(listed', n)
             others == (enduring \ Deleted) \ (seen \union next)
  <1>1. /\ now \intersect seen \subseteq Ids /\ next \intersect seen \subseteq Ids
        /\ enduring \ (seen \union now) \subseteq Ids /\ others \subseteq Ids
    BY DEF Stored
  <1>2. /\ Cardinality(now \intersect seen) \in Nat
        /\ Cardinality(enduring \ (seen \union now)) \in Nat
        /\ Len(listed) \in Nat
    BY <1>1, OrdersFinite DEF ListIsRight
  <1>3. Cardinality({}) = 0 /\ \A o : Cardinality({o}) = 1
    BY FS_EmptySet, FS_Singleton
  <1>4. /\ Again(n, seen) = Cardinality(now \intersect seen)
        /\ Missed(n, seen) = Cardinality(enduring \ (seen \union now))
    BY DEF Again, Missed
  <1> HIDE DEF now, next, others
  <1>5. CASE Inserted = {} /\ Deleted = {} /\ listed' = listed
    <2>1. next = now /\ others = enduring \ (seen \union now)
      BY <1>5 DEF now, next, others
    <2>2. QED
      BY <1>2, <1>3, <1>4, <1>5, <2>1 DEF next, others
  <1>6. CASE /\ \E o \in Ids : Inserted = {o}
             /\ Deleted = {} /\ Len(listed') = Len(listed) + 1
             /\ now \subseteq next /\ \E x : next \subseteq now \union {x}
    <2>1. PICK x : next \subseteq now \union {x}
      BY <1>6
    <2>2. next \intersect seen \subseteq (now \intersect seen) \union {x}
      BY <2>1
    <2>3. Cardinality(next \intersect seen) <= Cardinality(now \intersect seen) + 1
      BY <1>1, <2>2, OneMoreOrder
    <2>4. others \subseteq enduring \ (seen \union now)
      BY <1>6 DEF others
    <2>5. Cardinality(others) <= Cardinality(enduring \ (seen \union now))
      BY <1>1, <2>4, FewerOrders
    <2>6. Cardinality(Inserted) = 1 /\ Cardinality(Deleted) = 0
      BY <1>3, <1>6
    <2>7. QED
      BY <1>2, <1>4, <1>6, <2>3, <2>5, <2>6, SMT DEF next, others
  <1>7. CASE /\ Inserted = {} /\ Len(listed') = Len(listed) - 1
             /\ \E o \in Ids : /\ Deleted = {o}
                               /\ next \subseteq now
                               /\ \E x : now \subseteq next \union {x, o}
    <2>1. PICK o \in Ids : Deleted = {o} /\ next \subseteq now
                           /\ \E x : now \subseteq next \union {x, o}
      BY <1>7
    <2>2. PICK x : now \subseteq next \union {x, o}
      BY <2>1
    <2>3. others \subseteq (enduring \ (seen \union now)) \union {x}
      BY <2>1, <2>2 DEF others
    <2>4. Cardinality(others) <= Cardinality(enduring \ (seen \union now)) + 1
      BY <1>1, <2>3, OneMoreOrder
    <2>5. Cardinality(next \intersect seen) <= Cardinality(now \intersect seen)
      <3>1. next \intersect seen \subseteq now \intersect seen
        BY <2>1
      <3>2. QED
        BY <1>1, <3>1, FewerOrders
    <2>6. Cardinality(Inserted) = 0 /\ Cardinality(Deleted) = 1
      BY <1>3, <1>7, <2>1
    <2>7. QED
      BY <1>2, <1>4, <1>7, <2>4, <2>5, <2>6, SMT DEF next, others
  <1>8. QED
    BY <1>5, <1>6, <1>7, Moves DEF now, next

LEMMA StartIs ==
    ASSUME RequestOK
    PROVE  /\ Start \in Nat /\ PageSize \in Nat \ {0} /\ Start + PageSize \in Nat
           /\ (index + 1) * PageSize = Start + PageSize
  BY QueryBounds DEF RequestOK, Start

\* Without a walk there is nothing to account for.
LEMMA NoWalk ==
    /\ \A n : Again(n, {}) = 0
    /\ enduring = {} => \A n, seen : Missed(n, seen) = 0
  <1>1. \A S : S \intersect {} = {} /\ {} \ S = {}
    OBVIOUS
  <1>2. QED
    BY <1>1, FS_EmptySet DEF Again, Missed

\* A command adds to a walk's account what it costs.
LEMMA CommandPays ==
    ASSUME QueryInv, Command
    PROVE  WalkOK' /\ RepeatsArePaid' /\ MissesArePaid'
  <1>1. /\ TypeOK /\ ListIsRight /\ RequestOK
        /\ WalkOK /\ RepeatsArePaid /\ MissesArePaid
    BY DEF QueryInv, IInv
  <1>2. /\ call' = call /\ asked' = asked /\ index' = index /\ total' = total
        /\ rows' = rows /\ Start' = Start
    BY DEF Command, request, Start
  <1>3. /\ Start \in Nat /\ Start + PageSize \in Nat
        /\ shown \subseteq Ids /\ shown \union ToSet(rows) \subseteq Ids
        /\ enduring \subseteq Stored
        /\ total \in Nat /\ Len(listed) \in Nat
    BY <1>1, StartIs DEF RequestOK, WalkOK, ToSet, ListIsRight
  <1>4. CASE asked = "page"
    <2>1. /\ enduring' = enduring \ Deleted
          /\ inserts' = inserts + Cardinality(Inserted)
          /\ late' = late + Cardinality(Inserted)
          /\ deletes' = deletes + Cardinality(Deleted)
          /\ shown' = shown /\ repeats' = repeats
      BY <1>4 DEF Command
    <2>2. Cardinality(Inserted) \in Nat /\ Cardinality(Deleted) \in Nat
      BY <1>1, <1>3, CommandCounts
    <2>3. /\ repeats \in Nat /\ inserts \in Nat /\ late \in Nat /\ deletes \in Nat
      BY <1>1 DEF WalkOK
    <2>4. WalkOK'
      <3>1. enduring' \subseteq Stored'
        BY <1>1, <1>3, <2>1, Moves
      <3>2. QED
        BY <1>2, <1>3, <1>4, <2>1, <2>2, <2>3, <3>1 DEF WalkOK
    <2>5. ASSUME NEW n \in Nat, NEW seen, seen \subseteq Ids
          PROVE  /\ Again(n, seen) \in Nat /\ Missed(n, seen) \in Nat
                 /\ Again(n, seen)' \in Nat /\ Missed(n, seen)' \in Nat
                 /\ Again(n, seen)' <= Again(n, seen) + Cardinality(Inserted)
                 /\ Missed(n, seen)' <= Missed(n, seen) + Cardinality(Deleted)
      <3>1. /\ Again(n, seen)' = Cardinality(After(listed', n) \intersect seen)
            /\ Missed(n, seen)'
               = Cardinality((enduring \ Deleted) \ (seen \union After(listed', n)))
        BY <2>1 DEF Again, Missed, After
      <3>2. /\ Again(n, seen) \in Nat /\ Missed(n, seen) \in Nat
            /\ Again(n, seen)' \in Nat /\ Missed(n, seen)' \in Nat
        BY <1>3, <2>5, <3>1, OrdersFinite DEF Again, Missed, Stored
      <3>3. QED
        BY <1>1, <1>3, <2>5, <3>1, <3>2, CommandCounts
    <2>6. /\ Again(Start, shown)' <= Again(Start, shown) + Cardinality(Inserted)
          /\ Missed(Start, shown)' <= Missed(Start, shown) + Cardinality(Deleted)
          /\ Again(Start, shown) \in Nat /\ Missed(Start, shown) \in Nat
          /\ Again(Start, shown)' \in Nat /\ Missed(Start, shown)' \in Nat
      BY <1>2, <1>3, <2>1, <2>5 DEF Again, Missed, After
    <2> DEFINE n2 == Start + PageSize
               s2 == shown \union ToSet(rows)
    <2>7. /\ Again(n2, s2)' <= Again(n2, s2) + Cardinality(Inserted)
          /\ Missed(n2, s2)' <= Missed(n2, s2) + Cardinality(Deleted)
          /\ Again(n2, s2) \in Nat /\ Missed(n2, s2) \in Nat
          /\ Again(n2, s2)' \in Nat /\ Missed(n2, s2)' \in Nat
      <3>1. n2' = n2 /\ s2' = s2
        BY <1>2, <2>1 DEF ToSet
      <3>2. n2 \in Nat /\ s2 \subseteq Ids
        BY <1>3
      <3> HIDE DEF n2, s2
      <3>3. QED
        BY <2>1, <2>5, <3>1, <3>2 DEF Again, Missed, After
    <2>8. /\ Len(rows) \in Nat /\ Cardinality(ToSet(rows) \ shown) \in Nat
          /\ Len(rows)' = Len(rows)
          /\ Cardinality(ToSet(rows) \ shown)' = Cardinality(ToSet(rows) \ shown)
      BY <1>1, <1>2, <1>3, <2>1, OrdersFinite DEF RequestOK, ToSet
    <2>9. RepeatsArePaid'
      <3>1. RepeatsNeedInserts'
        BY <1>1, <2>1, <2>2, <2>3 DEF RepeatsArePaid, RepeatsNeedInserts
      <3>2. call' # "done" => Again(Start, shown)' + repeats' <= inserts'
        BY <1>1, <1>2, <2>1, <2>2, <2>3, <2>6 DEF RepeatsArePaid
      <3>3. PageRead' => Again(n2, s2)' + Len(rows)' + repeats'
                         <= inserts' + Cardinality(ToSet(rows) \ shown)'
        <4>1. PageRead' => Again(n2, s2) + Len(rows) + repeats
                           <= inserts + Cardinality(ToSet(rows) \ shown)
          BY <1>1, <1>2 DEF RepeatsArePaid, PageRead
        <4> HIDE DEF n2, s2
        <4>2. ASSUME NEW a, a = Again(n2, s2), NEW b, b = Again(n2, s2)',
                     NEW c, c = Cardinality(ToSet(rows) \ shown), PageRead'
              PROVE  b + Len(rows) + repeats <= inserts + Cardinality(Inserted) + c
          <5>1. /\ b <= a + Cardinality(Inserted) /\ a \in Nat /\ b \in Nat
                /\ c \in Nat /\ Len(rows) \in Nat
            BY <2>7, <2>8, <4>2
          <5>2. a + Len(rows) + repeats <= inserts + c
            BY <4>1, <4>2
          <5>3. QED
            BY <2>2, <2>3, <5>1, <5>2
        <4>3. QED
          BY <2>1, <2>8, <4>2
      <3>4. QED
        BY <3>1, <3>2, <3>3 DEF RepeatsArePaid
    <2>10. MissesArePaid'
      <3>1. MissesNeedDeletes'
        <4>1. enduring' \ shown' \subseteq enduring \ shown /\ enduring \ shown \subseteq Ids
          BY <1>3, <2>1 DEF Stored
        <4>2. /\ Cardinality(enduring' \ shown') <= Cardinality(enduring \ shown)
              /\ Cardinality(enduring' \ shown') \in Nat /\ Cardinality(enduring \ shown) \in Nat
          BY <4>1, FewerOrders, OrdersFinite
        <4>3. call' = "done" => Cardinality(enduring \ shown) <= deletes + late
          BY <1>1, <1>2 DEF MissesArePaid, MissesNeedDeletes
        <4>4. QED
          BY <2>1, <2>2, <2>3, <4>2, <4>3 DEF MissesNeedDeletes
      <3>2. call' # "done" => Missed(Start, shown)' <= deletes'
        BY <1>1, <1>2, <2>1, <2>2, <2>3, <2>6 DEF MissesArePaid
      <3>3. PageRead' => Missed(n2, s2)' <= deletes'
        <4>1. PageRead' => Missed(n2, s2) <= deletes
          BY <1>1, <1>2 DEF MissesArePaid, PageRead
        <4> HIDE DEF n2, s2
        <4>2. QED
          BY <2>1, <2>2, <2>3, <2>7, <4>1
      <3>4. call' = "page" \/ PageRead' => Len(listed') <= total' + late'
        <4>1. call' = "page" \/ PageRead' => Len(listed) <= total + late
          BY <1>1, <1>2 DEF MissesArePaid, PageRead
        <4>2. ListIsRight'
          BY <1>1, Moves
        <4>3. Len(listed') \in Nat
          BY <4>2 DEF ListIsRight
        <4>4. Len(listed') <= Len(listed) + Cardinality(Inserted)
          BY <1>1, <1>3, CommandCounts
        <4>5. QED
          BY <1>2, <1>3, <2>1, <2>2, <2>3, <4>1, <4>3, <4>4
      <3>5. QED
        BY <3>1, <3>2, <3>3, <3>4 DEF MissesArePaid
    <2>11. QED
      BY <2>4, <2>9, <2>10
  <1>5. CASE asked # "page"
    <2>1. /\ UNCHANGED <<shown, repeats, enduring, inserts, late, deletes>>
          /\ call \notin {"page", "done"} /\ ~PageRead' /\ call' \notin {"page", "done"}
      BY <1>1, <1>2, <1>5 DEF Command, walk, RequestOK, PageRead
    <2>2. /\ shown' = {} /\ enduring' = {}
          /\ repeats' = 0 /\ inserts' = 0 /\ deletes' = 0
      BY <1>1, <1>5, <2>1 DEF WalkOK
    <2>3. WalkOK'
      BY <1>1, <1>2, <2>1, <2>2 DEF WalkOK
    <2>4. Again(Start, shown)' = 0 /\ Missed(Start, shown)' = 0
      <3>1. /\ Again(Start, shown)' = Cardinality(After(listed, Start)' \intersect shown')
            /\ Missed(Start, shown)'
               = Cardinality(enduring' \ (shown' \union After(listed, Start)'))
        BY DEF Again, Missed
      <3>2. /\ After(listed, Start)' \intersect shown' = {}
            /\ enduring' \ (shown' \union After(listed, Start)') = {}
        BY <2>2
      <3>3. QED
        BY <3>1, <3>2, FS_EmptySet
    <2>5. QED
      BY <2>1, <2>2, <2>3, <2>4
         DEF RepeatsArePaid, MissesArePaid, RepeatsNeedInserts, MissesNeedDeletes
  <1>6. QED
    BY <1>4, <1>5

LEMMA CommandKeeps == ASSUME QueryInv, Command PROVE QueryInv'
  <1>1. /\ TypeOK /\ ListIsRight /\ RequestOK /\ Found /\ ViewsAreWhole
    BY DEF QueryInv, IInv
  <1>2. IInv'
    BY NextKeeps DEF Command, QueryInv
  <1>3. ListIsRight'
    BY <1>1, Moves
  <1>4. UNCHANGED <<call, asked, index, total, rows, views>>
    BY DEF Command, request
  <1>5. RequestOK'
    BY <1>1, <1>4 DEF RequestOK
  <1>6. /\ \A o \in Ids : row[o] # 0 \/ o \in deleted =>
              (row'[o] # 0 \/ o \in deleted') /\ placed'[o] = placed[o]
        /\ deleted \subseteq deleted'
    BY <1>1, OneOrder DEF Command, Deleted
  <1>7. \A i \in DOMAIN rows : rows[i] \in Ids
    BY <1>1 DEF RequestOK
  <1>8. Found'
    BY <1>1, <1>4, <1>6, <1>7 DEF Found
  <1>9. ViewsAreWhole'
    <2>1. \A i \in DOMAIN views : i \in DOMAIN rows
      BY <1>1 DEF RequestOK
    <2>2. QED
      BY <1>1, <1>4, <1>6, <1>7, <2>1 DEF ViewsAreWhole, Found
  <1>10. QED
    BY <1>2, <1>3, <1>5, <1>8, <1>9, CommandPays DEF QueryInv

-----------------------------------------------------------------------------
(* The queries *)

LEMMA QueriesLeaveOrders ==
    ASSUME QueryInv, UNCHANGED <<vars, listed>>
    PROVE  IInv' /\ ListIsRight' /\ Stored' = Stored
  <1>1. IInv'
    BY NextKeeps DEF QueryInv
  <1>2. UNCHANGED <<row, listed>>
    BY DEF vars, tables
  <1>3. Stored' = Stored
    BY <1>2 DEF Stored
  <1>4. QED
    BY <1>1, <1>2, <1>3 DEF QueryInv, ListIsRight

\* A request that begins, or ends without a page, leaves the account of the walk.
LEMMA AccountKept ==
    ASSUME QueryInv, UNCHANGED <<listed, index, walk>>,
           call # "done", call' \in {"idle", "lines"}, ~PageRead'
    PROVE  RepeatsArePaid' /\ MissesArePaid'
  <1>1. /\ Again(Start, shown)' = Again(Start, shown)
        /\ Missed(Start, shown)' = Missed(Start, shown)
    BY DEF Again, Missed, After, Start, walk
  <1>2. /\ RepeatsNeedInserts' /\ Again(Start, shown)' + repeats' <= inserts'
    BY <1>1 DEF walk, QueryInv, RepeatsArePaid, RepeatsNeedInserts
  <1>3. Missed(Start, shown)' <= deletes'
    BY <1>1 DEF walk, QueryInv, MissesArePaid
  <1>4. QED
    BY <1>2, <1>3 DEF RepeatsArePaid, MissesArePaid, MissesNeedDeletes

LEMMA ReadOneKeeps == ASSUME QueryInv, NEW o \in Ids, ReadOne(o) PROVE QueryInv'
  <1>1. /\ call = "idle" /\ asked = "nothing" /\ row[o] # 0
        /\ call' = "lines" /\ asked' = "one" /\ rows' = <<o>>
        /\ UNCHANGED <<vars, listed, index, total, views, walk>>
        /\ UNCHANGED <<index, total, views, row, deleted, placed>>
        /\ UNCHANGED <<shown, repeats, enduring, inserts, late, deletes>>
    BY DEF ReadOne, vars, tables, walk
  <1>2. RequestOK /\ WalkOK /\ views = <<>>
    BY <1>1 DEF QueryInv, RequestOK
  <1>3. IInv' /\ ListIsRight' /\ Stored' = Stored
    BY <1>1, QueriesLeaveOrders
  <1>4. RequestOK'
    BY <1>1, <1>2 DEF RequestOK
  <1>5. Found' /\ ViewsAreWhole'
    BY <1>1, <1>2 DEF Found, ViewsAreWhole
  <1>6. WalkOK'
    BY <1>1, <1>2, <1>3 DEF WalkOK
  <1>7. RepeatsArePaid' /\ MissesArePaid'
    BY <1>1, AccountKept DEF PageRead
  <1>8. QED
    BY <1>3, <1>4, <1>5, <1>6, <1>7 DEF QueryInv

LEMMA ReadCustomerKeeps == ASSUME QueryInv, ReadCustomer PROVE QueryInv'
  <1>1. /\ call = "idle" /\ asked = "nothing"
        /\ call' = "lines" /\ asked' = "customer"
        /\ rows' \in NewestFirst(Mine \intersect Stored)
        /\ UNCHANGED <<vars, listed, index, total, views, walk>>
        /\ UNCHANGED <<index, total, views, row, deleted, placed>>
        /\ UNCHANGED <<shown, repeats, enduring, inserts, late, deletes>>
    BY DEF ReadCustomer, vars, tables, walk
  <1>2. RequestOK /\ WalkOK /\ views = <<>>
    BY <1>1 DEF QueryInv, RequestOK
  <1>3. IInv' /\ ListIsRight' /\ Stored' = Stored
    BY <1>1, QueriesLeaveOrders
  <1>4. rows' \in Seq(Ids) /\ \A i \in DOMAIN rows' : rows'[i] \in Stored
    <2>1. Mine \intersect Stored \subseteq Ids
      BY DEF Stored
    <2>2. Cardinality(Mine \intersect Stored) \in Nat
      BY <2>1, OrdersFinite
    <2>3. rows' \in [1..Cardinality(Mine \intersect Stored) -> Mine \intersect Stored]
      BY <1>1 DEF NewestFirst, SetToSeqs
    <2>4. PICK n \in Nat : rows' \in [1..n -> Mine \intersect Stored]
      BY <2>2, <2>3
    <2>5. rows' \in [1..n -> Ids] /\ \A i \in DOMAIN rows' : rows'[i] \in Stored
      BY <2>1, <2>4
    <2>6. rows' \in Seq(Ids)
      BY <2>5
    <2>7. QED
      BY <2>5, <2>6
  <1>5. RequestOK'
    BY <1>1, <1>2, <1>4 DEF RequestOK
  <1>6. Found' /\ ViewsAreWhole'
    BY <1>1, <1>2, <1>4 DEF Found, ViewsAreWhole, Stored
  <1>7. WalkOK'
    BY <1>1, <1>2, <1>3 DEF WalkOK
  <1>8. RepeatsArePaid' /\ MissesArePaid'
    BY <1>1, AccountKept DEF PageRead
  <1>9. QED
    BY <1>3, <1>5, <1>6, <1>7, <1>8 DEF QueryInv

\* Before the first page nothing has come up, and nothing is passed over.
LEMMA CountOrdersKeeps == ASSUME QueryInv, CountOrders PROVE QueryInv'
  <1>1. /\ call = "idle" /\ asked \in {"nothing", "page"}
        /\ call' = "page" /\ asked' = "page" /\ total' = Len(listed) /\ late' = 0
        /\ UNCHANGED <<vars, listed>>
        /\ UNCHANGED <<listed, index, rows, views, row, deleted, placed, shown, repeats>>
        /\ \/ asked = "nothing" /\ enduring' = Stored /\ inserts' = 0 /\ deletes' = 0
           \/ asked = "page" /\ UNCHANGED <<enduring, inserts, deletes>>
    BY DEF CountOrders, vars, tables
  <1>2. /\ RequestOK /\ WalkOK /\ ListIsRight /\ RepeatsArePaid /\ MissesArePaid
        /\ rows = <<>> /\ views = <<>>
    BY <1>1 DEF QueryInv, RequestOK
  <1>3. IInv' /\ ListIsRight' /\ Stored' = Stored
    BY <1>1, QueriesLeaveOrders
  <1>4. Len(listed) \in Nat
    BY <1>2 DEF ListIsRight
  <1>5. RequestOK'
    BY <1>1, <1>2, <1>4 DEF RequestOK
  <1>6. Found' /\ ViewsAreWhole'
    BY <1>1, <1>2 DEF Found, ViewsAreWhole
  <1>7. WalkOK'
    BY <1>1, <1>2, <1>3 DEF WalkOK
  <1>8. /\ Again(Start, shown)' + repeats' <= inserts' /\ repeats' <= inserts'
        /\ Missed(Start, shown)' <= deletes'
    <2>1. CASE asked = "nothing"
      <3>1. shown = {} /\ index = 0 /\ repeats = 0 /\ inserts' = 0 /\ deletes' = 0
        BY <1>1, <1>2, <2>1 DEF WalkOK
      <3>2. Start' = 0 /\ shown' = {}
        BY <1>1, <3>1, QueryBounds DEF Start
      <3>3. After(listed, Start)' = Stored
        BY <1>1, <1>2, <3>2 DEF After, ListIsRight, ToSet
      <3>4. /\ Again(Start, shown)' = Cardinality(After(listed, Start)' \intersect shown')
            /\ Missed(Start, shown)'
               = Cardinality(enduring' \ (shown' \union After(listed, Start)'))
        BY DEF Again, Missed
      <3>5. /\ After(listed, Start)' \intersect shown' = {}
            /\ enduring' \ (shown' \union After(listed, Start)') = {}
        BY <1>1, <2>1, <3>2, <3>3
      <3>6. Again(Start, shown)' = 0 /\ Missed(Start, shown)' = 0
        BY <3>4, <3>5, FS_EmptySet
      <3>7. QED
        BY <1>1, <3>1, <3>6
    <2>2. CASE asked = "page"
      <3>1. /\ Again(Start, shown)' = Again(Start, shown)
            /\ Missed(Start, shown)' = Missed(Start, shown)
        BY <1>1, <2>2 DEF Again, Missed, After, Start
      <3>2. QED
        BY <1>1, <1>2, <2>2, <3>1 DEF RepeatsArePaid, MissesArePaid, RepeatsNeedInserts
    <2>3. QED
      BY <1>1, <2>1, <2>2
  <1>9. Len(listed') <= total' + late'
    BY <1>1, <1>4
  <1>10. RepeatsArePaid' /\ MissesArePaid'
    BY <1>1, <1>8, <1>9 DEF RepeatsArePaid, MissesArePaid, PageRead,
       RepeatsNeedInserts, MissesNeedDeletes
  <1>11. QED
    BY <1>3, <1>5, <1>6, <1>7, <1>10 DEF QueryInv

LEMMA OrdersApart ==
    ASSUME NEW T, T \subseteq Ids, NEW U, U \subseteq Ids
    PROVE  /\ Cardinality(T \union U) <= Cardinality(T) + Cardinality(U)
           /\ T \intersect U = {} => Cardinality(T \union U) = Cardinality(T) + Cardinality(U)
  <1>1. IsFiniteSet(T) /\ IsFiniteSet(U)
    BY OrdersFinite
  <1>2. /\ Cardinality(T) \in Nat /\ Cardinality(U) \in Nat
        /\ Cardinality(T \intersect U) \in Nat
    BY OrdersFinite
  <1>3. Cardinality(T \union U) = Cardinality(T) + Cardinality(U) - Cardinality(T \intersect U)
    BY <1>1, FS_Union
  <1>4. T \intersect U = {} => Cardinality(T \intersect U) = 0
    BY FS_EmptySet
  <1>5. QED
    BY <1>2, <1>3, <1>4

\* A page shows orders again only if they were to come up again, and passes over no
\* order that was to come.
LEMMA ListPageKeeps == ASSUME QueryInv, ListPage PROVE QueryInv'
  <1>1. /\ call = "page" /\ call' = "lines" /\ rows' = PageOf(listed, index)
        /\ UNCHANGED <<vars, listed>>
        /\ UNCHANGED <<listed, asked, index, total, views, row, deleted, placed>>
        /\ UNCHANGED <<shown, repeats, enduring, inserts, late, deletes>>
    BY DEF ListPage, Pages, vars, tables, walk
  <1>2. /\ RequestOK /\ WalkOK /\ ListIsRight /\ RepeatsArePaid /\ MissesArePaid
        /\ asked = "page" /\ views = <<>>
    BY <1>1 DEF QueryInv, RequestOK
  <1>3. IInv' /\ ListIsRight' /\ Stored' = Stored
    BY <1>1, QueriesLeaveOrders
  <1> DEFINE n == Start
             n2 == Start + PageSize
             R == ToSet(rows')
  <1>4. /\ rows' \in Seq(Ids) /\ Distinct(rows') /\ R \subseteq Stored
        /\ R \subseteq After(listed, n) /\ After(listed, n2) \subseteq After(listed, n)
        /\ After(listed, n) \subseteq R \union After(listed, n2)
        /\ R \intersect After(listed, n2) = {}
        /\ After(listed, n) \subseteq Stored
    <2>1. listed \in Seq(Ids) /\ ToSet(listed) = Stored /\ Distinct(listed) /\ index \in Nat
      BY <1>2 DEF ListIsRight, RequestOK
    <2>2. After(listed, n) \subseteq Stored
      BY <2>1 DEF After, ToSet
    <2>3. /\ rows' \in Seq(Ids) /\ R \subseteq After(listed, n)
          /\ After(listed, n2) \subseteq After(listed, n)
          /\ After(listed, n) \subseteq R \union After(listed, n2)
          /\ Distinct(rows') /\ R \intersect After(listed, n2) = {}
      BY <1>1, <2>1, PageIs DEF Start
    <2>4. QED
      BY <2>2, <2>3
  <1> HIDE DEF n, n2, R
  <1>5. RequestOK'
    BY <1>1, <1>2, <1>4 DEF RequestOK
  <1>6. Found' /\ ViewsAreWhole'
    <2>1. \A i \in DOMAIN rows' : rows'[i] \in Stored
      BY <1>4 DEF R, ToSet
    <2>2. QED
      BY <1>1, <1>2, <2>1 DEF Found, ViewsAreWhole, Stored
  <1>7. WalkOK'
    BY <1>1, <1>2, <1>3 DEF WalkOK
  <1>8. /\ Start' = Start /\ shown' = shown /\ listed' = listed /\ enduring' = enduring
        /\ shown \subseteq Ids /\ R \subseteq Ids /\ enduring \subseteq Ids
    BY <1>1, <1>2, <1>4 DEF Start, WalkOK, Stored
  <1>9. /\ Again(Start, shown)' = Again(n, shown)
        /\ Missed(Start, shown)' = Missed(n, shown)
        /\ Again(Start + PageSize, shown \union ToSet(rows))'
           = Cardinality(After(listed, n2) \intersect (shown \union R))
        /\ Missed(Start + PageSize, shown \union ToSet(rows))'
           = Cardinality(enduring \ ((shown \union R) \union After(listed, n2)))
        /\ Cardinality(ToSet(rows) \ shown)' = Cardinality(R \ shown)
    BY <1>8 DEF Again, Missed, After, n, n2, R, ToSet
  <1>10. /\ Again(n, shown) + repeats <= inserts /\ repeats <= inserts
         /\ Missed(n, shown) <= deletes /\ Len(listed) <= total + late
    BY <1>1, <1>2 DEF RepeatsArePaid, RepeatsNeedInserts, MissesArePaid, n
  <1>11. Cardinality(After(listed, n2) \intersect (shown \union R)) + Len(rows') + repeats
         <= inserts + Cardinality(R \ shown)
    <2> DEFINE A == After(listed, n2) \intersect shown
               B == R \intersect shown
    <2>1. Cardinality(R) = Len(rows')
      BY <1>4, DistinctSize DEF R
    <2>2. /\ A \subseteq Ids /\ B \subseteq Ids /\ A \intersect B = {}
          /\ A \union B \subseteq After(listed, n) \intersect shown
          /\ After(listed, n) \intersect shown \subseteq Ids
          /\ After(listed, n2) \intersect (shown \union R) = A
      BY <1>4, <1>8
    <2>3. R \ shown \subseteq Ids /\ R = B \union (R \ shown) /\ B \intersect (R \ shown) = {}
      BY <1>8
    <2> HIDE DEF A, B
    <2>4. Cardinality(A) + Cardinality(B) = Cardinality(A \union B)
      BY <2>2, OrdersApart
    <2>5. Cardinality(A \union B) <= Cardinality(After(listed, n) \intersect shown)
      BY <2>2, FewerOrders
    <2>6. Cardinality(R) = Cardinality(B) + Cardinality(R \ shown)
      BY <2>2, <2>3, OrdersApart
    <2>7. /\ Cardinality(A) \in Nat /\ Cardinality(B) \in Nat /\ Cardinality(R \ shown) \in Nat
          /\ Cardinality(After(listed, n) \intersect shown) \in Nat
      BY <2>2, <2>3, OrdersFinite
    <2>8. repeats \in Nat /\ inserts \in Nat
      BY <1>2 DEF WalkOK
    <2>9. Again(n, shown) = Cardinality(After(listed, n) \intersect shown)
      BY DEF Again
    <2>10. ASSUME NEW a \in Nat, NEW b \in Nat, NEW c \in Nat, NEW d \in Nat,
                  a = Cardinality(A), b = Cardinality(B), c = Cardinality(R \ shown),
                  d = Cardinality(After(listed, n) \intersect shown)
           PROVE  a + Len(rows') + repeats <= inserts + c
      <3>1. a + b <= d /\ Len(rows') = b + c
        BY <2>1, <2>4, <2>5, <2>6, <2>10
      <3>2. d + repeats <= inserts
        BY <1>10, <2>9, <2>10
      <3>3. QED
        BY <2>8, <3>1, <3>2
    <2>11. QED
      BY <2>2, <2>7, <2>10
  <1>12. Cardinality(enduring \ ((shown \union R) \union After(listed, n2))) <= deletes
    <2>1. enduring \ ((shown \union R) \union After(listed, n2))
          \subseteq enduring \ (shown \union After(listed, n))
      BY <1>4
    <2>2. Cardinality(enduring \ ((shown \union R) \union After(listed, n2))) <= Missed(n, shown)
      BY <1>8, <2>1, FewerOrders DEF Missed
    <2>3. /\ Missed(n, shown) \in Nat /\ deletes \in Nat
          /\ Cardinality(enduring \ ((shown \union R) \union After(listed, n2))) \in Nat
      BY <1>2, <1>8, OrdersFinite DEF Missed, WalkOK
    <2>4. QED
      BY <1>10, <2>2, <2>3
  <1>13. RepeatsArePaid'
    BY <1>1, <1>9, <1>10, <1>11 DEF RepeatsArePaid, RepeatsNeedInserts, n
  <1>14. MissesArePaid'
    BY <1>1, <1>9, <1>10, <1>12 DEF MissesArePaid, MissesNeedDeletes, n
  <1>15. QED
    BY <1>3, <1>5, <1>6, <1>7, <1>13, <1>14 DEF QueryInv

\* The lines read for an order are all of its lines, or it was deleted.
LEMMA ReadLinesKeeps == ASSUME QueryInv, ReadLines PROVE QueryInv'
  <1> DEFINE k == Len(views) + 1
  <1>1. /\ call = "lines" /\ Len(views) < Len(rows)
        /\ views' = Append(views, ViewOf(lines[rows[k]]))
        /\ UNCHANGED <<vars, listed>>
        /\ UNCHANGED <<listed, call, asked, index, total, rows, row, deleted, placed>>
        /\ UNCHANGED <<shown, repeats, enduring, inserts, late, deletes>>
    BY DEF ReadLines, LinesOf, vars, tables, walk
  <1>2. /\ RequestOK /\ WalkOK /\ RepeatsArePaid /\ MissesArePaid
        /\ Found /\ ViewsAreWhole /\ TypeOK /\ WholeOrders
    BY DEF QueryInv, IInv
  <1>3. IInv' /\ ListIsRight' /\ Stored' = Stored
    BY <1>1, QueriesLeaveOrders
  <1>4. /\ rows \in Seq(Ids) /\ views \in Seq({ViewOf(ls) : ls \in Lines(Amounts)})
        /\ Len(views) \in Nat /\ Len(rows) \in Nat /\ k \in DOMAIN rows /\ rows[k] \in Ids
    BY <1>1, <1>2 DEF RequestOK
  <1>5. lines[rows[k]] \in Lines(Amounts)
    BY <1>2, <1>4 DEF TypeOK
  <1> HIDE DEF k
  <1>6. /\ views' \in Seq({ViewOf(ls) : ls \in Lines(Amounts)}) /\ Len(views') = k
        /\ DOMAIN views' = DOMAIN views \union {k} /\ views'[k] = ViewOf(lines[rows[k]])
        /\ \A i \in DOMAIN views : i # k /\ views'[i] = views[i]
    BY <1>1, <1>4, <1>5 DEF k
  <1>7. RequestOK'
    <2>1. Len(views') <= Len(rows)
      BY <1>1, <1>4, <1>6 DEF k
    <2>2. QED
      BY <1>1, <1>2, <1>6, <2>1 DEF RequestOK
  <1>8. \/ lines[rows[k]] = Rounded(placed[rows[k]])
        \/ rows[k] \in deleted /\ lines[rows[k]] = NoLines
    BY <1>2, <1>4 DEF Found, WholeOrders, TypeOK
  <1>9. ViewsAreWhole'
    BY <1>1, <1>2, <1>6, <1>8 DEF ViewsAreWhole
  <1>10. Found'
    BY <1>1, <1>2 DEF Found
  <1>11. WalkOK'
    BY <1>1, <1>2, <1>3 DEF WalkOK
  <1>12. /\ Again(Start, shown)' = Again(Start, shown)
         /\ Missed(Start, shown)' = Missed(Start, shown)
         /\ Again(Start + PageSize, shown \union ToSet(rows))'
            = Again(Start + PageSize, shown \union ToSet(rows))
         /\ Missed(Start + PageSize, shown \union ToSet(rows))'
            = Missed(Start + PageSize, shown \union ToSet(rows))
         /\ Cardinality(ToSet(rows) \ shown)' = Cardinality(ToSet(rows) \ shown)
    BY <1>1 DEF Again, Missed, After, Start, ToSet
  <1>13. RepeatsArePaid'
    BY <1>1, <1>2, <1>12 DEF RepeatsArePaid, RepeatsNeedInserts, PageRead
  <1>14. MissesArePaid'
    BY <1>1, <1>2, <1>12 DEF MissesArePaid, MissesNeedDeletes, PageRead
  <1>15. QED
    BY <1>3, <1>7, <1>9, <1>10, <1>11, <1>13, <1>14 DEF QueryInv

\* An answer without a page, or a failed query.
LEMMA EndRequestKeeps ==
    ASSUME QueryInv, AnswerOne \/ AnswerCustomer \/ FailRead
    PROVE  QueryInv'
  <1>1. /\ call \in {"page", "lines"} /\ call' = "idle" /\ rows' = <<>> /\ views' = <<>>
        /\ \/ asked = "page" /\ asked' = "page" /\ UNCHANGED <<index, total>>
           \/ asked # "page" /\ asked' = "nothing" /\ index' \in {index, 0} /\ total' \in {total, 0}
        /\ UNCHANGED <<vars, listed, walk>>
        /\ UNCHANGED <<shown, repeats, enduring, inserts, late, deletes>>
    BY DEF AnswerOne, AnswerCustomer, FailRead, Rest, walk
  <1>2. RequestOK /\ WalkOK
    BY DEF QueryInv
  <1>3. IInv' /\ ListIsRight' /\ Stored' = Stored
    BY <1>1, QueriesLeaveOrders
  <1>4. index' = index
    BY <1>1, <1>2 DEF WalkOK
  <1>5. RequestOK'
    <2>1. rows' \in Seq(Ids) /\ views' \in Seq({ViewOf(ls) : ls \in Lines(Amounts)})'
      BY <1>1
    <2>2. QED
      BY <1>1, <1>2, <2>1 DEF RequestOK
  <1>6. Found' /\ ViewsAreWhole'
    BY <1>1 DEF Found, ViewsAreWhole
  <1>7. WalkOK'
    BY <1>1, <1>2, <1>3, <1>4 DEF WalkOK
  <1>8. RepeatsArePaid' /\ MissesArePaid'
    BY <1>1, <1>4, AccountKept DEF PageRead
  <1>9. QED
    BY <1>3, <1>5, <1>6, <1>7, <1>8 DEF QueryInv

LEMMA EndWalkKeeps == ASSUME QueryInv, EndWalk PROVE QueryInv'
  <1>1. /\ call' = "idle" /\ asked' = "nothing" /\ index' = 0 /\ total' = 0
        /\ rows' = <<>> /\ views' = <<>> /\ shown' = {} /\ repeats' = 0 /\ enduring' = {}
        /\ inserts' = 0 /\ late' = 0 /\ deletes' = 0
        /\ UNCHANGED <<vars, listed>>
    BY DEF EndWalk, Rest
  <1>2. IInv' /\ ListIsRight'
    BY <1>1, QueriesLeaveOrders
  <1>3. RequestOK'
    BY <1>1 DEF RequestOK
  <1>4. Found' /\ ViewsAreWhole' /\ WalkOK'
    BY <1>1 DEF Found, ViewsAreWhole, WalkOK
  <1>5. Again(Start, shown)' = 0 /\ Missed(Start, shown)' = 0
    <2>1. /\ Again(Start, shown)' = Cardinality(After(listed, Start)' \intersect shown')
          /\ Missed(Start, shown)'
             = Cardinality(enduring' \ (shown' \union After(listed, Start)'))
      BY DEF Again, Missed
    <2>2. /\ After(listed, Start)' \intersect shown' = {}
          /\ enduring' \ (shown' \union After(listed, Start)') = {}
      BY <1>1
    <2>3. QED
      BY <2>1, <2>2, FS_EmptySet
  <1>6. RepeatsArePaid' /\ MissesArePaid'
    BY <1>1, <1>5 DEF RepeatsArePaid, MissesArePaid, PageRead,
       RepeatsNeedInserts, MissesNeedDeletes
  <1>7. QED
    BY <1>2, <1>3, <1>4, <1>6 DEF QueryInv

\* A list has no more elements than places.
LEMMA ListSize ==
    ASSUME NEW S, NEW s \in Seq(S)
    PROVE  IsFiniteSet(ToSet(s)) /\ Cardinality(ToSet(s)) <= Len(s)
  <1>1. s \in Surjection(1..Len(s), ToSet(s))
    BY DEF Surjection, ToSet
  <1>2. Len(s) \in Nat
    OBVIOUS
  <1>3. IsFiniteSet(1..Len(s)) /\ Cardinality(1..Len(s)) = Len(s)
    BY <1>2, FS_Interval
  <1>4. QED
    BY <1>1, <1>3, FS_Surjection

\* When the count says that this was the last page, what the list has after it came
\* after the count.
LEMMA AnswerPageKeeps == ASSUME QueryInv, AnswerPage PROVE QueryInv'
  <1> DEFINE n2 == Start + PageSize
             R == ToSet(rows)
             S == shown \union R
  <1>1. /\ call = "lines" /\ asked = "page" /\ rows' = <<>> /\ views' = <<>>
        /\ shown' = S /\ repeats' = repeats + Len(rows) - Cardinality(R \ shown)
        /\ \/ (index + 1) * PageSize < total /\ call' = "idle" /\ index' = index + 1
           \/ (index + 1) * PageSize >= total /\ call' = "done" /\ index' = index
        /\ UNCHANGED <<vars, listed>>
        /\ UNCHANGED <<listed, asked, total, enduring, inserts, late, deletes>>
    BY DEF AnswerPage
  <1>2. /\ RequestOK /\ WalkOK /\ ListIsRight /\ RepeatsArePaid /\ MissesArePaid /\ PageRead
    BY <1>1 DEF QueryInv, PageRead
  <1>3. IInv' /\ ListIsRight' /\ Stored' = Stored
    BY <1>1, QueriesLeaveOrders
  <1>4. /\ n2 \in Nat /\ (index + 1) * PageSize = n2 /\ index \in Nat /\ total \in Nat
        /\ Len(rows) \in Nat /\ R \subseteq Ids /\ S \subseteq Ids /\ enduring \subseteq Ids
        /\ repeats \in Nat /\ inserts \in Nat /\ late \in Nat /\ deletes \in Nat
    BY <1>2, StartIs DEF RequestOK, WalkOK, ToSet, Stored
  <1>5. /\ Again(n2, S) + Len(rows) + repeats <= inserts + Cardinality(R \ shown)
        /\ Missed(n2, S) <= deletes /\ Len(listed) <= total + late
    BY <1>2 DEF RepeatsArePaid, MissesArePaid
  <1>6. /\ Again(n2, S) \in Nat /\ Missed(n2, S) \in Nat
        /\ Cardinality(R \ shown) \in Nat /\ Cardinality(R \ shown) <= Len(rows)
    <2>1. After(listed, n2) \intersect S \subseteq Ids /\ R \ shown \subseteq R
      BY <1>4
    <2>2. /\ Again(n2, S) \in Nat /\ Missed(n2, S) \in Nat
          /\ Cardinality(R \ shown) \in Nat /\ Cardinality(R) \in Nat
      BY <1>4, <2>1, OrdersFinite DEF Again, Missed
    <2>3. Cardinality(R \ shown) <= Cardinality(R)
      BY <1>4, <2>1, FewerOrders
    <2>4. Cardinality(R) <= Len(rows)
      BY <1>2, ListSize DEF RequestOK
    <2> HIDE DEF R
    <2>5. QED
      BY <1>4, <2>2, <2>3, <2>4
  <1>7. repeats' \in Nat /\ Again(n2, S) + repeats' <= inserts'
    <2> HIDE DEF R, S, n2
    <2>1. QED
      BY <1>1, <1>4, <1>5, <1>6
  <1>8. RequestOK'
    BY <1>1, <1>2 DEF RequestOK
  <1>9. Found' /\ ViewsAreWhole'
    BY <1>1 DEF Found, ViewsAreWhole
  <1>10. WalkOK'
    BY <1>1, <1>2, <1>3, <1>4, <1>7 DEF WalkOK
  <1>11. repeats' <= inserts'
    BY <1>1, <1>4, <1>6, <1>7
  <1>12. CASE call' = "idle"
    <2>1. Start' = n2 /\ index' = index + 1
      BY <1>1, <1>4, <1>12 DEF Start
    <2>2. Again(Start, shown)' = Again(n2, S) /\ Missed(Start, shown)' = Missed(n2, S)
      <3> HIDE DEF n2, S
      <3>1. QED
        BY <1>1, <2>1 DEF Again, Missed, After
    <2>3. RepeatsArePaid' /\ MissesArePaid'
      <3> HIDE DEF n2, S
      <3>1. QED
        BY <1>1, <1>5, <1>7, <1>11, <1>12, <2>2 DEF RepeatsArePaid, MissesArePaid, PageRead,
           RepeatsNeedInserts, MissesNeedDeletes
    <2>4. QED
      BY <1>3, <1>8, <1>9, <1>10, <2>3 DEF QueryInv
  <1>13. CASE call' = "done"
    <2>1. n2 >= total
      BY <1>1, <1>4, <1>13
    <2>2. listed \in Seq(Ids) /\ Len(listed) \in Nat /\ Len(listed) <= n2 + late
      BY <1>2, <1>4, <1>5, <2>1 DEF ListIsRight
    <2> DEFINE A == After(listed, n2) \intersect Ids
               M == enduring \ (S \union After(listed, n2))
    <2>3. A \subseteq Ids /\ M \subseteq Ids /\ enduring \ S \subseteq M \union A
      BY <1>4
    <2>4. Cardinality(A) <= late
      <3>1. IsFiniteSet(After(listed, n2)) /\ Cardinality(After(listed, n2)) <= late
        BY <1>4, <2>2, AfterSize
      <3>2. A \subseteq After(listed, n2)
        OBVIOUS
      <3>3. /\ Cardinality(A) <= Cardinality(After(listed, n2))
            /\ Cardinality(A) \in Nat /\ Cardinality(After(listed, n2)) \in Nat
        BY <3>1, <3>2, FS_Subset, FS_CardinalityType
      <3>4. QED
        BY <1>4, <3>1, <3>3
    <2>5. Cardinality(M) <= deletes
      BY <1>5 DEF Missed
    <2> HIDE DEF A, M, n2, S
    <2>6. Cardinality(M \union A) <= Cardinality(M) + Cardinality(A)
      BY <2>3, OrdersApart
    <2>7. Cardinality(enduring \ S) <= Cardinality(M \union A)
      <3>1. M \union A \subseteq Ids
        BY <2>3
      <3>2. QED
        BY <2>3, <3>1, FewerOrders
    <2>8. /\ Cardinality(M) \in Nat /\ Cardinality(A) \in Nat
          /\ Cardinality(M \union A) \in Nat /\ Cardinality(enduring \ S) \in Nat
      BY <1>4, <2>3, OrdersFinite
    <2>9. Cardinality(enduring \ S) <= deletes + late
      BY <1>4, <2>4, <2>5, <2>6, <2>7, <2>8
    <2>10. MissesNeedDeletes'
      BY <1>1, <2>9 DEF MissesNeedDeletes
    <2>11. RepeatsArePaid' /\ MissesArePaid'
      BY <1>1, <1>11, <1>13, <2>10 DEF RepeatsArePaid, MissesArePaid, PageRead,
         RepeatsNeedInserts
    <2>12. QED
      BY <1>3, <1>8, <1>9, <1>10, <2>11 DEF QueryInv
  <1>14. QED
    BY <1>1, <1>12, <1>13

-----------------------------------------------------------------------------
(* The properties of the queries *)

LEMMA QueryInitKeeps == ASSUME QueryInit PROVE QueryInv
  <1>1. /\ Init /\ listed = <<>> /\ call = "idle" /\ asked = "nothing" /\ index = 0 /\ total = 0
        /\ rows = <<>> /\ views = <<>> /\ shown = {} /\ repeats = 0 /\ enduring = {}
        /\ inserts = 0 /\ late = 0 /\ deletes = 0
    BY DEF QueryInit
  <1>2. IInv
    BY <1>1, InitInvariant
  <1>3. ListIsRight
    <2>1. Stored = {}
      BY <1>1 DEF Init, Stored
    <2>2. listed \in Seq(Ids) /\ ToSet(listed) = {} /\ Distinct(listed)
      BY <1>1 DEF ToSet, Distinct
    <2>3. QED
      BY <2>1, <2>2 DEF ListIsRight
  <1>4. RequestOK /\ Found /\ ViewsAreWhole /\ WalkOK
    BY <1>1 DEF RequestOK, Found, ViewsAreWhole, WalkOK
  <1>5. Again(Start, shown) = 0 /\ Missed(Start, shown) = 0
    BY <1>1, NoWalk
  <1>6. RepeatsArePaid /\ MissesArePaid
    BY <1>1, <1>5 DEF RepeatsArePaid, MissesArePaid, PageRead,
       RepeatsNeedInserts, MissesNeedDeletes
  <1>7. QED
    BY <1>2, <1>3, <1>4, <1>6 DEF QueryInv

\* The invariant of the queries: the list has every stored order once, what was read
\* is stored or deleted, and each order that comes up again or is passed over is
\* paid for by an insert or a delete.
THEOREM QueryInvariant == QuerySpec => []QueryInv
  <1>1. QueryInit => QueryInv
    BY QueryInitKeeps
  <1>2. QueryInv /\ [QueryNext]_queryVars => QueryInv'
    <2> SUFFICES ASSUME QueryInv, [QueryNext]_queryVars PROVE QueryInv'
      OBVIOUS
    <2>1. CASE Command
      BY <2>1, CommandKeeps
    <2>2. CASE Read
      BY <2>2, ReadOneKeeps, ReadCustomerKeeps, CountOrdersKeeps, ListPageKeeps,
         ReadLinesKeeps, EndRequestKeeps, AnswerPageKeeps, EndWalkKeeps DEF Read
    <2>3. CASE UNCHANGED queryVars
      <3>1. /\ UNCHANGED <<vars, listed>>
            /\ UNCHANGED <<listed, call, asked, index, total, rows, views>>
            /\ UNCHANGED <<shown, repeats, enduring, inserts, late, deletes>>
            /\ UNCHANGED <<row, deleted, placed>>
        BY <2>3 DEF queryVars, request, walk, vars, tables
      <3>2. IInv' /\ ListIsRight' /\ Stored' = Stored
        BY <3>1, QueriesLeaveOrders
      <3>3. RequestOK' /\ Found' /\ ViewsAreWhole' /\ WalkOK'
        BY <3>1, <3>2 DEF QueryInv, RequestOK, Found, ViewsAreWhole, WalkOK
      <3>4. RepeatsArePaid' /\ MissesArePaid'
        BY <3>1 DEF QueryInv, RepeatsArePaid, MissesArePaid, RepeatsNeedInserts,
           MissesNeedDeletes, PageRead, Again, Missed, Start, After, ToSet
      <3>5. QED
        BY <3>2, <3>3, <3>4 DEF QueryInv
    <2>4. QED
      BY <2>1, <2>2, <2>3 DEF QueryNext
  <1>3. QED
    BY <1>1, <1>2, PTL DEF QuerySpec

\* ByID and collect read an order's row and its lines apart, and what they answer is
\* whole all the same, or without lines when the order was deleted in between.
THEOREM ReadersSeeWholeOrders == QuerySpec => []ViewsAreWhole
  <1>1. QueryInv => ViewsAreWhole
    BY DEF QueryInv
  <1>2. QED
    BY QueryInvariant, <1>1, PTL

\* Pages by offset and count, of any size, in an order made total by the id: a walk
\* shows an order again only for an insert that pushed it back.
THEOREM WalksRepeatOnlyInserts == QuerySpec => []RepeatsNeedInserts
  <1>1. QueryInv => RepeatsNeedInserts
    BY DEF QueryInv, RepeatsArePaid
  <1>2. QED
    BY QueryInvariant, <1>1, PTL

\* A walk to the last page the count tells of passes over no order but for a delete
\* that pulled it forward, or an insert between that count and its page.
THEOREM WalksMissOnlyDeletes == QuerySpec => []MissesNeedDeletes
  <1>1. QueryInv => MissesNeedDeletes
    BY DEF QueryInv, MissesArePaid
  <1>2. QED
    BY QueryInvariant, <1>1, PTL
=============================================================================
