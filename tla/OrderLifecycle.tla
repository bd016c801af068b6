--------------------------- MODULE OrderLifecycle ---------------------------
(***************************************************************************)
(* Orders in the Ordering service: its tables and the commands that place, *)
(* update and delete orders (internal/ordering/orders, domain, mssql).     *)
(*                                                                         *)
(* Saving and deleting are one transaction each, and SQL Server's locks on *)
(* the order's row keep two of them apart, so each is one action.  Loading *)
(* is two queries.  An update overwrites everything but the lines, so what *)
(* it writes is its number, the position of its commit; the lines it       *)
(* writes back are the ones it loaded.                                     *)
(***************************************************************************)
EXTENDS Integers

CONSTANTS
    Requests,  \* updates that can be in progress at the same time
    Products,  \* products an order may have a line of
    Prices,    \* prices a line may carry, in tenths of a cent
    MaxOrders, \* bound: orders placed
    MaxChanges \* bound: orders saved

ASSUME OrderBounds ==
    /\ Prices \subseteq Nat
    /\ MaxOrders \in Nat
    /\ MaxChanges \in Nat

VARIABLES
    row,     \* the change each order's row holds, 0 without a row
    lines,   \* the stored lines of each order
    known,   \* products in Ordering's own table
    outbox,  \* OutboxMessages: what was announced of each change
    orders,  \* orders placed so far; the next one gets the next id
    changes, \* orders saved so far
    pc,      \* the call each update is about to make
    hand,    \* the order it updates
    loaded,  \* the lines it loaded
    placed,  \* history: the lines each order was placed with
    deleted, \* history: orders that were deleted
    final    \* history: orders deleted while no update of them was in progress

tables == <<row, lines, outbox, changes>>
update == <<pc, hand, loaded>>
vars == <<tables, known, orders, update, placed, deleted, final>>

Ids == 1..MaxOrders

\* Lines are a function from the products on the order to prices.
Lines(prices) == UNION {[P -> prices] : P \in SUBSET Products}

NoLines == [p \in {} |-> 0]

\* DECIMAL(18, 2) keeps whole cents, half a cent rounded up.
Cent(price) == ((price + 5) \div 10) * 10

\* What a line can carry, given or stored.
Amounts == Prices \union {Cent(price) : price \in Prices}

Rounded(ls) == [p \in DOMAIN ls |-> Cent(ls[p])]

-----------------------------------------------------------------------------
(* Saving: one transaction *)

ReplaceLines(o, ls) == lines' = [lines EXCEPT ![o] = Rounded(ls)]

\* Faulty variant of Stage: only the creation of an order is announced.
StageFirstOnly(o, ls) ==
    outbox' = IF row[o] # 0 THEN outbox
              ELSE outbox \union {[order |-> o, change |-> changes + 1, lines |-> ls]}

\* The event carries the lines of the aggregate, not the ones stored.
Stage(o, ls) ==
    outbox' = outbox \union {[order |-> o, change |-> changes + 1, lines |-> ls]}

\* OrderRepository.saveOrder: the row is inserted or replaced, the lines are
\* replaced, the events staged.
Save(o, ls, announce) ==
    /\ changes < MaxChanges
    /\ changes' = changes + 1
    /\ row' = [row EXCEPT ![o] = changes + 1]
    /\ ReplaceLines(o, ls)
    /\ \/ announce /\ Stage(o, ls)
       \/ ~announce /\ UNCHANGED outbox

-----------------------------------------------------------------------------
(* Placing *)

\* Migrated, and seeded with sample products.
Init ==
    /\ row = [o \in Ids |-> 0]
    /\ lines = [o \in Ids |-> NoLines]
    /\ known \in SUBSET Products
    /\ outbox = {}
    /\ orders = 0 /\ changes = 0
    /\ pc = [r \in Requests |-> "idle"]
    /\ hand = [r \in Requests |-> 0]
    /\ loaded = [r \in Requests |-> NoLines]
    /\ placed = [o \in Ids |-> NoLines]
    /\ deleted = {} /\ final = {}

\* An order has lines, each of a valid price.  Whether new orders are announced is
\* a setting, which may differ between instances and change at a restart.
NewOrder(ls) ==
    /\ orders < MaxOrders
    /\ DOMAIN ls # {}
    /\ \E announce \in BOOLEAN : Save(orders + 1, ls, announce)
    /\ orders' = orders + 1
    /\ placed' = [placed EXCEPT ![orders + 1] = ls]
    /\ UNCHANGED <<update, deleted, final>>

\* Create by request: a product that Ordering does not know is refused by the
\* foreign key, and the transaction rolled back.
Create(ls) ==
    /\ DOMAIN ls \subseteq known
    /\ NewOrder(ls)
    /\ UNCHANGED known

AddUnknown(ls) == known' = known \union DOMAIN ls

\* Place for a checkout brings its products along.
Place(ls) == AddUnknown(ls) /\ NewOrder(ls)

-----------------------------------------------------------------------------
(* Updating *)

\* Faulty variant of LoadOrder: an unknown id is taken for a new order.
LoadAnything(r, o) ==
    /\ pc[r] = "idle"
    /\ pc' = [pc EXCEPT ![r] = "lines"]
    /\ hand' = [hand EXCEPT ![r] = o]
    /\ UNCHANGED <<tables, known, orders, loaded, placed, deleted, final>>

\* OrderRepository.ByID: first the row.  A missing order answers 404.
LoadOrder(r, o) ==
    /\ pc[r] = "idle"
    /\ row[o] # 0
    /\ pc' = [pc EXCEPT ![r] = "lines"]
    /\ hand' = [hand EXCEPT ![r] = o]
    /\ UNCHANGED <<tables, known, orders, loaded, placed, deleted, final>>

\* Faulty variant of LoadLines: the lines are not attached to the order.
LoadNoLines(r) ==
    /\ pc[r] = "lines"
    /\ pc' = [pc EXCEPT ![r] = "save"]
    /\ loaded' = [loaded EXCEPT ![r] = NoLines]
    /\ UNCHANGED <<tables, known, orders, hand, placed, deleted, final>>

\* Then its lines, by a query of their own.
LoadLines(r) ==
    /\ pc[r] = "lines"
    /\ pc' = [pc EXCEPT ![r] = "save"]
    /\ loaded' = [loaded EXCEPT ![r] = lines[hand[r]]]
    /\ UNCHANGED <<tables, known, orders, hand, placed, deleted, final>>

Finish(r) ==
    /\ pc' = [pc EXCEPT ![r] = "idle"]
    /\ hand' = [hand EXCEPT ![r] = 0]
    /\ loaded' = [loaded EXCEPT ![r] = NoLines]

\* The command's values replace the order's, and the whole is saved.
SaveUpdate(r) ==
    /\ pc[r] = "save"
    /\ Save(hand[r], loaded[r], TRUE)
    /\ Finish(r)
    /\ UNCHANGED <<known, orders, placed, deleted, final>>

\* The command breaks a rule, a call fails, the client hangs up or the service
\* stops.  A save that took effect without an answer is SaveUpdate.
GiveUp(r) ==
    /\ pc[r] # "idle"
    /\ Finish(r)
    /\ UNCHANGED <<tables, known, orders, placed, deleted, final>>

-----------------------------------------------------------------------------
\* One statement; the lines go with the row by the cascade.  Nothing is announced.
Delete(o) ==
    /\ row[o] # 0
    /\ row' = [row EXCEPT ![o] = 0]
    /\ lines' = [lines EXCEPT ![o] = NoLines]
    /\ deleted' = deleted \union {o}
    /\ final' = IF \E r \in Requests : hand[r] = o THEN final ELSE final \union {o}
    /\ UNCHANGED <<known, outbox, orders, changes, update, placed>>

Update(r) ==
    \/ \E o \in Ids : LoadOrder(r, o)
    \/ LoadLines(r) \/ SaveUpdate(r) \/ GiveUp(r)

Next ==
    \/ \E ls \in Lines(Prices) : Create(ls) \/ Place(ls)
    \/ \E r \in Requests : Update(r)
    \/ \E o \in Ids : Delete(o)

Spec == Init /\ [][Next]_vars

-----------------------------------------------------------------------------
Event == [order : Ids, change : 1..MaxChanges, lines : Lines(Amounts)]

\* Shape of the state; every line's product is one that Ordering knows, and an
\* order without a row has no lines.
TypeOK ==
    /\ orders \in 0..MaxOrders
    /\ changes \in 0..MaxChanges
    /\ row \in [Ids -> 0..changes]
    /\ lines \in [Ids -> Lines(Amounts)]
    /\ known \subseteq Products
    /\ outbox \subseteq Event
    /\ pc \in [Requests -> {"idle", "lines", "save"}]
    /\ hand \in [Requests -> 0..orders]
    /\ loaded \in [Requests -> Lines(Amounts)]
    /\ placed \in [Ids -> Lines(Amounts)]
    /\ deleted \subseteq 1..orders
    /\ final \subseteq deleted
    /\ \A r \in Requests :
          /\ (pc[r] = "idle") <=> (hand[r] = 0)
          /\ DOMAIN loaded[r] \subseteq known
    /\ \A o \in Ids :
          /\ DOMAIN lines[o] \subseteq known
          /\ row[o] = 0 => lines[o] = NoLines
          /\ o > orders => row[o] = 0

\* An order keeps the lines it was placed with, to the cent, whatever updates
\* overlap: ByID reads row and lines apart and Save replaces the lines.  Only an
\* order that was deleted meanwhile can come back without them, and then without
\* any.
WholeOrders ==
    \A o \in Ids : row[o] # 0 =>
        \/ lines[o] = Rounded(placed[o])
        \/ o \in deleted /\ lines[o] = NoLines

\* The last announcement on a stored order tells its present state, but for
\* fractions of a cent: no save is left out of the outbox, whoever saves and in
\* which order (OrderRepository.saveOrder stages in the same transaction).
EventsTellTheState ==
    \A e \in outbox :
        /\ row[e.order] # 0
        /\ \A f \in outbox : f.order = e.order => f.change <= e.change
        => e.change = row[e.order] /\ Rounded(e.lines) = lines[e.order]

\* An order deleted while no update of it is in progress is gone for good: an
\* update of it is refused from then on (UpdateOrderHandler.Handle loads first).
FinallyGone == \A o \in final : row[o] = 0
=============================================================================
