---------------------------- MODULE OrderQueries ----------------------------
(***************************************************************************)
(* Reading orders while they are placed, updated and deleted: the queries  *)
(* of the Ordering service (internal/ordering/orders/get_*.go, view.go,    *)
(* mssql/repository.go, scan.go) over the tables of OrderLifecycle.        *)
(*                                                                         *)
(* No answer comes from one statement: a list is the count, then the page, *)
(* then the lines of one order after the other, and a single order is its  *)
(* row and then its lines.  Each statement sees what is committed when it  *)
(* runs.  One client is followed, who reads single orders, a customer's    *)
(* orders, or the list page by page, until the count of the last answer    *)
(* says that there is no further page.                                     *)
(***************************************************************************)
EXTENDS OrderLifecycle, SequencesExt

CONSTANTS
    PageSize, \* orders on a page, after Normalized
    Mine      \* the orders placed by the customer whose orders are read

ASSUME QueryBounds ==
    /\ PageSize \in Nat \ {0}
    /\ Mine \subseteq Ids

VARIABLES
    listed,   \* the stored orders, newest first
    call,     \* the query the reader is about to make
    asked,    \* what its request is for
    index,    \* the page it asks for
    total,    \* the count answered with the page
    rows,     \* the orders its query returned
    views,    \* the lines read for them so far
    shown,    \* history: orders on the pages of this walk
    repeats,  \* history: their showings after the first
    enduring, \* history: orders stored ever since this walk began
    inserts,  \* history: orders inserted during this walk
    late,     \* history: those of them inserted since the last count
    deletes   \* history: orders deleted during this walk

request == <<call, asked, index, total, rows, views>>
walk == <<shown, repeats, enduring, inserts, late, deletes>>
queryVars == <<vars, listed, request, walk>>

Stored == {o \in Ids : row[o] # 0}

QueryInit ==
    /\ Init
    /\ listed = <<>>
    /\ call = "idle" /\ asked = "nothing" /\ index = 0 /\ total = 0
    /\ rows = <<>> /\ views = <<>>
    /\ shown = {} /\ repeats = 0
    /\ enduring = {} /\ inserts = 0 /\ late = 0 /\ deletes = 0

-----------------------------------------------------------------------------
(* The commands of OrderLifecycle and what they do to the list *)

\* An update of a deleted order inserts it again.
Inserted == {o \in Ids : row[o] = 0 /\ row'[o] # 0}
Deleted == {o \in Ids : row[o] # 0 /\ row'[o] = 0}

\* CreatedAt is taken within the transaction and kept by updates, ids break ties
\* and are random: a new row may come before or after others, but those listed
\* keep their order.
Relist ==
    \/ Inserted = {} /\ Deleted = {} /\ UNCHANGED listed
    \/ \E o \in Inserted, i \in 1..Len(listed) + 1 : listed' = InsertAt(listed, i, o)
    \/ \E i \in DOMAIN listed : listed[i] \in Deleted /\ listed' = RemoveAt(listed, i)

Command ==
    /\ Next
    /\ Relist
    /\ \/ /\ asked = "page"
          /\ enduring' = enduring \ Deleted
          /\ inserts' = inserts + Cardinality(Inserted)
          /\ late' = late + Cardinality(Inserted)
          /\ deletes' = deletes + Cardinality(Deleted)
          /\ UNCHANGED <<shown, repeats>>
       \/ /\ asked # "page"
          /\ UNCHANGED walk
    /\ UNCHANGED request

-----------------------------------------------------------------------------
(* What the statements return *)

PageOf(s, i) ==
    SubSeq(s, i * PageSize + 1, IF Len(s) < (i + 1) * PageSize THEN Len(s) ELSE (i + 1) * PageSize)

\* Faulty variant of Pages: equal times are in any order, another at each query.
PagesOfTies(i) == {PageOf(s, i) : s \in SetToSeqs(Stored)}

\* Faulty variant of Pages: pages are counted from one.
PagesFromOne(i) == {PageOf(listed, i + 1)}

\* OFFSET and FETCH over the one order there is.
Pages(i) == {PageOf(listed, i)}

\* The orders of S as they are listed.
NewestFirst(S) ==
    {s \in SetToSeqs(S) :
        \A i, j \in DOMAIN s : i < j =>
            \E a, b \in DOMAIN listed : a < b /\ listed[a] = s[i] /\ listed[b] = s[j]}

\* Faulty variant of LinesOf: every order gets the lines of the first.
LinesOfFirst(o) == lines[rows[1]]

LinesOf(o) == lines[o]

\* viewOf: what leaves the service of an order's lines, and their sum.
ViewOf(ls) == [items |-> ls, totalPrice |-> SumFunction(ls)]

-----------------------------------------------------------------------------
(* Requests *)

Rest == asked' = "nothing" /\ index' = 0 /\ total' = 0 /\ rows' = <<>> /\ views' = <<>>

\* ByID reads the row first; without one the answer is 404.
ReadOne(o) ==
    /\ call = "idle" /\ asked = "nothing"
    /\ row[o] # 0
    /\ call' = "lines" /\ asked' = "one" /\ rows' = <<o>>
    /\ UNCHANGED <<vars, listed, index, total, views, walk>>

\* ByCustomer: all of the customer's orders, newest first.
ReadCustomer ==
    /\ call = "idle" /\ asked = "nothing"
    /\ call' = "lines" /\ asked' = "customer"
    /\ rows' \in NewestFirst(Mine \intersect Stored)
    /\ UNCHANGED <<vars, listed, index, total, views, walk>>

\* List: the count is a query of its own, before the page.  The first page begins
\* a walk.
CountOrders ==
    /\ call = "idle" /\ asked \in {"nothing", "page"}
    /\ call' = "page" /\ asked' = "page"
    /\ total' = Len(listed)
    /\ late' = 0
    /\ \/ /\ asked = "nothing"
          /\ enduring' = Stored
          /\ inserts' = 0 /\ deletes' = 0
       \/ /\ asked = "page"
          /\ UNCHANGED <<enduring, inserts, deletes>>
    /\ UNCHANGED <<vars, listed, index, rows, views, shown, repeats>>

ListPage ==
    /\ call = "page"
    /\ call' = "lines"
    /\ \E page \in Pages(index) : rows' = page
    /\ UNCHANGED <<vars, listed, asked, index, total, views, walk>>

\* collect: the lines of the next order.
ReadLines ==
    /\ call = "lines"
    /\ Len(views) < Len(rows)
    /\ views' = Append(views, ViewOf(LinesOf(rows[Len(views) + 1])))
    /\ UNCHANGED <<vars, listed, call, asked, index, total, rows, walk>>

\* The answers with a single order and with a customer's.
AnswerOne ==
    /\ call = "lines" /\ asked = "one"
    /\ Len(views) = Len(rows)
    /\ call' = "idle" /\ Rest
    /\ UNCHANGED <<vars, listed, walk>>

AnswerCustomer ==
    /\ call = "lines" /\ asked = "customer"
    /\ Len(views) = Len(rows)
    /\ call' = "idle" /\ Rest
    /\ UNCHANGED <<vars, listed, walk>>

\* The answer with a page: the client asks for the next one while the count says
\* there is one.
AnswerPage ==
    /\ call = "lines" /\ asked = "page"
    /\ Len(views) = Len(rows)
    /\ shown' = shown \union ToSet(rows)
    /\ repeats' = repeats + Len(rows) - Cardinality(ToSet(rows) \ shown)
    /\ rows' = <<>> /\ views' = <<>>
    /\ \/ /\ (index + 1) * PageSize < total
          /\ call' = "idle" /\ index' = index + 1
       \/ /\ (index + 1) * PageSize >= total
          /\ call' = "done" /\ UNCHANGED index
    /\ UNCHANGED <<vars, listed, asked, total, enduring, inserts, late, deletes>>

\* A query fails, or returns a row that breaks a rule of the domain (scanOrder), and
\* the request with it; the page can be asked for again.
FailRead ==
    /\ call \in {"page", "lines"}
    /\ call' = "idle" /\ rows' = <<>> /\ views' = <<>>
    /\ asked' = IF asked = "page" THEN "page" ELSE "nothing"
    /\ UNCHANGED <<vars, listed, index, total, walk>>

\* The client has seen all pages, or has seen enough.
EndWalk ==
    /\ call \in {"idle", "done"} /\ asked = "page"
    /\ call' = "idle" /\ Rest
    /\ shown' = {} /\ repeats' = 0
    /\ enduring' = {} /\ inserts' = 0 /\ late' = 0 /\ deletes' = 0
    /\ UNCHANGED <<vars, listed>>

Read ==
    \/ \E o \in Ids : ReadOne(o)
    \/ ReadCustomer \/ CountOrders \/ ListPage \/ ReadLines
    \/ AnswerOne \/ AnswerCustomer \/ AnswerPage \/ FailRead \/ EndWalk

QueryNext == Command \/ Read

QuerySpec == QueryInit /\ [][QueryNext]_queryVars

-----------------------------------------------------------------------------
\* An answer shows every order with all its lines and their sum, to the cent, although lines are
\* read after the rows and one order after the other; only an order that was
\* deleted meanwhile can be shown without them, and then without any
\* (OrderRepository.ByID, collect).
ViewsAreWhole ==
    \A i \in DOMAIN views :
        \/ views[i] = ViewOf(Rounded(placed[rows[i]]))
        \/ rows[i] \in deleted /\ views[i] = ViewOf(NoLines)

\* A walk through the pages shows an order again only because others came in front
\* of it meanwhile, and at most one for each of those: the id breaks the tie of
\* equal times, "without it the same order could turn up on two pages, or on none"
\* (mssql/repository.go, newestFirst).
RepeatsNeedInserts == repeats <= inserts

\* When the count says that there is no further page, every order that was stored
\* all along has been shown, but for one for each order deleted during the walk and
\* for each inserted after the last count, which is not the page's own
\* (OrderRepository.List).
MissesNeedDeletes ==
    call = "done" => Cardinality(enduring \ shown) <= deletes + late
=============================================================================
