------------------------------ MODULE Shopping ------------------------------
(***************************************************************************)
(* A shopper in the storefront (web) and the services whose answers meet   *)
(* in an order: Catalog's prices, Discount's coupons, Basket's lines,      *)
(* Payment's tokens, and what Ordering makes of the checkout.              *)
(*                                                                         *)
(* Each call through the gateway is one action, and so is each look-up of  *)
(* a coupon.  A product's name and id are one here.  The shopper's basket  *)
(* is read and written at once, and a checkout reaches Ordering once: what *)
(* caches, relays and brokers do to that is in BasketCheckout and          *)
(* CheckoutPipeline.                                                       *)
(***************************************************************************)
EXTENDS Integers, FiniteSetsExt

CONSTANTS
    Products,   \* product ids, and the names coupons go by
    Prices,     \* prices a product may have
    Amounts,    \* what a coupon may take off
    Pages,      \* pages the shopper has open
    Editors,    \* updates of products that can be in progress at the same time
    MaxChanges, \* bound: changes of products and coupons
    MaxStores,  \* bound: baskets stored
    MaxCards    \* bound: cards sent to Payment

\* The catalog's validation keeps prices positive.  Nothing keeps a coupon's amount
\* positive but the people who enter it.
ASSUME ShoppingBounds ==
    /\ Prices \subseteq Nat \ {0}
    /\ Amounts \subseteq Nat \ {0}
    /\ MaxChanges \in Nat /\ MaxStores \in Nat /\ MaxCards \in Nat

VARIABLES
    catalog, \* the price of each product, 0 without a document
    used,    \* ids that were given to a product
    coupon,  \* the amount of each coupon, 0 without one
    editing, \* the product each update has loaded
    basket,  \* the stored lines of the shopper
    cards,   \* cards stored; the token of the n-th is n
    sent,    \* checkouts announced
    orders,  \* checkouts that became an order
    rejected,\* checkouts in the error queue
    pc,      \* what each page waits for
    item,    \* the product it shows, and the price it shows
    hand,    \* the lines it is having stored, and those without a coupon looked up yet
    token,   \* the token it was given
    changes, stores, \* counted up to their bounds
    shown,   \* history: prices shown to the shopper
    offered, \* history: amounts coupons had
    gone     \* history: products deleted while no update of them was in progress

shop == <<catalog, used, editing, gone>>
discount == <<coupon, offered>>
ordering == <<orders, rejected>>
page == <<pc, item, hand, token>>
vars == <<shop, discount, basket, cards, sent, ordering, page, changes, stores, shown>>

None == [product |-> "none", price |-> 0]

\* A basket's lines are a function from its products.
NoLines == [p \in {} |-> 0]

Nothing == [lines |-> NoLines, todo |-> {}, seen |-> 0]

Unedited == "none"

Max0(n) == IF n < 0 THEN 0 ELSE n

-----------------------------------------------------------------------------
\* Both services may be seeded: products, and coupons like any that are created.
Init ==
    /\ catalog \in [Products -> Prices \union {0}]
    /\ used = {p \in Products : catalog[p] # 0}
    /\ coupon = [p \in Products |-> 0]
    /\ editing = [e \in Editors |-> Unedited]
    /\ basket = NoLines
    /\ cards = 0
    /\ sent = {} /\ orders = {} /\ rejected = {}
    /\ pc = [g \in Pages |-> "idle"]
    /\ item = [g \in Pages |-> None]
    /\ hand = [g \in Pages |-> Nothing]
    /\ token = [g \in Pages |-> 0]
    /\ changes = 0 /\ stores = 0
    /\ shown = [p \in Products |-> {}]
    /\ offered = [p \in Products |-> {coupon[p]} \ {0}]
    /\ gone = {}

-----------------------------------------------------------------------------
(* Catalog *)

Change ==
    /\ changes < MaxChanges
    /\ changes' = changes + 1
    /\ UNCHANGED <<basket, cards, sent, ordering, page, stores, shown>>

\* ProductRepository.ByID finds a product.
Listed(p) == catalog[p] # 0

\* ProductRepository.Store: inserted or replaced.
StoreProduct(p, price) == catalog' = [catalog EXCEPT ![p] = price]

\* ProductRepository.Delete; a product that is not there is no error.
RemoveProduct(p) == catalog' = [catalog EXCEPT ![p] = 0]

\* The id is a fresh one.
CreateProduct(p, price) ==
    /\ Change
    /\ p \notin used
    /\ StoreProduct(p, price)
    /\ used' = used \union {p}
    /\ UNCHANGED <<discount, editing, gone>>

\* Faulty variant of LoadProduct: a missing product is updated as well.
LoadAnything(e, p) ==
    /\ editing[e] = Unedited
    /\ p \in used
    /\ editing' = [editing EXCEPT ![e] = p]
    /\ UNCHANGED <<catalog, used, gone, discount, basket, cards, sent, ordering, page,
                   changes, stores, shown>>

\* An update begins with a load, which answers 404 for a missing product.
LoadProduct(e, p) ==
    /\ editing[e] = Unedited
    /\ Listed(p)
    /\ editing' = [editing EXCEPT ![e] = p]
    /\ UNCHANGED <<catalog, used, gone, discount, basket, cards, sent, ordering, page,
                   changes, stores, shown>>

\* It ends with a store of the whole product.
UpdateProduct(e, price) ==
    /\ editing[e] # Unedited
    /\ Change
    /\ StoreProduct(editing[e], price)
    /\ editing' = [editing EXCEPT ![e] = Unedited]
    /\ UNCHANGED <<used, gone, discount>>

\* A call fails, the client hangs up, or the service stops.
UpdateFails(e) ==
    /\ editing[e] # Unedited
    /\ editing' = [editing EXCEPT ![e] = Unedited]
    /\ UNCHANGED <<catalog, used, gone, discount, basket, cards, sent, ordering, page,
                   changes, stores, shown>>

DeleteProduct(p) ==
    /\ Change
    /\ Listed(p)
    /\ RemoveProduct(p)
    /\ gone' = IF \E e \in Editors : editing[e] = p THEN gone ELSE gone \union {p}
    /\ UNCHANGED <<used, editing, discount>>

-----------------------------------------------------------------------------
(* Discount *)

SetCoupon(p, amount) ==
    /\ coupon' = [coupon EXCEPT ![p] = amount]
    /\ offered' = [offered EXCEPT ![p] = @ \union ({amount} \ {0})]

\* The unique index refuses a second coupon of one product.
InsertRow(p, amount) == coupon[p] = 0 /\ SetCoupon(p, amount)

\* Updating and deleting answer "not found" without a coupon.
ReplaceRow(p, amount) == coupon[p] # 0 /\ SetCoupon(p, amount)

DeleteRow(p) == coupon[p] # 0 /\ SetCoupon(p, 0)

CreateCoupon(p, amount) == Change /\ InsertRow(p, amount) /\ UNCHANGED shop

UpdateCoupon(p, amount) == Change /\ ReplaceRow(p, amount) /\ UNCHANGED shop

DeleteCoupon(p) == Change /\ DeleteRow(p) /\ UNCHANGED shop

\* Faulty variant of AmountFor: the query does not name the product.
AmountOfAny(p) == Max({coupon[q] : q \in Products})

\* GetDiscount answers zero for a product without a coupon.
AmountFor(p) == coupon[p]

-----------------------------------------------------------------------------
(* The page of a product, and Basket's storing *)

Goto(g, place) == pc' = [pc EXCEPT ![g] = place]

OpenProduct(g, p) ==
    /\ pc[g] = "idle"
    /\ Listed(p)
    /\ item' = [item EXCEPT ![g] = [product |-> p, price |-> catalog[p]]]
    /\ shown' = [shown EXCEPT ![p] = @ \union {catalog[p]}]
    /\ Goto(g, "shown")
    /\ UNCHANGED <<shop, discount, basket, cards, sent, ordering, hand, token, changes, stores>>

\* addToCart: the product's line is replaced, its quantity added to.
Merged(items, new) ==
    [p \in DOMAIN items \union {new.product} |->
        IF p # new.product THEN items[p]
        ELSE [price    |-> new.price,
              quantity |-> 1 + IF p \in DOMAIN items THEN items[p].quantity ELSE 0]]

AddTo(g, items) ==
    LET lines == Merged(items, item[g])
    IN  hand' = [hand EXCEPT ![g] = [lines |-> lines, todo |-> DOMAIN lines, seen |-> stores]]

\* Faulty variant of ReadCart: any failure is taken for an empty basket.
ReadCartForgiving(g) ==
    /\ pc[g] = "shown"
    /\ AddTo(g, basket) \/ AddTo(g, NoLines)
    /\ Goto(g, "storing")
    /\ UNCHANGED <<shop, discount, basket, cards, sent, ordering, item, token, changes, stores,
                   shown>>

\* currentItems, and the post of all lines to Basket.  A basket without a row
\* answers 404, which counts as no lines; other failures end the attempt.
ReadCart(g) ==
    /\ pc[g] = "shown"
    /\ AddTo(g, basket)
    /\ Goto(g, "storing")
    /\ UNCHANGED <<shop, discount, basket, cards, sent, ordering, item, token, changes, stores,
                   shown>>

\* Faulty variant of Discounted: the result is not held at zero.
DiscountedBelow(line, amount) == [line EXCEPT !.price = @ - amount]

Discounted(line, amount) == [line EXCEPT !.price = Max0(@ - amount)]

\* StoreBasketHandler.applyDiscounts: one call for each line.
LookUp(g, p) ==
    /\ pc[g] = "storing"
    /\ p \in hand[g].todo
    /\ hand' = [hand EXCEPT ![g].lines[p] = Discounted(@, AmountFor(p)),
                            ![g].todo = @ \ {p}]
    /\ UNCHANGED <<shop, discount, basket, cards, sent, ordering, pc, item, token, changes,
                   stores, shown>>

\* The basket is replaced.  Without an answer the page stays, to be tried again.
StoreBasket(g) ==
    /\ pc[g] = "storing"
    /\ hand[g].todo = {}
    /\ stores < MaxStores
    /\ stores' = stores + 1
    /\ basket' = hand[g].lines
    /\ hand' = [hand EXCEPT ![g] = Nothing]
    /\ \/ Goto(g, "idle") /\ item' = [item EXCEPT ![g] = None]
       \/ Goto(g, "shown") /\ UNCHANGED item
    /\ UNCHANGED <<shop, discount, cards, sent, ordering, token, changes, shown>>

\* "Empty the cart"
RemoveBasket ==
    /\ basket' = NoLines
    /\ UNCHANGED <<shop, discount, cards, sent, ordering, page, changes, stores, shown>>

-----------------------------------------------------------------------------
(* The checkout page *)

\* A random token, unlike any given out.
NewToken == cards + 1

StoreCard == cards < MaxCards /\ cards' = cards + 1

\* Faulty variant of Tokenize: a card that could not be stored gets its token, too.
TokenizeFirst(g) ==
    /\ pc[g] = "idle"
    /\ cards < MaxCards
    /\ StoreCard \/ UNCHANGED cards
    /\ token' = [token EXCEPT ![g] = NewToken]
    /\ Goto(g, "checkout")
    /\ UNCHANGED <<shop, discount, basket, sent, ordering, item, hand, changes, stores, shown>>

\* Payment stores the card and answers with its token, unless the answer is lost.
\* A card that fails the checks is refused.
Tokenize(g) ==
    /\ pc[g] = "idle"
    /\ StoreCard
    /\ \/ token' = [token EXCEPT ![g] = NewToken] /\ Goto(g, "checkout")
       \/ UNCHANGED <<token, pc>>
    /\ UNCHANGED <<shop, discount, basket, sent, ordering, item, hand, changes, stores, shown>>

\* Faulty variant of TotalPrice: the quantities are left out.
TotalOfPrices(lines) == MapThenSumSet(LAMBDA p : lines[p].price, DOMAIN lines)

\* ShoppingCart.TotalPrice
TotalPrice(lines) == MapThenSumSet(LAMBDA p : lines[p].price * lines[p].quantity, DOMAIN lines)

\* The event carries the stored lines and their total, and what the request says.
Event(lines, t, blank) ==
    [lines |-> lines, total |-> TotalPrice(lines), token |-> t, blank |-> blank]

\* An empty basket is refused; another is announced and removed.  A text of blanks
\* only, in the address or as a product's name, is no empty one.
Checkout(g) ==
    /\ pc[g] = "checkout"
    /\ DOMAIN basket # {}
    /\ \E blank \in BOOLEAN : sent' = sent \union {Event(basket, token[g], blank)}
    /\ basket' = NoLines
    /\ Goto(g, "idle")
    /\ token' = [token EXCEPT ![g] = 0]
    /\ UNCHANGED <<shop, discount, cards, ordering, item, hand, changes, stores, shown>>

\* A call is refused or fails - by the gateway, by a service, by a coupon's look-up -
\* or the shopper leaves.  A failed attempt to add leaves the page as it was.
CallFails(g) ==
    /\ pc[g] # "idle"
    /\ \/ Goto(g, "idle") /\ item' = [item EXCEPT ![g] = None]
       \/ pc[g] = "storing" /\ Goto(g, "shown") /\ UNCHANGED item
    /\ hand' = [hand EXCEPT ![g] = Nothing]
    /\ token' = [token EXCEPT ![g] = 0]
    /\ UNCHANGED <<shop, discount, basket, cards, sent, ordering, changes, stores, shown>>

-----------------------------------------------------------------------------
(* Ordering *)

\* totalOf, which Ordering computes for itself
TotalOf(lines) == MapThenSumSet(LAMBDA p : lines[p].price * lines[p].quantity, DOMAIN lines)

\* Product and order line want a price and a quantity above zero.
ValidLine(line) == line.price > 0 /\ line.quantity > 0

\* CheckoutHandler.orderFrom; texts are trimmed before they are required.
Acceptable(m) ==
    /\ DOMAIN m.lines # {}
    /\ TotalOf(m.lines) = m.total
    /\ \A p \in DOMAIN m.lines : ValidLine(m.lines[p])
    /\ m.token # 0 /\ ~m.blank

PlaceOrder(m) ==
    /\ m \notin orders \union rejected
    /\ \/ Acceptable(m) /\ orders' = orders \union {m} /\ UNCHANGED rejected
       \/ ~Acceptable(m) /\ rejected' = rejected \union {m} /\ UNCHANGED orders
    /\ UNCHANGED <<shop, discount, basket, cards, sent, page, changes, stores, shown>>

-----------------------------------------------------------------------------
Edit(e) ==
    \/ \E p \in Products : LoadProduct(e, p)
    \/ \E price \in Prices : UpdateProduct(e, price)
    \/ UpdateFails(e)

Shop(g) ==
    \/ \E p \in Products : OpenProduct(g, p) \/ LookUp(g, p)
    \/ ReadCart(g) \/ StoreBasket(g) \/ Tokenize(g) \/ Checkout(g) \/ CallFails(g)

Next ==
    \/ \E p \in Products :
          \/ \E price \in Prices : CreateProduct(p, price)
          \/ \E a \in Amounts : CreateCoupon(p, a) \/ UpdateCoupon(p, a)
          \/ DeleteProduct(p) \/ DeleteCoupon(p)
    \/ \E e \in Editors : Edit(e)
    \/ \E g \in Pages : Shop(g)
    \/ RemoveBasket
    \/ \E m \in sent : PlaceOrder(m)

Spec == Init /\ [][Next]_vars

-----------------------------------------------------------------------------
IsLines(lines) ==
    /\ DOMAIN lines \subseteq used
    /\ lines \in [DOMAIN lines -> [price : Nat, quantity : 1..MaxStores + 1]]

ServicesOK ==
    /\ catalog \in [Products -> Prices \union {0}]
    /\ \A p \in Products : catalog[p] # 0 => p \in used
    /\ used \subseteq Products /\ gone \subseteq used
    /\ coupon \in [Products -> Amounts \union {0}]
    /\ editing \in [Editors -> used \union {Unedited}]
    /\ changes \in 0..MaxChanges
    /\ shown \in [Products -> SUBSET Prices]
    /\ offered \in [Products -> SUBSET Amounts]

LinesOK ==
    /\ IsLines(basket) /\ \A m \in sent : IsLines(m.lines)
    /\ \A g \in Pages :
          /\ IsLines(hand[g].lines) /\ hand[g].todo \subseteq DOMAIN hand[g].lines

PagesOK ==
    /\ pc \in [Pages -> {"idle", "shown", "storing", "checkout"}]
    /\ item \in [Pages -> [product : used, price : Prices] \union {None}]
    /\ hand \in [Pages -> [lines : {hand[g].lines : g \in Pages},
                           todo : SUBSET used, seen : 0..stores]]
    /\ \A g \in Pages : pc[g] \in {"shown", "storing"} => item[g] # None

CountsOK ==
    /\ cards \in 0..MaxCards /\ token \in [Pages -> 0..cards]
    /\ stores \in 0..MaxStores
    /\ orders \subseteq sent /\ rejected \subseteq sent

\* Shape of the state; no line's quantity outgrows the baskets stored.
TypeOK == ServicesOK /\ LinesOK /\ PagesOK /\ CountsOK

\* What is charged for a line is a price that was shown, or less if there ever was a
\* coupon.
AsShown(lines) ==
    \A p \in DOMAIN lines :
        \E s \in shown[p] :
            /\ lines[p].price \in 0..s
            /\ offered[p] = {} => lines[p].price = s

\* What is charged for a line is never negative, never more than a price that was
\* shown, and exactly one that was shown if the product never had a coupon: however
\* products and coupons change between showing, storing and checking out.
PricedAsShown == \A m \in sent : AsShown(m.lines)

\* A checkout that Basket accepted ends in the error queue only if a coupon has
\* swallowed the price of one of its lines, or a text is nothing but blanks: else
\* Basket and Ordering agree on totals, quantities and tokens.
OnlyFreeIsRejected ==
    \A m \in rejected :
        m.blank \/ \E p \in DOMAIN m.lines : m.lines[p].price = 0 /\ offered[p] # {}

\* Each checkout refers to a card that Payment keeps, whatever calls fail or lose
\* their answers (TokenizeCardHandler.Handle stores before it answers).
PaidByCard == \A m \in sent : m.token \in 1..cards

\* Adding to the basket loses no line and no quantity, unless another page stored
\* a basket since this one read it.
NothingDropsOut ==
    [][\A g \in Pages :
          pc[g] = "storing" /\ stores' # stores /\ hand[g].seen = stores /\ pc'[g] # pc[g]
          => \A p \in DOMAIN basket :
                p \in DOMAIN basket' /\ basket'[p].quantity >= basket[p].quantity]_vars

\* A product deleted while no update of it is in progress never returns to the
\* catalog (UpdateProductHandler.Handle loads first, as Store upserts).
GoneForGood == \A p \in gone : catalog[p] = 0

\* basket/carts/store_basket.go, applyDiscounts, and web/src/pages/Cart.tsx: a line's
\* price in the basket is the price of the product with its coupon taken off.
DiscountedOnce ==
    \A p \in DOMAIN basket :
        \E s \in shown[p], a \in offered[p] \union {0} : basket[p].price = Max0(s - a)
=============================================================================
