---------------------------- MODULE ShoppingProofs ----------------------------
(***************************************************************************)
(* Proofs about Shopping for any number of products, pages and editors and *)
(* any prices, coupons and bounds.                                         *)
(***************************************************************************)
EXTENDS Shopping, TLAPS

\* A basket's quantities are no more than the baskets stored, and one more on a page.
Counted ==
    /\ \A p \in DOMAIN basket : basket[p].quantity <= stores
    /\ \A g \in Pages : \A p \in DOMAIN hand[g].lines : hand[g].lines[p].quantity <= stores + 1

\* Every price on its way to an order was shown, and every coupon was offered.
Priced ==
    /\ AsShown(basket) /\ PricedAsShown
    /\ \A g \in Pages :
          /\ AsShown(hand[g].lines)
          /\ item[g] # None => item[g].price \in shown[item[g].product]
    /\ \A p \in Products : coupon[p] \in offered[p] \union {0}

\* What Basket announces has lines and their sum.
Announced == \A m \in sent : DOMAIN m.lines # {} /\ m.total = TotalPrice(m.lines)

\* A page that checks out has the token of a stored card.
Paid == PaidByCard /\ \A g \in Pages : pc[g] = "checkout" => token[g] # 0

\* No update holds a product that was deleted while none did.
Gone == GoneForGood /\ \A e \in Editors : editing[e] # Unedited => editing[e] \notin gone

\* Unless a basket was stored since a page read it, the page has all there is in it.
Held(g) ==
    pc[g] = "storing" /\ hand[g].seen = stores =>
        \A p \in DOMAIN basket :
            /\ p \in DOMAIN hand[g].lines
            /\ basket[p].quantity <= hand[g].lines[p].quantity

IInv ==
    /\ TypeOK /\ Counted /\ Priced /\ Announced /\ Paid /\ OnlyFreeIsRejected /\ Gone
    /\ \A g \in Pages : Held(g)

-----------------------------------------------------------------------------
(* Lines *)

LEMMA Naturals == Amounts \union {0} \subseteq Nat /\ Prices \union {0} \subseteq Nat
  BY ShoppingBounds

LEMMA EmptyLines == IsLines(NoLines) /\ AsShown(NoLines) /\ DOMAIN NoLines = {}
  BY DEF IsLines, AsShown, NoLines

\* Lines stay lines while ids are only added.
LEMMA LinesLast ==
    ASSUME NEW lines, IsLines(lines), used \subseteq used'
    PROVE  IsLines(lines)'
  BY DEF IsLines

\* Adding a product keeps the other lines, and adds one to a quantity at most.
LEMMA MergedLines ==
    ASSUME NEW items, IsLines(items), NEW n \in 0..MaxStores,
           \A p \in DOMAIN items : items[p].quantity <= n,
           NEW new \in [product : used, price : Nat]
    PROVE  LET lines == Merged(items, new)
           IN  /\ IsLines(lines)
               /\ DOMAIN lines = DOMAIN items \union {new.product}
               /\ lines[new.product].price = new.price
               /\ \A p \in DOMAIN items \ {new.product} : lines[p] = items[p]
               /\ \A p \in DOMAIN items : items[p].quantity <= lines[p].quantity
               /\ \A p \in DOMAIN lines : lines[p].quantity <= n + 1
  <1> DEFINE q == new.product
             lines == Merged(items, new)
             quantity == 1 + IF q \in DOMAIN items THEN items[q].quantity ELSE 0
  <1>1. DOMAIN lines = DOMAIN items \union {q} /\ q \in used
    BY DEF Merged
  <1>2. \A p \in DOMAIN items : items[p] \in [price : Nat, quantity : 1..MaxStores + 1]
    BY DEF IsLines
  <1>3. quantity \in 1..n + 1 /\ (q \in DOMAIN items => items[q].quantity <= quantity)
    BY <1>2, ShoppingBounds
  <1>4. lines[q] = [price |-> new.price, quantity |-> quantity]
    BY <1>1 DEF Merged
  <1>5. \A p \in DOMAIN items \ {q} : lines[p] = items[p]
    BY <1>1 DEF Merged
  <1>6. lines[q] \in [price : Nat, quantity : 1..MaxStores + 1]
    BY <1>3, <1>4, ShoppingBounds
  <1>7. IsLines(lines)
    <2>1. lines = [p \in DOMAIN lines |-> lines[p]]
      BY DEF Merged
    <2>2. QED
      BY <1>1, <1>2, <1>5, <1>6, <2>1 DEF IsLines
  <1>8. \A p \in DOMAIN items : items[p].quantity <= lines[p].quantity
    BY <1>2, <1>3, <1>4, <1>5, ShoppingBounds
  <1>9. \A p \in DOMAIN lines : lines[p].quantity <= n + 1
    BY <1>1, <1>2, <1>3, <1>4, <1>5, ShoppingBounds
  <1>10. QED
    BY <1>1, <1>4, <1>5, <1>7, <1>8, <1>9

\* A coupon leaves the product and its quantity alone, and takes off what it is worth.
LEMMA DiscountedLine ==
    ASSUME NEW line \in [price : Nat, quantity : 1..MaxStores + 1], NEW amount \in Nat
    PROVE  /\ Discounted(line, amount) \in [price : Nat, quantity : 1..MaxStores + 1]
           /\ Discounted(line, amount).quantity = line.quantity
           /\ Discounted(line, amount).price \in 0..line.price
           /\ amount = 0 => Discounted(line, amount).price = line.price
  BY DEF Discounted, Max0

-----------------------------------------------------------------------------
(* The shape of the state *)

LEMMA InitType == Init => TypeOK
  BY ShoppingBounds, EmptyLines
     DEF Init, TypeOK, ServicesOK, LinesOK, PagesOK, CountsOK, None, Nothing, Unedited

\* The steps of Catalog and Discount.
Served ==
    \/ \E p \in Products :
          \/ \E price \in Prices : CreateProduct(p, price)
          \/ \E a \in Amounts : CreateCoupon(p, a) \/ UpdateCoupon(p, a)
          \/ DeleteProduct(p) \/ DeleteCoupon(p)
    \/ \E e \in Editors : Edit(e)

\* What they leave alone, and what the others do.
LEMMA ServedLeaves ==
    Served => UNCHANGED <<basket, cards, sent, orders, rejected, pc, item, hand, token, stores,
                          shown>>
  BY DEF Served, Edit, CreateProduct, CreateCoupon, UpdateCoupon, DeleteProduct, DeleteCoupon,
         LoadProduct, UpdateProduct, UpdateFails, Change, ordering, page

LEMMA ShoppedLeaves ==
    \/ \E g \in Pages : Shop(g)
    \/ RemoveBasket
    \/ \E m \in sent : PlaceOrder(m)
    => UNCHANGED <<catalog, used, editing, gone, coupon, offered, changes>>
  BY DEF Shop, OpenProduct, LookUp, ReadCart, StoreBasket, Tokenize, Checkout, CallFails,
         RemoveBasket, PlaceOrder, shop, discount

LEMMA ServedType == ASSUME TypeOK, Served PROVE TypeOK'
  <1> USE ShoppingBounds DEF ServicesOK, Change, shop, discount
  <1>1. ServicesOK /\ LinesOK /\ PagesOK /\ CountsOK
    BY DEF TypeOK
  <1>2. UNCHANGED <<basket, cards, sent, orders, rejected, pc, item, hand, token, stores, shown>>
    BY ServedLeaves
  <1>3. ASSUME NEW p \in Products, NEW price \in Prices, CreateProduct(p, price)
        PROVE  ServicesOK' /\ used \subseteq used'
    BY <1>1, <1>2, <1>3 DEF CreateProduct, StoreProduct
  <1>4. ASSUME NEW p \in Products, DeleteProduct(p)
        PROVE  ServicesOK' /\ used \subseteq used'
    BY <1>1, <1>2, <1>4 DEF DeleteProduct, RemoveProduct, Listed
  <1>5. ASSUME NEW p \in Products, NEW a \in Amounts \union {0}, SetCoupon(p, a), Change,
               UNCHANGED shop
        PROVE  ServicesOK' /\ used \subseteq used'
    BY <1>1, <1>2, <1>5 DEF SetCoupon
  <1>6. ASSUME NEW e \in Editors, Edit(e)
        PROVE  ServicesOK' /\ used \subseteq used'
    <2>1. CASE \E p \in Products : LoadProduct(e, p)
      BY <1>1, <1>2, <2>1 DEF LoadProduct, Listed
    <2>2. CASE \E price \in Prices : UpdateProduct(e, price)
      BY <1>1, <1>2, <2>2 DEF UpdateProduct, StoreProduct
    <2>3. CASE UpdateFails(e)
      BY <1>1, <1>2, <2>3 DEF UpdateFails
    <2>4. QED
      BY <1>6, <2>1, <2>2, <2>3 DEF Edit
  <1>7. ServicesOK' /\ used \subseteq used'
    BY <1>3, <1>4, <1>5, <1>6
       DEF Served, CreateCoupon, UpdateCoupon, DeleteCoupon, InsertRow, ReplaceRow, DeleteRow
  <1>8. LinesOK'
    BY <1>1, <1>2, <1>7, LinesLast DEF LinesOK
  <1>9. PagesOK' /\ CountsOK'
    BY <1>1, <1>2, <1>7 DEF PagesOK, CountsOK
  <1>10. QED
    BY <1>7, <1>8, <1>9 DEF TypeOK

\* One page has new lines in hand.
LEMMA TakeInHand ==
    ASSUME TypeOK, NEW g \in Pages, NEW h, hand' = [hand EXCEPT ![g] = h],
           used' = used, stores' \in Nat, stores <= stores',
           h \in [lines : {h.lines}, todo : SUBSET used, seen : 0..stores']
    PROVE  /\ hand' \in [Pages -> [lines : {hand'[q].lines : q \in Pages},
                                   todo : SUBSET used', seen : 0..stores']]
           /\ hand'[g] = h /\ \A q \in Pages \ {g} : hand'[q] = hand[q]
  <1>1. hand'[g] = h /\ \A q \in Pages \ {g} : hand'[q] = hand[q]
    BY DEF TypeOK, PagesOK
  <1>2. 0..stores \subseteq 0..stores'
    BY DEF TypeOK, CountsOK
  <1>3. \A q \in Pages : hand'[q] \in [lines : {hand'[q].lines}, todo : SUBSET used', seen : 0..stores']
    BY <1>1, <1>2 DEF TypeOK, PagesOK
  <1>4. QED
    BY <1>1, <1>3 DEF TypeOK, PagesOK

\* What AddTo puts in a page's hand.
LEMMA AddedLines ==
    ASSUME TypeOK, Counted, NEW g \in Pages, pc[g] = "shown", AddTo(g, basket),
           used' = used, stores' = stores
    PROVE  LET lines == hand'[g].lines
           IN  /\ hand' \in [Pages -> [lines : {hand'[q].lines : q \in Pages},
                                       todo : SUBSET used', seen : 0..stores']]
               /\ hand'[g].todo = DOMAIN lines /\ hand'[g].seen = stores
               /\ \A q \in Pages \ {g} : hand'[q] = hand[q]
               /\ item[g] \in [product : used, price : Prices]
               /\ IsLines(lines)
               /\ DOMAIN lines = DOMAIN basket \union {item[g].product}
               /\ lines[item[g].product].price = item[g].price
               /\ \A p \in DOMAIN basket \ {item[g].product} : lines[p] = basket[p]
               /\ \A p \in DOMAIN basket : basket[p].quantity <= lines[p].quantity
               /\ \A p \in DOMAIN lines : lines[p].quantity <= stores + 1
  <1> DEFINE lines == Merged(basket, item[g])
             h == [lines |-> lines, todo |-> DOMAIN lines, seen |-> stores]
  <1>1. item[g] \in [product : used, price : Prices] /\ item[g] \in [product : used, price : Nat]
    BY ShoppingBounds DEF TypeOK, PagesOK
  <1>2. stores \in 0..MaxStores /\ IsLines(basket)
    BY DEF TypeOK, CountsOK, LinesOK
  <1>3. /\ IsLines(lines)
        /\ DOMAIN lines = DOMAIN basket \union {item[g].product}
        /\ lines[item[g].product].price = item[g].price
        /\ \A p \in DOMAIN basket \ {item[g].product} : lines[p] = basket[p]
        /\ \A p \in DOMAIN basket : basket[p].quantity <= lines[p].quantity
        /\ \A p \in DOMAIN lines : lines[p].quantity <= stores + 1
    BY <1>1, <1>2, MergedLines DEF Counted
  <1>4. hand' = [hand EXCEPT ![g] = h]
    BY DEF AddTo
  <1>5. h \in [lines : {h.lines}, todo : SUBSET used, seen : 0..stores']
    BY <1>2, <1>3 DEF IsLines
  <1>6. stores' \in Nat /\ stores <= stores'
    BY <1>2, ShoppingBounds
  <1> HIDE DEF h
  <1>7. /\ hand' \in [Pages -> [lines : {hand'[q].lines : q \in Pages},
                                todo : SUBSET used', seen : 0..stores']]
        /\ hand'[g] = h /\ \A q \in Pages \ {g} : hand'[q] = hand[q]
    BY <1>4, <1>5, <1>6, TakeInHand
  <1> HIDE DEF lines
  <1>8. h.lines = lines /\ h.todo = DOMAIN lines /\ h.seen = stores
    BY DEF h
  <1>9. QED
    BY <1>1, <1>3, <1>7, <1>8

\* What a look-up does to the lines in hand.
LEMMA LookedUpLines ==
    ASSUME TypeOK, NEW g \in Pages, NEW p, LookUp(g, p)
    PROVE  LET old == hand[g].lines
               new == hand'[g].lines
           IN  /\ hand' \in [Pages -> [lines : {hand'[q].lines : q \in Pages},
                                       todo : SUBSET used', seen : 0..stores']]
               /\ \A q \in Pages \ {g} : hand'[q] = hand[q]
               /\ hand'[g].seen = hand[g].seen
               /\ p \in Products /\ p \in DOMAIN old
               /\ IsLines(new) /\ DOMAIN new = DOMAIN old
               /\ hand'[g].todo \subseteq DOMAIN new
               /\ \A q \in DOMAIN old \ {p} : new[q] = old[q]
               /\ new[p] = Discounted(old[p], coupon[p])
               /\ new[p].quantity = old[p].quantity
               /\ new[p].price \in 0..old[p].price
               /\ coupon[p] = 0 => new[p].price = old[p].price
  <1> DEFINE old == hand[g].lines
             new == [old EXCEPT ![p] = Discounted(old[p], coupon[p])]
             h == [hand[g] EXCEPT !.lines = new, !.todo = @ \ {p}]
  <1> HIDE DEF new, h
  <1>1. /\ hand[g] \in [lines : {old}, todo : SUBSET used, seen : 0..stores]
        /\ IsLines(old) /\ hand[g].todo \subseteq DOMAIN old
        /\ used \subseteq Products /\ coupon \in [Products -> Amounts \union {0}]
        /\ stores \in 0..MaxStores
    BY DEF TypeOK, ServicesOK, LinesOK, PagesOK, CountsOK
  <1>2. p \in hand[g].todo /\ UNCHANGED <<used, stores>>
    BY DEF LookUp, shop
  <1>3. p \in DOMAIN old /\ p \in Products /\ coupon[p] \in Nat
    <2>1. p \in DOMAIN old /\ p \in Products
      BY <1>1, <1>2 DEF IsLines
    <2>2. QED
      BY <1>1, <2>1, Naturals
  <1>4. old[p] \in [price : Nat, quantity : 1..MaxStores + 1]
    BY <1>1, <1>3 DEF IsLines
  <1>5. /\ Discounted(old[p], coupon[p]) \in [price : Nat, quantity : 1..MaxStores + 1]
        /\ Discounted(old[p], coupon[p]).quantity = old[p].quantity
        /\ Discounted(old[p], coupon[p]).price \in 0..old[p].price
        /\ coupon[p] = 0 => Discounted(old[p], coupon[p]).price = old[p].price
    BY <1>3, <1>4, DiscountedLine
  <1>6. /\ DOMAIN new = DOMAIN old /\ IsLines(new)
        /\ new[p] = Discounted(old[p], coupon[p])
        /\ \A q \in DOMAIN old \ {p} : new[q] = old[q]
    BY <1>1, <1>3, <1>5 DEF IsLines, new
  <1>7. hand' = [hand EXCEPT ![g] = h]
    BY DEF LookUp, AmountFor, h, new
  <1>8. /\ h \in [lines : {h.lines}, todo : SUBSET used, seen : 0..stores']
        /\ h.lines = new /\ h.todo = hand[g].todo \ {p} /\ h.seen = hand[g].seen
    BY <1>1, <1>2 DEF h
  <1>9. stores' \in Nat /\ stores <= stores' /\ used' = used
    BY <1>1, <1>2, ShoppingBounds
  <1>10. /\ hand' \in [Pages -> [lines : {hand'[q].lines : q \in Pages},
                                 todo : SUBSET used', seen : 0..stores']]
         /\ hand'[g] = h /\ \A q \in Pages \ {g} : hand'[q] = hand[q]
    BY <1>7, <1>8, <1>9, TakeInHand
  <1>11. QED
    BY <1>1, <1>3, <1>5, <1>6, <1>8, <1>10

LEMMA OpenType == ASSUME TypeOK, NEW g \in Pages, NEW p \in Products, OpenProduct(g, p) PROVE TypeOK'
  <1> USE DEF OpenProduct, Goto, shop, discount, ordering
  <1>1. catalog[p] \in Prices /\ p \in used
    BY DEF TypeOK, ServicesOK, Listed
  <1>2. ServicesOK'
    BY <1>1 DEF TypeOK, ServicesOK
  <1>3. LinesOK'
    BY DEF TypeOK, LinesOK, IsLines
  <1>4. PagesOK'
    <2>1. [product |-> p, price |-> catalog[p]] \in [product : used, price : Prices] \ {None}
      BY <1>1, ShoppingBounds DEF None
    <2>2. QED
      BY <2>1 DEF TypeOK, PagesOK
  <1>5. CountsOK'
    BY DEF TypeOK, CountsOK
  <1>6. QED
    BY <1>2, <1>3, <1>4, <1>5 DEF TypeOK

LEMMA ReadType == ASSUME TypeOK, Counted, NEW g \in Pages, ReadCart(g) PROVE TypeOK'
  <1>1. UNCHANGED <<catalog, used, editing, gone, coupon, offered, changes, shown, basket, cards,
                    sent, orders, rejected, item, token, stores>>
    BY DEF ReadCart, shop, discount, ordering
  <1>2. pc[g] = "shown" /\ AddTo(g, basket) /\ pc' = [pc EXCEPT ![g] = "storing"]
    BY DEF ReadCart, Goto
  <1>3. LinesOK'
    <2>1. \A q \in Pages : IsLines(hand'[q].lines) /\ hand'[q].todo \subseteq DOMAIN hand'[q].lines
      <3>2. IsLines(hand'[g].lines) /\ hand'[g].todo \subseteq DOMAIN hand'[g].lines
        BY <1>1, <1>2, AddedLines
      <3>3. \A q \in Pages \ {g} : hand'[q] = hand[q]
        BY <1>1, <1>2, AddedLines
      <3>4. QED
        BY <3>2, <3>3 DEF TypeOK, LinesOK
    <2>2. QED
      BY <1>1, <2>1 DEF TypeOK, LinesOK, IsLines
  <1>4. PagesOK'
    BY <1>1, <1>2, AddedLines DEF TypeOK, PagesOK
  <1>5. ServicesOK' /\ CountsOK'
    BY <1>1 DEF TypeOK, ServicesOK, CountsOK
  <1>6. QED
    BY <1>3, <1>4, <1>5 DEF TypeOK

LEMMA LookUpType == ASSUME TypeOK, NEW g \in Pages, NEW p, LookUp(g, p) PROVE TypeOK'
  <1>1. UNCHANGED <<catalog, used, editing, gone, coupon, offered, changes, shown, basket, cards,
                    sent, orders, rejected, pc, item, token, stores>>
    BY DEF LookUp, shop, discount, ordering
  <1>2. LinesOK'
    BY <1>1, LookedUpLines DEF TypeOK, LinesOK, IsLines
  <1>3. PagesOK'
    BY <1>1, LookedUpLines DEF TypeOK, PagesOK
  <1>4. ServicesOK' /\ CountsOK'
    BY <1>1 DEF TypeOK, ServicesOK, CountsOK
  <1>5. QED
    BY <1>2, <1>3, <1>4 DEF TypeOK

\* A page that has nothing in hand any more.
LEMMA EmptiedHand ==
    ASSUME TypeOK, NEW g \in Pages, hand' = [hand EXCEPT ![g] = Nothing],
           used' = used, stores' \in Nat, stores <= stores'
    PROVE  /\ hand' \in [Pages -> [lines : {hand'[q].lines : q \in Pages},
                                   todo : SUBSET used', seen : 0..stores']]
           /\ hand'[g].lines = NoLines /\ hand'[g].todo = {}
           /\ \A q \in Pages \ {g} : hand'[q] = hand[q]
  <1>1. /\ Nothing \in [lines : {Nothing.lines}, todo : SUBSET used, seen : 0..stores']
        /\ Nothing.lines = NoLines /\ Nothing.todo = {}
    BY DEF Nothing
  <1>2. QED
    BY <1>1, TakeInHand

LEMMA StoreType == ASSUME TypeOK, NEW g \in Pages, StoreBasket(g) PROVE TypeOK'
  <1>1. UNCHANGED <<catalog, used, editing, gone, coupon, offered, changes, shown, cards,
                    sent, orders, rejected, token>>
    BY DEF StoreBasket, shop, discount, ordering
  <1>2. /\ stores' \in 0..MaxStores /\ stores' \in Nat /\ stores <= stores'
        /\ basket' = hand[g].lines /\ hand' = [hand EXCEPT ![g] = Nothing]
    BY ShoppingBounds DEF StoreBasket, TypeOK, CountsOK
  <1>3. LinesOK'
    BY <1>1, <1>2, EmptyLines, EmptiedHand DEF TypeOK, LinesOK, IsLines
  <1>4. PagesOK'
    <2>1. \/ pc' = [pc EXCEPT ![g] = "idle"] /\ item' = [item EXCEPT ![g] = None]
          \/ pc[g] = "storing" /\ pc' = [pc EXCEPT ![g] = "shown"] /\ item' = item
      BY DEF StoreBasket, Goto
    <2>2. /\ pc' \in [Pages -> {"idle", "shown", "storing", "checkout"}]
          /\ item' \in [Pages -> [product : used', price : Prices] \union {None}]
          /\ \A q \in Pages : pc'[q] \in {"shown", "storing"} => item'[q] # None
      BY <1>1, <2>1 DEF TypeOK, PagesOK
    <2>3. QED
      BY <1>1, <1>2, <2>2, EmptiedHand DEF PagesOK
  <1>5. ServicesOK' /\ CountsOK'
    BY <1>1, <1>2 DEF TypeOK, ServicesOK, CountsOK
  <1>6. QED
    BY <1>3, <1>4, <1>5 DEF TypeOK

LEMMA TokenizeType == ASSUME TypeOK, NEW g \in Pages, Tokenize(g) PROVE TypeOK'
  <1> USE DEF Tokenize, Goto, shop, discount, ordering
  <1>1. cards' \in 0..MaxCards /\ token' \in [Pages -> 0..cards']
    BY ShoppingBounds DEF TypeOK, CountsOK, StoreCard, NewToken
  <1>2. PagesOK'
    BY DEF TypeOK, PagesOK
  <1>3. LinesOK'
    BY DEF TypeOK, LinesOK, IsLines
  <1>4. ServicesOK' /\ CountsOK'
    BY <1>1 DEF TypeOK, ServicesOK, CountsOK
  <1>5. QED
    BY <1>2, <1>3, <1>4 DEF TypeOK

LEMMA CheckoutType == ASSUME TypeOK, NEW g \in Pages, Checkout(g) PROVE TypeOK'
  <1> USE DEF Goto, shop, discount
  <1>1. UNCHANGED <<catalog, used, editing, gone, coupon, offered, changes, shown, cards,
                    orders, rejected, item, hand, stores>>
    BY DEF Checkout, ordering
  <1>2. /\ sent \subseteq sent' /\ \A m \in sent' : m \in sent \/ m.lines = basket
        /\ basket' = NoLines
    BY DEF Checkout, Event
  <1>3. LinesOK'
    BY <1>1, <1>2, EmptyLines DEF TypeOK, LinesOK, IsLines
  <1>4. PagesOK'
    BY <1>1 DEF Checkout, TypeOK, PagesOK
  <1>5. ServicesOK' /\ CountsOK'
    BY <1>1, <1>2, ShoppingBounds DEF Checkout, TypeOK, ServicesOK, CountsOK
  <1>6. QED
    BY <1>3, <1>4, <1>5 DEF TypeOK

LEMMA FailType == ASSUME TypeOK, NEW g \in Pages, CallFails(g) PROVE TypeOK'
  <1>1. UNCHANGED <<catalog, used, editing, gone, coupon, offered, changes, shown, basket, cards,
                    sent, orders, rejected, stores>>
    BY DEF CallFails, shop, discount, ordering
  <1>2. hand' = [hand EXCEPT ![g] = Nothing] /\ stores' \in Nat /\ stores <= stores'
    BY <1>1, ShoppingBounds DEF CallFails, TypeOK, CountsOK
  <1>3. LinesOK'
    BY <1>1, <1>2, EmptyLines, EmptiedHand DEF TypeOK, LinesOK, IsLines
  <1>4. PagesOK'
    <2>1. \/ pc' = [pc EXCEPT ![g] = "idle"] /\ item' = [item EXCEPT ![g] = None]
          \/ pc[g] = "storing" /\ pc' = [pc EXCEPT ![g] = "shown"] /\ item' = item
      BY DEF CallFails, Goto
    <2>2. /\ pc' \in [Pages -> {"idle", "shown", "storing", "checkout"}]
          /\ item' \in [Pages -> [product : used', price : Prices] \union {None}]
          /\ \A q \in Pages : pc'[q] \in {"shown", "storing"} => item'[q] # None
      BY <1>1, <2>1 DEF TypeOK, PagesOK
    <2>3. QED
      BY <1>1, <1>2, <2>2, EmptiedHand DEF PagesOK
  <1>5. ServicesOK' /\ CountsOK'
    BY <1>1, ShoppingBounds DEF CallFails, TypeOK, ServicesOK, CountsOK
  <1>6. QED
    BY <1>3, <1>4, <1>5 DEF TypeOK

LEMMA OrderingType ==
    ASSUME TypeOK, RemoveBasket \/ \E m \in sent : PlaceOrder(m)
    PROVE  TypeOK'
  <1>1. /\ UNCHANGED <<catalog, used, editing, gone, coupon, offered, changes, shown, cards, sent,
                       pc, item, hand, token, stores>>
        /\ basket' = NoLines \/ basket' = basket
        /\ orders' \subseteq orders \union sent /\ rejected' \subseteq rejected \union sent
    BY DEF RemoveBasket, PlaceOrder, shop, discount, ordering, page
  <1>2. LinesOK'
    BY <1>1, EmptyLines DEF TypeOK, LinesOK, IsLines
  <1>3. ServicesOK' /\ PagesOK' /\ CountsOK'
    BY <1>1 DEF TypeOK, ServicesOK, PagesOK, CountsOK
  <1>4. QED
    BY <1>2, <1>3 DEF TypeOK

LEMMA NextType == ASSUME TypeOK, Counted, [Next]_vars PROVE TypeOK'
  <1>1. CASE Served
    BY <1>1, ServedType
  <1>2. ASSUME NEW g \in Pages, Shop(g) PROVE TypeOK'
    BY <1>2, OpenType, LookUpType, ReadType, StoreType, TokenizeType, CheckoutType, FailType DEF Shop
  <1>3. CASE UNCHANGED vars
    BY <1>3 DEF vars, shop, discount, ordering, page, TypeOK, ServicesOK, LinesOK, IsLines, PagesOK,
                CountsOK
  <1>4. QED
    BY <1>1, <1>2, <1>3, OrderingType DEF Next, Served

-----------------------------------------------------------------------------
(* What is shown, stored and charged *)

\* A price once shown stays shown, and a coupon once offered stays offered.
LEMMA HistoriesGrow ==
    ASSUME TypeOK, [Next]_vars
    PROVE  \A p \in Products : shown[p] \subseteq shown'[p] /\ offered[p] \subseteq offered'[p]
  <1>1. CASE Served
    <2>1. shown' = shown
      BY <1>1, ServedLeaves
    <2>2. offered' = offered \/ \E p \in Products : \E a : SetCoupon(p, a)
      BY <1>1 DEF Served, Edit, CreateProduct, CreateCoupon, UpdateCoupon, DeleteProduct,
            DeleteCoupon, InsertRow, ReplaceRow, DeleteRow, LoadProduct, UpdateProduct,
            UpdateFails, discount
    <2>3. QED
      BY <2>1, <2>2 DEF SetCoupon, TypeOK, ServicesOK
  <1>2. ASSUME NEW g \in Pages, Shop(g)
        PROVE  \A p \in Products : shown[p] \subseteq shown'[p] /\ offered[p] \subseteq offered'[p]
    <2>1. offered' = offered
      BY <1>2, ShoppedLeaves
    <2>2. shown' = shown \/ \E p \in Products : OpenProduct(g, p)
      BY <1>2 DEF Shop, LookUp, ReadCart, StoreBasket, Tokenize, Checkout, CallFails
    <2>3. QED
      BY <2>1, <2>2 DEF OpenProduct, TypeOK, ServicesOK
  <1>3. CASE RemoveBasket \/ (\E m \in sent : PlaceOrder(m)) \/ UNCHANGED vars
    BY <1>3 DEF RemoveBasket, PlaceOrder, vars, discount
  <1>4. QED
    BY <1>1, <1>2, <1>3 DEF Next, Served

LEMMA CountedStays == ASSUME TypeOK, Counted, [Next]_vars PROVE Counted'
  <1>0. /\ stores \in Nat
        /\ \A p \in DOMAIN basket : basket[p].quantity \in Nat
        /\ \A g \in Pages : \A p \in DOMAIN hand[g].lines : hand[g].lines[p].quantity \in Nat
    BY ShoppingBounds DEF TypeOK, CountsOK, LinesOK, IsLines
  <1>1. CASE UNCHANGED <<basket, hand, stores>>
    BY <1>1 DEF Counted
  <1>2. ASSUME NEW g \in Pages, ReadCart(g) PROVE Counted'
    <2>1. UNCHANGED <<basket, stores, used>> /\ pc[g] = "shown" /\ AddTo(g, basket)
      BY <1>2 DEF ReadCart, shop
    <2>2. \A p \in DOMAIN hand'[g].lines : hand'[g].lines[p].quantity <= stores + 1
      BY <2>1, AddedLines
    <2>3. \A q \in Pages \ {g} : hand'[q] = hand[q]
      BY <2>1, AddedLines
    <2>4. QED
      BY <2>1, <2>2, <2>3 DEF Counted
  <1>3. ASSUME NEW g \in Pages, NEW p \in Products, LookUp(g, p) PROVE Counted'
    <2>1. UNCHANGED <<basket, stores>>
      BY <1>3 DEF LookUp
    <2>2. \A q \in DOMAIN hand'[g].lines : hand'[g].lines[q].quantity = hand[g].lines[q].quantity
      BY <1>3, LookedUpLines
    <2>3. /\ DOMAIN hand'[g].lines = DOMAIN hand[g].lines
          /\ \A q \in Pages \ {g} : hand'[q] = hand[q]
      BY <1>3, LookedUpLines
    <2>4. QED
      BY <2>1, <2>2, <2>3 DEF Counted
  <1>4. ASSUME NEW g \in Pages, hand' = [hand EXCEPT ![g] = Nothing], used' = used,
               basket' \in {basket, NoLines, hand[g].lines}, stores' \in {stores, stores + 1},
               basket' = hand[g].lines => stores' = stores + 1 \/ basket' = basket
        PROVE  Counted'
    <2>1. stores' \in Nat /\ stores <= stores'
      BY <1>0, <1>4
    <2>2. hand'[g].lines = NoLines /\ \A q \in Pages \ {g} : hand'[q] = hand[q]
      BY <1>4, <2>1, EmptiedHand
    <2>3. QED
      BY <1>0, <1>4, <2>2, EmptyLines DEF Counted
  <1>5. ASSUME NEW g \in Pages, StoreBasket(g) \/ CallFails(g) PROVE Counted'
    BY <1>4, <1>5 DEF StoreBasket, CallFails, shop
  <1>6. CASE UNCHANGED <<hand, stores>> /\ basket' = NoLines
    BY <1>6, EmptyLines DEF Counted
  <1>7. QED
    BY <1>1, <1>2, <1>3, <1>5, <1>6, ServedLeaves
       DEF Next, Served, Shop, OpenProduct, Tokenize, Checkout, RemoveBasket, PlaceOrder, vars,
           page

LEMMA CouponsOffered ==
    ASSUME TypeOK, Priced, Served
    PROVE  \A p \in Products : coupon'[p] \in offered'[p] \union {0}
  <1>1. UNCHANGED discount \/ \E p \in Products : \E a : SetCoupon(p, a)
    BY DEF Served, Edit, CreateProduct, CreateCoupon, UpdateCoupon, DeleteProduct,
           DeleteCoupon, InsertRow, ReplaceRow, DeleteRow, LoadProduct, UpdateProduct, UpdateFails
  <1>2. QED
    BY <1>1 DEF SetCoupon, discount, Priced, TypeOK, ServicesOK

LEMMA ReadPriced ==
    ASSUME TypeOK, Counted, Priced, NEW g \in Pages, ReadCart(g)
    PROVE  AsShown(hand'[g].lines) /\ \A q \in Pages \ {g} : hand'[q] = hand[q]
  <1> DEFINE lines == hand'[g].lines
  <1>1. pc[g] = "shown" /\ AddTo(g, basket) /\ UNCHANGED <<used, stores>>
    BY DEF ReadCart, shop
  <1>2. /\ item[g] \in [product : used, price : Prices]
        /\ DOMAIN lines = DOMAIN basket \union {item[g].product}
        /\ lines[item[g].product].price = item[g].price
        /\ \A p \in DOMAIN basket \ {item[g].product} : lines[p] = basket[p]
    BY <1>1, AddedLines
  <1>3. \A q \in Pages \ {g} : hand'[q] = hand[q]
    BY <1>1, AddedLines
  <1> HIDE DEF lines
  <1>4. item[g].price \in shown[item[g].product] /\ item[g].price \in 0..item[g].price
    <2>1. item[g] # None
      BY <1>1 DEF TypeOK, PagesOK
    <2>2. item[g].price \in Nat
      BY <1>2, Naturals
    <2>3. QED
      BY <2>1, <2>2 DEF Priced
  <1>5. \A p \in DOMAIN lines :
            \E s \in shown[p] :
                lines[p].price \in 0..s /\ (offered[p] = {} => lines[p].price = s)
    BY <1>2, <1>4 DEF Priced, AsShown
  <1>6. AsShown(lines)
    BY <1>5 DEF AsShown
  <1>7. QED
    BY <1>3, <1>6 DEF lines

LEMMA LookedUpPriced ==
    ASSUME TypeOK, Priced, NEW g \in Pages, NEW p, LookUp(g, p)
    PROVE  AsShown(hand'[g].lines) /\ \A q \in Pages \ {g} : hand'[q] = hand[q]
  <1> DEFINE old == hand[g].lines
             new == hand'[g].lines
  <1>1. /\ p \in Products /\ p \in DOMAIN old
        /\ DOMAIN new = DOMAIN old
        /\ \A q \in DOMAIN old \ {p} : new[q] = old[q]
        /\ new[p].price \in 0..old[p].price
        /\ coupon[p] = 0 => new[p].price = old[p].price
        /\ \A q \in Pages \ {g} : hand'[q] = hand[q]
    BY LookedUpLines
  <1>2. shown[p] \subseteq Nat /\ old[p].price \in Nat
    BY <1>1, Naturals DEF TypeOK, ServicesOK, LinesOK, IsLines
  <1>3. AsShown(old)
    BY DEF Priced
  <1> HIDE DEF old, new
  <1>4. PICK s \in shown[p] : old[p].price \in 0..s /\ (offered[p] = {} => old[p].price = s)
    BY <1>1, <1>3 DEF AsShown
  <1>5. new[p].price \in 0..s
    BY <1>1, <1>2, <1>4
  <1>6. offered[p] = {} => new[p].price = s
    BY <1>1, <1>4 DEF Priced
  <1>7. AsShown(new)
    BY <1>1, <1>3, <1>4, <1>5, <1>6 DEF AsShown
  <1>8. QED
    BY <1>1, <1>7 DEF new

LEMMA PricedStays == ASSUME TypeOK, Counted, Priced, [Next]_vars PROVE Priced'
  <1> DEFINE Then(lines) == \A p \in DOMAIN lines :
                                \E s \in shown'[p] :
                                    /\ lines[p].price \in 0..s
                                    /\ offered'[p] = {} => lines[p].price = s
  <1>0. \A p \in Products : shown[p] \subseteq shown'[p] /\ offered[p] \subseteq offered'[p]
    BY HistoriesGrow
  <1>1. ASSUME NEW lines, AsShown(lines), IsLines(lines) PROVE Then(lines)
    BY <1>0, <1>1 DEF AsShown, IsLines, TypeOK, ServicesOK
  <1>2. /\ Then(NoLines) /\ Then(basket)
        /\ \A m \in sent : Then(m.lines)
        /\ \A g \in Pages : Then(hand[g].lines)
    BY <1>1, EmptyLines DEF Priced, PricedAsShown, TypeOK, LinesOK
  <1>3. \A g \in Pages : item[g] # None => item[g].product \in Products
    BY DEF TypeOK, PagesOK, ServicesOK
  <1>4. \A g \in Pages : item[g] # None => item[g].price \in shown'[item[g].product]
    BY <1>0, <1>3 DEF Priced
  <1>5. ASSUME Then(basket'), \A m \in sent' : Then(m.lines),
               \A g \in Pages : Then(hand'[g].lines),
               \A g \in Pages : item'[g] # None => item'[g].price \in shown'[item'[g].product],
               \A p \in Products : coupon'[p] \in offered'[p] \union {0}
        PROVE  Priced'
    BY <1>5 DEF Priced, PricedAsShown, AsShown
  <1> HIDE DEF Then
  <1>6. ASSUME UNCHANGED <<coupon, offered>>
        PROVE  \A p \in Products : coupon'[p] \in offered'[p] \union {0}
    BY <1>6 DEF Priced
  <1>7. CASE Served
    <2>1. UNCHANGED <<basket, sent, hand, item, shown>>
      BY <1>7, ServedLeaves
    <2>2. \A p \in Products : coupon'[p] \in offered'[p] \union {0}
      BY <1>7, CouponsOffered
    <2>3. QED
      BY <1>2, <1>4, <1>5, <2>1, <2>2
  <1>8. ASSUME NEW g \in Pages, Shop(g) PROVE Priced'
    <2>0. \A p \in Products : coupon'[p] \in offered'[p] \union {0}
      BY <1>6, <1>8, ShoppedLeaves
    <2>1. ASSUME NEW p \in Products, OpenProduct(g, p) PROVE Priced'
      <3>1. UNCHANGED <<basket, sent, hand>>
        BY <2>1 DEF OpenProduct
      <3>2. \A q \in Pages : item'[q] # None => item'[q].price \in shown'[item'[q].product]
        <4>1. /\ item' = [item EXCEPT ![g] = [product |-> p, price |-> catalog[p]]]
              /\ catalog[p] \in shown'[p]
          BY <2>1 DEF OpenProduct, TypeOK, ServicesOK
        <4>2. QED
          BY <1>4, <4>1 DEF TypeOK, PagesOK
      <3>3. QED
        BY <1>2, <1>5, <2>0, <3>1, <3>2
    <2>2. ASSUME UNCHANGED <<basket, sent, item>>, AsShown(hand'[g].lines), IsLines(hand'[g].lines),
                 \A q \in Pages \ {g} : hand'[q] = hand[q]
          PROVE  Priced'
      <3>1. Then(hand'[g].lines)
        BY <1>1, <2>2
      <3>2. \A q \in Pages : Then(hand'[q].lines)
        BY <1>2, <2>2, <3>1
      <3>3. QED
        BY <1>2, <1>4, <1>5, <2>0, <2>2, <3>2
    <2>3. CASE ReadCart(g)
      <3>1. UNCHANGED <<basket, sent, item>>
        BY <2>3 DEF ReadCart
      <3>2. AsShown(hand'[g].lines) /\ \A q \in Pages \ {g} : hand'[q] = hand[q]
        BY <2>3, ReadPriced
      <3>3. IsLines(hand'[g].lines)
        BY <2>3, AddedLines DEF ReadCart, shop
      <3>4. QED
        BY <2>2, <3>1, <3>2, <3>3
    <2>4. ASSUME NEW p \in Products, LookUp(g, p) PROVE Priced'
      <3>1. UNCHANGED <<basket, sent, item>>
        BY <2>4 DEF LookUp
      <3>2. AsShown(hand'[g].lines) /\ \A q \in Pages \ {g} : hand'[q] = hand[q]
        BY <2>4, LookedUpPriced
      <3>3. IsLines(hand'[g].lines)
        BY <2>4, LookedUpLines
      <3>4. QED
        BY <2>2, <3>1, <3>2, <3>3
    <2>5. CASE StoreBasket(g) \/ CallFails(g)
      <3>1. /\ basket' \in {basket, hand[g].lines} /\ sent' = sent /\ used' = used
            /\ hand' = [hand EXCEPT ![g] = Nothing] /\ stores' \in Nat /\ stores <= stores'
            /\ item' = item \/ item' = [item EXCEPT ![g] = None]
        BY <2>5, ShoppingBounds DEF StoreBasket, CallFails, shop, TypeOK, CountsOK
      <3>2. hand'[g].lines = NoLines /\ \A q \in Pages \ {g} : hand'[q] = hand[q]
        BY <3>1, EmptiedHand
      <3>3. \A q \in Pages : item'[q] = item[q] \/ item'[q] = None
        BY <3>1 DEF TypeOK, PagesOK
      <3>4. \A q \in Pages : Then(hand'[q].lines)
        BY <1>2, <3>2
      <3>5. \A q \in Pages : item'[q] # None => item'[q].price \in shown'[item'[q].product]
        BY <1>4, <3>3
      <3>6. QED
        BY <1>2, <1>5, <2>0, <3>1, <3>4, <3>5
    <2>6. CASE Tokenize(g)
      BY <1>2, <1>4, <1>5, <2>0, <2>6 DEF Tokenize
    <2>7. CASE Checkout(g)
      <3>1. /\ UNCHANGED <<hand, item>> /\ basket' = NoLines
            /\ \A m \in sent' : m \in sent \/ m.lines = basket
        BY <2>7 DEF Checkout, Event
      <3>2. QED
        BY <1>2, <1>4, <1>5, <2>0, <3>1
    <2>8. QED
      BY <1>8, <2>1, <2>3, <2>4, <2>5, <2>6, <2>7 DEF Shop
  <1>9. CASE RemoveBasket \/ (\E m \in sent : PlaceOrder(m)) \/ UNCHANGED vars
    <2>1. UNCHANGED <<sent, hand, item, coupon, offered>> /\ basket' \in {basket, NoLines}
      BY <1>9 DEF RemoveBasket, PlaceOrder, vars, discount, page
    <2>2. QED
      BY <1>2, <1>4, <1>5, <1>6, <2>1
  <1>10. QED
    BY <1>7, <1>8, <1>9 DEF Next, Served

-----------------------------------------------------------------------------
(* Orders and the error queue *)

\* Only a checkout announces, and what it announces is the basket.
LEMMA SentBy ==
    ASSUME [Next]_vars
    PROVE  \/ sent' = sent
           \/ \E g \in Pages : Checkout(g)
  <1>1. CASE Served
    BY <1>1, ServedLeaves
  <1>2. QED
    BY <1>1 DEF Next, Served, Shop, OpenProduct, LookUp, ReadCart, StoreBasket, Tokenize,
                CallFails, RemoveBasket, PlaceOrder, vars

LEMMA AnnouncedStays == ASSUME Announced, [Next]_vars PROVE Announced'
  <1>1. CASE sent' = sent
    BY <1>1 DEF Announced
  <1>2. ASSUME NEW g \in Pages, Checkout(g) PROVE Announced'
    <2>1. DOMAIN basket # {}
      BY <1>2 DEF Checkout
    <2>2. \A m \in sent' : m \in sent \/ (m.lines = basket /\ m.total = TotalPrice(basket))
      BY <1>2 DEF Checkout, Event
    <2>3. QED
      BY <2>1, <2>2 DEF Announced
  <1>3. QED
    BY <1>1, <1>2, SentBy

LEMMA PaidStays == ASSUME TypeOK, Paid, [Next]_vars PROVE Paid'
  <1>0. cards \in Nat /\ token \in [Pages -> 0..cards] /\ pc \in [Pages -> {"idle", "shown", "storing", "checkout"}]
    BY ShoppingBounds DEF TypeOK, CountsOK, PagesOK
  <1>1. CASE UNCHANGED <<cards, token, sent>> /\ \A g \in Pages : pc'[g] = "checkout" => pc[g] = "checkout"
    BY <1>1 DEF Paid, PaidByCard
  <1>2. CASE Served
    BY <1>1, <1>2, ServedLeaves
  <1>3. ASSUME NEW g \in Pages, Shop(g) PROVE Paid'
    <2>1. CASE StoreBasket(g) \/ ReadCart(g) \/ \E p \in Products : OpenProduct(g, p) \/ LookUp(g, p)
      BY <1>0, <1>1, <2>1 DEF StoreBasket, ReadCart, OpenProduct, LookUp, Goto
    <2>2. CASE Tokenize(g)
      <3>1. /\ cards' = cards + 1 /\ sent' = sent
            /\ \/ token' = [token EXCEPT ![g] = cards + 1] /\ pc' = [pc EXCEPT ![g] = "checkout"]
               \/ UNCHANGED <<token, pc>>
        BY <2>2 DEF Tokenize, StoreCard, NewToken, Goto
      <3>2. QED
        BY <1>0, <3>1 DEF Paid, PaidByCard
    <2>3. CASE Checkout(g)
      <3>1. /\ pc[g] = "checkout" /\ cards' = cards
            /\ \A m \in sent' : m \in sent \/ m.token = token[g]
            /\ token' = [token EXCEPT ![g] = 0] /\ pc' = [pc EXCEPT ![g] = "idle"]
        BY <2>3 DEF Checkout, Event, Goto
      <3>2. token[g] \in 1..cards
        BY <1>0, <3>1 DEF Paid
      <3>3. QED
        BY <1>0, <3>1, <3>2 DEF Paid, PaidByCard
    <2>4. CASE CallFails(g)
      BY <1>0, <2>4 DEF CallFails, Goto, Paid, PaidByCard
    <2>5. QED
      BY <1>3, <2>1, <2>2, <2>3, <2>4 DEF Shop
  <1>4. CASE RemoveBasket \/ (\E m \in sent : PlaceOrder(m)) \/ UNCHANGED vars
    BY <1>1, <1>4 DEF RemoveBasket, PlaceOrder, vars, page
  <1>5. QED
    BY <1>2, <1>3, <1>4 DEF Next, Served

\* Basket and Ordering sum alike.
LEMMA TotalsAgree == ASSUME NEW lines PROVE TotalOf(lines) = TotalPrice(lines)
  BY DEF TotalOf, TotalPrice

LEMMA OnlyFreeStays ==
    ASSUME TypeOK, Priced, Announced, Paid, OnlyFreeIsRejected, [Next]_vars
    PROVE  OnlyFreeIsRejected'
  <1>1. ASSUME NEW m \in rejected
        PROVE  m.blank \/ \E p \in DOMAIN m.lines : m.lines[p].price = 0 /\ offered'[p] # {}
    <2>1. \A p \in DOMAIN m.lines : p \in Products
      BY DEF TypeOK, CountsOK, LinesOK, IsLines, ServicesOK
    <2>2. QED
      BY <2>1, HistoriesGrow DEF OnlyFreeIsRejected
  <1>2. ASSUME NEW m \in sent, PlaceOrder(m), rejected' # rejected
        PROVE  m.blank \/ \E p \in DOMAIN m.lines : m.lines[p].price = 0 /\ offered'[p] # {}
    <2>1. ~Acceptable(m) /\ offered' = offered
      BY <1>2 DEF PlaceOrder, discount
    <2>2. DOMAIN m.lines # {} /\ TotalOf(m.lines) = m.total /\ m.token # 0
      BY TotalsAgree DEF Announced, Paid, PaidByCard
    <2>3. CASE m.blank
      BY <2>3
    <2>4. ASSUME NEW p \in DOMAIN m.lines, ~ValidLine(m.lines[p])
          PROVE  m.lines[p].price = 0 /\ offered[p] # {}
      <3>1. p \in Products /\ m.lines[p] \in [price : Nat, quantity : 1..MaxStores + 1]
        BY DEF TypeOK, LinesOK, IsLines, ServicesOK
      <3>2. m.lines[p].price = 0
        BY <2>4, <3>1 DEF ValidLine
      <3>3. PICK s \in shown[p] : offered[p] = {} => m.lines[p].price = s
        BY DEF Priced, PricedAsShown, AsShown
      <3>4. s # 0
        BY <3>1, ShoppingBounds DEF TypeOK, ServicesOK
      <3>5. QED
        BY <3>2, <3>3, <3>4
    <2>5. QED
      BY <2>1, <2>2, <2>3, <2>4 DEF Acceptable
  <1>3. rejected' = rejected \/ \E m \in sent : PlaceOrder(m) /\ rejected' = rejected \union {m}
    <2>1. CASE Served
      BY <2>1, ServedLeaves
    <2>2. QED
      BY <2>1 DEF Next, Served, Shop, OpenProduct, LookUp, ReadCart, StoreBasket, Tokenize,
                  Checkout, CallFails, RemoveBasket, PlaceOrder, vars, ordering
  <1>4. QED
    BY <1>1, <1>2, <1>3 DEF OnlyFreeIsRejected

-----------------------------------------------------------------------------
(* Deleted products *)

LEMMA GoneStays == ASSUME TypeOK, Gone, [Next]_vars PROVE Gone'
  <1> USE DEF Gone, GoneForGood
  <1>0. /\ catalog \in [Products -> Prices \union {0}] /\ gone \subseteq used
        /\ editing \in [Editors -> used \union {Unedited}] /\ used \subseteq Products
    BY DEF TypeOK, ServicesOK
  <1>1. CASE UNCHANGED <<catalog, editing, gone>>
    BY <1>1
  <1>2. ASSUME NEW p \in Products, NEW price \in Prices, CreateProduct(p, price) PROVE Gone'
    BY <1>0, <1>2 DEF CreateProduct, StoreProduct
  <1>3. ASSUME NEW p \in Products, DeleteProduct(p) PROVE Gone'
    BY <1>0, <1>3 DEF DeleteProduct, RemoveProduct
  <1>4. ASSUME NEW e \in Editors, NEW p \in Products, LoadProduct(e, p) PROVE Gone'
    BY <1>0, <1>4 DEF LoadProduct, Listed
  <1>5. ASSUME NEW e \in Editors, NEW price \in Prices, UpdateProduct(e, price) PROVE Gone'
    BY <1>0, <1>5 DEF UpdateProduct, StoreProduct
  <1>6. ASSUME NEW e \in Editors, UpdateFails(e) PROVE Gone'
    BY <1>0, <1>6 DEF UpdateFails
  <1>7. ASSUME NEW p \in Products, NEW a, CreateCoupon(p, a) \/ UpdateCoupon(p, a) \/ DeleteCoupon(p)
        PROVE  Gone'
    BY <1>1, <1>7 DEF CreateCoupon, UpdateCoupon, DeleteCoupon, shop
  <1>8. CASE (\E g \in Pages : Shop(g)) \/ RemoveBasket \/ \E m \in sent : PlaceOrder(m)
    BY <1>1, <1>8, ShoppedLeaves
  <1>9. QED
    BY <1>1, <1>2, <1>3, <1>4, <1>5, <1>6, <1>7, <1>8 DEF Next, Edit, vars, shop

-----------------------------------------------------------------------------
(* What a page adds to *)

LEMMA HeldStays ==
    ASSUME TypeOK, Counted, \A g \in Pages : Held(g), [Next]_vars
    PROVE  \A g \in Pages : Held(g)'
  <1>0. /\ stores \in Nat /\ pc \in [Pages -> {"idle", "shown", "storing", "checkout"}]
        /\ \A g \in Pages : hand[g].seen \in 0..stores
    BY ShoppingBounds DEF TypeOK, CountsOK, PagesOK
  <1>1. ASSUME NEW q \in Pages, hand'[q] = hand[q], pc'[q] = "storing" => pc[q] = "storing",
               stores' = stores, basket' = basket \/ basket' = NoLines
        PROVE  Held(q)'
    BY <1>1, EmptyLines DEF Held
  <1>2. ASSUME NEW g \in Pages, ReadCart(g) PROVE \A q \in Pages : Held(q)'
    <2>1. /\ pc[g] = "shown" /\ AddTo(g, basket) /\ UNCHANGED <<used, stores, basket>>
          /\ pc' = [pc EXCEPT ![g] = "storing"]
      BY <1>2 DEF ReadCart, shop, Goto
    <2>2. /\ DOMAIN basket \subseteq DOMAIN hand'[g].lines
          /\ \A p \in DOMAIN basket : basket[p].quantity <= hand'[g].lines[p].quantity
      BY <2>1, AddedLines
    <2>3. \A q \in Pages \ {g} : hand'[q] = hand[q]
      BY <2>1, AddedLines
    <2>4. Held(g)'
      BY <2>1, <2>2 DEF Held
    <2>5. QED
      BY <1>0, <1>1, <2>1, <2>3, <2>4
  <1>3. ASSUME NEW g \in Pages, NEW p \in Products, LookUp(g, p) PROVE \A q \in Pages : Held(q)'
    <2>1. UNCHANGED <<basket, stores, pc>>
      BY <1>3 DEF LookUp
    <2>2. /\ DOMAIN hand'[g].lines = DOMAIN hand[g].lines
          /\ hand'[g].seen = hand[g].seen
          /\ \A q \in Pages \ {g} : hand'[q] = hand[q]
          /\ \A q \in DOMAIN hand[g].lines :
                hand'[g].lines[q].quantity = hand[g].lines[q].quantity
      BY <1>3, LookedUpLines
    <2>3. Held(g)'
      BY <2>1, <2>2 DEF Held
    <2>4. QED
      BY <1>1, <2>1, <2>2, <2>3
  <1>4. ASSUME NEW g \in Pages, StoreBasket(g) PROVE \A q \in Pages : Held(q)'
    <2>1. /\ stores' = stores + 1 /\ hand' = [hand EXCEPT ![g] = Nothing] /\ used' = used
          /\ pc' \in {[pc EXCEPT ![g] = "idle"], [pc EXCEPT ![g] = "shown"]}
      BY <1>4 DEF StoreBasket, shop, Goto
    <2>2. \A q \in Pages \ {g} : hand'[q] = hand[q]
      BY <1>0, <2>1, EmptiedHand
    <2>3. QED
      BY <1>0, <2>1, <2>2 DEF Held
  <1>5. ASSUME NEW g \in Pages, CallFails(g) PROVE \A q \in Pages : Held(q)'
    <2>1. /\ UNCHANGED <<basket, stores, used>> /\ hand' = [hand EXCEPT ![g] = Nothing]
          /\ pc' \in {[pc EXCEPT ![g] = "idle"], [pc EXCEPT ![g] = "shown"]}
      BY <1>5 DEF CallFails, shop, Goto
    <2>2. \A q \in Pages \ {g} : hand'[q] = hand[q]
      BY <1>0, <2>1, EmptiedHand
    <2>3. QED
      BY <1>0, <1>1, <2>1, <2>2 DEF Held
  <1>6. ASSUME NEW g \in Pages,
               Tokenize(g) \/ Checkout(g) \/ \E p \in Products : OpenProduct(g, p)
        PROVE  \A q \in Pages : Held(q)'
    BY <1>0, <1>1, <1>6 DEF Tokenize, Checkout, OpenProduct, Goto
  <1>7. CASE Served
    BY <1>1, <1>7, ServedLeaves
  <1>8. CASE RemoveBasket \/ (\E m \in sent : PlaceOrder(m)) \/ UNCHANGED vars
    BY <1>1, <1>8 DEF RemoveBasket, PlaceOrder, vars, page
  <1>9. QED
    BY <1>2, <1>3, <1>4, <1>5, <1>6, <1>7, <1>8 DEF Next, Served, Shop

-----------------------------------------------------------------------------
(* The invariant and what follows *)

LEMMA InitInvariant == Init => IInv
  <1> SUFFICES ASSUME Init PROVE IInv
    OBVIOUS
  <1>1. TypeOK
    BY InitType
  <1>2. Counted /\ Priced
    BY EmptyLines DEF Init, Counted, Priced, PricedAsShown, Nothing, None
  <1>3. Announced /\ Paid /\ OnlyFreeIsRejected /\ Gone /\ \A g \in Pages : Held(g)
    BY DEF Init, Announced, Paid, PaidByCard, OnlyFreeIsRejected, Gone, GoneForGood, Held
  <1>4. QED
    BY <1>1, <1>2, <1>3 DEF IInv

LEMMA NextInvariant == IInv /\ [Next]_vars => IInv'
  <1> SUFFICES ASSUME IInv, [Next]_vars PROVE IInv'
    OBVIOUS
  <1>1. TypeOK /\ Counted /\ Priced /\ Announced /\ Paid /\ OnlyFreeIsRejected /\ Gone
    BY DEF IInv
  <1>2. \A g \in Pages : Held(g)
    BY DEF IInv
  <1>3. TypeOK' /\ Counted' /\ Priced' /\ Announced'
    BY <1>1, NextType, CountedStays, PricedStays, AnnouncedStays
  <1>4. Paid' /\ OnlyFreeIsRejected' /\ Gone'
    BY <1>1, PaidStays, OnlyFreeStays, GoneStays
  <1>5. \A g \in Pages : Held(g)'
    BY <1>1, <1>2, HeldStays
  <1>6. QED
    BY <1>3, <1>4, <1>5 DEF IInv

\* The inductive invariant: what pages have in hand stands between the catalog's prices,
\* the coupons and the basket (web/src/pages, StoreBasketHandler.Handle).
THEOREM ShoppingInvariant == Spec => []IInv
  BY InitInvariant, NextInvariant, PTL DEF Spec

\* Every state has the shape TypeOK gives it; no line's quantity outgrows the number of
\* baskets stored (addToCart adds one to it).
THEOREM ShoppingTypeCorrect == Spec => []TypeOK
  <1>1. IInv => TypeOK
    BY DEF IInv
  <1>2. QED
    BY <1>1, ShoppingInvariant, PTL

\* What is charged for a line is never negative, never more than a price that was shown,
\* and exactly that if there was no coupon (applyDiscounts holds a price at zero).
THEOREM ShoppingPricedAsShown == Spec => []PricedAsShown
  <1>1. IInv => PricedAsShown
    BY DEF IInv, Priced
  <1>2. QED
    BY <1>1, ShoppingInvariant, PTL

\* A checkout that Basket accepted is rejected by Ordering only for a line that a coupon
\* made free or for a text of blanks (CheckoutHandler.orderFrom).
THEOREM ShoppingOnlyFreeIsRejected == Spec => []OnlyFreeIsRejected
  <1>1. IInv => OnlyFreeIsRejected
    BY DEF IInv
  <1>2. QED
    BY <1>1, ShoppingInvariant, PTL

\* Each checkout refers to a stored card: the token is answered after the card is stored
\* (TokenizeCardHandler.Handle).
THEOREM ShoppingPaidByCard == Spec => []PaidByCard
  <1>1. IInv => PaidByCard
    BY DEF IInv, Paid
  <1>2. QED
    BY <1>1, ShoppingInvariant, PTL

\* A product deleted while no update of it is in progress stays deleted: an update loads
\* before it stores (UpdateProductHandler.Handle).
THEOREM ShoppingGoneForGood == Spec => []GoneForGood
  <1>1. IInv => GoneForGood
    BY DEF IInv, Gone
  <1>2. QED
    BY <1>1, ShoppingInvariant, PTL

\* A page that stores a basket drops no line and no quantity, unless another stored one
\* since this one read it (addToCart posts all of the lines it read and the new one).
THEOREM ShoppingNothingDropsOut == Spec => NothingDropsOut
  <1> DEFINE Kept(g) ==
               pc[g] = "storing" /\ stores' # stores /\ hand[g].seen = stores /\ pc'[g] # pc[g]
               => \A p \in DOMAIN basket :
                     p \in DOMAIN basket' /\ basket'[p].quantity >= basket[p].quantity
  <1>1. ASSUME IInv, [Next]_vars, NEW g \in Pages PROVE Kept(g)
    <2>1. CASE stores' = stores
      BY <2>1
    <2>2. ASSUME NEW h \in Pages, StoreBasket(h) PROVE Kept(g)
      <3>1. basket' = hand[h].lines /\ \A q \in Pages \ {h} : pc'[q] = pc[q]
        BY <1>1, <2>2 DEF StoreBasket, Goto, IInv, TypeOK, PagesOK
      <3>2. CASE g = h
        BY <1>1, <3>1, <3>2 DEF IInv, Held
      <3>3. QED
        BY <3>1, <3>2
    <2>3. stores' = stores \/ \E h \in Pages : StoreBasket(h)
      <3>1. CASE Served
        BY <3>1, ServedLeaves
      <3>2. QED
        BY <1>1, <3>1 DEF Next, Served, Shop, OpenProduct, LookUp, ReadCart, Tokenize, Checkout,
                          CallFails, RemoveBasket, PlaceOrder, vars
    <2>4. QED
      BY <2>1, <2>2, <2>3
  <1>2. IInv /\ [Next]_vars => [\A g \in Pages : Kept(g)]_vars
    BY <1>1
  <1>3. QED
    BY <1>2, ShoppingInvariant, PTL DEF Spec, NothingDropsOut
=============================================================================
