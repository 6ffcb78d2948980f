---------------------------- MODULE OrdersProofs ----------------------------
(***************************************************************************)
(* Proofs about Orders for any number of orders, jobs, articles, receipts  *)
(* and requests: no job is charged twice and no stock is lost or sold      *)
(* twice. The commands fall into three groups. Money (receipts, reversals, *)
(* requests) changes no order, claim or stock. Edits of an order that is   *)
(* not finalized touch no claim but a free one or its own. Only Finalized  *)
(* and Reversed move claims and stock of a finalized order. Every command  *)
(* is a chain of such changes, so the first half, jobs and stock, has a    *)
(* lemma per helper of the transactions and none looks into the amounts.   *)
(*                                                                         *)
(* The second half is the money: what is allocated to an order is a sum    *)
(* over the receipts, and every helper moves it by what its receipt is     *)
(* worth. The accounts of an order fit in every intermediate database of a *)
(* command except between the two halves of a reallocation.                *)
(***************************************************************************)
EXTENDS Orders, FiniteSetTheorems, NumberFacts, TLAPS

-----------------------------------------------------------------------------
(* The inductive invariant, of any database *)

\* The database is a record of the six tables.
IsTables(d) == d = [order |-> d.order, claim |-> d.claim, loose |-> d.loose, payments |-> d.payments,
                    request |-> d.request, version |-> d.version]

\* The types of the tables that jobs and stock depend on.
Typed(d) ==
    /\ IsTables(d)
    /\ d.order \in [OrderId -> OrderRow]
    /\ d.claim \in [Job -> OrderId \cup {NoOrder}]
    /\ d.loose \in [Article -> 0..LooseStock]
    /\ d.version \in [Job -> 1..MaxVersion]

\* JobChargedOnce, of a database: every job of a finalized order is claimed by
\* it.
Charged(d) ==
    \A o \in OrderId, j \in Job : d.order[o].status = "finalized" /\ j \in d.order[o].items => d.claim[j] = o

\* The orders that hold a sale of the article.
Sellers(d, a) == {o \in OrderId : a \in d.order[o].sold}

\* StockConserved, of a database.
Stocked(d) ==
    /\ \A a \in Article : d.loose[a] + Cardinality(Sellers(d, a)) = LooseStock
    /\ \A o \in OrderId :
         d.order[o].sold = IF d.order[o].status = "finalized" THEN d.order[o].items \cap Article ELSE {}

\* Jobs and stock are booked right. Charged and Stocked hold in the
\* intermediate databases of a command too, which is why they are about any
\* database.
Books(d) == Typed(d) /\ Charged(d) /\ Stocked(d)

\* The inductive invariant.
IndInv == Books(db)

-----------------------------------------------------------------------------
(* What a change of the database can be *)

\* From d to e at most payments and requests change.
MoneyOnly(d, e) ==
    /\ IsTables(e)
    /\ e.order = d.order /\ e.claim = d.claim /\ e.loose = d.loose /\ e.version = d.version

\* From d to e order o gets the given row and nothing else changes.
RowOnly(d, e, o, row) ==
    /\ Typed(e)
    /\ e.order[o] = row /\ \A x \in OrderId \ {o} : e.order[x] = d.order[x]
    /\ e.claim = d.claim /\ e.loose = d.loose /\ e.version = d.version

\* From d to e only order o changes, which is finalized in neither, and no
\* claim but a free one or its own.
DraftEdit(d, e, o) ==
    /\ Typed(e) /\ e.loose = d.loose
    /\ \A x \in OrderId \ {o} : e.order[x] = d.order[x]
    /\ d.order[o].status # "finalized" /\ e.order[o].status # "finalized"
    /\ e.order[o].sold = d.order[o].sold
    /\ \A j \in Job : d.claim[j] \notin {NoOrder, o} => e.claim[j] = d.claim[j]

\* From d to e order o is finalized: its jobs, unclaimed or its own, become
\* its claims, its articles leave the loose stock.
Sale(d, e, o) ==
    /\ Typed(e)
    /\ \A x \in OrderId \ {o} : e.order[x] = d.order[x]
    /\ d.order[o].status # "finalized" /\ e.order[o].status = "finalized"
    /\ e.order[o].items = d.order[o].items /\ e.order[o].total = ItemsTotal(e.order[o].items)
    /\ e.order[o].sold = e.order[o].items \cap Article
    /\ \A j \in e.order[o].items \cap Job : d.claim[j] \in {NoOrder, o} /\ e.claim[j] = o
    /\ \A j \in Job \ e.order[o].items : e.claim[j] = d.claim[j]
    /\ \A a \in Article : e.loose[a] = IF a \in e.order[o].items THEN d.loose[a] - 1 ELSE d.loose[a]

\* From d to e the finalized order o gives up its claims and returns its
\* stock.
SaleUndone(d, e, o) ==
    /\ Typed(e)
    /\ \A x \in OrderId \ {o} : e.order[x] = d.order[x]
    /\ d.order[o].status = "finalized" /\ e.order[o].status # "finalized"
    /\ e.order[o].sold = {}
    /\ \A j \in Job : d.claim[j] # o => e.claim[j] = d.claim[j]
    /\ \A a \in Article : e.loose[a] = IF a \in d.order[o].sold THEN d.loose[a] + 1 ELSE d.loose[a]

\* The three changes that filling a draft consists of.
Filled(d, o, items, captured, claim) ==
    [d EXCEPT !.order[o].items = items, !.order[o].captured = captured, !.claim = claim]

-----------------------------------------------------------------------------
(* Changes of money *)

\* Money leaves the books alone.
LEMMA MoneyKeepsBooks ==
    ASSUME NEW d, NEW e, Books(d), MoneyOnly(d, e)
    PROVE  Books(e)
<1>1. Typed(e)
  BY DEF Books, Typed, MoneyOnly
<1>2. Charged(e)
  BY DEF Books, Charged, MoneyOnly
<1>3. \A a : Sellers(e, a) = Sellers(d, a)
  BY DEF Sellers, MoneyOnly
<1>4. Stocked(e)
  BY <1>3 DEF Books, Stocked, MoneyOnly
<1> QED BY <1>1, <1>2, <1>4 DEF Books

\* Assigning payments or requests is money only.
LEMMA MoneyFields ==
    ASSUME NEW d, IsTables(d), NEW x, NEW o, NEW p
    PROVE  /\ MoneyOnly(d, d)
           /\ MoneyOnly(d, [d EXCEPT !.payments = x])
           /\ MoneyOnly(d, [d EXCEPT !.request = x])
           /\ MoneyOnly(d, [d EXCEPT !.request[o] = x])
           /\ MoneyOnly(d, [d EXCEPT !.request[o].alreadyPaid = x])
           /\ MoneyOnly(d, [d EXCEPT !.request[o].state = x])
<1>1. MoneyOnly(d, d)
  BY DEF MoneyOnly
<1>2. MoneyOnly(d, [d EXCEPT !.payments = x])
  BY DEF IsTables, MoneyOnly
<1>3. MoneyOnly(d, [d EXCEPT !.request = x])
  BY DEF IsTables, MoneyOnly
<1>4. MoneyOnly(d, [d EXCEPT !.request[o] = x])
  BY DEF IsTables, MoneyOnly
<1>5. MoneyOnly(d, [d EXCEPT !.request[o].alreadyPaid = x])
  BY DEF IsTables, MoneyOnly
<1>6. MoneyOnly(d, [d EXCEPT !.request[o].state = x])
  BY DEF IsTables, MoneyOnly
<1> QED BY <1>1, <1>2, <1>3, <1>4, <1>5, <1>6

\* Money only, twice.
LEMMA MoneyChain ==
    ASSUME NEW d, NEW e, NEW f, MoneyOnly(d, e), MoneyOnly(e, f)
    PROVE  MoneyOnly(d, f)
BY DEF MoneyOnly

\* SyncAlreadyPaid is money only.
LEMMA Synchronized ==
    ASSUME NEW d, IsTables(d), NEW o
    PROVE  MoneyOnly(d, SyncAlreadyPaid(d, o))
BY MoneyFields DEF SyncAlreadyPaid

\* Money only, then SyncAlreadyPaid.
LEMMA Changed ==
    ASSUME NEW d, NEW e, NEW o, MoneyOnly(d, e)
    PROVE  MoneyOnly(d, SyncAlreadyPaid(e, o))
<1>1. IsTables(e)
  BY DEF MoneyOnly
<1> QED BY <1>1, Synchronized, MoneyChain

\* The helpers of receipts, reversals and requests are money only.
LEMMA MoneySteps ==
    ASSUME NEW d, IsTables(d), NEW o, NEW S, NEW a, NEW r, NEW p, NEW state
    PROVE  /\ MoneyOnly(d, ReceivedIfAny(d, o, a)) /\ MoneyOnly(d, Received(d, o, a))
           /\ MoneyOnly(d, ReceiptReversed(d, p, o)) /\ MoneyOnly(d, AllReversed(d, S, o))
           /\ MoneyOnly(d, Detached(d, S, o)) /\ MoneyOnly(d, Moved(d, S, r))
           /\ MoneyOnly(d, ToState(d, o, state))
<1>1. MoneyOnly(d, Received(d, o, a))
  BY MoneyFields, Changed DEF Received
<1>2. MoneyOnly(d, ReceivedIfAny(d, o, a))
  BY <1>1, MoneyFields DEF ReceivedIfAny
<1>3. MoneyOnly(d, ReceiptReversed(d, p, o))
  <2> DEFINE payments == [d.payments EXCEPT ![p] = RowReversed(d.payments[p], o)]
             e == [d EXCEPT !.payments = payments]
  <2>1. MoneyOnly(d, e)
    BY MoneyFields
  <2>2. ReceiptReversed(d, p, o) = SyncAlreadyPaid(e, o)
    BY DEF ReceiptReversed
  <2> QED BY <2>1, <2>2, Changed
<1>4. MoneyOnly(d, AllReversed(d, S, o))
  BY MoneyFields, Changed DEF AllReversed
<1>5. MoneyOnly(d, Detached(d, S, o)) /\ MoneyOnly(d, Moved(d, S, r))
  BY MoneyFields DEF Detached, Moved
<1>6. MoneyOnly(d, ToState(d, o, state))
  BY MoneyFields, Changed DEF ToState
<1> QED BY <1>1, <1>2, <1>3, <1>4, <1>5, <1>6

-----------------------------------------------------------------------------
(* Constants *)

\* What follows from the assumptions on the constants.
LEMMA Constants ==
    /\ 0 \notin OrderId /\ NoOrder = 0 /\ OrderId \subseteq Nat
    /\ Job \subseteq Item /\ Article \subseteq Item /\ IsFiniteSet(Item) /\ IsFiniteSet(OrderId)
    /\ \A items \in SUBSET Item : ItemsTotal(items) \in Nat
<1>1. 0 \notin OrderId /\ NoOrder = 0 /\ OrderId \subseteq Nat
  BY OrdersAssumption DEF OrderId, NoOrder
<1>2. IsFiniteSet(Item)
  BY OrdersAssumption, FS_Union DEF Item
<1>3. IsFiniteSet(OrderId)
  BY OrdersAssumption, FS_Interval DEF OrderId
<1>4. ASSUME NEW items \in SUBSET Item PROVE ItemsTotal(items) \in Nat
  <2>1. IsFiniteSet(items \ Manual)
    BY <1>2, FS_Subset
  <2> QED BY <2>1, FS_CardinalityType DEF ItemsTotal
<1> QED BY <1>1, <1>2, <1>3, <1>4 DEF Item

\* The next order is unused.
LEMMA Smallest ==
    ASSUME NEW d, Unused(d) # {}
    PROVE  Min(Unused(d)) \in OrderId /\ d.order[Min(Unused(d))].status = "none"
<1>1. PICK n \in Unused(d) : \A m \in Unused(d) : n <= m
  <2>1. Unused(d) \subseteq Nat /\ \E n \in Nat : n \in Unused(d)
    BY Constants DEF Unused
  <2> QED BY <2>1, LeastNatural
<1>2. Min(Unused(d)) \in Unused(d)
  BY <1>1 DEF Min
<1> QED BY <1>2 DEF Unused

-----------------------------------------------------------------------------
(* The three other changes keep the books *)

\* The orders that sold an article can be counted.
LEMMA SellersFinite ==
    ASSUME NEW d, NEW a
    PROVE  IsFiniteSet(Sellers(d, a)) /\ Cardinality(Sellers(d, a)) \in Nat
<1>1. IsFiniteSet(Sellers(d, a))
  BY Constants, FS_Subset DEF Sellers
<1> QED BY <1>1, FS_CardinalityType

\* Edits of a draft keep the books.
LEMMA DraftEditKeepsBooks ==
    ASSUME NEW d, NEW e, NEW o \in OrderId, Books(d), DraftEdit(d, e, o)
    PROVE  Books(e)
<1>1. Charged(e)
  BY Constants DEF Books, Charged, Typed, DraftEdit
<1>2. ASSUME NEW a \in Article PROVE Sellers(e, a) = Sellers(d, a)
  BY DEF Sellers, DraftEdit
<1>3. Stocked(e)
  BY <1>2 DEF Books, Stocked, Typed, DraftEdit
<1> QED BY <1>1, <1>3 DEF Books, DraftEdit

\* A sale keeps the books: claims of other finalized orders were in nobody's
\* way, and every unit sold left the stock.
LEMMA SaleKeepsBooks ==
    ASSUME NEW d, NEW e, NEW o \in OrderId, Books(d), Sale(d, e, o)
    PROVE  Books(e)
<1>1. Charged(e)
  BY Constants DEF Books, Charged, Typed, Sale
<1>2. ASSUME NEW a \in Article PROVE e.loose[a] + Cardinality(Sellers(e, a)) = LooseStock
  <2>1. d.order[o].sold = {} /\ d.loose[a] + Cardinality(Sellers(d, a)) = LooseStock
    <3>1. d.loose[a] + Cardinality(Sellers(d, a)) = LooseStock
      BY DEF Books, Stocked
    <3>2. d.order[o].sold = IF d.order[o].status = "finalized" THEN d.order[o].items \cap Article ELSE {}
      BY DEF Books, Stocked
    <3> QED BY <3>1, <3>2 DEF Sale
  <2>2. CASE a \in e.order[o].items
    <3>1. Sellers(e, a) = Sellers(d, a) \cup {o} /\ o \notin Sellers(d, a)
      BY <2>1, <2>2 DEF Sellers, Sale
    <3>2. Cardinality(Sellers(e, a)) = Cardinality(Sellers(d, a)) + 1
      BY <3>1, SellersFinite, FS_AddElement
    <3>3. e.loose[a] = d.loose[a] - 1 /\ d.loose[a] \in Int
      BY <2>2 DEF Sale, Books, Typed
    <3> QED BY <2>1, <3>2, <3>3, SellersFinite
  <2>3. CASE a \notin e.order[o].items
    <3>1. Sellers(e, a) = Sellers(d, a)
      BY <2>1, <2>3 DEF Sellers, Sale
    <3> QED BY <2>1, <2>3, <3>1 DEF Sale
  <2> QED BY <2>2, <2>3
<1>3. Stocked(e)
  <2>1. ASSUME NEW x \in OrderId
        PROVE  e.order[x].sold = IF e.order[x].status = "finalized" THEN e.order[x].items \cap Article ELSE {}
    <3>1. d.order[x].sold = IF d.order[x].status = "finalized" THEN d.order[x].items \cap Article ELSE {}
      BY DEF Books, Stocked
    <3>2. CASE x = o
      BY <3>2 DEF Sale
    <3>3. CASE x # o
      BY <3>1, <3>3 DEF Sale
    <3> QED BY <3>2, <3>3
  <2> QED BY <1>2, <2>1 DEF Stocked
<1> QED BY <1>1, <1>3 DEF Books, Sale

\* A sale undone keeps the books.
LEMMA SaleUndoneKeepsBooks ==
    ASSUME NEW d, NEW e, NEW o \in OrderId, Books(d), SaleUndone(d, e, o)
    PROVE  Books(e)
<1>1. Charged(e)
  BY Constants DEF Books, Charged, Typed, SaleUndone
<1>2. ASSUME NEW a \in Article PROVE e.loose[a] + Cardinality(Sellers(e, a)) = LooseStock
  <2>1. d.loose[a] + Cardinality(Sellers(d, a)) = LooseStock
    BY DEF Books, Stocked
  <2>2. CASE a \in d.order[o].sold
    <3>1. Sellers(d, a) = Sellers(e, a) \cup {o} /\ o \notin Sellers(e, a)
      BY <2>2 DEF Sellers, SaleUndone
    <3>2. Cardinality(Sellers(d, a)) = Cardinality(Sellers(e, a)) + 1
      BY <3>1, SellersFinite, FS_AddElement
    <3>3. e.loose[a] = d.loose[a] + 1 /\ d.loose[a] \in Int
      BY <2>2 DEF SaleUndone, Books, Typed
    <3> QED BY <2>1, <3>2, <3>3, SellersFinite
  <2>3. CASE a \notin d.order[o].sold
    <3>1. Sellers(e, a) = Sellers(d, a)
      BY <2>3 DEF Sellers, SaleUndone
    <3> QED BY <2>1, <2>3, <3>1 DEF SaleUndone
  <2> QED BY <2>2, <2>3
<1>3. Stocked(e)
  <2>1. ASSUME NEW x \in OrderId
        PROVE  e.order[x].sold = IF e.order[x].status = "finalized" THEN e.order[x].items \cap Article ELSE {}
    <3>1. d.order[x].sold = IF d.order[x].status = "finalized" THEN d.order[x].items \cap Article ELSE {}
      BY DEF Books, Stocked
    <3>2. CASE x = o
      BY <3>2 DEF SaleUndone
    <3>3. CASE x # o
      BY <3>1, <3>3 DEF SaleUndone
    <3> QED BY <3>2, <3>3
  <2> QED BY <1>2, <2>1 DEF Stocked
<1> QED BY <1>1, <1>3 DEF Books, SaleUndone

-----------------------------------------------------------------------------
(* Edits of a draft, field by field *)

\* Giving an order a row of the right type.
LEMMA RowSet ==
    ASSUME NEW d, Typed(d), NEW o \in OrderId, NEW row \in OrderRow,
           NEW e, e = [d EXCEPT !.order = [d.order EXCEPT ![o] = row]]
    PROVE  RowOnly(d, e, o, row)
<1> DEFINE orders == [d.order EXCEPT ![o] = row]
<1>1. orders \in [OrderId -> OrderRow] /\ orders[o] = row /\ \A x \in OrderId \ {o} : orders[x] = d.order[x]
  BY DEF Typed
<1>2. IsTables(e) /\ e.order = orders /\ e.claim = d.claim /\ e.loose = d.loose /\ e.version = d.version
  BY DEF Typed, IsTables
<1> QED BY <1>1, <1>2 DEF RowOnly, Typed

\* Assigning one field of an order.
LEMMA RowFields ==
    ASSUME NEW d, Typed(d), NEW o \in OrderId
    PROVE  /\ \A x \in {"none", "draft", "cancelled", "finalized", "reversed"} :
                RowOnly(d, [d EXCEPT !.order[o].status = x], o, [d.order[o] EXCEPT !.status = x])
           /\ \A x \in BOOLEAN :
                RowOnly(d, [d EXCEPT !.order[o].anonymous = x], o, [d.order[o] EXCEPT !.anonymous = x])
           /\ \A x \in SUBSET Item :
                RowOnly(d, [d EXCEPT !.order[o].items = x], o, [d.order[o] EXCEPT !.items = x])
           /\ \A x \in [Job -> 0..MaxVersion] :
                RowOnly(d, [d EXCEPT !.order[o].captured = x], o, [d.order[o] EXCEPT !.captured = x])
           /\ \A x \in OrderId \cup {NoOrder} :
                RowOnly(d, [d EXCEPT !.order[o].replaces = x], o, [d.order[o] EXCEPT !.replaces = x])
           /\ \A x \in Nat :
                RowOnly(d, [d EXCEPT !.order[o].total = x], o, [d.order[o] EXCEPT !.total = x])
           /\ \A x \in SUBSET Article :
                RowOnly(d, [d EXCEPT !.order[o].sold = x], o, [d.order[o] EXCEPT !.sold = x])
<1>1. d.order[o] \in OrderRow
  BY DEF Typed
<1>2. ASSUME NEW x \in {"none", "draft", "cancelled", "finalized", "reversed"}
      PROVE  RowOnly(d, [d EXCEPT !.order[o].status = x], o, [d.order[o] EXCEPT !.status = x])
  <2>1. [d.order[o] EXCEPT !.status = x] \in OrderRow
    BY <1>1 DEF OrderRow
  <2> QED BY <2>1, RowSet
<1>3. ASSUME NEW x \in BOOLEAN
      PROVE  RowOnly(d, [d EXCEPT !.order[o].anonymous = x], o, [d.order[o] EXCEPT !.anonymous = x])
  <2>1. [d.order[o] EXCEPT !.anonymous = x] \in OrderRow
    BY <1>1 DEF OrderRow
  <2> QED BY <2>1, RowSet
<1>4. ASSUME NEW x \in SUBSET Item
      PROVE  RowOnly(d, [d EXCEPT !.order[o].items = x], o, [d.order[o] EXCEPT !.items = x])
  <2>1. [d.order[o] EXCEPT !.items = x] \in OrderRow
    BY <1>1 DEF OrderRow
  <2> QED BY <2>1, RowSet
<1>5. ASSUME NEW x \in [Job -> 0..MaxVersion]
      PROVE  RowOnly(d, [d EXCEPT !.order[o].captured = x], o, [d.order[o] EXCEPT !.captured = x])
  <2>1. [d.order[o] EXCEPT !.captured = x] \in OrderRow
    BY <1>1 DEF OrderRow
  <2> QED BY <2>1, RowSet
<1>6. ASSUME NEW x \in OrderId \cup {NoOrder}
      PROVE  RowOnly(d, [d EXCEPT !.order[o].replaces = x], o, [d.order[o] EXCEPT !.replaces = x])
  <2>1. [d.order[o] EXCEPT !.replaces = x] \in OrderRow
    BY <1>1 DEF OrderRow
  <2> QED BY <2>1, RowSet
<1>7. ASSUME NEW x \in Nat
      PROVE  RowOnly(d, [d EXCEPT !.order[o].total = x], o, [d.order[o] EXCEPT !.total = x])
  <2>1. [d.order[o] EXCEPT !.total = x] \in OrderRow
    BY <1>1 DEF OrderRow
  <2> QED BY <2>1, RowSet
<1>8. ASSUME NEW x \in SUBSET Article
      PROVE  RowOnly(d, [d EXCEPT !.order[o].sold = x], o, [d.order[o] EXCEPT !.sold = x])
  <2>1. [d.order[o] EXCEPT !.sold = x] \in OrderRow
    BY <1>1 DEF OrderRow
  <2> QED BY <2>1, RowSet
<1> QED BY <1>2, <1>3, <1>4, <1>5, <1>6, <1>7, <1>8

\* Two changes of one row.
LEMMA RowChain ==
    ASSUME NEW d, NEW e, NEW f, NEW o, NEW row1, NEW row2, RowOnly(d, e, o, row1), RowOnly(e, f, o, row2)
    PROVE  RowOnly(d, f, o, row2)
BY DEF RowOnly

\* Changing the row of a draft is a draft edit.
LEMMA DraftRow ==
    ASSUME NEW d, NEW e, NEW o, NEW row, RowOnly(d, e, o, row),
           d.order[o].status # "finalized", row.status # "finalized", row.sold = d.order[o].sold
    PROVE  DraftEdit(d, e, o)
BY DEF RowOnly, DraftEdit

\* Claiming what is free, or releasing what is one's own, is a draft edit.
LEMMA DraftClaim ==
    ASSUME NEW d, NEW o \in OrderId, Typed(d), d.order[o].status # "finalized",
           NEW claim \in [Job -> OrderId \cup {NoOrder}],
           \A j \in Job : d.claim[j] \notin {NoOrder, o} => claim[j] = d.claim[j]
    PROVE  DraftEdit(d, [d EXCEPT !.claim = claim], o)
<1> DEFINE e == [d EXCEPT !.claim = claim]
<1>1. Typed(e) /\ e.order = d.order /\ e.claim = claim /\ e.loose = d.loose
  BY DEF Typed, IsTables
<1> QED BY <1>1 DEF DraftEdit

\* Two draft edits are one.
LEMMA DraftChain ==
    ASSUME NEW d, NEW e, NEW f, NEW o, DraftEdit(d, e, o), DraftEdit(e, f, o)
    PROVE  DraftEdit(d, f, o)
BY DEF DraftEdit

\* Created is a draft edit.
LEMMA CreatedEdit ==
    ASSUME NEW d, NEW o \in OrderId, Typed(d), d.order[o].status = "none",
           NEW anonymous \in BOOLEAN, NEW replaces \in OrderId \cup {NoOrder}
    PROVE  /\ DraftEdit(d, Created(d, o, anonymous, replaces), o)
           /\ Created(d, o, anonymous, replaces).order[o].status = "draft"
           /\ Created(d, o, anonymous, replaces).claim = d.claim
           /\ Created(d, o, anonymous, replaces).version = d.version
<1> DEFINE e1 == [d EXCEPT !.order[o].status = "draft"]
           e2 == [e1 EXCEPT !.order[o].anonymous = anonymous]
           e3 == [e2 EXCEPT !.order[o].replaces = replaces]
           row1 == [d.order[o] EXCEPT !.status = "draft"]
           row2 == [row1 EXCEPT !.anonymous = anonymous]
           row3 == [row2 EXCEPT !.replaces = replaces]
<1>1. Created(d, o, anonymous, replaces) = e3
  BY DEF Created
<1>2. RowOnly(d, e1, o, row1)
  BY RowFields
<1>3. RowOnly(e1, e2, o, row2)
  <2>1. Typed(e1) /\ e1.order[o] = row1
    BY <1>2 DEF RowOnly
  <2> HIDE DEF e1, row1
  <2> QED BY <2>1, RowFields
<1>4. RowOnly(e2, e3, o, row3)
  <2>1. Typed(e2) /\ e2.order[o] = row2
    BY <1>3 DEF RowOnly
  <2> HIDE DEF e2, row2
  <2> QED BY <2>1, RowFields
<1>5. RowOnly(d, e3, o, row3)
  BY <1>2, <1>3, <1>4, RowChain
<1>6. row3.status = "draft" /\ row3.sold = d.order[o].sold
  <2>1. d.order[o] \in OrderRow
    BY DEF Typed
  <2> QED BY <2>1 DEF OrderRow
<1>7. DraftEdit(d, e3, o)
  <2> HIDE DEF e3, row3
  <2> QED BY <1>5, <1>6, DraftRow
<1>8. e3.order[o].status = "draft" /\ e3.claim = d.claim /\ e3.version = d.version
  <2> HIDE DEF e3, row3
  <2> QED BY <1>5, <1>6 DEF RowOnly
<1> HIDE DEF e3
<1> QED BY <1>1, <1>7, <1>8

\* Filling a draft is a draft edit.
LEMMA FillEdit ==
    ASSUME NEW d, NEW o \in OrderId, Typed(d), d.order[o].status = "draft",
           NEW items \in SUBSET Item, NEW captured \in [Job -> 0..MaxVersion],
           NEW claim \in [Job -> OrderId \cup {NoOrder}],
           \A j \in Job : d.claim[j] \notin {NoOrder, o} => claim[j] = d.claim[j],
           NEW e, e = Filled(d, o, items, captured, claim)
    PROVE  /\ DraftEdit(d, e, o) /\ e.order[o].status = "draft"
           /\ e.order[o].items = items /\ e.claim = claim
           /\ e.order[o].replaces = d.order[o].replaces /\ e.version = d.version
<1> DEFINE e1 == [d EXCEPT !.order[o].items = items]
           e2 == [e1 EXCEPT !.order[o].captured = captured]
           e3 == [e2 EXCEPT !.claim = claim]
           row1 == [d.order[o] EXCEPT !.items = items]
           row2 == [row1 EXCEPT !.captured = captured]
<1>1. e = e3
  BY DEF Filled
<1>2. RowOnly(d, e1, o, row1)
  BY RowFields
<1>3. RowOnly(e1, e2, o, row2)
  <2>1. Typed(e1) /\ e1.order[o] = row1
    BY <1>2 DEF RowOnly
  <2> HIDE DEF e1, row1
  <2> QED BY <2>1, RowFields
<1>4. RowOnly(d, e2, o, row2)
  BY <1>2, <1>3, RowChain
<1>5. row2.status = "draft" /\ row2.sold = d.order[o].sold /\ row2.items = items /\ row2.replaces = d.order[o].replaces
  <2>1. d.order[o] \in OrderRow
    BY DEF Typed
  <2> QED BY <2>1 DEF OrderRow
<1>6. DraftEdit(d, e2, o)
  <2> HIDE DEF e2, row2
  <2> QED BY <1>4, <1>5, DraftRow
<1>7. Typed(e2) /\ e2.order[o] = row2 /\ e2.claim = d.claim /\ e2.version = d.version
  <2> HIDE DEF e2, row2
  <2> QED BY <1>4 DEF RowOnly
<1>8. /\ DraftEdit(e2, e3, o) /\ e3.order = e2.order /\ e3.claim = claim /\ e3.version = e2.version
  <2> HIDE DEF e2, row2
  <2>1. DraftEdit(e2, e3, o)
    BY <1>5, <1>7, DraftClaim
  <2> QED BY <2>1, <1>7 DEF Typed, IsTables
<1> HIDE DEF e2, e3, row2
<1> QED BY <1>1, <1>5, <1>6, <1>7, <1>8, DraftChain

\* The types of an order's fields.
LEMMA RowTypes ==
    ASSUME NEW d, Typed(d), NEW o \in OrderId
    PROVE  /\ d.order[o].items \in SUBSET Item
           /\ d.order[o].captured \in [Job -> 0..MaxVersion]
           /\ d.order[o].replaces \in OrderId \cup {NoOrder}
           /\ d.order[o].anonymous \in BOOLEAN
           /\ d.order[o].sold \in SUBSET Article
           /\ d.claim \in [Job -> OrderId \cup {NoOrder}]
           /\ \A j \in Job : d.version[j] \in 0..MaxVersion
<1>1. d.order[o] \in OrderRow
  BY DEF Typed
<1>2. \A j \in Job : d.version[j] \in 0..MaxVersion
  BY OrdersAssumption DEF Typed
<1> QED BY <1>1, <1>2 DEF OrderRow, Typed

\* Inserted is a draft edit.
LEMMA InsertedEdit ==
    ASSUME NEW d, NEW o \in OrderId, NEW i \in Item, Typed(d), d.order[o].status = "draft"
    PROVE  DraftEdit(d, Inserted(d, o, i), o)
<1> DEFINE items == d.order[o].items \cup {i}
<1>1. items \in SUBSET Item
  BY RowTypes
<1>2. CASE i \notin Job
  <2> DEFINE e == [d EXCEPT !.order[o].items = items]
             row == [d.order[o] EXCEPT !.items = items]
  <2>1. Inserted(d, o, i) = e
    BY <1>2 DEF Inserted
  <2>2. RowOnly(d, e, o, row)
    BY <1>1, RowFields
  <2>3. row.status = "draft" /\ row.sold = d.order[o].sold
    <3>1. d.order[o] \in OrderRow
      BY DEF Typed
    <3> QED BY <3>1 DEF OrderRow
  <2>4. DraftEdit(d, e, o)
    <3> HIDE DEF e, row
    <3> QED BY <2>2, <2>3, DraftRow
  <2> QED BY <2>1, <2>4
<1>3. CASE i \in Job
  <2> DEFINE captured == [d.order[o].captured EXCEPT ![i] = d.version[i]]
             claim == [d.claim EXCEPT ![i] = IF d.claim[i] = NoOrder THEN o ELSE d.claim[i]]
             e == [d EXCEPT !.order[o].items = items, !.order[o].captured = captured, !.claim = claim]
             e1 == [d EXCEPT !.order[o].items = items]
             e2 == [e1 EXCEPT !.order[o].captured[i] = d.version[i]]
             f2 == [e1 EXCEPT !.order[o].captured = captured]
             e3 == [e2 EXCEPT !.claim[i] = IF e2.claim[i] = NoOrder THEN o ELSE e2.claim[i]]
             f3 == [f2 EXCEPT !.claim = claim]
  <2>1. Inserted(d, o, i) = e3
    BY <1>3 DEF Inserted
  <2>2. captured \in [Job -> 0..MaxVersion] /\ claim \in [Job -> OrderId \cup {NoOrder}]
    BY <1>3, RowTypes
  <2>3. \A j \in Job : d.claim[j] \notin {NoOrder, o} => claim[j] = d.claim[j]
    BY RowTypes
  <2>4. e2 = f2 /\ e2.claim = d.claim
    <3>1. RowOnly(d, e1, o, [d.order[o] EXCEPT !.items = items])
      BY <1>1, RowFields
    <3>2. e1.order[o].captured = d.order[o].captured /\ e1.claim = d.claim
      <4>1. d.order[o] \in OrderRow
        BY DEF Typed
      <4> HIDE DEF e1
      <4> QED BY <3>1, <4>1 DEF RowOnly, OrderRow
    <3>3. e2 = [e1 EXCEPT !.order[o].captured = [e1.order[o].captured EXCEPT ![i] = d.version[i]]]
      OBVIOUS
    <3>4. Typed(e1)
      BY <3>1 DEF RowOnly
    <3>5. e2.claim = e1.claim
      <4> HIDE DEF e1
      <4> QED BY <3>4 DEF Typed, IsTables
    <3> QED BY <3>2, <3>3, <3>5
  <2>5. e3 = f3
    BY <2>4
  <2>6. e = f3 /\ e = Filled(d, o, items, captured, claim)
    BY DEF Filled
  <2>7. DraftEdit(d, e, o)
    <3> HIDE DEF e, items, captured, claim
    <3> QED BY <1>1, <2>2, <2>3, <2>6, FillEdit
  <2> QED BY <2>1, <2>5, <2>6, <2>7
<1> QED BY <1>2, <1>3

\* Removed is a draft edit.
LEMMA RemovedEdit ==
    ASSUME NEW d, NEW o \in OrderId, NEW i \in Item, Typed(d), d.order[o].status = "draft"
    PROVE  DraftEdit(d, Removed(d, o, i), o) /\ Removed(d, o, i).order[o].status = "draft"
<1> DEFINE items == d.order[o].items \ {i}
           captured == [j \in Job |-> IF j = i THEN 0 ELSE d.order[o].captured[j]]
           claim == [j \in Job |-> IF j = i /\ d.claim[j] = o THEN NoOrder ELSE d.claim[j]]
           e == [d EXCEPT !.order[o].items = items, !.order[o].captured = captured, !.claim = claim]
<1>1. Removed(d, o, i) = e
  BY DEF Removed
<1>2. items \in SUBSET Item
  BY RowTypes
<1>3. captured \in [Job -> 0..MaxVersion]
  BY RowTypes, OrdersAssumption
<1>4. claim \in [Job -> OrderId \cup {NoOrder}]
  BY RowTypes
<1>5. \A j \in Job : d.claim[j] \notin {NoOrder, o} => claim[j] = d.claim[j]
  BY RowTypes
<1>6. e = Filled(d, o, items, captured, claim)
  BY DEF Filled
<1> HIDE DEF e, items, captured, claim
<1>7. DraftEdit(d, e, o) /\ e.order[o].status = "draft"
  BY <1>2, <1>3, <1>4, <1>5, <1>6, FillEdit
<1> QED BY <1>1, <1>7

\* Changing whom a draft is for is a draft edit.
LEMMA UpdateEdit ==
    ASSUME NEW d, NEW o \in OrderId, NEW anonymous \in BOOLEAN, Typed(d), d.order[o].status = "draft"
    PROVE  DraftEdit(d, [d EXCEPT !.order[o].anonymous = anonymous], o)
<1> DEFINE e == [d EXCEPT !.order[o].anonymous = anonymous]
           row == [d.order[o] EXCEPT !.anonymous = anonymous]
<1>1. RowOnly(d, e, o, row)
  BY RowFields
<1>2. row.status = "draft" /\ row.sold = d.order[o].sold
  <2>1. d.order[o] \in OrderRow
    BY DEF Typed
  <2> QED BY <2>1 DEF OrderRow
<1> HIDE DEF row
<1> QED BY <1>1, <1>2, DraftRow

\* Cancelling is a draft edit.
LEMMA CancelEdit ==
    ASSUME NEW d, NEW o \in OrderId, Typed(d), d.order[o].status = "draft"
    PROVE  DraftEdit(d, [Released(d, o) EXCEPT !.order[o].status = "cancelled"], o)
<1> DEFINE claim == [j \in Job |-> IF d.claim[j] = o THEN NoOrder ELSE d.claim[j]]
           e == Released(d, o)
           f == [e EXCEPT !.order[o].status = "cancelled"]
           row == [e.order[o] EXCEPT !.status = "cancelled"]
<1>1. e = [d EXCEPT !.claim = claim]
  BY DEF Released
<1>2. claim \in [Job -> OrderId \cup {NoOrder}] /\ \A j \in Job : d.claim[j] \notin {NoOrder, o} => claim[j] = d.claim[j]
  BY RowTypes
<1>3. DraftEdit(d, e, o)
  <2> HIDE DEF claim, e
  <2> QED BY <1>1, <1>2, DraftClaim
<1>4. Typed(e) /\ e.order[o].status # "finalized"
  BY <1>3 DEF DraftEdit
<1>5. RowOnly(e, f, o, row)
  <2> HIDE DEF e
  <2> QED BY <1>4, RowFields
<1>6. row.status = "cancelled" /\ row.sold = e.order[o].sold
  <2>1. e.order[o] \in OrderRow
    BY <1>4 DEF Typed
  <2> QED BY <2>1 DEF OrderRow
<1>7. DraftEdit(e, f, o)
  <2> HIDE DEF f, row, e
  <2> QED BY <1>4, <1>5, <1>6, DraftRow
<1> QED BY <1>3, <1>7, DraftChain

-----------------------------------------------------------------------------
(* Sales *)

\* Finalized is a sale: CanFinalize saw every job free or claimed by this very
\* order and a unit of every article.
LEMMA FinalizedSale ==
    ASSUME NEW d, NEW o \in OrderId, Typed(d), CanFinalize(d, o)
    PROVE  Sale(d, Finalized(d, o), o)
<1> DEFINE items == d.order[o].items
           loose == [a \in Article |-> IF a \in items THEN d.loose[a] - 1 ELSE d.loose[a]]
           claim == [j \in Job |-> IF j \in items THEN o ELSE d.claim[j]]
           e1 == [d EXCEPT !.order[o].status = "finalized"]
           e2 == [e1 EXCEPT !.order[o].total = ItemsTotal(items)]
           e3 == [e2 EXCEPT !.order[o].sold = items \cap Article]
           e4 == [e3 EXCEPT !.claim = claim]
           e5 == [e4 EXCEPT !.loose = loose]
           row1 == [d.order[o] EXCEPT !.status = "finalized"]
           row2 == [row1 EXCEPT !.total = ItemsTotal(items)]
           row3 == [row2 EXCEPT !.sold = items \cap Article]
<1>1. Finalized(d, o) = e5
  BY DEF Finalized
<1>2. items \in SUBSET Item /\ ItemsTotal(items) \in Nat /\ items \cap Article \in SUBSET Article
  BY RowTypes, Constants
<1>3. RowOnly(d, e1, o, row1)
  BY RowFields
<1>4. RowOnly(e1, e2, o, row2)
  <2>1. Typed(e1) /\ e1.order[o] = row1
    BY <1>3 DEF RowOnly
  <2> HIDE DEF e1, row1, items
  <2> QED BY <1>2, <2>1, RowFields
<1>5. RowOnly(e2, e3, o, row3)
  <2>1. Typed(e2) /\ e2.order[o] = row2
    BY <1>4 DEF RowOnly
  <2> HIDE DEF e2, row2, items
  <2> QED BY <1>2, <2>1, RowFields
<1>6. RowOnly(d, e3, o, row3)
  BY <1>3, <1>4, <1>5, RowChain
<1>7. /\ row3.status = "finalized" /\ row3.items = items
      /\ row3.total = ItemsTotal(items) /\ row3.sold = items \cap Article
  <2>1. d.order[o] \in OrderRow
    BY DEF Typed
  <2> QED BY <2>1 DEF OrderRow
<1>8. claim \in [Job -> OrderId \cup {NoOrder}]
  BY RowTypes
<1>9. loose \in [Article -> 0..LooseStock]
  <2>1. ASSUME NEW a \in Article PROVE loose[a] \in 0..LooseStock
    <3>1. d.loose[a] \in 0..LooseStock /\ (a \in items => d.loose[a] >= 1)
      BY DEF Typed, CanFinalize
    <3> QED BY <3>1, OrdersAssumption
  <2> QED BY <2>1
<1>10. Typed(e5) /\ e5.order = e3.order /\ e5.claim = claim /\ e5.loose = loose
  <2>1. Typed(e3)
    BY <1>6 DEF RowOnly
  <2>2. Typed(e4) /\ e4.order = e3.order /\ e4.claim = claim
    <3> HIDE DEF e3, claim, loose
    <3> QED BY <2>1, <1>8 DEF Typed, IsTables
  <2> HIDE DEF e3, e4, claim, loose
  <2> QED BY <2>2, <1>9 DEF Typed, IsTables
<1>11. d.order[o].status # "finalized" /\ \A j \in items \cap Job : d.claim[j] \in {NoOrder, o}
  BY DEF CanFinalize
<1>12. e3.order[o] = row3 /\ \A x \in OrderId \ {o} : e3.order[x] = d.order[x]
  <2> HIDE DEF e3, row3
  <2> QED BY <1>6 DEF RowOnly
<1>13. Sale(d, e5, o)
  <2> HIDE DEF e3, e5, row3
  <2> QED BY <1>7, <1>10, <1>11, <1>12 DEF Sale
<1> QED BY <1>1, <1>13

\* Reversed undoes the sale; the unit returned fits because this order had
\* sold it.
LEMMA ReversedSale ==
    ASSUME NEW d, NEW o \in OrderId, Books(d), d.order[o].status = "finalized"
    PROVE  SaleUndone(d, Reversed(d, o), o)
<1> DEFINE sold == d.order[o].sold
           loose == [a \in Article |-> IF a \in sold THEN d.loose[a] + 1 ELSE d.loose[a]]
           claim == [j \in Job |-> IF d.claim[j] = o THEN NoOrder ELSE d.claim[j]]
           e1 == [d EXCEPT !.order[o].status = "reversed"]
           e2 == [e1 EXCEPT !.order[o].sold = {}]
           e3 == [e2 EXCEPT !.loose = loose]
           e4 == [e3 EXCEPT !.claim = claim]
           row1 == [d.order[o] EXCEPT !.status = "reversed"]
           row2 == [row1 EXCEPT !.sold = {}]
<1>1. Typed(d)
  BY DEF Books
<1>2. RowOnly(d, e1, o, row1)
  BY <1>1, RowFields
<1>3. RowOnly(e1, e2, o, row2)
  <2>1. Typed(e1) /\ e1.order[o] = row1
    BY <1>2 DEF RowOnly
  <2> HIDE DEF e1, row1
  <2> QED BY <2>1, RowFields
<1>4. RowOnly(d, e2, o, row2)
  BY <1>2, <1>3, RowChain
<1>5. row2.status = "reversed" /\ row2.sold = {}
  <2>1. d.order[o] \in OrderRow
    BY <1>1 DEF Typed
  <2> QED BY <2>1 DEF OrderRow
<1>6. claim \in [Job -> OrderId \cup {NoOrder}]
  BY <1>1, RowTypes
<1>7. loose \in [Article -> 0..LooseStock]
  <2>1. ASSUME NEW a \in Article PROVE loose[a] \in 0..LooseStock
    <3>1. d.loose[a] \in 0..LooseStock /\ d.loose[a] + Cardinality(Sellers(d, a)) = LooseStock
      BY DEF Books, Typed, Stocked
    <3>2. a \in sold => Cardinality(Sellers(d, a)) # 0
      <4>1. a \in sold => o \in Sellers(d, a)
        BY DEF Sellers
      <4> QED BY <4>1, SellersFinite, FS_EmptySet
    <3> QED BY <3>1, <3>2, OrdersAssumption, SellersFinite
  <2> QED BY <2>1
<1>8. Typed(e4) /\ e4.order = e2.order /\ e4.claim = claim /\ e4.loose = loose
  <2>1. Typed(e2)
    BY <1>4 DEF RowOnly
  <2>2. Typed(e3) /\ e3.order = e2.order /\ e3.loose = loose
    <3> HIDE DEF e2, claim, loose
    <3> QED BY <2>1, <1>7 DEF Typed, IsTables
  <2> HIDE DEF e2, e3, claim, loose
  <2> QED BY <2>2, <1>6 DEF Typed, IsTables
<1>9. e2.order[o] = row2 /\ \A x \in OrderId \ {o} : e2.order[x] = d.order[x]
  <2> HIDE DEF e2, row2
  <2> QED BY <1>4 DEF RowOnly
<1>10. Reversed(d, o) = e4
  <2>1. e3.claim = d.claim
    <3>1. e2.claim = d.claim /\ Typed(e2)
      BY <1>4 DEF RowOnly
    <3> HIDE DEF e2
    <3> QED BY <3>1 DEF Typed, IsTables
  <2>2. Reversed(d, o) = Released(e3, o)
    BY DEF Reversed
  <2>3. Released(e3, o) = [e3 EXCEPT !.claim = [j \in Job |-> IF e3.claim[j] = o THEN NoOrder ELSE e3.claim[j]]]
    BY DEF Released
  <2> HIDE DEF e3
  <2> QED BY <2>1, <2>2, <2>3
<1>11. SaleUndone(d, e4, o)
  <2> HIDE DEF e2, e4, row2
  <2> QED BY <1>5, <1>8, <1>9 DEF SaleUndone
<1> QED BY <1>10, <1>11

-----------------------------------------------------------------------------
(* Commands *)

\* The helpers of receipts, reversals and requests keep the books.
LEMMA MoneyBooks ==
    ASSUME NEW d, Books(d), NEW o, NEW S, NEW a, NEW r, NEW p, NEW state
    PROVE  /\ Books(ReceivedIfAny(d, o, a)) /\ Books(Received(d, o, a))
           /\ Books(ReceiptReversed(d, p, o)) /\ Books(AllReversed(d, S, o))
           /\ Books(Detached(d, S, o)) /\ Books(Moved(d, S, r))
           /\ Books(ToState(d, o, state)) /\ Books(SyncAlreadyPaid(d, o))
<1>1. IsTables(d)
  BY DEF Books, Typed
<1> QED BY <1>1, MoneySteps, Synchronized, MoneyKeepsBooks

\* Create keeps the books.
LEMMA CreateBooks ==
    ASSUME Books(db), NEW anonymous \in BOOLEAN, Create(anonymous)
    PROVE  Books(db')
<1> DEFINE r == Min(Unused(db))
<1>1. db' = Created(db, r, anonymous, NoOrder)
  BY DEF Create, Commit
<1>2. r \in OrderId /\ db.order[r].status = "none"
  BY Smallest DEF Create
<1> HIDE DEF r
<1>3. DraftEdit(db, db', r)
  BY <1>1, <1>2, CreatedEdit DEF Books
<1> QED BY <1>2, <1>3, DraftEditKeepsBooks

\* The commands on a draft keep the books.
LEMMA DraftCommands ==
    ASSUME Books(db), NEW o \in OrderId,
           \/ \E anonymous \in BOOLEAN : Update(o, anonymous)
           \/ \E i \in Item : AddItem(o, i) \/ RemoveItem(o, i)
           \/ \E j \in Job : RefreshItem(o, j)
           \/ CancelOrder(o)
    PROVE  Books(db')
<1>1. Typed(db)
  BY DEF Books
<1>2. CASE \E anonymous \in BOOLEAN : Update(o, anonymous)
  <2>1. DraftEdit(db, db', o)
    BY <1>1, <1>2, UpdateEdit DEF Update, Commit
  <2> QED BY <2>1, DraftEditKeepsBooks
<1>3. CASE \E i \in Item : AddItem(o, i)
  <2>1. DraftEdit(db, db', o)
    BY <1>1, <1>3, InsertedEdit DEF AddItem, Commit
  <2> QED BY <2>1, DraftEditKeepsBooks
<1>4. CASE \E i \in Item : RemoveItem(o, i)
  <2>1. DraftEdit(db, db', o)
    BY <1>1, <1>4, RemovedEdit DEF RemoveItem, Commit
  <2> QED BY <2>1, DraftEditKeepsBooks
<1>5. CASE \E j \in Job : RefreshItem(o, j)
  <2>1. PICK i \in Job : RefreshItem(o, i)
    BY <1>5
  <2> DEFINE e == Removed(db, o, i)
  <2>2. i \in Item /\ db.order[o].status = "draft" /\ db' = Inserted(e, o, i)
    BY <2>1, Constants DEF RefreshItem, Commit
  <2>3. DraftEdit(db, e, o) /\ e.order[o].status = "draft"
    BY <1>1, <2>2, RemovedEdit
  <2> HIDE DEF e
  <2>4. DraftEdit(e, db', o)
    BY <2>2, <2>3, InsertedEdit DEF DraftEdit
  <2>5. DraftEdit(db, db', o)
    BY <2>3, <2>4, DraftChain
  <2> QED BY <2>5, DraftEditKeepsBooks
<1>6. CASE CancelOrder(o)
  <2>1. DraftEdit(db, db', o)
    BY <1>1, <1>6, CancelEdit DEF CancelOrder, Commit
  <2> QED BY <2>1, DraftEditKeepsBooks
<1> QED BY <1>2, <1>3, <1>4, <1>5, <1>6

\* A job that changes keeps the books.
LEMMA JobMoves ==
    ASSUME Books(db), NEW j \in Job, JobChanges(j)
    PROVE  Books(db')
<1> DEFINE version == [db.version EXCEPT ![j] = db.version[j] + 1]
<1>1. version \in [Job -> 1..MaxVersion]
  <2>1. db.version \in [Job -> 1..MaxVersion] /\ db.version[j] < MaxVersion
    BY DEF Books, Typed, JobChanges
  <2>2. db.version[j] + 1 \in 1..MaxVersion
    BY <2>1, OrdersAssumption
  <2> QED BY <2>1, <2>2
<1>2. db' = [db EXCEPT !.version = version]
  BY DEF JobChanges, Commit
<1> HIDE DEF version
<1>3. /\ IsTables(db') /\ db'.order = db.order /\ db'.claim = db.claim /\ db'.loose = db.loose
      /\ db'.version = version
  BY <1>2 DEF Books, Typed, IsTables
<1> QED BY <1>1, <1>3 DEF Books, Typed, Charged, Stocked, Sellers

\* The commands on invoice requests keep the books.
LEMMA RequestCommands ==
    ASSUME Books(db), NEW o \in OrderId,
           \/ CreateRequest(o) \/ SubmitRequest(o) \/ ReturnRequest(o) \/ ForwardRequest(o)
           \/ CancelRequest(o) \/ RequestCancellation(o) \/ ConfirmCancellation(o)
    PROVE  Books(db')
<1>1. IsTables(db)
  BY DEF Books, Typed
<1>2. ASSUME NEW e, MoneyOnly(db, e), NEW state
      PROVE  Books(e) /\ Books(SyncAlreadyPaid(e, o)) /\ Books(ToState(e, o, state))
  BY <1>2, MoneyKeepsBooks, MoneyBooks
<1>3. CASE CreateRequest(o)
  <2> DEFINE e == [db EXCEPT !.request[o] = [n |-> @.n + 1, state |-> "draft", alreadyPaid |-> 0]]
  <2>1. MoneyOnly(db, e)
    BY <1>1, MoneyFields
  <2>2. db' = SyncAlreadyPaid(e, o)
    BY <1>3 DEF CreateRequest, Commit
  <2> HIDE DEF e
  <2> QED BY <1>2, <2>1, <2>2
<1>4. CASE SubmitRequest(o)
  BY <1>4, MoneyBooks DEF SubmitRequest, Commit
<1>5. CASE ReturnRequest(o)
  BY <1>5, MoneyBooks DEF ReturnRequest, Commit
<1>6. CASE ForwardRequest(o)
  <2> DEFINE open == db.order[o].total - Allocated(db, o)
             e == IF open > 0
                  THEN [db EXCEPT !.payments = Append(@, Row("external", open, o, db.request[o].n))]
                  ELSE db
  <2>1. MoneyOnly(db, e)
    BY <1>1, MoneyFields
  <2>2. db' = ToState(e, o, "issued")
    BY <1>6 DEF ForwardRequest, Commit
  <2> HIDE DEF e
  <2> QED BY <1>2, <2>1, <2>2
<1>7. CASE CancelRequest(o)
  BY <1>7, MoneyBooks DEF CancelRequest, Commit
<1>8. CASE RequestCancellation(o)
  BY <1>8, MoneyBooks DEF RequestCancellation, Commit
<1>9. CASE ConfirmCancellation(o)
  <2> DEFINE S == {p \in ActiveReceipts(db, o) :
                     db.payments[p].method = "external" /\ db.payments[p].request = db.request[o].n}
             e == [db EXCEPT !.payments = AllReversed(db, S, o).payments]
  <2>1. MoneyOnly(db, e)
    BY <1>1, MoneyFields
  <2>2. db' = ToState(e, o, "cancelled")
    BY <1>9 DEF ConfirmCancellation, Commit
  <2> HIDE DEF e
  <2> QED BY <1>2, <2>1, <2>2
<1> QED BY <1>3, <1>4, <1>5, <1>6, <1>7, <1>8, <1>9

\* Finalized keeps the books.
LEMMA FinalizedBooks ==
    ASSUME NEW d, Books(d), NEW o \in OrderId, CanFinalize(d, o)
    PROVE  Books(Finalized(d, o))
<1>1. Sale(d, Finalized(d, o), o)
  BY FinalizedSale DEF Books
<1> QED BY <1>1, SaleKeepsBooks

\* Reversed keeps the books.
LEMMA ReversedBooks ==
    ASSUME NEW d, Books(d), NEW o \in OrderId, CanReverse(d, o)
    PROVE  Books(Reversed(d, o))
<1>1. SaleUndone(d, Reversed(d, o), o)
  BY ReversedSale DEF CanReverse
<1> QED BY <1>1, SaleUndoneKeepsBooks

\* CreateReplacement keeps the books: a job the original claims is left to it.
LEMMA ReplacementBooks ==
    ASSUME Books(db), NEW o \in OrderId, CreateReplacement(o)
    PROVE  Books(db')
<1> DEFINE r == Min(Unused(db))
           d == Created(db, r, db.order[o].anonymous, o)
           items == db.order[o].items
           captured == [j \in Job |-> IF j \in items \cap Job THEN db.version[j] ELSE 0]
           claim == [j \in Job |-> IF j \in items \cap Job /\ d.claim[j] = NoOrder THEN r ELSE d.claim[j]]
<1>1. Typed(db)
  BY DEF Books
<1>2. db' = Filled(d, r, items, captured, claim)
  BY DEF CreateReplacement, Commit, Filled
<1>3. r \in OrderId /\ db.order[r].status = "none"
  BY Smallest DEF CreateReplacement
<1>4. items \in SUBSET Item /\ captured \in [Job -> 0..MaxVersion]
  <2>1. 0 \in 0..MaxVersion
    BY OrdersAssumption
  <2> QED BY <1>1, <2>1, RowTypes
<1>5. db.order[o].anonymous \in BOOLEAN /\ o \in OrderId \cup {NoOrder}
  BY <1>1, RowTypes
<1>6. DraftEdit(db, d, r) /\ d.order[r].status = "draft" /\ d.claim = db.claim
  <2> HIDE DEF r
  <2> QED BY <1>1, <1>3, <1>5, CreatedEdit
<1> HIDE DEF r, d, items, captured
<1>7. claim \in [Job -> OrderId \cup {NoOrder}]
  BY <1>1, <1>3, <1>6, RowTypes
<1>8. \A j \in Job : d.claim[j] \notin {NoOrder, r} => claim[j] = d.claim[j]
  OBVIOUS
<1> HIDE DEF claim
<1>9. DraftEdit(d, db', r)
  <2>1. Typed(d)
    BY <1>6 DEF DraftEdit
  <2> QED BY <1>2, <1>3, <1>4, <1>6, <1>7, <1>8, <2>1, FillEdit
<1> QED BY <1>3, <1>6, <1>9, DraftChain, DraftEditKeepsBooks

\* PayOwnJobs keeps the books: it takes unclaimed jobs only.
LEMMA PayOwnBooks ==
    ASSUME Books(db), NEW jobs \in SUBSET Job, PayOwnJobs(jobs)
    PROVE  Books(db')
<1> DEFINE o == Min(Unused(db))
           d == Created(db, o, FALSE, NoOrder)
           captured == [j \in Job |-> IF j \in jobs THEN db.version[j] ELSE 0]
           claim == [j \in Job |-> IF j \in jobs THEN o ELSE d.claim[j]]
           filled == Filled(d, o, jobs, captured, claim)
           final == Finalized(filled, o)
<1>1. Typed(db)
  BY DEF Books
<1>2. CanFinalize(filled, o) /\ \E a : db' = Received(final, o, a)
  BY DEF PayOwnJobs, Commit, Filled
<1>3. o \in OrderId /\ db.order[o].status = "none"
  BY Smallest DEF PayOwnJobs
<1>4. jobs \in SUBSET Item /\ captured \in [Job -> 0..MaxVersion]
  <2>1. 0 \in 0..MaxVersion
    BY OrdersAssumption
  <2> QED BY <1>1, <2>1, <1>3, RowTypes, Constants
<1>5. \A j \in jobs : db.claim[j] = NoOrder
  BY DEF PayOwnJobs
<1>6. DraftEdit(db, d, o) /\ d.order[o].status = "draft" /\ d.claim = db.claim
  <2>1. FALSE \in BOOLEAN /\ NoOrder \in OrderId \cup {NoOrder}
    OBVIOUS
  <2> HIDE DEF o
  <2> QED BY <1>1, <1>3, <2>1, CreatedEdit
<1> HIDE DEF o, d, captured
<1>7. claim \in [Job -> OrderId \cup {NoOrder}]
  BY <1>1, <1>3, <1>6, RowTypes
<1>8. \A j \in Job : d.claim[j] \notin {NoOrder, o} => claim[j] = d.claim[j]
  BY <1>5, <1>6
<1> HIDE DEF claim
<1>9. DraftEdit(d, filled, o)
  <2>1. Typed(d)
    BY <1>6 DEF DraftEdit
  <2> HIDE DEF filled
  <2>2. filled = Filled(d, o, jobs, captured, claim)
    BY DEF filled
  <2> QED BY <1>3, <1>4, <1>6, <1>7, <1>8, <2>1, <2>2, FillEdit
<1>10. Books(filled)
  BY <1>3, <1>6, <1>9, DraftChain, DraftEditKeepsBooks
<1> HIDE DEF filled
<1>11. Books(final)
  BY <1>2, <1>3, <1>10, FinalizedBooks
<1> HIDE DEF final
<1> QED BY <1>2, <1>11, MoneyBooks

\* Finalize, reverse and replace keep the books. In Replace the original is
\* reversed before the replacement is finalized, so its claims are free when
\* the replacement takes them.
LEMMA LifecycleCommands ==
    ASSUME Books(db), NEW o \in OrderId, NEW r \in OrderId, NEW S, NEW a,
           \/ FinalizeOrder(o, a) \/ ReverseOrder(o, S) \/ Replace(o, r, S, a)
    PROVE  Books(db')
<1>1. CASE FinalizeOrder(o, a)
  <2>1. CanFinalize(db, o) /\ db' = ReceivedIfAny(Finalized(db, o), o, a)
    BY <1>1 DEF FinalizeOrder, Commit
  <2>2. Books(Finalized(db, o))
    BY <2>1, FinalizedBooks
  <2> QED BY <2>1, <2>2, MoneyBooks
<1>2. CASE ReverseOrder(o, S)
  <2>1. CanReverse(AllReversed(db, S, o), o) /\ db' = Reversed(AllReversed(db, S, o), o)
    BY <1>2 DEF ReverseOrder, Commit
  <2>2. Books(AllReversed(db, S, o))
    BY MoneyBooks
  <2> QED BY <2>1, <2>2, ReversedBooks
<1>3. CASE Replace(o, r, S, a)
  <2> DEFINE reversed == AllReversed(db, S, o)
             carried == ActiveReceipts(reversed, o)
             free == Detached(reversed, carried, o)
             released == IF db.order[o].status = "finalized" THEN Reversed(free, o) ELSE free
             moved == Moved(Finalized(released, r), carried, r)
  <2>1. /\ db.order[o].status = "finalized" => CanReverse(free, o)
        /\ CanFinalize(released, r)
        /\ db' = ReceivedIfAny(moved, r, a)
    BY <1>3 DEF Replace, Commit
  <2>2. Books(free)
    BY MoneyBooks
  <2>3. Books(released)
    BY <2>1, <2>2, ReversedBooks
  <2>4. Books(Finalized(released, r))
    <3> HIDE DEF released
    <3> QED BY <2>1, <2>3, FinalizedBooks
  <2>5. Books(moved)
    <3> HIDE DEF released, carried
    <3> QED BY <2>4, MoneyBooks
  <2> HIDE DEF moved
  <2> QED BY <2>1, <2>5, MoneyBooks
<1> QED BY <1>1, <1>2, <1>3

\* The commands on payments keep the books.
LEMMA PaymentCommands ==
    ASSUME Books(db), NEW o, NEW a, NEW p,
           RecordPayment(o, a) \/ PayOwnOrder(o) \/ ReversePayment(a) \/ ReadAllocation(p) \/ ReversalGivenUp
    PROVE  Books(db')
<1>1. CASE RecordPayment(o, a)
  BY <1>1, MoneyBooks DEF RecordPayment, Commit
<1>2. CASE PayOwnOrder(o)
  BY <1>2, MoneyBooks DEF PayOwnOrder, Commit
<1>3. CASE ReversePayment(a)
  <2> DEFINE d == ReceiptReversed(db, reversing.payment, reversing.order)
  <2>1. db' = ReceivedIfAny(d, reversing.order, a)
    BY <1>3 DEF ReversePayment
  <2>2. Books(d)
    BY MoneyBooks
  <2> HIDE DEF d
  <2> QED BY <2>1, <2>2, MoneyBooks
<1>4. CASE ReadAllocation(p) \/ ReversalGivenUp
  BY <1>4 DEF ReadAllocation, ReversalGivenUp
<1> QED BY <1>1, <1>2, <1>3, <1>4

-----------------------------------------------------------------------------
(* Theorems *)

\* The empty database.
LEMMA InitBooks == Init => Books(db)
<1> SUFFICES ASSUME Init PROVE Books(db)
  OBVIOUS
<1>1. IsTables(db)
  BY DEF Init, IsTables
<1>2. NewOrder \in OrderRow
  <2>1. [j \in Job |-> 0] \in [Job -> 0..MaxVersion]
    BY OrdersAssumption
  <2> QED BY <2>1 DEF NewOrder, OrderRow
<1>3. Typed(db)
  BY <1>1, <1>2, OrdersAssumption DEF Init, Typed
<1>4. \A o \in OrderId : db.order[o].status = "none" /\ db.order[o].sold = {}
  BY DEF Init, NewOrder
<1>5. \A a \in Article : Sellers(db, a) = {} /\ db.loose[a] = LooseStock
  BY <1>4 DEF Sellers, Init
<1>6. Charged(db)
  BY <1>4 DEF Charged
<1>7. \A a \in Article : db.loose[a] + Cardinality(Sellers(db, a)) = LooseStock
  BY <1>5, FS_EmptySet, OrdersAssumption
<1>8. Stocked(db)
  BY <1>4, <1>7 DEF Stocked
<1> QED BY <1>3, <1>6, <1>8 DEF Books

\* The commands on one order keep the books.
LEMMA OrderSteps ==
    ASSUME Books(db), NEW o \in OrderId,
           \/ CancelOrder(o) \/ CreateReplacement(o)
           \/ CreateRequest(o) \/ SubmitRequest(o) \/ ReturnRequest(o) \/ ForwardRequest(o)
           \/ CancelRequest(o) \/ RequestCancellation(o) \/ ConfirmCancellation(o)
           \/ \E S \in SUBSET Receipts(db) : ReverseOrder(o, S)
           \/ PayOwnOrder(o)
           \/ \E a \in Amounts \cup {0} : FinalizeOrder(o, a)
           \/ \E a \in Amounts : RecordPayment(o, a)
           \/ \E r \in OrderId, S \in SUBSET Receipts(db), a \in Amounts \cup {0} : Replace(o, r, S, a)
    PROVE  Books(db')
<1>1. CASE CancelOrder(o)
  BY <1>1, DraftCommands
<1>2. CASE CreateReplacement(o)
  BY <1>2, ReplacementBooks
<1>3. CASE \/ CreateRequest(o) \/ SubmitRequest(o) \/ ReturnRequest(o) \/ ForwardRequest(o)
           \/ CancelRequest(o) \/ RequestCancellation(o) \/ ConfirmCancellation(o)
  BY <1>3, RequestCommands
<1>4. CASE \E S \in SUBSET Receipts(db) : ReverseOrder(o, S)
  BY <1>4, LifecycleCommands
<1>5. CASE PayOwnOrder(o) \/ \E a \in Amounts : RecordPayment(o, a)
  BY <1>5, PaymentCommands
<1>6. CASE \E a \in Amounts \cup {0} : FinalizeOrder(o, a)
  BY <1>6, LifecycleCommands
<1>7. CASE \E r \in OrderId, S \in SUBSET Receipts(db), a \in Amounts \cup {0} : Replace(o, r, S, a)
  BY <1>7, LifecycleCommands
<1> QED BY <1>1, <1>2, <1>3, <1>4, <1>5, <1>6, <1>7

\* Every step keeps the books.
LEMMA NextBooks ==
    ASSUME Books(db), [Next]_vars
    PROVE  Books(db')
<1>1. CASE UNCHANGED vars
  BY <1>1 DEF vars
<1>2. CASE \E anonymous \in BOOLEAN : Create(anonymous) \/ \E o \in OrderId : Update(o, anonymous)
  BY <1>2, CreateBooks, DraftCommands
<1>3. CASE \E o \in OrderId, i \in Item : AddItem(o, i) \/ RemoveItem(o, i)
  BY <1>3, DraftCommands
<1>4. CASE \E o \in OrderId, j \in Job : RefreshItem(o, j)
  BY <1>4, DraftCommands
<1>5. CASE \E j \in Job : JobChanges(j)
  BY <1>5, JobMoves
<1>6. CASE \E o \in OrderId :
             \/ CancelOrder(o) \/ CreateReplacement(o)
             \/ CreateRequest(o) \/ SubmitRequest(o) \/ ReturnRequest(o) \/ ForwardRequest(o)
             \/ CancelRequest(o) \/ RequestCancellation(o) \/ ConfirmCancellation(o)
             \/ \E S \in SUBSET Receipts(db) : ReverseOrder(o, S)
             \/ PayOwnOrder(o)
             \/ \E a \in Amounts \cup {0} : FinalizeOrder(o, a)
             \/ \E a \in Amounts : RecordPayment(o, a)
             \/ \E r \in OrderId, S \in SUBSET Receipts(db), a \in Amounts \cup {0} : Replace(o, r, S, a)
  BY <1>6, OrderSteps
<1>7. CASE \E jobs \in SUBSET Job : PayOwnJobs(jobs)
  BY <1>7, PayOwnBooks
<1>8. CASE \/ \E p \in Receipts(db) : ReadAllocation(p)
           \/ \E a \in Amounts \cup {0} : ReversePayment(a)
           \/ ReversalGivenUp
  BY <1>8, PaymentCommands
<1> QED BY <1>1, <1>2, <1>3, <1>4, <1>5, <1>6, <1>7, <1>8 DEF Next

\* The inductive invariant always holds.
THEOREM BooksCorrect == Spec => []IndInv
<1>1. Init => IndInv
  BY InitBooks DEF IndInv
<1>2. IndInv /\ [Next]_vars => IndInv'
  BY NextBooks DEF IndInv
<1> QED BY <1>1, <1>2, PTL DEF Spec

\* No job is charged twice, whatever mix of drafts, replacements, reversals
\* and own payments (JobChargedOnce; insertItem, finalize, reverse, replace,
\* PayOwn).
THEOREM JobsCorrect == Spec => []JobChargedOnce
<1>1. IndInv => JobChargedOnce
  BY DEF IndInv, Books, Charged, JobChargedOnce
<1> QED BY <1>1, BooksCorrect, PTL

\* Loose stock and stock sold add up to what there was, and exactly the
\* finalized orders hold sold stock (StockConserved; SellFromStock,
\* RestockOrderSale).
THEOREM StockCorrect == Spec => []StockConserved
<1>1. IndInv => StockConserved
  BY DEF IndInv, Books, Stocked, Sellers, StockConserved
<1> QED BY <1>1, BooksCorrect, PTL

-----------------------------------------------------------------------------
(* Money *)

\* A receipt is allocated in full to one order or reversed in full.
Whole(row) ==
    IF row.reversed THEN row.net = [x \in OrderId |-> 0]
    ELSE \E o \in OrderId : row.net = [x \in OrderId |-> IF x = o THEN row.amount ELSE 0]

\* The receipts of a database.
Receipted(d) ==
    /\ d.payments \in Seq(PaymentRow) /\ Len(d.payments) <= MaxPayments
    /\ \A p \in Receipts(d) : Whole(d.payments[p])

\* What the payments and the request of an order say fits the order.
Accounted(d, o) ==
    /\ 0 <= Allocated(d, o) /\ Allocated(d, o) <= d.order[o].total
    /\ d.order[o].status # "finalized" => Allocated(d, o) = 0
    /\ d.order[o].status = "finalized" =>
         d.order[o].total = ItemsTotal(d.order[o].items) /\ d.order[o].items # {}
    /\ ActiveRequest(d, o) => /\ d.request[o].alreadyPaid = CashCard(d, o)
                              /\ d.order[o].status = "finalized" /\ ~d.order[o].anonymous
    /\ d.request[o].state \in {"issued", "cancellation_requested"} => Allocated(d, o) = d.order[o].total

\* All of it, of a database.
Accounts(d) ==
    /\ Receipted(d)
    /\ d.request \in [OrderId -> RequestRow]
    /\ \A o \in OrderId : Accounted(d, o)

\* An anonymous order is settled.
Settled(d, o) == d.order[o].status = "finalized" => AnonymousSettled(d, o)

\* The reversal under way is of a receipt and an order that exist.
ReversingKnown ==
    \/ reversing = Nothing
    \/ \E p \in Receipts(db), o \in OrderId : reversing = [payment |-> p, order |-> o]

\* The inductive invariant of the money.
MoneyInv == Accounts(db) /\ (\A o \in OrderId : Settled(db, o)) /\ ReversingKnown

-----------------------------------------------------------------------------
(* Sums over receipts *)

\* A whole receipt is allocated to at most one order, and in full.
LEMMA WholeNet ==
    ASSUME NEW row \in PaymentRow, Whole(row)
    PROVE  \A o \in OrderId :
             /\ row.net[o] \in Nat
             /\ row.net[o] > 0 => ~row.reversed /\ row.net = [x \in OrderId |-> IF x = o THEN row.amount ELSE 0]
<1>1. row.amount \in Nat \ {0} /\ row.reversed \in BOOLEAN
  BY DEF PaymentRow
<1>2. CASE row.reversed
  BY <1>2 DEF Whole
<1>3. CASE ~row.reversed
  <2>1. PICK y \in OrderId : row.net = [x \in OrderId |-> IF x = y THEN row.amount ELSE 0]
    BY <1>3 DEF Whole
  <2>2. \A o \in OrderId : row.net[o] = IF o = y THEN row.amount ELSE 0
    BY <2>1
  <2> QED BY <1>1, <1>3, <2>1, <2>2
<1> QED BY <1>1, <1>2, <1>3

\* What an order got of each receipt.
Nets(d, o) == [p \in Receipts(d) |-> d.payments[p].net[o]]
\* The receipts at the counter.
Registered(d) == {p \in Receipts(d) : d.payments[p].method # "external"}
\* What an order got of each of them.
RegisteredNets(d, o) == [p \in Registered(d) |-> d.payments[p].net[o]]

\* The types of the receipts and of what orders got of them.
LEMMA NetTypes ==
    ASSUME NEW d, Receipted(d)
    PROVE  /\ Receipts(d) = 1..Len(d.payments) /\ Len(d.payments) \in Nat
           /\ IsFiniteSet(Receipts(d)) /\ IsFiniteSet(Registered(d)) /\ Registered(d) \subseteq Receipts(d)
           /\ \A p \in Receipts(d) : d.payments[p] \in PaymentRow
           /\ \A o \in OrderId : /\ Nets(d, o) \in [Receipts(d) -> Nat]
                                 /\ RegisteredNets(d, o) \in [Registered(d) -> Nat]
<1>1. Receipts(d) = 1..Len(d.payments) /\ Len(d.payments) \in Nat
  BY DEF Receipted, Receipts
<1>2. IsFiniteSet(Receipts(d))
  BY <1>1, FS_Interval
<1>3. Registered(d) \subseteq Receipts(d) /\ IsFiniteSet(Registered(d))
  BY <1>2, FS_Subset DEF Registered
<1>4. \A p \in Receipts(d) : d.payments[p] \in PaymentRow
  BY DEF Receipted, Receipts
<1>5. \A p \in Receipts(d), o \in OrderId : d.payments[p].net[o] \in Nat
  BY <1>4, WholeNet DEF Receipted
<1> QED BY <1>1, <1>2, <1>3, <1>4, <1>5 DEF Nets, RegisteredNets

\* What is allocated to an order is the sum of what it got of each receipt.
LEMMA AllocatedIs ==
    ASSUME NEW d, NEW o
    PROVE  Allocated(d, o) = SumFunction(Nets(d, o)) /\ CashCard(d, o) = SumFunction(RegisteredNets(d, o))
BY DEF Allocated, CashCard, Nets, RegisteredNets, Registered

\* It is a natural number, and no receipt gives more.
LEMMA AllocatedTypes ==
    ASSUME NEW d, Receipted(d), NEW o \in OrderId
    PROVE  /\ Allocated(d, o) \in Nat /\ CashCard(d, o) \in Nat
           /\ \A p \in Receipts(d) : d.payments[p].net[o] <= Allocated(d, o)
<1>1. /\ Nets(d, o) \in [Receipts(d) -> Int] /\ \A p \in Receipts(d) : Nets(d, o)[p] >= 0
      /\ RegisteredNets(d, o) \in [Registered(d) -> Int] /\ \A p \in Registered(d) : RegisteredNets(d, o)[p] >= 0
      /\ IsFiniteSet(Receipts(d)) /\ IsFiniteSet(Registered(d))
  BY NetTypes
<1>2. SumFunction(Nets(d, o)) >= 0 /\ \A p \in Receipts(d) : Nets(d, o)[p] <= SumFunction(Nets(d, o))
  BY <1>1, SumBounds
<1>3. SumFunction(RegisteredNets(d, o)) >= 0
  BY <1>1, SumBounds
<1>4. SumFunction(Nets(d, o)) \in Int /\ SumFunction(RegisteredNets(d, o)) \in Int
  BY <1>1, SumType DEF Summable
<1>5. \A p \in Receipts(d) : Nets(d, o)[p] = d.payments[p].net[o]
  BY DEF Nets
<1> QED BY <1>2, <1>3, <1>4, <1>5, AllocatedIs

\* The same receipts, allocated to the order as before.
LEMMA SameNets ==
    ASSUME NEW d, NEW e, NEW o, Receipts(e) = Receipts(d),
           \A p \in Receipts(d) : /\ e.payments[p].net[o] = d.payments[p].net[o]
                                  /\ e.payments[p].method = d.payments[p].method
    PROVE  Allocated(e, o) = Allocated(d, o) /\ CashCard(e, o) = CashCard(d, o)
<1>1. Nets(e, o) = Nets(d, o)
  BY DEF Nets
<1>2. Registered(e) = Registered(d)
  BY DEF Registered
<1>3. RegisteredNets(e, o) = RegisteredNets(d, o)
  BY <1>2 DEF RegisteredNets, Registered
<1> QED BY <1>1, <1>3, AllocatedIs

\* The same receipts, less of them allocated to the order.
LEMMA FewerNets ==
    ASSUME NEW d, Receipted(d), NEW e, Receipted(e), NEW o \in OrderId, Receipts(e) = Receipts(d),
           \A p \in Receipts(d) : e.payments[p].net[o] <= d.payments[p].net[o]
    PROVE  Allocated(e, o) <= Allocated(d, o)
<1>1. /\ Nets(e, o) \in [Receipts(d) -> Int] /\ Nets(d, o) \in [Receipts(d) -> Int]
      /\ IsFiniteSet(Receipts(d))
  BY NetTypes
<1>2. \A p \in Receipts(d) : Nets(e, o)[p] <= Nets(d, o)[p]
  BY DEF Nets
<1>3. SumFunction(Nets(e, o)) <= SumFunction(Nets(d, o))
  BY <1>1, <1>2, SumGrows
<1> QED BY <1>3, AllocatedIs

\* Nothing allocated to the order.
LEMMA NoNets ==
    ASSUME NEW d, Receipted(d), NEW o \in OrderId
    PROVE  Allocated(d, o) = 0 <=> \A p \in Receipts(d) : d.payments[p].net[o] = 0
<1>1. ASSUME Allocated(d, o) = 0, NEW p \in Receipts(d) PROVE d.payments[p].net[o] = 0
  <2>1. d.payments[p].net[o] \in Nat
    BY NetTypes, WholeNet DEF Receipted
  <2> QED BY <1>1, <2>1, AllocatedTypes
<1>2. ASSUME \A p \in Receipts(d) : d.payments[p].net[o] = 0 PROVE Allocated(d, o) = 0
  <2>1. Nets(d, o) = [p \in Receipts(d) |-> 0]
    BY <1>2 DEF Nets
  <2> QED BY <2>1, NetTypes, SumOfZeros, AllocatedIs
<1> QED BY <1>1, <1>2

\* One more receipt.
LEMMA OneMore ==
    ASSUME NEW d, Receipted(d), NEW row \in PaymentRow, Whole(row), NEW o \in OrderId,
           NEW e, e.payments = Append(d.payments, row)
    PROVE  /\ Allocated(e, o) = Allocated(d, o) + row.net[o]
           /\ CashCard(e, o) = CashCard(d, o) + (IF row.method = "external" THEN 0 ELSE row.net[o])
<1> DEFINE n == Len(d.payments) + 1
<1>1. /\ d.payments \in Seq(PaymentRow) /\ Len(d.payments) \in Nat /\ Receipts(d) = 1..Len(d.payments)
  BY NetTypes DEF Receipted
<1>2. /\ Receipts(e) = Receipts(d) \cup {n} /\ n \notin Receipts(d)
      /\ \A p \in Receipts(d) : e.payments[p] = d.payments[p]
      /\ e.payments[n] = row
  BY <1>1 DEF Receipts
<1> HIDE DEF n
<1>3. row.net[o] \in Int
  BY DEF PaymentRow
<1>4. Allocated(e, o) = Allocated(d, o) + row.net[o]
  <2>1. DOMAIN Nets(e, o) = Receipts(e) /\ Nets(e, o)[n] = row.net[o] /\ n \in Receipts(e)
    BY <1>2 DEF Nets
  <2>2. [p \in Receipts(e) \ {n} |-> Nets(e, o)[p]] = Nets(d, o)
    <3>1. Receipts(e) \ {n} = Receipts(d)
      BY <1>2
    <3> QED BY <1>2, <3>1 DEF Nets
  <2>3. Summable(Nets(e, o))
    <3>1. IsFiniteSet(Receipts(e))
      BY <1>2, NetTypes, FS_AddElement
    <3>2. \A p \in Receipts(e) : e.payments[p].net[o] \in Int
      <4>1. \A p \in Receipts(d) : Nets(d, o)[p] \in Int
        BY NetTypes
      <4> QED BY <1>2, <1>3, <4>1 DEF Nets
    <3> QED BY <2>1, <3>1, <3>2 DEF Summable, Nets
  <2>4. SumFunction(Nets(e, o)) = row.net[o] + SumFunction(Nets(d, o))
    <3>1. \A f : Summable(f) => \A x \in DOMAIN f :
            SumFunction(f) = f[x] + SumFunction([y \in DOMAIN f \ {x} |-> f[y]])
      BY SumSplits
    <3>2. SumFunction(Nets(e, o)) = Nets(e, o)[n] + SumFunction([y \in DOMAIN Nets(e, o) \ {n} |-> Nets(e, o)[y]])
      BY <2>1, <2>3, <3>1
    <3>3. [y \in DOMAIN Nets(e, o) \ {n} |-> Nets(e, o)[y]] = Nets(d, o)
      BY <2>1, <2>2
    <3> QED BY <2>1, <3>2, <3>3
  <2>5. SumFunction(Nets(d, o)) \in Nat
    BY AllocatedTypes, AllocatedIs
  <2> QED BY <1>3, <2>4, <2>5, AllocatedIs
<1>5. CASE row.method = "external"
  <2>1. Registered(e) = Registered(d)
    BY <1>2, <1>5 DEF Registered
  <2>2. RegisteredNets(e, o) = RegisteredNets(d, o)
    BY <1>2, <2>1 DEF RegisteredNets, Registered
  <2> QED BY <1>4, <1>5, <2>2, AllocatedIs, AllocatedTypes
<1>6. CASE row.method # "external"
  <2>1. Registered(e) = Registered(d) \cup {n} /\ n \notin Registered(d)
    BY <1>2, <1>6 DEF Registered
  <2>2. DOMAIN RegisteredNets(e, o) = Registered(e) /\ RegisteredNets(e, o)[n] = row.net[o] /\ n \in Registered(e)
    BY <1>2, <2>1 DEF RegisteredNets
  <2>3. [p \in Registered(e) \ {n} |-> RegisteredNets(e, o)[p]] = RegisteredNets(d, o)
    <3>1. Registered(e) \ {n} = Registered(d) /\ Registered(d) \subseteq Receipts(d)
      BY <2>1, NetTypes
    <3>2. \A p \in Registered(d) : RegisteredNets(e, o)[p] = RegisteredNets(d, o)[p]
      BY <1>2, <2>1, <3>1 DEF RegisteredNets
    <3>3. RegisteredNets(d, o) = [p \in Registered(d) |-> RegisteredNets(d, o)[p]]
      BY DEF RegisteredNets
    <3> QED BY <3>1, <3>2, <3>3
  <2>4. Summable(RegisteredNets(e, o))
    <3>1. IsFiniteSet(Registered(e))
      BY <2>1, NetTypes, FS_AddElement
    <3>2. \A p \in Registered(e) : e.payments[p].net[o] \in Int
      <4>1. \A p \in Registered(d) : p \in Receipts(d) /\ RegisteredNets(d, o)[p] \in Int
        BY NetTypes
      <4> QED BY <1>2, <1>3, <2>1, <4>1 DEF RegisteredNets
    <3> QED BY <2>2, <3>1, <3>2 DEF Summable, RegisteredNets
  <2>5. SumFunction(RegisteredNets(e, o)) = row.net[o] + SumFunction(RegisteredNets(d, o))
    <3>1. \A f : Summable(f) => \A x \in DOMAIN f :
            SumFunction(f) = f[x] + SumFunction([y \in DOMAIN f \ {x} |-> f[y]])
      BY SumSplits
    <3>2. SumFunction(RegisteredNets(e, o)) =
            RegisteredNets(e, o)[n]
              + SumFunction([y \in DOMAIN RegisteredNets(e, o) \ {n} |-> RegisteredNets(e, o)[y]])
      BY <2>2, <2>4, <3>1
    <3>3. [y \in DOMAIN RegisteredNets(e, o) \ {n} |-> RegisteredNets(e, o)[y]] = RegisteredNets(d, o)
      BY <2>2, <2>3
    <3> QED BY <2>2, <3>2, <3>3
  <2>6. SumFunction(RegisteredNets(d, o)) \in Nat
    BY AllocatedTypes, AllocatedIs
  <2> QED BY <1>3, <1>4, <1>6, <2>5, <2>6, AllocatedIs
<1> QED BY <1>4, <1>5, <1>6

-----------------------------------------------------------------------------
(* Changes of the accounts *)

\* What an order says is about its own row, its request and its sums.
LEMMA SameAccount ==
    ASSUME NEW d, NEW e, NEW o, Accounted(d, o), e.order[o] = d.order[o], e.request[o] = d.request[o],
           Allocated(e, o) = Allocated(d, o), CashCard(e, o) = CashCard(d, o)
    PROVE  Accounted(e, o)
BY DEF Accounted, ActiveRequest

\* Whether an order is settled is about its own row and sum.
LEMMA SameSettled ==
    ASSUME NEW d, NEW e, NEW o, Settled(d, o), e.order[o] = d.order[o], Allocated(e, o) = Allocated(d, o)
    PROVE  Settled(e, o)
BY DEF Settled, AnonymousSettled

\* The sums depend on nothing but the receipts.
LEMMA SamePayments ==
    ASSUME NEW d, NEW e, e.payments = d.payments
    PROVE  /\ \A o : Allocated(e, o) = Allocated(d, o) /\ CashCard(e, o) = CashCard(d, o)
           /\ Receipts(e) = Receipts(d) /\ (Receipted(d) => Receipted(e))
BY DEF Allocated, CashCard, Receipts, Receipted

\* Accounted, except that the figure of a draft request may be out of date.
AlmostAccounted(d, o) ==
    /\ 0 <= Allocated(d, o) /\ Allocated(d, o) <= d.order[o].total
    /\ d.order[o].status # "finalized" => Allocated(d, o) = 0
    /\ d.order[o].status = "finalized" =>
         d.order[o].total = ItemsTotal(d.order[o].items) /\ d.order[o].items # {}
    /\ ActiveRequest(d, o) => /\ FigureFrozen(d, o) => d.request[o].alreadyPaid = CashCard(d, o)
                              /\ d.order[o].status = "finalized" /\ ~d.order[o].anonymous
    /\ d.request[o].state \in {"issued", "cancellation_requested"} => Allocated(d, o) = d.order[o].total

\* SyncAlreadyPaid brings it up to date.
LEMMA SyncEffect ==
    ASSUME NEW d, IsTables(d), Receipted(d), d.request \in [OrderId -> RequestRow], NEW o \in OrderId,
           NEW e, e = SyncAlreadyPaid(d, o)
    PROVE  /\ MoneyOnly(d, e) /\ e.payments = d.payments /\ e.request \in [OrderId -> RequestRow]
           /\ \A x \in OrderId \ {o} : e.request[x] = d.request[x]
           /\ e.request[o].n = d.request[o].n /\ e.request[o].state = d.request[o].state
           /\ e.request[o].alreadyPaid = IF d.request[o].state = "draft" THEN CashCard(d, o)
                                         ELSE d.request[o].alreadyPaid
<1>1. MoneyOnly(d, e)
  BY Synchronized
<1>2. CASE d.request[o].state # "draft"
  BY <1>1, <1>2 DEF SyncAlreadyPaid
<1>3. CASE d.request[o].state = "draft"
  <2> DEFINE row == [d.request[o] EXCEPT !.alreadyPaid = CashCard(d, o)]
             f == [d.request EXCEPT ![o] = row]
  <2>1. d.request[o] \in RequestRow /\ CashCard(d, o) \in Nat
    BY AllocatedTypes
  <2>2. /\ row \in RequestRow /\ row.n = d.request[o].n /\ row.state = d.request[o].state
        /\ row.alreadyPaid = CashCard(d, o)
    BY <2>1 DEF RequestRow
  <2>3. e = [d EXCEPT !.request = f]
    BY <1>3 DEF SyncAlreadyPaid
  <2>4. e.request = f /\ e.payments = d.payments
    BY <2>3 DEF IsTables
  <2> HIDE DEF row
  <2>5. f \in [OrderId -> RequestRow] /\ f[o] = row /\ \A x \in OrderId \ {o} : f[x] = d.request[x]
    BY <2>2
  <2> QED BY <1>1, <1>3, <2>2, <2>4, <2>5
<1> QED BY <1>2, <1>3

\* So a command that ends with it leaves the accounts right.
LEMMA SyncAccounts ==
    ASSUME NEW d, IsTables(d), Receipted(d), d.request \in [OrderId -> RequestRow], NEW o \in OrderId,
           AlmostAccounted(d, o), \A x \in OrderId \ {o} : Accounted(d, x),
           NEW e, e = SyncAlreadyPaid(d, o)
    PROVE  Accounts(e)
<1>1. /\ MoneyOnly(d, e) /\ e.payments = d.payments /\ e.request \in [OrderId -> RequestRow]
      /\ \A x \in OrderId \ {o} : e.request[x] = d.request[x]
      /\ e.request[o].n = d.request[o].n /\ e.request[o].state = d.request[o].state
      /\ e.request[o].alreadyPaid = IF d.request[o].state = "draft" THEN CashCard(d, o)
                                    ELSE d.request[o].alreadyPaid
  BY SyncEffect
<1>2. Receipted(e) /\ \A x : Allocated(e, x) = Allocated(d, x) /\ CashCard(e, x) = CashCard(d, x)
  BY <1>1, SamePayments
<1>3. e.order = d.order
  BY <1>1 DEF MoneyOnly
<1>4. \A x \in OrderId \ {o} : Accounted(e, x)
  BY <1>1, <1>2, <1>3, SameAccount
<1>5. Accounted(e, o)
  <2>1. ActiveRequest(e, o) <=> ActiveRequest(d, o)
    BY <1>1 DEF ActiveRequest
  <2>2. ActiveRequest(e, o) => e.request[o].alreadyPaid = CashCard(e, o)
    BY <1>1, <1>2, <2>1 DEF AlmostAccounted, FigureFrozen
  <2> QED BY <1>1, <1>2, <1>3, <2>1, <2>2 DEF AlmostAccounted, Accounted
<1> QED BY <1>1, <1>2, <1>4, <1>5 DEF Accounts

-----------------------------------------------------------------------------
(* Receipts and reversals *)

\* A new receipt is whole.
LEMMA NewRow ==
    ASSUME NEW method \in Method, NEW a \in Nat \ {0}, NEW o \in OrderId, NEW n \in 0..MaxRequests,
           NEW row, row = Row(method, a, o, n)
    PROVE  /\ row \in PaymentRow /\ Whole(row) /\ row.method = method
           /\ \A x \in OrderId : row.net[x] = IF x = o THEN a ELSE 0
<1>1. [x \in OrderId |-> IF x = o THEN a ELSE 0] \in [OrderId -> Int]
  OBVIOUS
<1>2. row \in PaymentRow
  BY <1>1 DEF Row, PaymentRow
<1>3. Whole(row)
  BY DEF Row, Whole
<1> QED BY <1>2, <1>3 DEF Row

\* One more receipt that is whole.
LEMMA MoreReceipted ==
    ASSUME NEW d, Receipted(d), NEW row \in PaymentRow, Whole(row), Len(d.payments) < MaxPayments,
           NEW e, e.payments = Append(d.payments, row)
    PROVE  Receipted(e) /\ Receipts(d) \subseteq Receipts(e)
<1>1. d.payments \in Seq(PaymentRow) /\ Len(d.payments) \in Nat
  BY DEF Receipted
<1>2. /\ e.payments \in Seq(PaymentRow) /\ Len(e.payments) = Len(d.payments) + 1
      /\ \A p \in 1..Len(e.payments) : e.payments[p] = IF p = Len(e.payments) THEN row ELSE d.payments[p]
  BY <1>1
<1>3. Len(e.payments) <= MaxPayments
  BY <1>1, <1>2, OrdersAssumption
<1>4. \A p \in Receipts(e) : Whole(e.payments[p])
  BY <1>1, <1>2 DEF Receipted, Receipts
<1> QED BY <1>1, <1>2, <1>3, <1>4 DEF Receipted, Receipts

\* A receipt of cash or card.
LEMMA ReceivedAccounts ==
    ASSUME NEW d, IsTables(d), Accounts(d), NEW o \in OrderId, NEW a \in Nat \ {0}, CanReceive(d, o, a),
           d.order[o].total \in Nat, NEW e, e = Received(d, o, a)
    PROVE  /\ Accounts(e) /\ MoneyOnly(d, e) /\ Receipts(d) \subseteq Receipts(e)
           /\ Allocated(e, o) = Allocated(d, o) + a
           /\ \A x \in OrderId \ {o} : Allocated(e, x) = Allocated(d, x)
<1> DEFINE row == Row("cash_card", a, o, 0)
           f == [d EXCEPT !.payments = Append(d.payments, row)]
<1>1. /\ row \in PaymentRow /\ Whole(row) /\ row.method = "cash_card"
      /\ \A x \in OrderId : row.net[x] = IF x = o THEN a ELSE 0
  BY NewRow, OrdersAssumption DEF Method
<1>2. Receipted(d) /\ d.request \in [OrderId -> RequestRow] /\ \A x \in OrderId : Accounted(d, x)
  BY DEF Accounts
<1>3. /\ IsTables(f) /\ MoneyOnly(d, f) /\ f.payments = Append(d.payments, row)
      /\ f.order = d.order /\ f.request = d.request
  <2>1. MoneyOnly(d, f)
    BY MoneyFields
  <2>2. f.payments = Append(d.payments, row) /\ f.request = d.request
    <3> HIDE DEF row
    <3> QED BY DEF IsTables
  <2> QED BY <2>1, <2>2 DEF MoneyOnly
<1>4. e = SyncAlreadyPaid(f, o)
  BY DEF Received
<1> HIDE DEF f, row
<1>5. Receipted(f) /\ Receipts(d) \subseteq Receipts(f)
  BY <1>1, <1>2, <1>3, MoreReceipted DEF CanReceive
<1>6. \A x \in OrderId : /\ Allocated(f, x) = Allocated(d, x) + (IF x = o THEN a ELSE 0)
                         /\ CashCard(f, x) = CashCard(d, x) + (IF x = o THEN a ELSE 0)
  BY <1>1, <1>2, <1>3, OneMore
<1>7. \A x \in OrderId : Allocated(d, x) \in Nat /\ CashCard(d, x) \in Nat
  BY <1>2, AllocatedTypes
<1>8. \A x \in OrderId \ {o} : Accounted(f, x) /\ Allocated(f, x) = Allocated(d, x)
  BY <1>2, <1>3, <1>6, <1>7, SameAccount
<1>9. AlmostAccounted(f, o)
  <2>1. /\ d.order[o].status = "finalized" /\ ~FigureFrozen(d, o)
        /\ a <= d.order[o].total - Allocated(d, o)
    BY DEF CanReceive
  <2>2. Allocated(f, o) = Allocated(d, o) + a
    BY <1>6
  <2>3. 0 <= Allocated(f, o) /\ Allocated(f, o) <= f.order[o].total
    BY <1>3, <1>7, <2>1, <2>2
  <2>4. /\ ActiveRequest(f, o) <=> ActiveRequest(d, o)
        /\ ~FigureFrozen(f, o) /\ f.request[o].state \notin {"issued", "cancellation_requested"}
    BY <1>3, <2>1 DEF ActiveRequest, FigureFrozen
  <2> QED BY <1>2, <1>3, <2>1, <2>3, <2>4 DEF AlmostAccounted, Accounted
<1>10. Accounts(e)
  BY <1>2, <1>3, <1>4, <1>5, <1>8, <1>9, SyncAccounts
<1>11. MoneyOnly(f, e) /\ e.payments = f.payments
  BY <1>2, <1>3, <1>4, <1>5, SyncEffect
<1>12. MoneyOnly(d, e)
  BY <1>3, <1>11, MoneyChain
<1>13. Receipts(d) \subseteq Receipts(e) /\ \A x : Allocated(e, x) = Allocated(f, x)
  BY <1>5, <1>11, SamePayments
<1>14. Allocated(e, o) = Allocated(d, o) + a
  BY <1>6, <1>13
<1> QED BY <1>8, <1>10, <1>12, <1>13, <1>14

\* Reversing receipts of an order, whatever its request says.
Reversing(d, S, o, e) ==
    e.payments = [p \in DOMAIN d.payments |->
                    IF p \in S THEN RowReversed(d.payments[p], o) ELSE d.payments[p]]

\* What CanReverseReceipt says of the receipts it admits.
Reversible(d, S, o) == \A p \in S : ~d.payments[p].reversed /\ o \in AllocatedTo(d, p)
\* Every other order is allocated what it was.
SameElsewhere(d, e, o) ==
    \A x \in OrderId \ {o} : Allocated(e, x) = Allocated(d, x) /\ CashCard(e, x) = CashCard(d, x)
\* Receipts outside S are as they were, the others of the same amount and method.
Untouched(d, S, e) ==
    /\ \A p \in Receipts(d) \ S : e.payments[p] = d.payments[p]
    /\ \A p \in Receipts(d) : e.payments[p].amount = d.payments[p].amount /\ e.payments[p].method = d.payments[p].method

\* A reversal takes the receipts from the order and changes no other order.
LEMMA ReversingEffect ==
    ASSUME NEW d, Receipted(d), NEW o \in OrderId, NEW S \in SUBSET Receipts(d), Reversible(d, S, o),
           NEW e, Reversing(d, S, o, e)
    PROVE  /\ Receipted(e) /\ Receipts(e) = Receipts(d)
           /\ Allocated(e, o) <= Allocated(d, o)
           /\ SameElsewhere(d, e, o)
           /\ Untouched(d, S, e)
           /\ \A p \in S : e.payments[p].net[o] = 0
           /\ S = {} => e.payments = d.payments
<1>1. /\ Receipts(d) = 1..Len(d.payments) /\ Len(d.payments) \in Nat /\ DOMAIN d.payments = Receipts(d)
      /\ \A p \in Receipts(d) : d.payments[p] \in PaymentRow /\ Whole(d.payments[p])
      /\ d.payments \in Seq(PaymentRow) /\ Len(d.payments) <= MaxPayments
  BY NetTypes DEF Receipted, Receipts
<1>2. ASSUME NEW p \in S
      PROVE  /\ e.payments[p] \in PaymentRow /\ Whole(e.payments[p])
             /\ e.payments[p].net = [x \in OrderId |-> 0] /\ e.payments[p].reversed
             /\ e.payments[p].amount = d.payments[p].amount /\ e.payments[p].method = d.payments[p].method
             /\ d.payments[p].net[o] \in Nat /\ \A x \in OrderId \ {o} : d.payments[p].net[x] = 0
  <2> DEFINE row == d.payments[p]
             new == RowReversed(row, o)
             zeros == [x \in OrderId |-> 0]
  <2>1. row \in PaymentRow /\ Whole(row) /\ row.net[o] > 0
    BY <1>1, <1>2 DEF AllocatedTo, Reversible
  <2>2. row.net = [x \in OrderId |-> IF x = o THEN row.amount ELSE 0] /\ row.amount \in Nat
    <3> HIDE DEF row
    <3> QED BY <2>1, WholeNet DEF PaymentRow
  <2>3. e.payments[p] = new
    BY <1>1, <1>2 DEF Reversing
  <2> HIDE DEF row
  <2>4. [row.net EXCEPT ![o] = @ + -row.amount] = zeros
    BY <2>2
  <2>5. new = [row EXCEPT !.reversed = TRUE, !.net = zeros]
    BY <2>1, <2>4 DEF PaymentRow, RowReversed, Allocate
  <2>6. zeros \in [OrderId -> Int]
    OBVIOUS
  <2> HIDE DEF new, zeros
  <2>7. new \in PaymentRow /\ new.reversed /\ new.net = zeros /\ new.amount = row.amount /\ new.method = row.method
    BY <2>1, <2>5, <2>6 DEF PaymentRow
  <2>8. Whole(new)
    BY <2>7 DEF Whole, zeros
  <2> QED BY <2>2, <2>3, <2>7, <2>8 DEF zeros, row
<1>3. \A p \in Receipts(d) \ S : e.payments[p] = d.payments[p]
  BY <1>1 DEF Reversing
<1>4. DOMAIN e.payments = 1..Len(d.payments) /\ \A p \in 1..Len(d.payments) : e.payments[p] \in PaymentRow
  BY <1>1, <1>2, <1>3 DEF Reversing
<1>5. e.payments \in Seq(PaymentRow) /\ Len(e.payments) = Len(d.payments) /\ Receipts(e) = Receipts(d)
  <2>1. e.payments = [p \in 1..Len(d.payments) |-> e.payments[p]]
    BY <1>1 DEF Reversing
  <2>2. e.payments \in [1..Len(d.payments) -> PaymentRow]
    BY <1>4, <2>1
  <2> QED BY <1>1, <1>4, <2>2 DEF Receipts
<1>6. Receipted(e)
  BY <1>1, <1>2, <1>3, <1>5 DEF Receipted
<1>7. \A p \in Receipts(d) : e.payments[p].amount = d.payments[p].amount /\ e.payments[p].method = d.payments[p].method
  BY <1>2, <1>3
<1>8. \A x \in OrderId \ {o} : Allocated(e, x) = Allocated(d, x) /\ CashCard(e, x) = CashCard(d, x)
  <2> SUFFICES ASSUME NEW x \in OrderId \ {o}
               PROVE  Allocated(e, x) = Allocated(d, x) /\ CashCard(e, x) = CashCard(d, x)
    OBVIOUS
  <2>1. \A p \in Receipts(d) : e.payments[p].net[x] = d.payments[p].net[x]
    BY <1>2, <1>3
  <2> QED BY <1>5, <1>7, <2>1, SameNets
<1>9. Allocated(e, o) <= Allocated(d, o)
  <2>1. \A p \in Receipts(d) : e.payments[p].net[o] <= d.payments[p].net[o]
    <3>1. \A p \in Receipts(d) \ S : d.payments[p].net[o] \in Nat
      BY <1>1, WholeNet
    <3> QED BY <1>2, <1>3, <3>1
  <2> QED BY <1>5, <1>6, <2>1, FewerNets
<1>10. S = {} => e.payments = d.payments
  <2> SUFFICES ASSUME S = {} PROVE e.payments = d.payments
    OBVIOUS
  <2>1. e.payments = [p \in 1..Len(d.payments) |-> d.payments[p]]
    BY <1>1 DEF Reversing
  <2> QED BY <1>1, <2>1
<1> QED BY <1>2, <1>3, <1>5, <1>6, <1>7, <1>8, <1>9, <1>10 DEF SameElsewhere, Untouched

\* The reversals a command lists.
LEMMA AllReversedAccounts ==
    ASSUME NEW d, IsTables(d), Accounts(d), NEW o \in OrderId, d.order[o].total \in Nat,
           NEW S \in SUBSET Receipts(d), CanReverseAll(d, S, o),
           NEW e, e = AllReversed(d, S, o)
    PROVE  /\ Accounts(e) /\ MoneyOnly(d, e) /\ Receipts(e) = Receipts(d)
           /\ \A x \in OrderId \ {o} : Allocated(e, x) = Allocated(d, x)
           /\ ~ActiveRequest(d, o) => e.request = d.request
<1> DEFINE payments == [p \in DOMAIN d.payments |->
                          IF p \in S THEN RowReversed(d.payments[p], o) ELSE d.payments[p]]
           f == [d EXCEPT !.payments = payments]
<1>1. e = SyncAlreadyPaid(f, o)
  BY DEF AllReversed
<1>2. MoneyOnly(d, f)
  BY MoneyFields
<1>3. f.payments = payments /\ f.request = d.request
  <2> HIDE DEF payments
  <2> QED BY DEF IsTables
<1>4. IsTables(f) /\ f.order = d.order
  BY <1>2 DEF MoneyOnly
<1>5. Reversing(d, S, o, f)
  BY <1>3 DEF Reversing
<1> HIDE DEF f, payments
<1>6. Receipted(d) /\ d.request \in [OrderId -> RequestRow] /\ \A x \in OrderId : Accounted(d, x)
  BY DEF Accounts
<1>7. Reversible(d, S, o)
  BY DEF CanReverseAll, CanReverseReceipt, Reversible
<1>8. /\ Receipted(f) /\ Receipts(f) = Receipts(d)
      /\ Allocated(f, o) <= Allocated(d, o)
      /\ SameElsewhere(d, f, o)
      /\ S = {} => f.payments = d.payments
  BY <1>5, <1>6, <1>7, ReversingEffect
<1>9. \A x \in OrderId \ {o} : Accounted(f, x)
  BY <1>3, <1>4, <1>6, <1>8, SameAccount DEF SameElsewhere
<1>10. (ActiveRequest(f, o) <=> ActiveRequest(d, o)) /\ (FigureFrozen(f, o) <=> FigureFrozen(d, o))
  BY <1>3 DEF ActiveRequest, FigureFrozen
<1>11. AlmostAccounted(f, o)
  <2>1. CASE S = {}
    <3>1. Accounted(f, o)
      BY <1>3, <1>4, <1>6, <1>8, <2>1, SameAccount, SamePayments
    <3> QED BY <3>1 DEF Accounted, AlmostAccounted
  <2>2. CASE S # {}
    <3>1. PICK p \in S : CanReverseReceipt(d, p, o)
      BY <2>2 DEF CanReverseAll
    <3>2. ~FigureFrozen(d, o) /\ d.request[o].state \notin {"issued", "cancellation_requested"}
      BY <3>1 DEF CanReverseReceipt, FigureFrozen, ActiveRequest
    <3>3. Allocated(f, o) \in Nat /\ Allocated(d, o) \in Nat
      BY <1>6, <1>8, AllocatedTypes
    <3>4. 0 <= Allocated(f, o) /\ Allocated(f, o) <= d.order[o].total
      BY <1>6, <1>8, <3>3 DEF Accounted
    <3>5. d.order[o].status # "finalized" => Allocated(f, o) = 0
      BY <1>6, <1>8, <3>3 DEF Accounted
    <3> QED BY <1>3, <1>4, <1>6, <1>10, <3>2, <3>4, <3>5 DEF Accounted, AlmostAccounted
  <2> QED BY <2>1, <2>2
<1>12. Accounts(e)
  BY <1>1, <1>3, <1>4, <1>6, <1>8, <1>9, <1>11, SyncAccounts
<1>13. MoneyOnly(f, e) /\ e.payments = f.payments
  BY <1>1, <1>3, <1>4, <1>6, <1>8, SyncEffect
<1>14. MoneyOnly(d, e) /\ Receipts(e) = Receipts(d)
  BY <1>2, <1>8, <1>13, MoneyChain, SamePayments
<1>15. \A x \in OrderId \ {o} : Allocated(e, x) = Allocated(d, x)
  BY <1>8, <1>13, SamePayments DEF SameElsewhere
<1>16. ~ActiveRequest(d, o) => e.request = d.request
  BY <1>1, <1>3 DEF SyncAlreadyPaid, ActiveRequest
<1> QED BY <1>12, <1>14, <1>15, <1>16

\* One reversal is the reversal of one.
LEMMA OneReversed ==
    ASSUME NEW d, IsTables(d), Receipted(d), NEW o \in OrderId, NEW p \in Receipts(d)
    PROVE  ReceiptReversed(d, p, o) = AllReversed(d, {p}, o)
<1> DEFINE after == [d.payments EXCEPT ![p] = RowReversed(d.payments[p], o)]
           all == [q \in DOMAIN d.payments |-> IF q \in {p} THEN RowReversed(d.payments[q], o) ELSE d.payments[q]]
<1>1. p \in DOMAIN d.payments /\ d.payments = [q \in DOMAIN d.payments |-> d.payments[q]]
  BY DEF Receipted, Receipts
<1>2. after = all
  BY <1>1
<1>3. ReceiptReversed(d, p, o) = SyncAlreadyPaid([d EXCEPT !.payments = after], o)
  BY DEF ReceiptReversed
<1>4. AllReversed(d, {p}, o) = SyncAlreadyPaid([d EXCEPT !.payments = all], o)
  BY DEF AllReversed
<1> HIDE DEF after, all
<1> QED BY <1>2, <1>3, <1>4

-----------------------------------------------------------------------------
(* Edits of the orders keep the money *)

\* From d to e neither payments nor requests change.
MoneyKept(d, e) == IsTables(e) /\ e.payments = d.payments /\ e.request = d.request

\* Assigning an order, claims, stock or versions is such a change.
LEMMA KeptFields ==
    ASSUME NEW d, IsTables(d), NEW x, NEW o
    PROVE  /\ MoneyKept(d, [d EXCEPT !.order = x]) /\ MoneyKept(d, [d EXCEPT !.claim = x])
           /\ MoneyKept(d, [d EXCEPT !.loose = x]) /\ MoneyKept(d, [d EXCEPT !.version = x])
           /\ MoneyKept(d, [d EXCEPT !.order[o].status = x]) /\ MoneyKept(d, [d EXCEPT !.order[o].anonymous = x])
           /\ MoneyKept(d, [d EXCEPT !.order[o].items = x]) /\ MoneyKept(d, [d EXCEPT !.order[o].captured = x])
           /\ MoneyKept(d, [d EXCEPT !.order[o].captured[x] = d.version[x]])
           /\ MoneyKept(d, [d EXCEPT !.order[o].replaces = x]) /\ MoneyKept(d, [d EXCEPT !.order[o].total = x])
           /\ MoneyKept(d, [d EXCEPT !.order[o].sold = x])
<1>1. ASSUME NEW y PROVE MoneyKept(d, [d EXCEPT !.order = y])
  BY DEF IsTables, MoneyKept
<1>2. MoneyKept(d, [d EXCEPT !.claim = x])
  BY DEF IsTables, MoneyKept
<1>3. MoneyKept(d, [d EXCEPT !.loose = x])
  BY DEF IsTables, MoneyKept
<1>4. MoneyKept(d, [d EXCEPT !.version = x])
  BY DEF IsTables, MoneyKept
<1> QED BY <1>1, <1>2, <1>3, <1>4

\* Two such changes are one.
LEMMA KeptChain ==
    ASSUME NEW d, NEW e, NEW f, MoneyKept(d, e), MoneyKept(e, f)
    PROVE  MoneyKept(d, f)
BY DEF MoneyKept

\* So are the helpers that edit orders.
LEMMA KeptHelpers ==
    ASSUME NEW d, IsTables(d), NEW o, NEW i, NEW x, NEW y, NEW z
    PROVE  /\ MoneyKept(d, Created(d, o, x, y)) /\ MoneyKept(d, Filled(d, o, x, y, z))
           /\ MoneyKept(d, Inserted(d, o, i)) /\ MoneyKept(d, Removed(d, o, i)) /\ MoneyKept(d, Released(d, o))
           /\ MoneyKept(d, Finalized(d, o)) /\ MoneyKept(d, Reversed(d, o))
<1>1. MoneyKept(d, Created(d, o, x, y))
  <2> DEFINE e1 == [d EXCEPT !.order[o].status = "draft"]
             e2 == [e1 EXCEPT !.order[o].anonymous = x]
             e3 == [e2 EXCEPT !.order[o].replaces = y]
  <2>1. MoneyKept(d, e1)
    BY KeptFields
  <2>2. MoneyKept(e1, e2)
    <3> HIDE DEF e1
    <3> QED BY <2>1 DEF MoneyKept, IsTables
  <2>3. MoneyKept(e2, e3)
    <3> HIDE DEF e2
    <3> QED BY <2>2 DEF MoneyKept, IsTables
  <2>4. Created(d, o, x, y) = e3
    BY DEF Created
  <2> HIDE DEF e1, e2, e3
  <2> QED BY <2>1, <2>2, <2>3, <2>4, KeptChain
<1>2. \A items, captured, claim : MoneyKept(d, Filled(d, o, items, captured, claim))
  <2> TAKE items, captured, claim
  <2> DEFINE e1 == [d EXCEPT !.order[o].items = items]
             e2 == [e1 EXCEPT !.order[o].captured = captured]
             e3 == [e2 EXCEPT !.claim = claim]
  <2>1. MoneyKept(d, e1)
    BY KeptFields
  <2>2. MoneyKept(e1, e2)
    <3> HIDE DEF e1
    <3> QED BY <2>1 DEF MoneyKept, IsTables
  <2>3. MoneyKept(e2, e3)
    <3> HIDE DEF e2
    <3> QED BY <2>2 DEF MoneyKept, IsTables
  <2>4. Filled(d, o, items, captured, claim) = e3
    BY DEF Filled
  <2> HIDE DEF e1, e2, e3
  <2> QED BY <2>1, <2>2, <2>3, <2>4, KeptChain
<1>3. MoneyKept(d, Inserted(d, o, i))
  BY DEF Inserted, MoneyKept, IsTables
<1>4. MoneyKept(d, Removed(d, o, i))
  <2> DEFINE items == d.order[o].items \ {i}
             captured == [j \in Job |-> IF j = i THEN 0 ELSE d.order[o].captured[j]]
             claim == [j \in Job |-> IF j = i /\ d.claim[j] = o THEN NoOrder ELSE d.claim[j]]
             e == [d EXCEPT !.order[o].items = items, !.order[o].captured = captured, !.claim = claim]
  <2>1. Removed(d, o, i) = e
    BY DEF Removed
  <2>2. e = Filled(d, o, items, captured, claim)
    BY DEF Filled
  <2> HIDE DEF e, items, captured, claim
  <2> QED BY <1>2, <2>1, <2>2
<1>5. MoneyKept(d, Released(d, o))
  BY DEF Released, MoneyKept, IsTables
<1>6. MoneyKept(d, Finalized(d, o))
  <2> DEFINE articles == d.order[o].items \cap Article
             e1 == [d EXCEPT !.order[o].status = "finalized"]
             e2 == [e1 EXCEPT !.order[o].total = ItemsTotal(d.order[o].items)]
             e3 == [e2 EXCEPT !.order[o].sold = articles]
             e4 == [e3 EXCEPT !.claim = [j \in Job |-> IF j \in d.order[o].items THEN o ELSE d.claim[j]]]
             e5 == [e4 EXCEPT !.loose = [a \in Article |-> IF a \in d.order[o].items THEN d.loose[a] - 1 ELSE d.loose[a]]]
  <2>1. MoneyKept(d, e1)
    BY KeptFields
  <2>2. MoneyKept(e1, e2)
    <3> HIDE DEF e1
    <3> QED BY <2>1 DEF MoneyKept, IsTables
  <2>3. MoneyKept(e2, e3)
    <3>1. \A f, v : IsTables(f) => MoneyKept(f, [f EXCEPT !.order[o].sold = v])
      BY KeptFields
    <3> HIDE DEF e2, articles
    <3> QED BY <2>2, <3>1 DEF MoneyKept
  <2>4. MoneyKept(e3, e4)
    <3> HIDE DEF e3
    <3> QED BY <2>3 DEF MoneyKept, IsTables
  <2>5. MoneyKept(e4, e5)
    <3> HIDE DEF e4
    <3> QED BY <2>4 DEF MoneyKept, IsTables
  <2>6. Finalized(d, o) = e5
    BY DEF Finalized
  <2> HIDE DEF e1, e2, e3, e4, e5
  <2> QED BY <2>1, <2>2, <2>3, <2>4, <2>5, <2>6, KeptChain
<1>7. MoneyKept(d, Reversed(d, o))
  <2> DEFINE e1 == [d EXCEPT !.order[o].status = "reversed"]
             e2 == [e1 EXCEPT !.order[o].sold = {}]
             e3 == [e2 EXCEPT !.loose = [a \in Article |-> IF a \in d.order[o].sold THEN d.loose[a] + 1 ELSE d.loose[a]]]
             e4 == [e3 EXCEPT !.claim = [j \in Job |-> IF e3.claim[j] = o THEN NoOrder ELSE e3.claim[j]]]
  <2>1. MoneyKept(d, e1)
    BY KeptFields
  <2>2. MoneyKept(e1, e2)
    <3> HIDE DEF e1
    <3> QED BY <2>1 DEF MoneyKept, IsTables
  <2>3. MoneyKept(e2, e3)
    <3> HIDE DEF e2
    <3> QED BY <2>2 DEF MoneyKept, IsTables
  <2>4. MoneyKept(e3, e4)
    <3> HIDE DEF e3
    <3> QED BY <2>3 DEF MoneyKept, IsTables
  <2>5. Reversed(d, o) = Released(e3, o)
    BY DEF Reversed
  <2>6. Released(e3, o) = e4
    BY DEF Released
  <2> HIDE DEF e1, e2, e3, e4
  <2> QED BY <2>1, <2>2, <2>3, <2>4, <2>5, <2>6, KeptChain
<1> QED BY <1>1, <1>2, <1>3, <1>4, <1>5, <1>6, <1>7

-----------------------------------------------------------------------------
(* Edits of the orders keep the accounts *)

\* The accounts are right and every anonymous order is settled.
Balanced(d) == Accounts(d) /\ \A o \in OrderId : Settled(d, o)

\* An order that has no money and no request is edited, or reversed.
LEMMA EditBalanced ==
    ASSUME NEW d, NEW e, NEW o \in OrderId, Accounts(d), \A x \in OrderId \ {o} : Settled(d, x),
           Typed(e), MoneyKept(d, e),
           \A x \in OrderId \ {o} : e.order[x] = d.order[x],
           e.order[o].status # "finalized", Allocated(d, o) = 0, ~ActiveRequest(d, o)
    PROVE  /\ Balanced(e) /\ Receipts(e) = Receipts(d)
           /\ \A x \in OrderId : Allocated(e, x) = Allocated(d, x) /\ (ActiveRequest(e, x) <=> ActiveRequest(d, x))
<1>1. /\ \A x : Allocated(e, x) = Allocated(d, x) /\ CashCard(e, x) = CashCard(d, x)
      /\ Receipts(e) = Receipts(d) /\ Receipted(e) /\ e.request = d.request
  BY SamePayments DEF Accounts, MoneyKept
<1>2. \A x \in OrderId : Accounted(d, x)
  BY DEF Accounts
<1>3. \A x \in OrderId : ActiveRequest(e, x) <=> ActiveRequest(d, x)
  BY <1>1 DEF ActiveRequest
<1>4. \A x \in OrderId \ {o} : Accounted(e, x) /\ Settled(e, x)
  BY <1>1, <1>2, SameAccount, SameSettled
<1>5. Accounted(e, o) /\ Settled(e, o)
  <2>1. e.order[o].total \in Nat
    BY DEF Typed, OrderRow
  <2>2. e.request[o].state \notin {"issued", "cancellation_requested"}
    BY <1>1 DEF ActiveRequest
  <2> QED BY <1>1, <1>3, <2>1, <2>2 DEF Accounted, Settled
<1> QED BY <1>1, <1>3, <1>4, <1>5 DEF Balanced, Accounts, MoneyKept

\* An order that is not finalized has neither money nor a request.
LEMMA NotFinalized ==
    ASSUME NEW d, Accounts(d), NEW o \in OrderId, d.order[o].status # "finalized"
    PROVE  Allocated(d, o) = 0 /\ ~ActiveRequest(d, o)
BY DEF Accounts, Accounted

\* Edits of a draft.
LEMMA DraftBalanced ==
    ASSUME NEW d, NEW e, NEW o \in OrderId, Balanced(d), DraftEdit(d, e, o), MoneyKept(d, e)
    PROVE  Balanced(e) /\ Receipts(e) = Receipts(d)
<1>1. Allocated(d, o) = 0 /\ ~ActiveRequest(d, o)
  BY NotFinalized DEF DraftEdit, Balanced
<1> QED BY <1>1, EditBalanced DEF DraftEdit, Balanced

\* A finalized order is accounted; it is settled if the command that finalizes it goes on to settle it.
LEMMA SaleAccounts ==
    ASSUME NEW d, NEW e, NEW o \in OrderId, Balanced(d), Sale(d, e, o), MoneyKept(d, e), d.order[o].items # {}
    PROVE  /\ Accounts(e) /\ Receipts(e) = Receipts(d) /\ \A x \in OrderId \ {o} : Settled(e, x)
           /\ \A x \in OrderId : Allocated(e, x) = Allocated(d, x)
           /\ ~ActiveRequest(e, o)
<1>1. /\ \A x : Allocated(e, x) = Allocated(d, x) /\ CashCard(e, x) = CashCard(d, x)
      /\ Receipts(e) = Receipts(d) /\ Receipted(e) /\ e.request = d.request
  BY SamePayments DEF Balanced, Accounts, MoneyKept
<1>2. \A x \in OrderId : Accounted(d, x) /\ Settled(d, x)
  BY DEF Balanced, Accounts
<1>3. Allocated(d, o) = 0 /\ ~ActiveRequest(d, o)
  BY NotFinalized DEF Sale, Balanced
<1>4. ~ActiveRequest(e, o)
  BY <1>1, <1>3 DEF ActiveRequest
<1>5. \A x \in OrderId \ {o} : Accounted(e, x) /\ Settled(e, x)
  BY <1>1, <1>2, SameAccount, SameSettled DEF Sale
<1>6. Accounted(e, o)
  <2>1. e.order[o].total \in Nat
    BY DEF Sale, Typed, OrderRow
  <2>2. e.request[o].state \notin {"issued", "cancellation_requested"}
    BY <1>4 DEF ActiveRequest
  <2>3. e.order[o].status = "finalized" /\ e.order[o].total = ItemsTotal(e.order[o].items) /\ e.order[o].items # {}
    BY DEF Sale
  <2> QED BY <1>1, <1>3, <1>4, <2>1, <2>2, <2>3 DEF Accounted
<1> QED BY <1>1, <1>4, <1>5, <1>6 DEF Balanced, Accounts, MoneyKept

-----------------------------------------------------------------------------
(* The commands *)

\* The commands on a draft.
LEMMA DraftCommandsBalanced ==
    ASSUME Books(db), Balanced(db), NEW o \in OrderId,
           \/ \E anonymous \in BOOLEAN : Update(o, anonymous)
           \/ \E i \in Item : AddItem(o, i) \/ RemoveItem(o, i)
           \/ \E j \in Job : RefreshItem(o, j)
           \/ CancelOrder(o)
    PROVE  Balanced(db') /\ Receipts(db') = Receipts(db)
<1>1. Typed(db) /\ IsTables(db)
  BY DEF Books, Typed
<1>2. CASE \E anonymous \in BOOLEAN : Update(o, anonymous)
  <2>1. PICK anonymous \in BOOLEAN : Update(o, anonymous)
    BY <1>2
  <2> DEFINE e == [db EXCEPT !.order[o].anonymous = anonymous]
  <2>2. db' = e /\ DraftEdit(db, e, o)
    BY <1>1, <2>1, UpdateEdit DEF Update, Commit
  <2>3. MoneyKept(db, e)
    BY <1>1, KeptFields
  <2> HIDE DEF e
  <2> QED BY <2>2, <2>3, DraftBalanced
<1>3. CASE \E i \in Item : AddItem(o, i)
  <2>1. DraftEdit(db, db', o) /\ MoneyKept(db, db')
    BY <1>1, <1>3, InsertedEdit, KeptHelpers DEF AddItem, Commit
  <2> QED BY <2>1, DraftBalanced
<1>4. CASE \E i \in Item : RemoveItem(o, i)
  <2>1. DraftEdit(db, db', o) /\ MoneyKept(db, db')
    BY <1>1, <1>4, RemovedEdit, KeptHelpers DEF RemoveItem, Commit
  <2> QED BY <2>1, DraftBalanced
<1>5. CASE \E j \in Job : RefreshItem(o, j)
  <2>1. PICK i \in Job : RefreshItem(o, i)
    BY <1>5
  <2> DEFINE e == Removed(db, o, i)
  <2>2. i \in Item /\ db.order[o].status = "draft" /\ db' = Inserted(e, o, i)
    BY <2>1, Constants DEF RefreshItem, Commit
  <2>3. DraftEdit(db, e, o) /\ e.order[o].status = "draft" /\ MoneyKept(db, e)
    BY <1>1, <2>2, RemovedEdit, KeptHelpers
  <2> HIDE DEF e
  <2>4. DraftEdit(e, db', o) /\ MoneyKept(e, db')
    <3>1. Typed(e) /\ IsTables(e)
      BY <2>3 DEF DraftEdit, Typed
    <3> QED BY <2>2, <2>3, <3>1, InsertedEdit, KeptHelpers
  <2>5. DraftEdit(db, db', o) /\ MoneyKept(db, db')
    BY <2>3, <2>4, DraftChain, KeptChain
  <2> QED BY <2>5, DraftBalanced
<1>6. CASE CancelOrder(o)
  <2>1. DraftEdit(db, db', o)
    BY <1>1, <1>6, CancelEdit DEF CancelOrder, Commit
  <2>2. MoneyKept(db, db')
    <3> DEFINE e == Released(db, o)
    <3>1. MoneyKept(db, e)
      BY <1>1, KeptHelpers
    <3>2. db' = [e EXCEPT !.order[o].status = "cancelled"]
      BY <1>6 DEF CancelOrder, Commit
    <3> HIDE DEF e
    <3>3. MoneyKept(e, [e EXCEPT !.order[o].status = "cancelled"])
      BY <3>1 DEF MoneyKept, IsTables
    <3> QED BY <3>1, <3>2, <3>3, KeptChain
  <2> QED BY <2>1, <2>2, DraftBalanced
<1> QED BY <1>2, <1>3, <1>4, <1>5, <1>6

\* Create.
LEMMA CreateBalanced ==
    ASSUME Books(db), Balanced(db), NEW anonymous \in BOOLEAN, Create(anonymous)
    PROVE  Balanced(db') /\ Receipts(db') = Receipts(db)
<1> DEFINE r == Min(Unused(db))
<1>1. db' = Created(db, r, anonymous, NoOrder) /\ IsTables(db)
  BY DEF Create, Commit, Books, Typed
<1>2. r \in OrderId /\ db.order[r].status = "none"
  BY Smallest DEF Create
<1> HIDE DEF r
<1>3. DraftEdit(db, db', r) /\ MoneyKept(db, db')
  BY <1>1, <1>2, CreatedEdit, KeptHelpers DEF Books
<1> QED BY <1>2, <1>3, DraftBalanced

\* A job that changes.
LEMMA JobMovesBalanced ==
    ASSUME Books(db), Balanced(db), NEW j \in Job, JobChanges(j)
    PROVE  Balanced(db') /\ Receipts(db') = Receipts(db)
<1> DEFINE version == [db.version EXCEPT ![j] = db.version[j] + 1]
<1>1. db' = [db EXCEPT !.version = version] /\ IsTables(db)
  BY DEF JobChanges, Commit, Books, Typed
<1> HIDE DEF version
<1>2. MoneyKept(db, db') /\ db'.order = db.order
  BY <1>1, KeptFields DEF IsTables
<1>3. /\ \A x : Allocated(db', x) = Allocated(db, x) /\ CashCard(db', x) = CashCard(db, x)
      /\ Receipts(db') = Receipts(db) /\ Receipted(db') /\ db'.request = db.request
  BY <1>2, SamePayments DEF Balanced, Accounts, MoneyKept
<1>4. \A x \in OrderId : Accounted(db', x) /\ Settled(db', x)
  BY <1>2, <1>3, SameAccount, SameSettled DEF Balanced, Accounts
<1> QED BY <1>3, <1>4 DEF Balanced, Accounts

-----------------------------------------------------------------------------
(* Invoice requests *)

\* A request gets a new state.
InState(d, o, state) == [d EXCEPT !.request[o].state = state]

\* Only the state of that request changes.
LEMMA StateSet ==
    ASSUME NEW d, IsTables(d), d.request \in [OrderId -> RequestRow], NEW o \in OrderId, NEW state \in InvoiceState,
           NEW f, f = InState(d, o, state)
    PROVE  /\ MoneyOnly(d, f) /\ f.payments = d.payments /\ f.request \in [OrderId -> RequestRow]
           /\ \A x \in OrderId \ {o} : f.request[x] = d.request[x]
           /\ f.request[o].n = d.request[o].n /\ f.request[o].state = state
           /\ f.request[o].alreadyPaid = d.request[o].alreadyPaid
<1> DEFINE row == [d.request[o] EXCEPT !.state = state]
           g == [d.request EXCEPT ![o] = row]
<1>1. MoneyOnly(d, f)
  BY MoneyFields DEF InState
<1>2. f = [d EXCEPT !.request = g]
  BY DEF InState
<1>3. /\ row \in RequestRow /\ row.n = d.request[o].n /\ row.state = state
      /\ row.alreadyPaid = d.request[o].alreadyPaid
  BY DEF RequestRow
<1> HIDE DEF row
<1>4. g \in [OrderId -> RequestRow] /\ g[o] = row /\ \A x \in OrderId \ {o} : g[x] = d.request[x]
  BY <1>3
<1>5. f.request = g /\ f.payments = d.payments
  <2> HIDE DEF g
  <2> QED BY <1>2 DEF IsTables
<1> QED BY <1>1, <1>3, <1>4, <1>5

\* The end of every request command.
LEMMA ToStateAccounts ==
    ASSUME NEW d, IsTables(d), Receipted(d), d.request \in [OrderId -> RequestRow], NEW o \in OrderId,
           \A x \in OrderId \ {o} : Accounted(d, x),
           NEW state \in InvoiceState,
           0 <= Allocated(d, o), Allocated(d, o) <= d.order[o].total,
           d.order[o].status # "finalized" => Allocated(d, o) = 0,
           d.order[o].status = "finalized" =>
             d.order[o].total = ItemsTotal(d.order[o].items) /\ d.order[o].items # {},
           state \notin {"none", "cancelled"} => d.order[o].status = "finalized" /\ ~d.order[o].anonymous,
           state \notin {"none", "cancelled", "draft"} => d.request[o].alreadyPaid = CashCard(d, o),
           state \in {"issued", "cancellation_requested"} => Allocated(d, o) = d.order[o].total,
           NEW e, e = ToState(d, o, state)
    PROVE  /\ Accounts(e) /\ e.order = d.order /\ e.payments = d.payments
           /\ \A x : Allocated(e, x) = Allocated(d, x)
<1> DEFINE f == InState(d, o, state)
<1>1. e = SyncAlreadyPaid(f, o)
  BY DEF ToState, InState
<1>2. /\ MoneyOnly(d, f) /\ f.payments = d.payments /\ f.request \in [OrderId -> RequestRow]
      /\ \A x \in OrderId \ {o} : f.request[x] = d.request[x]
      /\ f.request[o].n = d.request[o].n /\ f.request[o].state = state
      /\ f.request[o].alreadyPaid = d.request[o].alreadyPaid
  BY StateSet
<1> HIDE DEF f
<1>3. /\ \A x : Allocated(f, x) = Allocated(d, x) /\ CashCard(f, x) = CashCard(d, x)
      /\ Receipted(f) /\ IsTables(f) /\ f.order = d.order
  BY <1>2, SamePayments DEF MoneyOnly
<1>4. \A x \in OrderId \ {o} : Accounted(f, x)
  BY <1>2, <1>3, SameAccount
<1>5. AlmostAccounted(f, o)
  <2>1. /\ ActiveRequest(f, o) => f.order[o].status = "finalized" /\ ~f.order[o].anonymous
        /\ FigureFrozen(f, o) => f.request[o].alreadyPaid = CashCard(f, o)
    BY <1>2, <1>3 DEF ActiveRequest, FigureFrozen
  <2> QED BY <1>2, <1>3, <2>1 DEF AlmostAccounted
<1>6. Accounts(e)
  BY <1>1, <1>2, <1>3, <1>4, <1>5, SyncAccounts
<1>7. MoneyOnly(f, e) /\ e.payments = f.payments
  BY <1>1, <1>2, <1>3, SyncEffect
<1>8. \A x : Allocated(e, x) = Allocated(f, x)
  BY <1>7, SamePayments
<1> QED BY <1>2, <1>3, <1>6, <1>7, <1>8 DEF MoneyOnly

\* What a command on one order keeps settled.
LEMMA StaySettled ==
    ASSUME NEW d, Balanced(d), NEW o \in OrderId, NEW e, e.order = d.order,
           \A x \in OrderId \ {o} : Allocated(e, x) = Allocated(d, x),
           Allocated(e, o) = Allocated(d, o) \/ ~d.order[o].anonymous \/ d.order[o].status # "finalized"
    PROVE  \A x \in OrderId : Settled(e, x)
BY DEF Balanced, Settled, AnonymousSettled

\* Same payments, same receipts.
LEMMA ReceiptsOf ==
    ASSUME NEW d, NEW e, e.payments = d.payments
    PROVE  Receipts(e) = Receipts(d)
BY DEF Receipts

\* A new request is a draft whose figure is synchronized.
LEMMA CreateRequestBalanced ==
    ASSUME Books(db), Balanced(db), NEW o \in OrderId, CreateRequest(o)
    PROVE  Balanced(db') /\ Receipts(db) \subseteq Receipts(db')
<1> DEFINE row == [n |-> db.request[o].n + 1, state |-> "draft", alreadyPaid |-> 0]
           g == [db.request EXCEPT ![o] = row]
           f == [db EXCEPT !.request = g]
<1>1. /\ IsTables(db) /\ Receipted(db) /\ db.request \in [OrderId -> RequestRow]
      /\ \A x \in OrderId : Accounted(db, x)
  BY DEF Books, Typed, Balanced, Accounts
<1>2. row \in RequestRow /\ row.state = "draft"
  <2>1. db.request[o].n \in 0..MaxRequests /\ db.request[o].n < MaxRequests
    BY <1>1 DEF RequestRow, CreateRequest
  <2> QED BY <2>1, OrdersAssumption DEF RequestRow, InvoiceState
<1>3. db' = SyncAlreadyPaid(f, o)
  BY DEF CreateRequest, Commit
<1> HIDE DEF row
<1>4. g \in [OrderId -> RequestRow] /\ g[o] = row /\ \A x \in OrderId \ {o} : g[x] = db.request[x]
  BY <1>1, <1>2
<1> HIDE DEF g
<1>5. MoneyOnly(db, f) /\ f.request = g /\ f.payments = db.payments
  BY <1>1 DEF IsTables, MoneyOnly
<1> HIDE DEF f
<1>6. /\ \A x : Allocated(f, x) = Allocated(db, x) /\ CashCard(f, x) = CashCard(db, x)
      /\ Receipted(f) /\ IsTables(f) /\ f.order = db.order
  BY <1>1, <1>5, SamePayments DEF MoneyOnly
<1>7. \A x \in OrderId \ {o} : Accounted(f, x)
  BY <1>1, <1>4, <1>5, <1>6, SameAccount
<1>8. AlmostAccounted(f, o)
  <2>1. db.order[o].status = "finalized" /\ ~db.order[o].anonymous
    BY DEF CreateRequest
  <2> QED BY <1>1, <1>2, <1>4, <1>5, <1>6, <2>1 DEF AlmostAccounted, Accounted, FigureFrozen
<1>9. Accounts(db')
  BY <1>3, <1>4, <1>5, <1>6, <1>7, <1>8, SyncAccounts
<1>10. MoneyOnly(f, db') /\ db'.payments = f.payments
  BY <1>3, <1>4, <1>5, <1>6, SyncEffect
<1>11. db'.order = db.order /\ \A x : Allocated(db', x) = Allocated(db, x)
  BY <1>6, <1>10, SamePayments DEF MoneyOnly
<1>12. \A x \in OrderId : Settled(db', x)
  BY <1>11, StaySettled
<1> QED BY <1>5, <1>9, <1>10, <1>12, ReceiptsOf DEF Balanced

\* Submitting, returning, cancelling a request, and asking for the cancellation of an invoice.
LEMMA StateCommandsBalanced ==
    ASSUME Books(db), Balanced(db), NEW o \in OrderId,
           SubmitRequest(o) \/ ReturnRequest(o) \/ CancelRequest(o) \/ RequestCancellation(o)
    PROVE  Balanced(db') /\ Receipts(db) \subseteq Receipts(db')
<1>1. /\ IsTables(db) /\ Receipted(db) /\ db.request \in [OrderId -> RequestRow]
      /\ \A x \in OrderId : Accounted(db, x)
  BY DEF Books, Typed, Balanced, Accounts
<1>2. PICK d, state :
        /\ state \in InvoiceState \ {"none"}
        /\ db' = ToState(d, o, state)
        /\ d = db \/ d = SyncAlreadyPaid(db, o)
        /\ ActiveRequest(db, o)
        /\ state = "cancellation_requested" => db.request[o].state = "issued"
        /\ state # "issued"
  <2>1. CASE SubmitRequest(o)
    BY <2>1, Zenon DEF SubmitRequest, Commit, InvoiceState, ActiveRequest
  <2>2. CASE ReturnRequest(o)
    BY <2>2 DEF ReturnRequest, Commit, InvoiceState, ActiveRequest
  <2>3. CASE CancelRequest(o)
    BY <2>3 DEF CancelRequest, Commit, InvoiceState, ActiveRequest
  <2>4. CASE RequestCancellation(o)
    BY <2>4 DEF RequestCancellation, Commit, InvoiceState, ActiveRequest
  <2> QED BY <2>1, <2>2, <2>3, <2>4
<1>3. AlmostAccounted(db, o)
  BY <1>1 DEF AlmostAccounted, Accounted
<1>4. Accounts(d) /\ IsTables(d) /\ d.order = db.order /\ d.payments = db.payments
      /\ d.request[o].state = db.request[o].state
  <2>1. CASE d = db
    BY <1>1, <2>1 DEF Balanced
  <2>2. CASE d = SyncAlreadyPaid(db, o)
    BY <1>1, <1>3, <2>2, SyncAccounts, SyncEffect DEF MoneyOnly
  <2> QED BY <1>2, <2>1, <2>2
<1>5. /\ Receipted(d) /\ d.request \in [OrderId -> RequestRow] /\ \A x \in OrderId : Accounted(d, x)
      /\ ActiveRequest(d, o)
  BY <1>2, <1>4 DEF Accounts, ActiveRequest
<1>6. /\ 0 <= Allocated(d, o) /\ Allocated(d, o) <= d.order[o].total
      /\ d.order[o].status = "finalized" /\ ~d.order[o].anonymous
      /\ d.order[o].total = ItemsTotal(d.order[o].items) /\ d.order[o].items # {}
      /\ d.request[o].alreadyPaid = CashCard(d, o)
      /\ state = "cancellation_requested" => Allocated(d, o) = d.order[o].total
  BY <1>2, <1>4, <1>5 DEF Accounted
<1>7. /\ Accounts(db') /\ db'.order = d.order /\ db'.payments = d.payments
  BY <1>2, <1>4, <1>5, <1>6, ToStateAccounts
<1>8. \A x : Allocated(db', x) = Allocated(db, x)
  BY <1>4, <1>7, SamePayments
<1>9. \A x \in OrderId : Settled(db', x)
  BY <1>4, <1>7, <1>8, StaySettled
<1> QED BY <1>4, <1>7, <1>9, ReceiptsOf DEF Balanced

\* Forwarding settles the order by an external receipt of exactly what is
\* open, and leaves the cash and card figure the request was submitted with.
LEMMA ForwardBalanced ==
    ASSUME Books(db), Balanced(db), NEW o \in OrderId, ForwardRequest(o)
    PROVE  Balanced(db') /\ Receipts(db) \subseteq Receipts(db')
<1> DEFINE open == db.order[o].total - Allocated(db, o)
           row == Row("external", open, o, db.request[o].n)
           payments == Append(db.payments, row)
           e == IF open > 0 THEN [db EXCEPT !.payments = payments] ELSE db
<1>1. /\ IsTables(db) /\ Receipted(db) /\ db.request \in [OrderId -> RequestRow]
      /\ \A x \in OrderId : Accounted(db, x) /\ Allocated(db, x) \in Nat /\ CashCard(db, x) \in Nat
  BY AllocatedTypes DEF Books, Typed, Balanced, Accounts
<1>2. db.order[o].total \in Nat /\ open \in Nat
  <2>1. db.order[o].total \in Nat
    BY DEF Books, Typed, OrderRow
  <2> QED BY <1>1, <2>1 DEF Accounted
<1>3. db' = ToState(e, o, "issued")
  BY DEF ForwardRequest, Commit
<1>4. /\ db.request[o].state = "submitted" /\ db.order[o].status = "finalized"
      /\ open > 0 => Len(db.payments) < MaxPayments
  BY DEF ForwardRequest
<1>5. /\ IsTables(e) /\ e.order = db.order /\ e.request = db.request
      /\ e.payments = IF open > 0 THEN payments ELSE db.payments
  <2> HIDE DEF payments
  <2> QED BY <1>1 DEF IsTables
<1> HIDE DEF e
<1>6. /\ Receipted(e) /\ Receipts(db) \subseteq Receipts(e)
      /\ Allocated(e, o) = db.order[o].total /\ CashCard(e, o) = CashCard(db, o)
      /\ \A x \in OrderId \ {o} : Allocated(e, x) = Allocated(db, x) /\ CashCard(e, x) = CashCard(db, x)
  <2>1. CASE open > 0
    <3>1. db.request[o].n \in 0..MaxRequests /\ open \in Nat \ {0} /\ "external" \in Method
      BY <1>1, <1>2, <2>1 DEF RequestRow, Method
    <3>2. /\ row \in PaymentRow /\ Whole(row) /\ row.method = "external"
          /\ \A x \in OrderId : row.net[x] = IF x = o THEN open ELSE 0
      <4> HIDE DEF row, open
      <4>1. row = Row("external", open, o, db.request[o].n)
        BY DEF row
      <4> QED BY <3>1, <4>1, NewRow
    <3>3. e.payments = Append(db.payments, row)
      BY <1>5, <2>1
    <3> HIDE DEF row, payments
    <3>4. Receipted(e) /\ Receipts(db) \subseteq Receipts(e)
      BY <1>1, <1>4, <2>1, <3>2, <3>3, MoreReceipted
    <3>5. \A x \in OrderId : /\ Allocated(e, x) = Allocated(db, x) + row.net[x]
                             /\ CashCard(e, x) = CashCard(db, x)
      BY <1>1, <3>2, <3>3, OneMore
    <3> QED BY <1>1, <1>2, <3>2, <3>4, <3>5
  <2>2. CASE ~(open > 0)
    <3>1. e.payments = db.payments /\ Allocated(db, o) = db.order[o].total
      BY <1>1, <1>2, <1>5, <2>2
    <3> QED BY <1>1, <3>1, SamePayments
  <2> QED BY <2>1, <2>2
<1>7. \A x \in OrderId \ {o} : Accounted(e, x)
  BY <1>1, <1>5, <1>6, SameAccount
<1>8. ActiveRequest(db, o)
  BY <1>4 DEF ActiveRequest
<1>9. /\ ~db.order[o].anonymous /\ db.request[o].alreadyPaid = CashCard(db, o)
      /\ db.order[o].total = ItemsTotal(db.order[o].items) /\ db.order[o].items # {}
  BY <1>1, <1>4, <1>8 DEF Accounted
<1>10. /\ 0 <= Allocated(e, o) /\ Allocated(e, o) <= e.order[o].total /\ Allocated(e, o) = e.order[o].total
       /\ "issued" \in InvoiceState /\ e.order[o].status = "finalized" /\ ~e.order[o].anonymous
       /\ e.request[o].alreadyPaid = CashCard(e, o)
       /\ e.order[o].total = ItemsTotal(e.order[o].items) /\ e.order[o].items # {}
  BY <1>2, <1>4, <1>5, <1>6, <1>9 DEF InvoiceState
<1>11. /\ Accounts(db') /\ db'.order = e.order /\ db'.payments = e.payments
       /\ \A x : Allocated(db', x) = Allocated(e, x)
  <2> DEFINE state == "issued"
  <2>1. state \in InvoiceState /\ db' = ToState(e, o, state) /\ e.request \in [OrderId -> RequestRow]
    BY <1>1, <1>3, <1>5 DEF InvoiceState
  <2> HIDE DEF state
  <2> QED BY <1>5, <1>6, <1>7, <1>10, <2>1, ToStateAccounts
<1>12. \A x \in OrderId : Settled(db', x)
  BY <1>5, <1>6, <1>9, <1>11, StaySettled
<1>13. Receipts(db') = Receipts(e)
  BY <1>11, ReceiptsOf
<1> QED BY <1>6, <1>11, <1>12, <1>13 DEF Balanced

\* A cancellation is confirmed: the external receipts go, the request is no
\* longer active, so the figure it named binds nobody.
LEMMA ConfirmBalanced ==
    ASSUME Books(db), Balanced(db), NEW o \in OrderId, ConfirmCancellation(o)
    PROVE  Balanced(db') /\ Receipts(db) \subseteq Receipts(db')
<1> DEFINE S == {p \in ActiveReceipts(db, o) :
                   db.payments[p].method = "external" /\ db.payments[p].request = db.request[o].n}
           all == [p \in DOMAIN db.payments |->
                     IF p \in S THEN RowReversed(db.payments[p], o) ELSE db.payments[p]]
           payments == AllReversed(db, S, o).payments
           e == [db EXCEPT !.payments = payments]
<1>1. /\ IsTables(db) /\ Receipted(db) /\ db.request \in [OrderId -> RequestRow]
      /\ \A x \in OrderId : Accounted(db, x)
  BY DEF Books, Typed, Balanced, Accounts
<1>2. db' = ToState(e, o, "cancelled") /\ ActiveRequest(db, o)
  BY DEF ConfirmCancellation, Commit, ActiveRequest
<1>3. S \in SUBSET Receipts(db) /\ Reversible(db, S, o)
  <2> SUFFICES ASSUME NEW p \in S
               PROVE  p \in Receipts(db) /\ ~db.payments[p].reversed /\ o \in AllocatedTo(db, p)
    BY DEF Reversible
  <2>1. p \in Receipts(db) /\ db.payments[p].net[o] > 0
    BY DEF ActiveReceipts
  <2>2. db.payments[p] \in PaymentRow /\ Whole(db.payments[p])
    BY <1>1, <2>1, NetTypes DEF Receipted
  <2> HIDE DEF S
  <2> QED BY <2>1, <2>2, WholeNet DEF AllocatedTo
<1> HIDE DEF S
<1>4. payments = all
  <2> DEFINE f == [db EXCEPT !.payments = all]
  <2>1. AllReversed(db, S, o) = SyncAlreadyPaid(f, o)
    BY DEF AllReversed
  <2> HIDE DEF all
  <2>2. f.payments = all /\ IsTables(f)
    BY <1>1 DEF IsTables
  <2> HIDE DEF f
  <2>3. SyncAlreadyPaid(f, o).payments = f.payments
    BY <2>2 DEF SyncAlreadyPaid, IsTables
  <2> QED BY <2>1, <2>2, <2>3
<1>5. IsTables(e) /\ e.order = db.order /\ e.request = db.request /\ e.payments = all
  <2> HIDE DEF all, payments
  <2> QED BY <1>1, <1>4 DEF IsTables
<1> HIDE DEF e, payments
<1>6. Reversing(db, S, o, e)
  BY <1>5 DEF Reversing
<1> HIDE DEF all
<1>7. /\ Receipted(e) /\ Receipts(e) = Receipts(db) /\ Allocated(e, o) <= Allocated(db, o)
      /\ SameElsewhere(db, e, o)
  BY <1>1, <1>3, <1>6, ReversingEffect
<1>8. \A x \in OrderId \ {o} : Accounted(e, x) /\ Allocated(e, x) = Allocated(db, x)
  BY <1>1, <1>5, <1>7, SameAccount DEF SameElsewhere
<1>9. /\ 0 <= Allocated(e, o) /\ Allocated(e, o) <= e.order[o].total
      /\ e.order[o].status = "finalized" /\ ~e.order[o].anonymous
      /\ e.order[o].total = ItemsTotal(e.order[o].items) /\ e.order[o].items # {}
  <2>1. Allocated(e, o) \in Nat /\ Allocated(db, o) \in Nat /\ db.order[o].total \in Nat
    BY <1>1, <1>7, AllocatedTypes DEF Books, Typed, OrderRow
  <2> QED BY <1>1, <1>2, <1>5, <1>7, <2>1 DEF Accounted
<1>10. /\ Accounts(db') /\ db'.order = e.order /\ db'.payments = e.payments
       /\ \A x : Allocated(db', x) = Allocated(e, x)
  <2> DEFINE state == "cancelled"
  <2>1. /\ state \in InvoiceState /\ state \in {"none", "cancelled"} /\ db' = ToState(e, o, state)
        /\ e.request \in [OrderId -> RequestRow] /\ state \notin {"issued", "cancellation_requested"}
    BY <1>1, <1>2, <1>5 DEF InvoiceState
  <2> HIDE DEF state
  <2> QED BY <1>5, <1>7, <1>8, <1>9, <2>1, ToStateAccounts
<1>11. \A x \in OrderId : Settled(db', x)
  BY <1>5, <1>8, <1>9, <1>10, StaySettled
<1>12. Receipts(db') = Receipts(e)
  BY <1>10, ReceiptsOf
<1> QED BY <1>7, <1>10, <1>11, <1>12 DEF Balanced

-----------------------------------------------------------------------------
(* Payments and lifecycle *)

\* Types that the books carry.
LEMMA BooksTypes ==
    ASSUME NEW d, Books(d)
    PROVE  Typed(d) /\ IsTables(d) /\ \A o \in OrderId : d.order[o].total \in Nat
BY DEF Books, Typed, OrderRow

\* The amounts of the commands.
LEMMA AmountsNatural == Amounts \cup {0} \subseteq Nat /\ Amounts \subseteq Nat \ {0}
<1>1. Cardinality(Item) \in Nat
  BY Constants, FS_CardinalityType
<1> QED BY <1>1 DEF Amounts

\* A command that ends with a receipt, and may settle an anonymous order by it.
LEMMA ReceiptBalanced ==
    ASSUME NEW d, Books(d), Accounts(d), NEW o \in OrderId, \A x \in OrderId \ {o} : Settled(d, x),
           NEW a \in Nat, MayReceive(d, o, a), NEW e, e = ReceivedIfAny(d, o, a), AnonymousSettled(e, o)
    PROVE  Balanced(e) /\ Receipts(d) \subseteq Receipts(e)
<1>1. CASE a = 0
  <2>1. e = d
    BY <1>1 DEF ReceivedIfAny
  <2>2. Settled(d, o)
    BY <2>1 DEF Settled
  <2> QED BY <2>1, <2>2 DEF Balanced
<1>2. CASE a # 0
  <2>1. e = Received(d, o, a) /\ a \in Nat \ {0} /\ CanReceive(d, o, a)
    BY <1>2 DEF ReceivedIfAny, MayReceive
  <2>2. /\ Accounts(e) /\ MoneyOnly(d, e) /\ Receipts(d) \subseteq Receipts(e)
        /\ \A x \in OrderId \ {o} : Allocated(e, x) = Allocated(d, x)
    BY <2>1, BooksTypes, ReceivedAccounts
  <2>3. \A x \in OrderId \ {o} : Settled(e, x)
    BY <2>2, SameSettled DEF MoneyOnly
  <2>4. Settled(e, o)
    BY DEF Settled
  <2> QED BY <2>2, <2>3, <2>4 DEF Balanced
<1> QED BY <1>1, <1>2

\* A receipt for an order that stays as it is: the order is not an anonymous one, those have nothing open.
LEMMA PaymentBalanced ==
    ASSUME NEW d, Books(d), Balanced(d), NEW o \in OrderId, NEW a \in Nat \ {0}, CanReceive(d, o, a),
           NEW e, e = Received(d, o, a)
    PROVE  Balanced(e) /\ Receipts(d) \subseteq Receipts(e)
<1>1. /\ Accounts(e) /\ MoneyOnly(d, e) /\ Receipts(d) \subseteq Receipts(e)
      /\ \A x \in OrderId \ {o} : Allocated(e, x) = Allocated(d, x)
  BY BooksTypes, ReceivedAccounts DEF Balanced
<1>2. ~d.order[o].anonymous
  <2>1. /\ d.order[o].status = "finalized" /\ a <= d.order[o].total - Allocated(d, o)
        /\ d.order[o].total \in Nat
    BY BooksTypes DEF CanReceive
  <2>2. d.order[o].anonymous => Allocated(d, o) = d.order[o].total
    BY <2>1 DEF Balanced, Settled, AnonymousSettled
  <2> QED BY <2>1, <2>2
<1>3. \A x \in OrderId : Settled(e, x)
  BY <1>1, <1>2, StaySettled DEF MoneyOnly
<1> QED BY <1>1, <1>3 DEF Balanced

\* RecordPayment and PayOwn of one order.
LEMMA PaymentCommandsBalanced ==
    ASSUME Books(db), Balanced(db), NEW o \in OrderId, NEW a \in Nat \ {0}, RecordPayment(o, a) \/ PayOwnOrder(o)
    PROVE  Balanced(db') /\ Receipts(db) \subseteq Receipts(db')
<1>1. CASE RecordPayment(o, a)
  BY <1>1, PaymentBalanced DEF RecordPayment, Commit
<1>2. CASE PayOwnOrder(o)
  <2> DEFINE open == db.order[o].total - Allocated(db, o)
  <2>1. open > 0 /\ CanReceive(db, o, open) /\ db' = Received(db, o, open)
    BY <1>2 DEF PayOwnOrder, Commit
  <2>2. open \in Nat \ {0}
    <3>1. Allocated(db, o) \in Nat /\ db.order[o].total \in Nat
      BY BooksTypes, AllocatedTypes DEF Balanced, Accounts
    <3> QED BY <2>1, <3>1
  <2> HIDE DEF open
  <2> QED BY <2>1, <2>2, PaymentBalanced
<1> QED BY <1>1, <1>2

\* The second step of a reversal.
LEMMA ReversePaymentBalanced ==
    ASSUME Books(db), MoneyInv, NEW a \in Amounts \cup {0}, ReversePayment(a)
    PROVE  Balanced(db') /\ Receipts(db) \subseteq Receipts(db')
<1>1. PICK p \in Receipts(db), o \in OrderId : reversing = [payment |-> p, order |-> o]
  BY DEF MoneyInv, ReversingKnown, ReversePayment
<1>2. reversing.payment = p /\ reversing.order = o
  BY <1>1
<1> DEFINE S == {p}
           d == AllReversed(db, S, o)
<1>3. ReceiptReversed(db, p, o) = d
  BY BooksTypes, OneReversed DEF MoneyInv, Accounts
<1>4. /\ CanReverseReceipt(db, p, o) /\ MayReceive(d, o, a)
      /\ AnonymousSettled(ReceivedIfAny(d, o, a), o) /\ db' = ReceivedIfAny(d, o, a)
  BY <1>2, <1>3 DEF ReversePayment
<1>5. S \in SUBSET Receipts(db) /\ CanReverseAll(db, S, o)
  BY <1>4 DEF CanReverseAll
<1> HIDE DEF S
<1>6. Accounts(db) /\ \A x \in OrderId : Settled(db, x)
  BY DEF MoneyInv
<1>7. Books(d)
  BY MoneyBooks
<1> HIDE DEF d
<1>8. d = AllReversed(db, S, o)
  BY DEF d
<1>9. /\ Accounts(d) /\ MoneyOnly(db, d) /\ Receipts(d) = Receipts(db)
      /\ \A x \in OrderId \ {o} : Allocated(d, x) = Allocated(db, x)
  BY <1>5, <1>6, <1>8, BooksTypes, AllReversedAccounts
<1>10. \A x \in OrderId \ {o} : Settled(d, x)
  BY <1>6, <1>9, SameSettled DEF MoneyOnly
<1> QED BY <1>4, <1>7, <1>9, <1>10, ReceiptBalanced, AmountsNatural

\* Finalize and checkout.
LEMMA FinalizeBalanced ==
    ASSUME Books(db), Balanced(db), NEW o \in OrderId, NEW a \in Amounts \cup {0}, FinalizeOrder(o, a)
    PROVE  Balanced(db') /\ Receipts(db) \subseteq Receipts(db')
<1> DEFINE final == Finalized(db, o)
<1>1. /\ CanFinalize(db, o) /\ MayReceive(final, o, a) /\ db' = ReceivedIfAny(final, o, a)
      /\ AnonymousSettled(ReceivedIfAny(final, o, a), o)
  BY DEF FinalizeOrder, Commit
<1>2. Sale(db, final, o) /\ MoneyKept(db, final) /\ Books(final)
  BY <1>1, BooksTypes, FinalizedSale, KeptHelpers, FinalizedBooks
<1> HIDE DEF final
<1>3. Accounts(final) /\ Receipts(final) = Receipts(db) /\ \A x \in OrderId \ {o} : Settled(final, x)
  BY <1>1, <1>2, SaleAccounts DEF CanFinalize
<1> QED BY <1>1, <1>2, <1>3, ReceiptBalanced, AmountsNatural

\* Reverse: the order ends without money, whatever the reversals left of it.
LEMMA ReverseBalanced ==
    ASSUME Books(db), Balanced(db), NEW o \in OrderId, NEW S \in SUBSET Receipts(db), ReverseOrder(o, S)
    PROVE  Balanced(db') /\ Receipts(db) \subseteq Receipts(db')
<1> DEFINE d == AllReversed(db, S, o)
<1>1. CanReverseAll(db, S, o) /\ CanReverse(d, o) /\ db' = Reversed(d, o)
  BY DEF ReverseOrder, Commit
<1>2. Books(d)
  BY MoneyBooks
<1> HIDE DEF d
<1>3. d = AllReversed(db, S, o)
  BY DEF d
<1>4. /\ Accounts(d) /\ MoneyOnly(db, d) /\ Receipts(d) = Receipts(db)
      /\ \A x \in OrderId \ {o} : Allocated(d, x) = Allocated(db, x)
  BY <1>1, <1>3, BooksTypes, AllReversedAccounts DEF Balanced
<1>5. \A x \in OrderId \ {o} : Settled(d, x)
  BY <1>4, SameSettled DEF MoneyOnly, Balanced
<1>6. SaleUndone(d, db', o) /\ MoneyKept(d, db')
  BY <1>1, <1>2, BooksTypes, ReversedSale, KeptHelpers DEF CanReverse
<1> QED BY <1>1, <1>4, <1>5, <1>6, EditBalanced DEF SaleUndone, CanReverse

\* A replacement draft has neither money nor a request.
LEMMA ReplacementBalanced ==
    ASSUME Books(db), Balanced(db), NEW o \in OrderId, CreateReplacement(o)
    PROVE  Balanced(db') /\ Receipts(db) \subseteq Receipts(db')
<1> DEFINE r == Min(Unused(db))
           d == Created(db, r, db.order[o].anonymous, o)
           items == db.order[o].items
           captured == [j \in Job |-> IF j \in items \cap Job THEN db.version[j] ELSE 0]
           claim == [j \in Job |-> IF j \in items \cap Job /\ d.claim[j] = NoOrder THEN r ELSE d.claim[j]]
<1>1. Typed(db) /\ IsTables(db)
  BY DEF Books, Typed
<1>2. db' = Filled(d, r, items, captured, claim)
  BY DEF CreateReplacement, Commit, Filled
<1>3. r \in OrderId /\ db.order[r].status = "none"
  BY Smallest DEF CreateReplacement
<1>4. items \in SUBSET Item /\ captured \in [Job -> 0..MaxVersion]
  <2>1. 0 \in 0..MaxVersion
    BY OrdersAssumption
  <2> QED BY <1>1, <2>1, RowTypes
<1>5. db.order[o].anonymous \in BOOLEAN /\ o \in OrderId \cup {NoOrder}
  BY <1>1, RowTypes
<1>6. DraftEdit(db, d, r) /\ d.order[r].status = "draft" /\ d.claim = db.claim /\ MoneyKept(db, d)
  <2> HIDE DEF r
  <2> QED BY <1>1, <1>3, <1>5, CreatedEdit, KeptHelpers
<1> HIDE DEF r, d, items, captured
<1>7. claim \in [Job -> OrderId \cup {NoOrder}]
  BY <1>1, <1>3, <1>6, RowTypes
<1>8. \A j \in Job : d.claim[j] \notin {NoOrder, r} => claim[j] = d.claim[j]
  OBVIOUS
<1> HIDE DEF claim
<1>9. DraftEdit(d, db', r) /\ MoneyKept(d, db')
  <2>1. Typed(d) /\ IsTables(d)
    BY <1>6 DEF DraftEdit, Typed
  <2> QED BY <1>2, <1>3, <1>4, <1>6, <1>7, <1>8, <2>1, FillEdit, KeptHelpers
<1> QED BY <1>3, <1>6, <1>9, DraftChain, KeptChain, DraftBalanced

\* PayOwn of jobs: the new order charges at least one job, is empty of money
\* before and settled after.
LEMMA PayOwnBalanced ==
    ASSUME Books(db), Balanced(db), NEW jobs \in SUBSET Job, PayOwnJobs(jobs)
    PROVE  Balanced(db') /\ Receipts(db) \subseteq Receipts(db')
<1> DEFINE o == Min(Unused(db))
           d == Created(db, o, FALSE, NoOrder)
           captured == [j \in Job |-> IF j \in jobs THEN db.version[j] ELSE 0]
           claim == [j \in Job |-> IF j \in jobs THEN o ELSE d.claim[j]]
           filled == Filled(d, o, jobs, captured, claim)
           final == Finalized(filled, o)
           total == final.order[o].total
<1>1. Typed(db) /\ IsTables(db)
  BY DEF Books, Typed
<1>2. CanFinalize(filled, o) /\ CanReceive(final, o, total) /\ db' = Received(final, o, total)
  BY DEF PayOwnJobs, Commit, Filled
<1>3. o \in OrderId /\ db.order[o].status = "none"
  BY Smallest DEF PayOwnJobs
<1>4. jobs \in SUBSET Item /\ captured \in [Job -> 0..MaxVersion]
  <2>1. 0 \in 0..MaxVersion
    BY OrdersAssumption
  <2> QED BY <1>1, <2>1, <1>3, RowTypes, Constants
<1>5. jobs # {} /\ \A j \in jobs : db.claim[j] = NoOrder
  BY DEF PayOwnJobs
<1>6. DraftEdit(db, d, o) /\ d.order[o].status = "draft" /\ d.claim = db.claim /\ MoneyKept(db, d)
  <2>1. FALSE \in BOOLEAN /\ NoOrder \in OrderId \cup {NoOrder}
    OBVIOUS
  <2> HIDE DEF o
  <2> QED BY <1>1, <1>3, <2>1, CreatedEdit, KeptHelpers
<1> HIDE DEF o, d, captured
<1>7. claim \in [Job -> OrderId \cup {NoOrder}]
  BY <1>1, <1>3, <1>6, RowTypes
<1>8. \A j \in Job : d.claim[j] \notin {NoOrder, o} => claim[j] = d.claim[j]
  BY <1>5, <1>6
<1> HIDE DEF claim
<1>9. DraftEdit(d, filled, o) /\ MoneyKept(d, filled) /\ filled.order[o].items = jobs
  <2>1. Typed(d) /\ IsTables(d)
    BY <1>6 DEF DraftEdit, Typed
  <2> HIDE DEF filled
  <2>2. filled = Filled(d, o, jobs, captured, claim)
    BY DEF filled
  <2>3. DraftEdit(d, filled, o) /\ filled.order[o].items = jobs
    BY <1>3, <1>4, <1>6, <1>7, <1>8, <2>1, <2>2, FillEdit
  <2>4. MoneyKept(d, filled)
    BY <2>1, <2>2, KeptHelpers
  <2> QED BY <2>3, <2>4
<1>10. DraftEdit(db, filled, o) /\ MoneyKept(db, filled)
  BY <1>6, <1>9, DraftChain, KeptChain
<1>11. Books(filled) /\ Balanced(filled) /\ Receipts(filled) = Receipts(db)
  BY <1>3, <1>10, DraftEditKeepsBooks, DraftBalanced
<1> HIDE DEF filled
<1>12. Books(final) /\ Sale(filled, final, o) /\ MoneyKept(filled, final)
  BY <1>2, <1>3, <1>11, BooksTypes, FinalizedBooks, FinalizedSale, KeptHelpers
<1> HIDE DEF final
<1>13. /\ Accounts(final) /\ Receipts(final) = Receipts(filled) /\ \A x \in OrderId \ {o} : Settled(final, x)
       /\ Allocated(final, o) = Allocated(filled, o)
  BY <1>3, <1>5, <1>9, <1>11, <1>12, SaleAccounts
<1>14. Allocated(final, o) = 0
  BY <1>3, <1>11, <1>12, <1>13, NotFinalized DEF Sale, Balanced
<1>15. total \in Nat \ {0}
  <2>1. total = ItemsTotal(jobs)
    BY <1>9, <1>12 DEF Sale
  <2>2. jobs \ Manual = jobs /\ IsFiniteSet(jobs)
    BY OrdersAssumption, FS_Subset
  <2>3. Cardinality(jobs) \in Nat /\ Cardinality(jobs) # 0
    BY <1>5, <2>2, FS_CardinalityType, FS_EmptySet
  <2> QED BY <2>1, <2>2, <2>3 DEF ItemsTotal
<1> HIDE DEF total
<1>16. /\ Accounts(db') /\ MoneyOnly(final, db') /\ Receipts(final) \subseteq Receipts(db')
       /\ Allocated(db', o) = Allocated(final, o) + total
       /\ \A x \in OrderId \ {o} : Allocated(db', x) = Allocated(final, x)
  BY <1>2, <1>3, <1>12, <1>13, <1>15, BooksTypes, ReceivedAccounts
<1>17. Settled(db', o)
  BY <1>14, <1>15, <1>16 DEF Settled, AnonymousSettled, MoneyOnly, total
<1>18. \A x \in OrderId \ {o} : Settled(db', x)
  BY <1>13, <1>16, SameSettled DEF MoneyOnly
<1> QED BY <1>11, <1>13, <1>16, <1>17, <1>18 DEF Balanced

\* The receipts of one order go to another.
RowTransferred(row, o, r) == Allocate(Allocate(row, o, -row.amount), r, row.amount)
\* From d to e what o has goes to r.
Transferred(d, o, r, e) ==
    e.payments = [p \in DOMAIN d.payments |->
                    IF p \in ActiveReceipts(d, o) THEN RowTransferred(d.payments[p], o, r) ELSE d.payments[p]]

\* A receipt that moves from o to r is whole again.
LEMMA RowMoves ==
    ASSUME NEW row \in PaymentRow, Whole(row), NEW o \in OrderId, NEW r \in OrderId, r # o, row.net[o] > 0,
           NEW new, new = RowTransferred(row, o, r)
    PROVE  /\ new \in PaymentRow /\ Whole(new) /\ new.method = row.method
           /\ \A x \in OrderId : new.net[x] = IF x = r THEN row.net[o] ELSE 0
           /\ \A x \in OrderId \ {o, r} : row.net[x] = 0
<1> DEFINE moved == [x \in OrderId |-> IF x = r THEN row.amount ELSE 0]
<1>1. ~row.reversed /\ row.net = [x \in OrderId |-> IF x = o THEN row.amount ELSE 0] /\ row.amount \in Nat
  BY WholeNet DEF PaymentRow
<1>2. [[row.net EXCEPT ![o] = @ + -row.amount] EXCEPT ![r] = @ + row.amount] = moved
  BY <1>1
<1>3. moved \in [OrderId -> Int]
  BY <1>1
<1> HIDE DEF moved
<1>4. new = [row EXCEPT !.net = moved]
  BY <1>2 DEF PaymentRow, RowTransferred, Allocate
<1>5. /\ new \in PaymentRow /\ new.method = row.method /\ new.amount = row.amount /\ ~new.reversed
      /\ new.net = moved
  BY <1>1, <1>3, <1>4 DEF PaymentRow
<1>6. Whole(new)
  BY <1>5 DEF Whole, moved
<1> QED BY <1>1, <1>5, <1>6 DEF moved

\* The order the receipts leave has nothing, the one they go to has what the
\* other had.
LEMMA TransferEffect ==
    ASSUME NEW d, Receipted(d), NEW o \in OrderId, NEW r \in OrderId, r # o, Allocated(d, r) = 0,
           NEW e, Transferred(d, o, r, e)
    PROVE  /\ Receipted(e) /\ Receipts(e) = Receipts(d)
           /\ Allocated(e, o) = 0 /\ Allocated(e, r) = Allocated(d, o)
           /\ \A x \in OrderId : x # o /\ x # r =>
                /\ Allocated(e, x) = Allocated(d, x) /\ CashCard(e, x) = CashCard(d, x)
<1> DEFINE S == ActiveReceipts(d, o)
<1>1. /\ Receipts(d) = 1..Len(d.payments) /\ Len(d.payments) \in Nat /\ DOMAIN d.payments = Receipts(d)
      /\ \A p \in Receipts(d) : d.payments[p] \in PaymentRow /\ Whole(d.payments[p])
      /\ d.payments \in Seq(PaymentRow) /\ Len(d.payments) <= MaxPayments
      /\ S \subseteq Receipts(d)
  BY NetTypes DEF Receipted, Receipts, ActiveReceipts
<1>2. ASSUME NEW p \in S
      PROVE  /\ e.payments[p] \in PaymentRow /\ Whole(e.payments[p])
             /\ e.payments[p].method = d.payments[p].method
             /\ \A x \in OrderId : e.payments[p].net[x] = IF x = r THEN d.payments[p].net[o] ELSE 0
             /\ \A x \in OrderId \ {o, r} : d.payments[p].net[x] = 0
  <2>1. d.payments[p] \in PaymentRow /\ Whole(d.payments[p]) /\ d.payments[p].net[o] > 0
    BY <1>1, <1>2 DEF ActiveReceipts
  <2>2. e.payments[p] = RowTransferred(d.payments[p], o, r)
    BY <1>1, <1>2 DEF Transferred
  <2> HIDE DEF S
  <2> QED BY <2>1, <2>2, RowMoves
<1>3. ASSUME NEW p \in Receipts(d) \ S
      PROVE  e.payments[p] = d.payments[p] /\ d.payments[p].net[o] = 0 /\ d.payments[p].net[r] = 0
  <2>1. e.payments[p] = d.payments[p]
    BY <1>1, <1>3 DEF Transferred
  <2>2. d.payments[p].net[o] \in Nat /\ ~(d.payments[p].net[o] > 0)
    BY <1>1, <1>3, WholeNet DEF ActiveReceipts
  <2> QED BY <1>3, <2>1, <2>2, NoNets
<1>4. e.payments = [p \in 1..Len(d.payments) |-> e.payments[p]] /\ DOMAIN e.payments = 1..Len(d.payments)
  BY <1>1 DEF Transferred
<1> HIDE DEF S
<1>5. \A p \in 1..Len(d.payments) : e.payments[p] \in PaymentRow /\ Whole(e.payments[p])
  BY <1>1, <1>2, <1>3
<1>6. e.payments \in Seq(PaymentRow) /\ Len(e.payments) = Len(d.payments) /\ Receipts(e) = Receipts(d)
  <2>1. e.payments \in [1..Len(d.payments) -> PaymentRow]
    BY <1>4, <1>5
  <2> QED BY <1>1, <1>4, <2>1 DEF Receipts
<1>7. Receipted(e)
  BY <1>1, <1>5, <1>6 DEF Receipted
<1>8. Allocated(e, o) = 0
  <2>1. \A p \in Receipts(d) : e.payments[p].net[o] = 0
    BY <1>2, <1>3
  <2> QED BY <1>6, <1>7, <2>1, NoNets
<1>9. Allocated(e, r) = Allocated(d, o)
  <2>1. \A p \in Receipts(d) : e.payments[p].net[r] = d.payments[p].net[o]
    BY <1>2, <1>3
  <2>2. Nets(e, r) = Nets(d, o)
    BY <1>6, <2>1 DEF Nets
  <2> QED BY <2>2, AllocatedIs
<1>10. ASSUME NEW x \in OrderId, x # o, x # r
       PROVE  Allocated(e, x) = Allocated(d, x) /\ CashCard(e, x) = CashCard(d, x)
  <2>1. \A p \in Receipts(d) : /\ e.payments[p].net[x] = d.payments[p].net[x]
                               /\ e.payments[p].method = d.payments[p].method
    BY <1>2, <1>3, <1>10
  <2> QED BY <1>6, <2>1, SameNets
<1> QED BY <1>6, <1>7, <1>8, <1>9, <1>10

\* What Detached and Moved do together; only the orders change in between.
LEMMA Transfer ==
    ASSUME NEW d, IsTables(d), Receipted(d), NEW o \in OrderId, NEW r \in OrderId,
           NEW free, free = Detached(d, ActiveReceipts(d, o), o),
           NEW final, IsTables(final), final.payments = free.payments,
           NEW moved, moved = Moved(final, ActiveReceipts(d, o), r)
    PROVE  Transferred(d, o, r, moved) /\ moved.request = final.request /\ free.request = d.request
<1> DEFINE S == ActiveReceipts(d, o)
           rows == [p \in DOMAIN d.payments |->
                      IF p \in S THEN Allocate(d.payments[p], o, -d.payments[p].amount) ELSE d.payments[p]]
           all == [p \in DOMAIN final.payments |->
                     IF p \in S THEN Allocate(final.payments[p], r, final.payments[p].amount) ELSE final.payments[p]]
<1>1. free = [d EXCEPT !.payments = rows]
  <2>1. Detached(d, S, o) = [d EXCEPT !.payments = rows]
    BY DEF Detached
  <2> HIDE DEF rows
  <2> QED BY <2>1
<1>2. moved = [final EXCEPT !.payments = all]
  <2>1. Moved(final, S, r) = [final EXCEPT !.payments = all]
    BY DEF Moved
  <2> HIDE DEF all
  <2> QED BY <2>1
<1>3. free.payments = rows /\ free.request = d.request
  <2> HIDE DEF rows
  <2> QED BY <1>1 DEF IsTables
<1>4. moved.payments = all /\ moved.request = final.request
  <2> HIDE DEF all
  <2> QED BY <1>2 DEF IsTables
<1>5. final.payments = rows
  BY <1>3
<1>6. ASSUME NEW p \in DOMAIN d.payments, p \in S
      PROVE  all[p] = RowTransferred(d.payments[p], o, r)
  <2> DEFINE row == d.payments[p]
             first == Allocate(row, o, -row.amount)
  <2>1. row \in PaymentRow
    BY NetTypes DEF Receipts
  <2>2. final.payments[p] = first /\ DOMAIN final.payments = DOMAIN d.payments
    BY <1>5, <1>6
  <2>3. first.amount = row.amount
    <3> HIDE DEF row
    <3> QED BY <2>1 DEF PaymentRow, Allocate
  <2>4. all[p] = Allocate(first, r, first.amount)
    <3> HIDE DEF row, first
    <3> QED BY <1>6, <2>2
  <2> QED BY <2>3, <2>4 DEF RowTransferred
<1>7. \A p \in DOMAIN d.payments : p \notin S => all[p] = d.payments[p]
  BY <1>5
<1>8. DOMAIN all = DOMAIN d.payments
  BY <1>5
<1>9. all = [p \in DOMAIN d.payments |-> IF p \in S THEN RowTransferred(d.payments[p], o, r) ELSE d.payments[p]]
  <2>1. all = [p \in DOMAIN d.payments |-> all[p]]
    BY <1>8
  <2> HIDE DEF all, S
  <2> QED BY <1>6, <1>7, <2>1
<1> QED BY <1>3, <1>4, <1>9 DEF Transferred

\* The accounts after the receipts moved and the replacement is finalized.
LEMMA TransferAccounts ==
    ASSUME NEW d, Accounts(d), NEW o \in OrderId, NEW r \in OrderId, r # o,
           NEW e, IsTables(e), Transferred(d, o, r, e), e.request = d.request, Typed(e),
           \A x \in OrderId : x # o /\ x # r => e.order[x] = d.order[x],
           ~ActiveRequest(d, o), d.order[r].status # "finalized",
           e.order[o].status # "finalized", e.order[r].status = "finalized",
           e.order[r].total = ItemsTotal(e.order[r].items), e.order[r].items # {},
           Allocated(d, o) <= e.order[r].total
    PROVE  /\ Accounts(e) /\ Receipts(e) = Receipts(d)
           /\ \A x \in OrderId : x # o /\ x # r => Allocated(e, x) = Allocated(d, x)
<1>1. Receipted(d) /\ d.request \in [OrderId -> RequestRow] /\ \A x \in OrderId : Accounted(d, x)
  BY DEF Accounts
<1>2. Allocated(d, r) = 0 /\ ~ActiveRequest(d, r)
  BY NotFinalized
<1>3. /\ Receipted(e) /\ Receipts(e) = Receipts(d)
      /\ Allocated(e, o) = 0 /\ Allocated(e, r) = Allocated(d, o)
      /\ \A x \in OrderId : x # o /\ x # r => Allocated(e, x) = Allocated(d, x) /\ CashCard(e, x) = CashCard(d, x)
  BY <1>1, <1>2, TransferEffect
<1>4. \A x \in OrderId : ActiveRequest(e, x) <=> ActiveRequest(d, x)
  BY DEF ActiveRequest
<1>5. ASSUME NEW x \in OrderId, x # o, x # r PROVE Accounted(e, x)
  BY <1>1, <1>3, <1>5, SameAccount
<1>6. \A x \in OrderId : ~ActiveRequest(e, x) => e.request[x].state \notin {"issued", "cancellation_requested"}
  BY DEF ActiveRequest
<1>7. e.order[o].total \in Nat /\ e.order[r].total \in Nat
  BY DEF Typed, OrderRow
<1>8. Accounted(e, o)
  BY <1>3, <1>4, <1>6, <1>7 DEF Accounted
<1>9. Accounted(e, r)
  <2>1. Allocated(d, o) \in Nat
    BY <1>1, AllocatedTypes
  <2> QED BY <1>2, <1>3, <1>4, <1>6, <1>7, <2>1 DEF Accounted
<1> QED BY <1>1, <1>3, <1>5, <1>8, <1>9 DEF Accounts

\* Replace: reversals, the receipts detached, the original reversed, the
\* replacement finalized, the receipts attached, a receipt in addition.
LEMMA ReplaceBalanced ==
    ASSUME Books(db), Balanced(db), NEW o \in OrderId, NEW r \in OrderId, NEW S \in SUBSET Receipts(db),
           NEW a \in Amounts \cup {0}, Replace(o, r, S, a)
    PROVE  Balanced(db') /\ Receipts(db) \subseteq Receipts(db')
<1> DEFINE reversed == AllReversed(db, S, o)
           carried == ActiveReceipts(reversed, o)
           free == Detached(reversed, carried, o)
           released == IF db.order[o].status = "finalized" THEN Reversed(free, o) ELSE free
           final == Finalized(released, r)
           moved == Moved(final, carried, r)
<1>1. /\ db.order[r].status = "draft" /\ db.order[o].status \in {"finalized", "reversed"}
      /\ ~ActiveRequest(db, o) /\ CanReverseAll(db, S, o)
  BY DEF Replace
<1>2. /\ Allocated(reversed, o) <= ItemsTotal(db.order[r].items)
      /\ CanFinalize(released, r)
      /\ MayReceive(moved, r, a) /\ AnonymousSettled(ReceivedIfAny(moved, r, a), r)
      /\ db' = ReceivedIfAny(moved, r, a)
  BY DEF Replace, Commit
<1>3. /\ Accounts(reversed) /\ MoneyOnly(db, reversed) /\ Receipts(reversed) = Receipts(db)
      /\ \A x \in OrderId \ {o} : Allocated(reversed, x) = Allocated(db, x)
      /\ reversed.request = db.request /\ Books(reversed)
  <2>1. Books(reversed)
    BY MoneyBooks
  <2> HIDE DEF reversed
  <2>2. reversed = AllReversed(db, S, o)
    BY DEF reversed
  <2> QED BY <1>1, <2>1, <2>2, BooksTypes, AllReversedAccounts DEF Balanced
<1> HIDE DEF reversed
<1>4. Books(free) /\ MoneyOnly(reversed, free)
  BY <1>3, BooksTypes, MoneyBooks, MoneySteps
<1>5. IsTables(reversed) /\ IsTables(free) /\ free.order = db.order
  BY <1>3, <1>4, BooksTypes DEF MoneyOnly
<1> HIDE DEF free
<1>6. /\ Books(released) /\ MoneyKept(free, released)
      /\ released.order[o].status # "finalized" /\ \A x \in OrderId \ {o} : released.order[x] = free.order[x]
  <2>1. CASE db.order[o].status = "finalized"
    <3>1. SaleUndone(free, Reversed(free, o), o)
      BY <1>4, <1>5, <2>1, ReversedSale
    <3>2. Books(Reversed(free, o)) /\ MoneyKept(free, Reversed(free, o))
      BY <1>4, <1>5, <3>1, SaleUndoneKeepsBooks, KeptHelpers
    <3> QED BY <2>1, <3>1, <3>2 DEF SaleUndone
  <2>2. CASE db.order[o].status # "finalized"
    BY <1>4, <1>5, <2>2 DEF MoneyKept
  <2> QED BY <2>1, <2>2
<1> HIDE DEF released
<1>7. r # o
  BY <1>1
<1>8. Books(final) /\ Sale(released, final, r) /\ MoneyKept(released, final)
  BY <1>2, <1>6, BooksTypes, FinalizedBooks, FinalizedSale, KeptHelpers
<1> HIDE DEF final
<1>9. Books(moved) /\ MoneyOnly(final, moved)
  BY <1>8, BooksTypes, MoneyBooks, MoneySteps
<1>10. Transferred(reversed, o, r, moved) /\ moved.request = final.request /\ free.request = reversed.request
  <2>1. free = Detached(reversed, ActiveReceipts(reversed, o), o)
    BY DEF free
  <2>2. moved = Moved(final, ActiveReceipts(reversed, o), r)
    OBVIOUS
  <2>3. IsTables(final) /\ final.payments = free.payments /\ Receipted(reversed)
    BY <1>3, <1>6, <1>8 DEF MoneyKept, Accounts
  <2> HIDE DEF moved
  <2> QED BY <1>5, <2>1, <2>2, <2>3, Transfer
<1> HIDE DEF moved
<1>11. moved.request = reversed.request
  BY <1>6, <1>8, <1>10 DEF MoneyKept
<1>12. /\ Typed(moved) /\ IsTables(moved) /\ moved.order = final.order
       /\ reversed.order = db.order
  BY <1>3, <1>9, BooksTypes DEF MoneyOnly
<1>13. /\ moved.order[r].status = "finalized" /\ moved.order[r].total = ItemsTotal(moved.order[r].items)
       /\ moved.order[r].items = db.order[r].items /\ moved.order[r].items # {}
       /\ moved.order[o].status # "finalized"
       /\ \A x \in OrderId : x # o /\ x # r => moved.order[x] = reversed.order[x]
  <2>1. /\ final.order[r].status = "finalized" /\ final.order[r].total = ItemsTotal(final.order[r].items)
        /\ final.order[r].items = released.order[r].items
        /\ \A x \in OrderId \ {r} : final.order[x] = released.order[x]
    BY <1>8 DEF Sale
  <2>2. released.order[r] = db.order[r] /\ released.order[r].items # {}
    BY <1>2, <1>5, <1>6, <1>7 DEF CanFinalize
  <2> QED BY <1>5, <1>6, <1>7, <1>12, <2>1, <2>2
<1>14. ~ActiveRequest(reversed, o) /\ reversed.order[r].status # "finalized"
  BY <1>1, <1>3, <1>12 DEF ActiveRequest
<1>15. /\ Accounts(moved) /\ Receipts(moved) = Receipts(reversed)
       /\ \A x \in OrderId : x # o /\ x # r => Allocated(moved, x) = Allocated(reversed, x)
  <2>1. Allocated(reversed, o) <= moved.order[r].total
    BY <1>2, <1>13
  <2> QED BY <1>3, <1>7, <1>10, <1>11, <1>12, <1>13, <1>14, <2>1, TransferAccounts
<1>16. \A x \in OrderId \ {r} : Settled(moved, x)
  <2> SUFFICES ASSUME NEW x \in OrderId, x # r PROVE Settled(moved, x)
    OBVIOUS
  <2>1. CASE x = o
    BY <1>13, <2>1 DEF Settled
  <2>2. CASE x # o
    <3>1. Settled(db, x) /\ moved.order[x] = db.order[x] /\ Allocated(moved, x) = Allocated(db, x)
      BY <1>3, <1>12, <1>13, <1>15, <2>2 DEF Balanced
    <3> QED BY <3>1, SameSettled
  <2> QED BY <2>1, <2>2
<1>17. Balanced(db') /\ Receipts(moved) \subseteq Receipts(db')
  BY <1>2, <1>9, <1>15, <1>16, ReceiptBalanced, AmountsNatural
<1> QED BY <1>3, <1>15, <1>17

-----------------------------------------------------------------------------
(* The theorems about money *)

\* The empty database.
LEMMA InitMoney == Init => MoneyInv
<1> SUFFICES ASSUME Init PROVE MoneyInv
  OBVIOUS
<1>1. /\ db.payments = <<>> /\ \A o \in OrderId : db.order[o] = NewOrder
      /\ db.request = [o \in OrderId |-> [n |-> 0, state |-> "none", alreadyPaid |-> 0]]
  BY DEF Init
<1>2. Receipted(db) /\ Receipts(db) = {}
  BY <1>1, OrdersAssumption DEF Receipted, Receipts
<1>3. db.request \in [OrderId -> RequestRow]
  <2>1. 0 \in 0..MaxRequests /\ 0 \in Nat /\ "none" \in InvoiceState
    BY OrdersAssumption DEF InvoiceState
  <2>2. [n |-> 0, state |-> "none", alreadyPaid |-> 0] \in RequestRow
    BY <2>1 DEF RequestRow
  <2> QED BY <1>1, <2>2
<1>4. ASSUME NEW o \in OrderId PROVE Accounted(db, o) /\ Settled(db, o)
  <2>1. Allocated(db, o) = 0
    BY <1>2, NoNets
  <2>2. db.request[o].state = "none" /\ db.order[o].status = "none" /\ db.order[o].total = 0
    BY <1>1 DEF NewOrder
  <2>3. ~ActiveRequest(db, o) /\ db.request[o].state \notin {"issued", "cancellation_requested"}
    BY <2>2 DEF ActiveRequest
  <2> QED BY <2>1, <2>2, <2>3 DEF Accounted, Settled
<1>5. ReversingKnown
  BY DEF ReversingKnown, Init
<1> QED BY <1>2, <1>3, <1>4, <1>5 DEF MoneyInv, Accounts

\* The commands on one order.
LEMMA OrderStepsBalanced ==
    ASSUME Books(db), Balanced(db), NEW o \in OrderId,
           \/ CancelOrder(o) \/ CreateReplacement(o)
           \/ CreateRequest(o) \/ SubmitRequest(o) \/ ReturnRequest(o) \/ ForwardRequest(o)
           \/ CancelRequest(o) \/ RequestCancellation(o) \/ ConfirmCancellation(o)
           \/ \E S \in SUBSET Receipts(db) : ReverseOrder(o, S)
           \/ PayOwnOrder(o)
           \/ \E a \in Amounts \cup {0} : FinalizeOrder(o, a)
           \/ \E a \in Amounts : RecordPayment(o, a)
           \/ \E r \in OrderId, S \in SUBSET Receipts(db), a \in Amounts \cup {0} : Replace(o, r, S, a)
    PROVE  Balanced(db') /\ Receipts(db) \subseteq Receipts(db') /\ reversing' = reversing
<1>1. CASE CancelOrder(o) \/ CreateReplacement(o)
  BY <1>1, DraftCommandsBalanced, ReplacementBalanced DEF CancelOrder, CreateReplacement, Commit
<1>2. CASE CreateRequest(o)
  BY <1>2, CreateRequestBalanced DEF CreateRequest, Commit
<1>3. CASE SubmitRequest(o) \/ ReturnRequest(o) \/ CancelRequest(o) \/ RequestCancellation(o)
  BY <1>3, StateCommandsBalanced DEF SubmitRequest, ReturnRequest, CancelRequest, RequestCancellation, Commit
<1>4. CASE ForwardRequest(o)
  BY <1>4, ForwardBalanced DEF ForwardRequest, Commit
<1>5. CASE ConfirmCancellation(o)
  BY <1>5, ConfirmBalanced DEF ConfirmCancellation, Commit
<1>6. CASE \E S \in SUBSET Receipts(db) : ReverseOrder(o, S)
  BY <1>6, ReverseBalanced DEF ReverseOrder, Commit
<1>7. CASE PayOwnOrder(o)
  <2>1. 1 \in Nat \ {0}
    OBVIOUS
  <2> QED BY <1>7, <2>1, PaymentCommandsBalanced DEF PayOwnOrder, Commit
<1>8. CASE \E a \in Amounts : RecordPayment(o, a)
  BY <1>8, AmountsNatural, PaymentCommandsBalanced DEF RecordPayment, Commit
<1>9. CASE \E a \in Amounts \cup {0} : FinalizeOrder(o, a)
  BY <1>9, FinalizeBalanced DEF FinalizeOrder, Commit
<1>10. CASE \E r \in OrderId, S \in SUBSET Receipts(db), a \in Amounts \cup {0} : Replace(o, r, S, a)
  BY <1>10, ReplaceBalanced DEF Replace, Commit
<1> QED BY <1>1, <1>2, <1>3, <1>4, <1>5, <1>6, <1>7, <1>8, <1>9, <1>10

\* Every step keeps the money right, where jobs and stock are booked right.
LEMMA NextMoney ==
    ASSUME Books(db), MoneyInv, [Next]_vars
    PROVE  MoneyInv'
<1>1. Balanced(db)
  BY DEF MoneyInv, Balanced
<1>2. ASSUME Balanced(db'), Receipts(db) \subseteq Receipts(db'), reversing' = reversing \/ reversing' = Nothing
      PROVE  MoneyInv'
  <2>1. ReversingKnown'
    BY <1>2 DEF MoneyInv, ReversingKnown
  <2> QED BY <1>2, <2>1 DEF MoneyInv, Balanced
<1>3. CASE UNCHANGED vars
  BY <1>1, <1>2, <1>3 DEF vars
<1>4. CASE \E anonymous \in BOOLEAN : Create(anonymous) \/ \E o \in OrderId : Update(o, anonymous)
  BY <1>1, <1>2, <1>4, CreateBalanced, DraftCommandsBalanced DEF Create, Update, Commit
<1>5. CASE \E o \in OrderId, i \in Item : AddItem(o, i) \/ RemoveItem(o, i)
  BY <1>1, <1>2, <1>5, DraftCommandsBalanced DEF AddItem, RemoveItem, Commit
<1>6. CASE \E o \in OrderId, j \in Job : RefreshItem(o, j)
  BY <1>1, <1>2, <1>6, DraftCommandsBalanced DEF RefreshItem, Commit
<1>7. CASE \E j \in Job : JobChanges(j)
  BY <1>1, <1>2, <1>7, JobMovesBalanced DEF JobChanges, Commit
<1>8. CASE \E o \in OrderId :
             \/ CancelOrder(o) \/ CreateReplacement(o)
             \/ CreateRequest(o) \/ SubmitRequest(o) \/ ReturnRequest(o) \/ ForwardRequest(o)
             \/ CancelRequest(o) \/ RequestCancellation(o) \/ ConfirmCancellation(o)
             \/ \E S \in SUBSET Receipts(db) : ReverseOrder(o, S)
             \/ PayOwnOrder(o)
             \/ \E a \in Amounts \cup {0} : FinalizeOrder(o, a)
             \/ \E a \in Amounts : RecordPayment(o, a)
             \/ \E r \in OrderId, S \in SUBSET Receipts(db), a \in Amounts \cup {0} : Replace(o, r, S, a)
  BY <1>1, <1>2, <1>8, OrderStepsBalanced
<1>9. CASE \E jobs \in SUBSET Job : PayOwnJobs(jobs)
  BY <1>1, <1>2, <1>9, PayOwnBalanced DEF PayOwnJobs, Commit
<1>10. CASE \E p \in Receipts(db) : ReadAllocation(p)
  <2>1. PICK p \in Receipts(db) : ReadAllocation(p)
    BY <1>10
  <2>2. Min(AllocatedTo(db, p)) \in OrderId
    <3>1. PICK n \in AllocatedTo(db, p) : \A m \in AllocatedTo(db, p) : n <= m
      <4>1. AllocatedTo(db, p) \subseteq Nat /\ \E n \in Nat : n \in AllocatedTo(db, p)
        BY <2>1, Constants DEF AllocatedTo, ReadAllocation
      <4> QED BY <4>1, LeastNatural
    <3>2. Min(AllocatedTo(db, p)) \in AllocatedTo(db, p)
      BY <3>1 DEF Min
    <3> QED BY <3>2 DEF AllocatedTo
  <2>3. db' = db /\ ReversingKnown'
    BY <2>1, <2>2 DEF ReadAllocation, ReversingKnown
  <2> QED BY <1>1, <2>3 DEF MoneyInv, Balanced
<1>11. CASE \E a \in Amounts \cup {0} : ReversePayment(a)
  BY <1>1, <1>2, <1>11, ReversePaymentBalanced DEF ReversePayment
<1>12. CASE ReversalGivenUp
  BY <1>1, <1>2, <1>12 DEF ReversalGivenUp
<1> QED BY <1>3, <1>4, <1>5, <1>6, <1>7, <1>8, <1>9, <1>10, <1>11, <1>12 DEF Next

\* The inductive invariant of the money always holds.
THEOREM MoneyCorrect == Spec => []MoneyInv
<1>1. Init => MoneyInv
  BY InitMoney
<1>2. IndInv /\ MoneyInv /\ [Next]_vars => MoneyInv'
  BY NextMoney DEF IndInv
<1> QED BY <1>1, <1>2, BooksCorrect, PTL DEF Spec

\* The tables have their types in every reachable state (TypeOK); that no
\* table outgrows its type follows from the books and the accounts.
THEOREM TypesCorrect == Spec => []TypeOK
<1>1. IndInv /\ MoneyInv => TypeOK
  <2> SUFFICES ASSUME IndInv, MoneyInv PROVE TypeOK
    OBVIOUS
  <2>1. /\ db.order \in [OrderId -> OrderRow] /\ db.claim \in [Job -> OrderId \cup {NoOrder}]
        /\ db.loose \in [Article -> 0..LooseStock] /\ db.version \in [Job -> 1..MaxVersion]
    BY DEF IndInv, Books, Typed
  <2>2. /\ db.payments \in Seq(PaymentRow) /\ Len(db.payments) <= MaxPayments
        /\ db.request \in [OrderId -> RequestRow]
    BY DEF MoneyInv, Accounts, Receipted
  <2>3. reversing \in [payment : 0..MaxPayments, order : OrderId \cup {NoOrder}]
    <3>1. CASE reversing = Nothing
      BY <3>1, OrdersAssumption DEF Nothing
    <3>2. CASE \E p \in Receipts(db), o \in OrderId : reversing = [payment |-> p, order |-> o]
      BY <2>2, <3>2, OrdersAssumption DEF Receipts
    <3> QED BY <3>1, <3>2 DEF MoneyInv, ReversingKnown
  <2> QED BY <2>1, <2>2, <2>3 DEF TypeOK
<1> QED BY <1>1, BooksCorrect, MoneyCorrect, PTL

\* Money allocated to an order is between nothing and its charge, nothing on
\* an order that is not finalized, every receipt is allocated in full to one
\* order or reversed in full, anonymous orders are settled: the deferred
\* triggers of migration 00029 never fire (FinancialIntegrity).
THEOREM FinancesCorrect == Spec => []FinancialIntegrity
<1>1. MoneyInv => FinancialIntegrity
  <2> SUFFICES ASSUME MoneyInv PROVE FinancialIntegrity
    OBVIOUS
  <2>1. \A o \in OrderId : Accounted(db, o) /\ Settled(db, o)
    BY DEF MoneyInv, Accounts
  <2>2. \A p \in Receipts(db) : Whole(db.payments[p])
    BY DEF MoneyInv, Accounts, Receipted
  <2>3. ASSUME NEW p \in Receipts(db)
        PROVE  IF db.payments[p].reversed THEN \A o \in OrderId : db.payments[p].net[o] = 0
               ELSE \E o \in OrderId :
                      db.payments[p].net = [x \in OrderId |-> IF x = o THEN db.payments[p].amount ELSE 0]
    BY <2>2 DEF Whole
  <2> QED BY <2>1, <2>3 DEF FinancialIntegrity, Accounted, Settled
<1> QED BY <1>1, MoneyCorrect, PTL

\* From submission to cancellation a request states the true figure, and an
\* issued invoice stands for a finalized order that is settled to the last
\* cent (InvoiceFigureTrue; receipt, reverseReceipt, reverse, replace,
\* settleByInvoice).
THEOREM InvoicesCorrect == Spec => []InvoiceFigureTrue
<1>1. MoneyInv => InvoiceFigureTrue
  BY DEF MoneyInv, Accounts, Accounted, InvoiceFigureTrue
<1> QED BY <1>1, MoneyCorrect, PTL
=============================================================================
