------------------------------- MODULE Orders -------------------------------
(***************************************************************************)
(* Orders, their items, payments and external invoice requests: the        *)
(* transactions of the orders package (service.go, items.go, lifecycle.go, *)
(* payments.go, own_payment.go, invoicing.go) with the parts of the        *)
(* machine logbook they call (job versions, loose stock).                  *)
(*                                                                         *)
(* A command locks its orders before it reads them, so it is one step of   *)
(* the database `db`; the helpers it calls in turn are operators from      *)
(* database to database, each with the condition under which the code does *)
(* not refuse. The exception is ReversePayment, which reads the order a    *)
(* payment is allocated to before it locks that order: two steps.          *)
(*                                                                         *)
(* Versions and operation keys only make the code refuse a command; every  *)
(* command here may come at any time. The deferred integrity triggers of   *)
(* migration 00029 are left out: FinancialIntegrity shows that the code    *)
(* never relies on them.                                                   *)
(***************************************************************************)
EXTENDS Integers, Sequences, FiniteSets, FiniteSetsExt

CONSTANTS
  MaxOrders,    \* bound: orders 1..MaxOrders
  Job,          \* machine jobs that an item can charge
  Article,      \* articles that an item can sell from loose stock
  Manual,       \* manual items, free of charge here; every other item costs 1
  LooseStock,   \* units of every article at the start
  MaxPayments,  \* bound: receipts
  MaxRequests,  \* bound: invoice requests of one order
  MaxVersion    \* bound: versions of a job

ASSUME OrdersAssumption ==
  /\ MaxOrders \in Nat /\ MaxPayments \in Nat /\ MaxRequests \in Nat
  /\ MaxVersion \in Nat \ {0} /\ LooseStock \in Nat
  /\ IsFiniteSet(Job) /\ IsFiniteSet(Article) /\ IsFiniteSet(Manual)
  /\ Job \cap Manual = {}   \* an item is of one kind

VARIABLES
  db,        \* the tables: orders with their items, job claims, loose stock, payments, requests, job versions
  reversing  \* a ReversePayment between its read and its lock: the payment and the order it read

vars == <<db, reversing>>

OrderId == 1..MaxOrders
Item == Job \cup Article \cup Manual
NoOrder == 0
Nothing == [payment |-> 0, order |-> NoOrder]

\* Cash and card differ in nothing the orders look at.
Method == {"cash_card", "external"}
InvoiceState == {"none", "draft", "submitted", "issued", "cancellation_requested", "cancelled"}

OrderRow == [status : {"none", "draft", "cancelled", "finalized", "reversed"},
             anonymous : BOOLEAN,
             items : SUBSET Item,
             captured : [Job -> 0..MaxVersion],   \* source_job_version of the active item
             replaces : OrderId \cup {NoOrder},
             total : Nat,
             sold : SUBSET Article]               \* articles with a sale and no sale reversal
\* A receipt. `net` sums its allocation entries per order.
PaymentRow == [method : Method, amount : Nat \ {0}, net : [OrderId -> Int],
               reversed : BOOLEAN, request : 0..MaxRequests]
\* The latest request of an order; every earlier one is cancelled.
RequestRow == [n : 0..MaxRequests, state : InvoiceState, alreadyPaid : Nat]

TypeOK ==
  /\ db.order \in [OrderId -> OrderRow]
  /\ db.claim \in [Job -> OrderId \cup {NoOrder}]
  /\ db.loose \in [Article -> 0..LooseStock]
  /\ db.payments \in Seq(PaymentRow) /\ Len(db.payments) <= MaxPayments
  /\ db.request \in [OrderId -> RequestRow]
  /\ db.version \in [Job -> 1..MaxVersion]
  /\ reversing \in [payment : 0..MaxPayments, order : OrderId \cup {NoOrder}]

NewOrder == [status |-> "none", anonymous |-> FALSE, items |-> {}, captured |-> [j \in Job |-> 0],
             replaces |-> NoOrder, total |-> 0, sold |-> {}]

Init ==
  /\ db = [order |-> [o \in OrderId |-> NewOrder],
           claim |-> [j \in Job |-> NoOrder],
           loose |-> [a \in Article |-> LooseStock],
           payments |-> <<>>,
           request |-> [o \in OrderId |-> [n |-> 0, state |-> "none", alreadyPaid |-> 0]],
           version |-> [j \in Job |-> 1]]
  /\ reversing = Nothing

-----------------------------------------------------------------------------
(* Reading the tables *)

ItemsTotal(items) == Cardinality(items \ Manual)

Receipts(d) == DOMAIN d.payments

\* SumAllocations, SumCashCardAllocations
Allocated(d, o) == SumFunction([p \in Receipts(d) |-> d.payments[p].net[o]])
CashCard(d, o) ==
  SumFunction([p \in {q \in Receipts(d) : d.payments[q].method # "external"} |-> d.payments[p].net[o]])

\* ActiveReceipts, AllocatedOrderID
ActiveReceipts(d, o) == {p \in Receipts(d) : d.payments[p].net[o] > 0}
AllocatedTo(d, p) == {o \in OrderId : d.payments[p].net[o] > 0}

ActiveRequest(d, o) == d.request[o].state \notin {"none", "cancelled"}
\* The guard of both receipts and reversals: from submission on the figure already paid is frozen.
FigureFrozen(d, o) == ActiveRequest(d, o) /\ d.request[o].state # "draft"

Committed(d, o) == {r \in OrderId : d.order[r].replaces = o /\ d.order[r].status \in {"finalized", "reversed"}}

-----------------------------------------------------------------------------
(* Helpers that run inside a command's transaction *)

\* allocate: one more allocation entry of a receipt.
Allocate(row, o, a) == [row EXCEPT !.net[o] = @ + a]

SyncAlreadyPaid(d, o) ==
  IF d.request[o].state = "draft" THEN [d EXCEPT !.request[o].alreadyPaid = CashCard(d, o)] ELSE d

\* create: the next order, an empty draft.
Unused(d) == {o \in OrderId : d.order[o].status = "none"}
Created(d, o, anonymous, replaces) ==
  [d EXCEPT !.order[o].status = "draft", !.order[o].anonymous = anonymous, !.order[o].replaces = replaces]

\* insertItem: a job item captures the job's version and claims the job, unless the order replaces the claimant.
CanInsert(d, o, i) ==
  /\ i \notin d.order[o].items
  /\ i \in Job => d.claim[i] = NoOrder \/ (d.claim[i] = d.order[o].replaces /\ d.order[o].replaces # NoOrder)
Inserted(d, o, i) ==
  IF i \in Job
  THEN [d EXCEPT !.order[o].items = @ \cup {i}, !.order[o].captured[i] = d.version[i],
                 !.claim[i] = IF @ = NoOrder THEN o ELSE @]
  ELSE [d EXCEPT !.order[o].items = @ \cup {i}]

\* RemoveItem with ReleaseItemClaim: the claim goes only if this order's item holds it.
Removed(d, o, i) ==
  [d EXCEPT !.order[o].items = @ \ {i}, !.order[o].captured = [j \in Job |-> IF j = i THEN 0 ELSE @[j]],
            !.claim = [j \in Job |-> IF j = i /\ @[j] = o THEN NoOrder ELSE @[j]]]

Released(d, o) == [d EXCEPT !.claim = [j \in Job |-> IF @[j] = o THEN NoOrder ELSE @[j]]]

\* Mutant of CanFinalize: SellFromStock does not look at the loose stock.
CanFinalizeUnstocked(d, o) ==
  LET row == d.order[o]
  IN  /\ row.status = "draft" /\ row.items # {}
      /\ \A j \in row.items \cap Job : row.captured[j] = d.version[j] /\ d.claim[j] \in {NoOrder, o}
      /\ row.replaces # NoOrder => Committed(d, row.replaces) = {}

\* finalize: captured versions still current, no job on another order, loose stock for every article, then the
\* jobs claimed, the articles sold (SellFromStock) and the total fixed.
CanFinalize(d, o) ==
  LET row == d.order[o]
  IN  /\ row.status = "draft" /\ row.items # {}
      /\ \A j \in row.items \cap Job : row.captured[j] = d.version[j] /\ d.claim[j] \in {NoOrder, o}
      /\ \A a \in row.items \cap Article : d.loose[a] >= 1
      /\ row.replaces # NoOrder => Committed(d, row.replaces) = {}   \* orders_committed_replacement_idx
\* Mutant of Finalized: relies on the claims that inserting the items made.
FinalizedWithoutClaims(d, o) ==
  LET row == d.order[o]
  IN  [d EXCEPT !.order[o].status = "finalized", !.order[o].total = ItemsTotal(row.items),
                !.order[o].sold = row.items \cap Article,
                !.loose = [a \in Article |-> IF a \in row.items THEN @[a] - 1 ELSE @[a]]]
Finalized(d, o) ==
  LET row == d.order[o]
  IN  [d EXCEPT !.order[o].status = "finalized", !.order[o].total = ItemsTotal(row.items),
                !.order[o].sold = row.items \cap Article,
                !.claim = [j \in Job |-> IF j \in row.items THEN o ELSE @[j]],
                !.loose = [a \in Article |-> IF a \in row.items THEN @[a] - 1 ELSE @[a]]]

\* reverse: nothing left allocated and no active request; stock returned (RestockOrderSale), claims released.
CanReverse(d, o) ==
  /\ d.order[o].status = "finalized"
  /\ ~ActiveRequest(d, o)
  /\ Allocated(d, o) = 0
\* Mutant of Reversed: the sale is undone and the stock not returned.
ReversedWithoutRestock(d, o) ==
  Released([d EXCEPT !.order[o].status = "reversed", !.order[o].sold = {}], o)
Reversed(d, o) ==
  Released([d EXCEPT !.order[o].status = "reversed", !.order[o].sold = {},
                     !.loose = [a \in Article |-> IF a \in d.order[o].sold THEN @[a] + 1 ELSE @[a]]], o)

\* Mutant of CanReceive: takes money although the figure already paid is frozen.
CanReceiveWhileFrozen(d, o, a) ==
  /\ d.order[o].status = "finalized"
  /\ \A p \in ActiveReceipts(d, o) : d.payments[p].method # "external"
  /\ a <= d.order[o].total - Allocated(d, o)
  /\ Len(d.payments) < MaxPayments

\* receipt: cash or card, no more than is open.
CanReceive(d, o, a) ==
  /\ d.order[o].status = "finalized"
  /\ ~FigureFrozen(d, o)
  /\ \A p \in ActiveReceipts(d, o) : d.payments[p].method # "external"
  /\ a <= d.order[o].total - Allocated(d, o)
  /\ Len(d.payments) < MaxPayments
Row(method, a, o, request) ==
  [method |-> method, amount |-> a, net |-> [x \in OrderId |-> IF x = o THEN a ELSE 0],
   reversed |-> FALSE, request |-> request]
Received(d, o, a) ==
  SyncAlreadyPaid([d EXCEPT !.payments = Append(@, Row("cash_card", a, o, 0))], o)

\* A command may carry a receipt; amount 0 means it does not.
MayReceive(d, o, a) == a = 0 \/ CanReceive(d, o, a)
ReceivedIfAny(d, o, a) == IF a = 0 THEN d ELSE Received(d, o, a)

\* Mutant of CanReverseReceipt: trusts the allocation that was read before the lock.
CanReverseReceiptUnchecked(d, p, o) ==
  /\ ~d.payments[p].reversed
  /\ IF d.payments[p].method = "external" THEN d.request[o].state = "cancelled" ELSE ~FigureFrozen(d, o)

\* reverseReceipt: the allocation is checked again under the payment's lock.
CanReverseReceipt(d, p, o) ==
  /\ ~d.payments[p].reversed
  /\ o \in AllocatedTo(d, p)
  /\ IF d.payments[p].method = "external" THEN d.request[o].state = "cancelled" ELSE ~FigureFrozen(d, o)
RowReversed(row, o) == [Allocate(row, o, -row.amount) EXCEPT !.reversed = TRUE]
ReceiptReversed(d, p, o) == SyncAlreadyPaid([d EXCEPT !.payments[p] = RowReversed(@, o)], o)

\* The reversals a command lists, in turn: all of them must be reversible, none depends on the others.
CanReverseAll(d, S, o) == \A p \in S : CanReverseReceipt(d, p, o)
AllReversed(d, S, o) ==
  SyncAlreadyPaid([d EXCEPT !.payments = [p \in DOMAIN @ |-> IF p \in S THEN RowReversed(@[p], o) ELSE @[p]]], o)

\* checkAnonymous: an anonymous order is settled in full when the command commits.
AnonymousSettled(d, o) == d.order[o].anonymous => Allocated(d, o) = d.order[o].total

-----------------------------------------------------------------------------
(* Drafts *)

Commit(d) == db' = d /\ UNCHANGED reversing

Create(anonymous) ==
  /\ Unused(db) # {}
  /\ Commit(Created(db, Min(Unused(db)), anonymous, NoOrder))

Update(o, anonymous) ==
  /\ db.order[o].status = "draft"
  /\ Commit([db EXCEPT !.order[o].anonymous = anonymous])

AddItem(o, i) ==
  /\ db.order[o].status = "draft"
  /\ CanInsert(db, o, i)
  /\ Commit(Inserted(db, o, i))

RemoveItem(o, i) ==
  /\ db.order[o].status = "draft" /\ i \in db.order[o].items
  /\ Commit(Removed(db, o, i))

\* Refresh: the item is removed and inserted again with the job's current version.
RefreshItem(o, j) ==
  /\ db.order[o].status = "draft" /\ j \in db.order[o].items
  /\ CanInsert(Removed(db, o, j), o, j)
  /\ Commit(Inserted(Removed(db, o, j), o, j))

CancelOrder(o) ==
  /\ db.order[o].status = "draft"
  /\ Commit([Released(db, o) EXCEPT !.order[o].status = "cancelled"])

\* A change of the job outside the orders: its version grows, captured snapshots become stale.
JobChanges(j) ==
  /\ db.version[j] < MaxVersion
  /\ Commit([db EXCEPT !.version[j] = @ + 1])

-----------------------------------------------------------------------------
(* Lifecycle commands *)

\* finalize and checkout: replacements are refused, payments may come along.
FinalizeOrder(o, a) ==
  /\ db.order[o].replaces = NoOrder
  /\ CanFinalize(db, o)
  /\ LET final == Finalized(db, o)
     IN  /\ MayReceive(final, o, a)
         /\ AnonymousSettled(ReceivedIfAny(final, o, a), o)
         /\ Commit(ReceivedIfAny(final, o, a))

ReverseOrder(o, S) ==
  /\ CanReverseAll(db, S, o)
  /\ CanReverse(AllReversed(db, S, o), o)
  /\ Commit(Reversed(AllReversed(db, S, o), o))

\* replacements: a draft with the original's items; its jobs stay claimed by the original while that holds them.
CreateReplacement(o) ==
  /\ db.order[o].status \in {"finalized", "reversed"}
  /\ Committed(db, o) = {}
  /\ Unused(db) # {}
  /\ LET r == Min(Unused(db))
         d == Created(db, r, db.order[o].anonymous, o)
         jobs == db.order[o].items \cap Job
     IN  /\ \A j \in jobs : CanInsert(d, r, j)
         /\ Commit([d EXCEPT !.order[r].items = db.order[o].items,
                             !.order[r].captured = [j \in Job |-> IF j \in jobs THEN db.version[j] ELSE 0],
                             !.claim = [j \in Job |-> IF j \in jobs /\ @[j] = NoOrder THEN r ELSE @[j]]])

\* The receipts still allocated to the original go to the replacement.
Detached(d, S, o) ==
  [d EXCEPT !.payments = [p \in DOMAIN @ |-> IF p \in S THEN Allocate(@[p], o, -@[p].amount) ELSE @[p]]]
Moved(d, S, r) ==
  [d EXCEPT !.payments = [p \in DOMAIN @ |-> IF p \in S THEN Allocate(@[p], r, @[p].amount) ELSE @[p]]]

\* replace: reversals, then the original's receipts detached, the original reversed if it is not yet, the
\* replacement finalized, the receipts attached to it, a new receipt if one came along.
Replace(o, r, S, a) ==
  /\ db.order[r].status = "draft" /\ db.order[r].replaces = o
  /\ db.order[o].status \in {"finalized", "reversed"}
  /\ ~ActiveRequest(db, o)
  /\ CanReverseAll(db, S, o)
  /\ LET reversed == AllReversed(db, S, o)
         carried == ActiveReceipts(reversed, o)
         free == Detached(reversed, carried, o)
         released == IF db.order[o].status = "finalized" THEN Reversed(free, o) ELSE free
         moved == Moved(Finalized(released, r), carried, r)
     IN  /\ \A p \in carried : db.payments[p].method # "external"
         /\ Allocated(reversed, o) <= ItemsTotal(db.order[r].items)
         /\ db.order[o].status = "finalized" => CanReverse(free, o)
         /\ CanFinalize(released, r)
         /\ MayReceive(moved, r, a)
         /\ AnonymousSettled(ReceivedIfAny(moved, r, a), r)
         /\ Commit(ReceivedIfAny(moved, r, a))

-----------------------------------------------------------------------------
(* Payments *)

RecordPayment(o, a) ==
  /\ CanReceive(db, o, a)
  /\ Commit(Received(db, o, a))

\* ReversePayment reads the allocation without a lock ...
ReadAllocation(p) ==
  /\ reversing = Nothing
  /\ AllocatedTo(db, p) # {}
  /\ reversing' = [payment |-> p, order |-> Min(AllocatedTo(db, p))]
  /\ UNCHANGED db

\* ... and reverses under the lock of the order it read, with a receipt in its place if one came along.
ReversePayment(a) ==
  /\ reversing # Nothing
  /\ LET p == reversing.payment
         o == reversing.order
         d == ReceiptReversed(db, p, o)
     IN  /\ CanReverseReceipt(db, p, o)
         /\ MayReceive(d, o, a)
         /\ AnonymousSettled(ReceivedIfAny(d, o, a), o)
         /\ db' = ReceivedIfAny(d, o, a)
  /\ reversing' = Nothing

\* The command is refused, or its connection is lost.
ReversalGivenUp == reversing # Nothing /\ reversing' = Nothing /\ UNCHANGED db

\* PayOwn: one order of the payer paid in full, or a new order with the payer's unclaimed jobs, finalized and
\* paid in full. Several targets are the same steps in turn.
PayOwnOrder(o) ==
  LET open == db.order[o].total - Allocated(db, o)
  IN  /\ ~db.order[o].anonymous /\ db.order[o].status = "finalized" /\ ~ActiveRequest(db, o)
      /\ open > 0 /\ CanReceive(db, o, open)
      /\ Commit(Received(db, o, open))

PayOwnJobs(jobs) ==
  /\ Unused(db) # {} /\ jobs # {}
  /\ LET o == Min(Unused(db))
         d == Created(db, o, FALSE, NoOrder)
         filled == [d EXCEPT !.order[o].items = jobs,
                             !.order[o].captured = [j \in Job |-> IF j \in jobs THEN db.version[j] ELSE 0],
                             !.claim = [j \in Job |-> IF j \in jobs THEN o ELSE @[j]]]
         final == Finalized(filled, o)
     IN  /\ \A j \in jobs : db.claim[j] = NoOrder
         /\ CanFinalize(filled, o)
         /\ CanReceive(final, o, final.order[o].total)
         /\ Commit(Received(final, o, final.order[o].total))

-----------------------------------------------------------------------------
(* External invoice requests *)

CreateRequest(o) ==
  /\ db.order[o].status = "finalized" /\ ~db.order[o].anonymous /\ db.order[o].total > 0
  /\ ~ActiveRequest(db, o) /\ db.request[o].n < MaxRequests
  /\ Commit(SyncAlreadyPaid([db EXCEPT !.request[o] = [n |-> @.n + 1, state |-> "draft", alreadyPaid |-> 0]], o))

\* The end of every request command: the new state, then the figure of a draft synchronized.
ToState(d, o, state) == SyncAlreadyPaid([d EXCEPT !.request[o].state = state], o)

SubmitRequest(o) ==
  /\ db.request[o].state = "draft" /\ db.order[o].status = "finalized"
  /\ Commit(ToState(SyncAlreadyPaid(db, o), o, "submitted"))

ReturnRequest(o) ==
  /\ db.request[o].state = "submitted"
  /\ Commit(ToState(db, o, "draft"))

\* forward: the issued invoice settles what is open (settleByInvoice).
ForwardRequest(o) ==
  LET open == db.order[o].total - Allocated(db, o)
  IN  /\ db.request[o].state = "submitted" /\ db.order[o].status = "finalized"
      /\ open > 0 => Len(db.payments) < MaxPayments
      /\ Commit(ToState(IF open > 0
                        THEN [db EXCEPT !.payments = Append(@, Row("external", open, o, db.request[o].n))]
                        ELSE db, o, "issued"))

CancelRequest(o) ==
  /\ db.request[o].state \in {"draft", "submitted"}
  /\ Commit(ToState(db, o, "cancelled"))

RequestCancellation(o) ==
  /\ db.request[o].state = "issued"
  /\ Commit(ToState(db, o, "cancellation_requested"))

\* confirm-cancellation: the external receipts of this request are reversed (reverseInvoiceSettlement).
ConfirmCancellation(o) ==
  LET S == {p \in ActiveReceipts(db, o) : db.payments[p].method = "external" /\ db.payments[p].request = db.request[o].n}
  IN  /\ db.request[o].state = "cancellation_requested"
      /\ Commit(ToState([db EXCEPT !.payments = AllReversed(db, S, o).payments], o, "cancelled"))

-----------------------------------------------------------------------------
Amounts == 1..Cardinality(Item)

Next ==
  \/ \E anonymous \in BOOLEAN : Create(anonymous) \/ \E o \in OrderId : Update(o, anonymous)
  \/ \E o \in OrderId, i \in Item : AddItem(o, i) \/ RemoveItem(o, i)
  \/ \E o \in OrderId, j \in Job : RefreshItem(o, j)
  \/ \E j \in Job : JobChanges(j)
  \/ \E o \in OrderId :
       \/ CancelOrder(o) \/ CreateReplacement(o)
       \/ CreateRequest(o) \/ SubmitRequest(o) \/ ReturnRequest(o) \/ ForwardRequest(o)
       \/ CancelRequest(o) \/ RequestCancellation(o) \/ ConfirmCancellation(o)
       \/ \E S \in SUBSET Receipts(db) : ReverseOrder(o, S)
       \/ PayOwnOrder(o)
       \/ \E a \in Amounts \cup {0} : FinalizeOrder(o, a)
       \/ \E a \in Amounts : RecordPayment(o, a)
       \/ \E r \in OrderId, S \in SUBSET Receipts(db), a \in Amounts \cup {0} : Replace(o, r, S, a)
  \/ \E jobs \in SUBSET Job : PayOwnJobs(jobs)
  \/ \E p \in Receipts(db) : ReadAllocation(p)
  \/ \E a \in Amounts \cup {0} : ReversePayment(a)
  \/ ReversalGivenUp

Spec == Init /\ [][Next]_vars

-----------------------------------------------------------------------------
(* Properties *)

\* No job is charged twice: every job on a finalized order is claimed by that order, so at most one finalized
\* order charges it, whatever mix of drafts, replacement drafts, refreshes, reversals and own payments led here.
\* insertItem lets a replacement draft hold the original's jobs without a claim; finalize must claim them.
JobChargedOnce ==
  \A o \in OrderId, j \in Job : db.order[o].status = "finalized" /\ j \in db.order[o].items => db.claim[j] = o

\* What the deferred triggers of migration 00029 check at commit holds by the code alone: the money allocated to
\* an order is between nothing and its charge, an order that is not finalized has none, a receipt is allocated
\* in full to one order or reversed in full, an anonymous order is settled in full.
FinancialIntegrity ==
  /\ \A o \in OrderId :
       LET allocated == Allocated(db, o)
       IN  /\ 0 <= allocated /\ allocated <= db.order[o].total
           /\ db.order[o].status # "finalized" => allocated = 0
           /\ db.order[o].status = "finalized" =>
                /\ db.order[o].total = ItemsTotal(db.order[o].items) /\ db.order[o].items # {}
                /\ AnonymousSettled(db, o)
  /\ \A p \in Receipts(db) :
       LET row == db.payments[p]
       IN  IF row.reversed THEN \A o \in OrderId : row.net[o] = 0
           ELSE \E o \in OrderId : row.net = [x \in OrderId |-> IF x = o THEN row.amount ELSE 0]

\* The figure an invoice request states is true until the request is cancelled, and an invoice that is out
\* means an order that is finalized and settled to the last cent: neither a payment, a reversal, a correction
\* nor a replacement gets between the submission of the figure and the end of the invoice.
InvoiceFigureTrue ==
  \A o \in OrderId :
    /\ ActiveRequest(db, o) => db.request[o].alreadyPaid = CashCard(db, o) /\ db.order[o].status = "finalized"
    /\ db.request[o].state \in {"issued", "cancellation_requested"} => Allocated(db, o) = db.order[o].total

\* Loose stock and stock sold add up to what there was, and exactly the finalized orders hold sold stock:
\* replacement, reversal and retry return each sale once.
StockConserved ==
  /\ \A a \in Article : db.loose[a] + Cardinality({o \in OrderId : a \in db.order[o].sold}) = LooseStock
  /\ \A o \in OrderId :
       db.order[o].sold = IF db.order[o].status = "finalized" THEN db.order[o].items \cap Article ELSE {}
=============================================================================
