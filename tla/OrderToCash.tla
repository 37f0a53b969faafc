---------------------------- MODULE OrderToCash ----------------------------
(***************************************************************************)
(* From a DRAFT order to its invoice: ConfirmOrder, CancelOrder and        *)
(* FulfillOrder (internal/order), the auto-invoice of a completed delivery *)
(* (internal/delivery and its adapter in cmd/server), and the AdjustStock  *)
(* and MoveStock requests that change the same inventory rows.             *)
(*                                                                         *)
(* Each request is served by a goroutine p. It reads the order OUTSIDE the *)
(* transaction, decides on what it read, and then runs a transaction whose *)
(* last statement overwrites the order's status unconditionally. Every     *)
(* statement another goroutine could observe or be blocked by is a step.   *)
(*                                                                         *)
(* Left to the caller of RunInTx: the compensating Release and             *)
(* RevertFulfillment calls made before a handler returns an error, since   *)
(* the error rolls the whole transaction back.                             *)
(***************************************************************************)
EXTENDS Inventory, Sequences

CONSTANTS Orders,
          NoOrder,       \* the order of a request that is about none
          Lines,         \* Lines[o]: the lines of o, [product, quantity]
          Customers,
          CustomerOf,    \* CustomerOf[o]: the customer of o
          OrderTotal,    \* OrderTotal[o]: pre-tax total
          InvoiceTotal,  \* InvoiceTotal[o]: tax-inclusive total
          CreditLimit,   \* a customer's limit; none when not positive
          InitialStock,
          Kinds,         \* the kinds of request that arrive
          Adjustments,   \* AdjustStock requests: [op, row, quantity]
          Moves,         \* MoveStock requests: [from, to, quantity]
          MaxInFlight,   \* bound: requests in flight on one order
          MaxStockTasks, \* bound: stock requests in flight
          MaxEvents,     \* bound: events published per order
          Failures       \* TRUE: statements and COMMITs may fail

AllKinds == {"confirm", "cancel", "fulfill", "deliver", "adjust", "move"}

ASSUME OrderAssumption ==
    /\ NoOrder \notin Orders
    /\ Lines \in [Orders -> Seq([product : Products, quantity : Nat \ {0}])]
    /\ OrderTotal \in [Orders -> Nat] /\ InvoiceTotal \in [Orders -> Nat]
    /\ CreditLimit \in Int
    /\ \A o \in Orders : \A i \in DOMAIN Lines[o] :
          \E r \in Rows : ProductOf[r] = Lines[o][i].product

ASSUME CustomerAssumption == CustomerOf \in [Orders -> Customers]

ASSUME OrdersFinite == IsFiniteSet(Orders)

ASSUME StockAssumption ==
    InitialStock \in [Rows -> {c \in [quantity : Nat, allocated : Nat] :
                                  c.allocated <= c.quantity}]

ASSUME RequestAssumption ==
    /\ Kinds \subseteq AllKinds
    /\ Adjustments \subseteq [op : {"add", "set"}, row : Rows, quantity : Int]
    /\ Moves \subseteq [from : Rows, to : Rows, quantity : Nat \ {0}]
    /\ MaxInFlight \in Nat /\ MaxStockTasks \in Nat /\ MaxEvents \in Nat
    /\ Failures \in BOOLEAN

\* A stock movement is of one product.
ASSUME MoveAssumption == \A m \in Moves : ProductOf[m.from] = ProductOf[m.to]

VARIABLES status,    \* status[o]: orders.status
          invoices,  \* invoices[o]: committed invoice rows of order o
          glPosts,   \* glPosts[o]: committed journal entries of its invoices
          arPosts,   \* arPosts[o]: committed customer transactions of them
          delivered, \* the orders with a delivery marked DELIVERED
          feed,      \* feed[o]: the events handed to the publisher, in order
          stockFeed, \* the types of the stock events handed to the publisher
          req        \* req[p]: the request p serves

docVars  == <<status, invoices, glPosts, arPosts>>
sideVars == <<delivered, feed, stockFeed>>
vars     == <<rowVars, call, docVars, sideVars, req>>

Statuses == {"DRAFT", "CONFIRMED", "FULFILLED", "CANCELLED", "ON_HOLD"}

\* stage: where p is in its handler; read: the status GetOrder returned;
\* line: the line being worked on; billed: FulfillOrder created the invoice;
\* moving: the AdjustStock calls a stock request still has to make.
Idle == [kind |-> "none", stage |-> "idle", order |-> NoOrder, read |-> "DRAFT",
         line |-> 1, billed |-> FALSE, moving |-> <<>>]

Init == /\ InventoryInit(InitialStock)
        /\ status   = [o \in Orders |-> "DRAFT"]
        /\ invoices = [o \in Orders |-> 0]
        /\ glPosts  = [o \in Orders |-> 0]
        /\ arPosts  = [o \in Orders |-> 0]
        /\ delivered = {}
        /\ feed     = [o \in Orders |-> <<>>]
        /\ stockFeed = {}
        /\ req      = [p \in Procs |-> Idle]

-----------------------------------------------------------------------------
(* Helpers of the handlers.                                                *)

InFlight(o) == Cardinality({p \in Procs : req[p].order = o})

At(p, stage)  == req[p].stage = stage
Becomes(p, r) == req' = [req EXCEPT ![p] = r]
Goto(p, stage) == req' = [req EXCEPT ![p].stage = stage]

Announce(o, event) == feed' = [feed EXCEPT ![o] = Append(@, event)]

StockOp(kind) == CASE kind = "confirm" -> "allocate"
                   [] kind = "cancel"  -> "release"
                   [] kind = "fulfill" -> "fulfill"

NewStatus(kind) == CASE kind = "confirm" -> "CONFIRMED"
                     [] kind = "cancel"  -> "CANCELLED"
                     [] kind = "fulfill" -> "FULFILLED"

\* Mutant: the last line is never served.
AtLineShort(r, i) ==
    [r EXCEPT !.line  = i,
              !.stage = IF i < Len(Lines[r.order]) THEN "lines"
                        ELSE IF r.kind = "fulfill" THEN "billing" ELSE "commit"]

\* The request r once it has reached line i of its order.
AtLine(r, i) ==
    [r EXCEPT !.line  = i,
              !.stage = IF i <= Len(Lines[r.order]) THEN "lines"
                        ELSE IF r.kind = "fulfill" THEN "billing" ELSE "commit"]

\* SumOpenBalanceCents: live from the committed invoices. Payments, which would
\* lower it, are not part of this module.
OpenBalance(customer) ==
    MapThenSumSet(LAMBDA o : invoices[o] * InvoiceTotal[o],
                  {o \in Orders : CustomerOf[o] = customer})

OverCreditLimit(o) ==
    CreditLimit > 0 /\ OpenBalance(CustomerOf[o]) + OrderTotal[o] > CreditLimit

CurrentLine(p) == Lines[req[p].order][req[p].line]

-----------------------------------------------------------------------------
(* Locks on the customers row. Inserting an invoice takes a KEY SHARE lock *)
(* on it for the foreign key, posting to the account takes it FOR UPDATE.  *)
(* FulfillOrder holds both until its COMMIT; a delivery, whose postings    *)
(* are transactions of their own, holds neither from one step to the next. *)

SharesCustomer(p) == At(p, "ledger")
OwnsCustomer(p)   == At(p, "commit") /\ req[p].billed

\* p waits for q: its next statement locks the customers row against q.
AwaitsCustomer(p, q) ==
    /\ q # p
    /\ \/ req[p].stage \in {"invoice", "autoInvoice"} /\ OwnsCustomer(q)
       \/ req[p].stage \in {"ledger", "postAR"} /\ (OwnsCustomer(q) \/ SharesCustomer(q))
    /\ CustomerOf[req[p].order] = CustomerOf[req[q].order]

CustomerFree(p) == \A q \in Procs : ~AwaitsCustomer(p, q)

\* A holder of the customers row waits for no inventory row, so a cycle of waits
\* is one of inventory rows (Deadlocked), or it is two fulfilments of a customer
\* that share the row and both want it FOR UPDATE.
Crossed(p) == \E q \in Procs : AwaitsCustomer(p, q) /\ AwaitsCustomer(q, p)

-----------------------------------------------------------------------------
(* ConfirmOrder, CancelOrder, FulfillOrder.                                *)

\* Mutant: a cancelled order can be confirmed again.
AcceptsCancelled(kind) == CASE kind = "confirm" -> {"DRAFT", "CANCELLED"}
                            [] kind = "cancel"  -> {"DRAFT", "ON_HOLD", "CONFIRMED"}
                            [] kind = "fulfill" -> {"CONFIRMED"}

\* The statuses, as read, with which each handler goes on.
Accepts(kind) == CASE kind = "confirm" -> {"DRAFT"}
                   [] kind = "cancel"  -> {"DRAFT", "ON_HOLD", "CONFIRMED"}
                   [] kind = "fulfill" -> {"CONFIRMED"}

\* GetOrder and the check of its status. CancelOrder releases stock only when
\* it read CONFIRMED.
ReadOrder(p, kind, o) ==
    /\ kind \in Kinds \cap {"confirm", "cancel", "fulfill"}
    /\ req[p] = Idle
    /\ InFlight(o) < MaxInFlight
    /\ Len(feed[o]) < MaxEvents
    /\ status[o] \in Accepts(kind)
    /\ LET r == [Idle EXCEPT !.kind = kind, !.order = o, !.read = status[o]]
       IN  Becomes(p, IF kind # "cancel" THEN [r EXCEPT !.stage = "gate"]
                      ELSE IF status[o] = "CONFIRMED" THEN AtLine(r, 1)
                      ELSE [r EXCEPT !.stage = "commit"])
    /\ UNCHANGED <<rowVars, call, docVars, sideVars>>

\* The exposure gate, answered outside this module, refuses the request.
GateRefuses(p) ==
    /\ At(p, "gate")
    /\ Becomes(p, Idle)
    /\ UNCHANGED <<rowVars, call, docVars, sideVars>>

\* The credit check that ends the part outside the transaction.
CheckCredit(p) ==
    /\ At(p, "gate")
    /\ IF OverCreditLimit(req[p].order)
       THEN IF req[p].kind = "confirm" THEN Goto(p, "hold") ELSE Becomes(p, Idle)
       ELSE Becomes(p, AtLine(req[p], 1))
    /\ UNCHANGED <<rowVars, call, docVars, sideVars>>

\* ConfirmOrder's UpdateStatus(ON_HOLD), outside any transaction.
PlaceOnHold(p) ==
    /\ At(p, "hold")
    /\ status' = [status EXCEPT ![req[p].order] = "ON_HOLD"]
    /\ Becomes(p, Idle)
    /\ UNCHANGED <<rowVars, call, invoices, glPosts, arPosts, sideVars>>

\* The stock call of the next line starts with its SELECT.
ListStock(p) ==
    LET line == CurrentLine(p)
        op   == StockOp(req[p].kind)
    IN  /\ At(p, "lines")
        /\ call[p] = NoCall
        /\ ~Insufficient(p, op, line.product, line.quantity)
        /\ op = "release" => ~NothingAllocated(p, line.product)
        /\ List(p, op, line.product, line.quantity)
        /\ UNCHANGED <<docVars, feed, req, delivered, stockFeed>>

\* CancelOrder tolerates ErrNothingAllocated and goes on to the next line.
SkipLine(p) ==
    /\ At(p, "lines")
    /\ call[p] = NoCall
    /\ req[p].kind = "cancel"
    /\ NothingAllocated(p, CurrentLine(p).product)
    /\ Becomes(p, AtLine(req[p], req[p].line + 1))
    /\ UNCHANGED <<rowVars, call, docVars, sideVars>>

\* One guarded UPDATE of the call; the last one ends the line.
UpdateStock(p) ==
    /\ At(p, "lines")
    /\ Update(p)
    /\ Becomes(p, IF call'[p] = NoCall THEN AtLine(req[p], req[p].line + 1) ELSE req[p])
    /\ UNCHANGED <<docVars, sideVars>>

\* The stock call returns an error: the handler returns it and the transaction
\* is rolled back.
LineFails(p) ==
    /\ At(p, "lines")
    /\ \/ /\ call[p] = NoCall
          /\ Insufficient(p, StockOp(req[p].kind), CurrentLine(p).product, CurrentLine(p).quantity)
       \/ UpdateFails(p)
    /\ RollbackTx(p)
    /\ Becomes(p, Idle)
    /\ UNCHANGED <<docVars, sideVars>>

\* Mutant: FulfillOrder does not look for an invoice.
CheckInvoiceNever(p) ==
    /\ At(p, "billing")
    /\ Goto(p, "invoice")
    /\ UNCHANGED <<rowVars, call, docVars, sideVars>>

\* Mutant: the answer of ExistsInvoiceForOrder is inverted.
CheckInvoiceInverted(p) ==
    /\ At(p, "billing")
    /\ Goto(p, IF invoices[req[p].order] = 0 THEN "commit" ELSE "invoice")
    /\ UNCHANGED <<rowVars, call, docVars, sideVars>>

\* FulfillOrder's ExistsInvoiceForOrder.
CheckInvoice(p) ==
    /\ At(p, "billing")
    /\ Goto(p, IF invoices[req[p].order] > 0 THEN "commit" ELSE "invoice")
    /\ UNCHANGED <<rowVars, call, docVars, sideVars>>

\* CreateInvoice joins the transaction of FulfillOrder, yet publishes at once.
CreateInvoice(p) ==
    /\ At(p, "invoice")
    /\ CustomerFree(p)
    /\ Becomes(p, [req[p] EXCEPT !.stage = "ledger", !.billed = TRUE])
    /\ Announce(req[p].order, "invoice.created")
    /\ UNCHANGED <<rowVars, call, docVars, delivered, stockFeed>>

\* PostInvoiceToLedger in the transaction of FulfillOrder: the journal entry, and
\* PostTransaction, which reads the balance FOR UPDATE.
PostToLedger(p) ==
    /\ At(p, "ledger")
    /\ CustomerFree(p)
    /\ Goto(p, "commit")
    /\ UNCHANGED <<rowVars, call, docVars, sideVars>>

\* UpdateStatus and COMMIT; with the invoice and its two postings when
\* FulfillOrder created one.
CommitOrder(p) ==
    LET o == req[p].order
        n == IF req[p].billed THEN 1 ELSE 0
    IN  /\ At(p, "commit")
        /\ CommitTx(p)
        /\ status'   = [status EXCEPT ![o] = NewStatus(req[p].kind)]
        /\ invoices' = [invoices EXCEPT ![o] = @ + n]
        /\ glPosts'  = [glPosts EXCEPT ![o] = @ + n]
        /\ arPosts'  = [arPosts EXCEPT ![o] = @ + n]
        /\ IF req[p].kind = "fulfill" THEN Becomes(p, Idle) ELSE Goto(p, "publish")
        /\ UNCHANGED sideVars

\* Mutant: a cancelled order is announced under a type nobody knows.
PublishMisspelt(p) ==
    /\ At(p, "publish")
    /\ Announce(req[p].order, IF req[p].kind = "confirm" THEN "order.confirmed"
                                                         ELSE "order.canceled")
    /\ Becomes(p, Idle)
    /\ UNCHANGED <<rowVars, call, docVars, delivered, stockFeed>>

\* The event published after the commit.
Publish(p) ==
    /\ At(p, "publish")
    /\ Announce(req[p].order, IF req[p].kind = "confirm" THEN "order.confirmed"
                                                         ELSE "order.cancelled")
    /\ Becomes(p, Idle)
    /\ UNCHANGED <<rowVars, call, docVars, delivered, stockFeed>>

-----------------------------------------------------------------------------
(* CompleteDelivery with status DELIVERED, for a delivery of order o: the  *)
(* adapter's CreateFromOrder, which runs in no transaction of its own.     *)

\* The delivery is marked DELIVERED; then ExistsInvoiceForOrder.
CompleteDelivery(p, o) ==
    /\ "deliver" \in Kinds
    /\ req[p] = Idle
    /\ InFlight(o) < MaxInFlight
    /\ Len(feed[o]) < MaxEvents
    /\ delivered' = delivered \cup {o}
    /\ IF invoices[o] > 0 THEN UNCHANGED req
       ELSE Becomes(p, [Idle EXCEPT !.kind = "deliver", !.order = o, !.stage = "autoInvoice"])
    /\ UNCHANGED <<rowVars, call, docVars, feed, stockFeed>>

\* Mutant: the delivery's invoice is not announced.
AutoInvoiceSilently(p) ==
    /\ At(p, "autoInvoice")
    /\ CustomerFree(p)
    /\ invoices' = [invoices EXCEPT ![req[p].order] = @ + 1]
    /\ Goto(p, "postGL")
    /\ UNCHANGED <<rowVars, call, status, glPosts, arPosts, sideVars>>

\* CreateInvoice, a transaction of its own, and its event.
AutoInvoice(p) ==
    /\ At(p, "autoInvoice")
    /\ CustomerFree(p)
    /\ invoices' = [invoices EXCEPT ![req[p].order] = @ + 1]
    /\ Announce(req[p].order, "invoice.created")
    /\ Goto(p, "postGL")
    /\ UNCHANGED <<rowVars, call, status, glPosts, arPosts, delivered, stockFeed>>

\* Mutant: the handler returns after the journal entry.
PostToGLOnly(p) ==
    /\ At(p, "postGL")
    /\ glPosts' = [glPosts EXCEPT ![req[p].order] = @ + 1]
    /\ Becomes(p, Idle)
    /\ UNCHANGED <<rowVars, call, status, invoices, arPosts, sideVars>>

\* PostInvoiceToLedger outside a transaction: two commits.
PostToGL(p) ==
    /\ At(p, "postGL")
    /\ glPosts' = [glPosts EXCEPT ![req[p].order] = @ + 1]
    /\ Goto(p, "postAR")
    /\ UNCHANGED <<rowVars, call, status, invoices, arPosts, sideVars>>

PostToAR(p) ==
    /\ At(p, "postAR")
    /\ CustomerFree(p)
    /\ arPosts' = [arPosts EXCEPT ![req[p].order] = @ + 1]
    /\ Becomes(p, Idle)
    /\ UNCHANGED <<rowVars, call, status, invoices, glPosts, sideVars>>

-----------------------------------------------------------------------------
(* AdjustStock, and MoveStock as two AdjustStock calls in one transaction. *)

StockTasks == {p \in Procs : req[p].kind \in {"adjust", "move"}}

BeginAdjust(p, a) ==
    /\ "adjust" \in Kinds
    /\ req[p] = Idle
    /\ Cardinality(StockTasks) < MaxStockTasks
    /\ Becomes(p, [Idle EXCEPT !.kind = "adjust", !.stage = "calls", !.moving = <<a>>])
    /\ UNCHANGED <<rowVars, call, docVars, sideVars>>

\* The availability check, outside the transaction. Both locations are taken to
\* be in one branch.
BeginMove(p, m) ==
    /\ "move" \in Kinds
    /\ req[p] = Idle
    /\ Cardinality(StockTasks) < MaxStockTasks
    /\ m.quantity <= Available(stock[m.from])
    /\ Becomes(p, [Idle EXCEPT !.kind = "move", !.stage = "calls",
                    !.moving = <<[op |-> "add", row |-> m.from, quantity |-> -m.quantity],
                                 [op |-> "add", row |-> m.to, quantity |-> m.quantity]>>])
    /\ UNCHANGED <<rowVars, call, docVars, sideVars>>

ReadRow(p) ==
    /\ At(p, "calls")
    /\ req[p].moving # <<>>
    /\ LET a == Head(req[p].moving) IN GetInventory(p, a.op, a.row, a.quantity)
    /\ UNCHANGED <<docVars, feed, req, delivered, stockFeed>>

\* inventory.adjusted is published per write, inside MoveStock's transaction.
WriteRow(p) ==
    /\ At(p, "calls")
    /\ req[p].moving # <<>>
    /\ UpdateInventory(p)
    /\ Becomes(p, [req[p] EXCEPT !.moving = Tail(@)])
    /\ stockFeed' = stockFeed \cup {"inventory.adjusted"}
    /\ UNCHANGED <<docVars, feed, delivered>>

WriteFails(p) ==
    /\ At(p, "calls")
    /\ AdjustFails(p)
    /\ RollbackTx(p)
    /\ Becomes(p, Idle)
    /\ UNCHANGED <<docVars, sideVars>>

\* COMMIT. The publish of inventory.moved stands after MoveStock's return
\* statement and is never reached.
EndStockRequest(p) ==
    /\ At(p, "calls")
    /\ call[p] = NoCall
    /\ req[p].moving = <<>>
    /\ CommitTx(p)
    /\ Becomes(p, Idle)
    /\ UNCHANGED <<docVars, sideVars>>

-----------------------------------------------------------------------------
\* Mutant: RunInTx commits what a failed handler has written.
FailCommitting(p) ==
    /\ Failures
    /\ req[p] # Idle
    /\ CommitTx(p)
    /\ Becomes(p, Idle)
    /\ UNCHANGED <<docVars, sideVars>>

\* A statement or a COMMIT fails, the client goes away (its context is
\* cancelled), or the process stops: what is not committed is rolled back.
Fail(p) ==
    /\ Failures
    /\ req[p] # Idle
    /\ RollbackTx(p)
    /\ Becomes(p, Idle)
    /\ UNCHANGED <<docVars, sideVars>>

\* The transaction PostgreSQL aborts to break a cycle of waits.
DeadlockVictim(p) ==
    /\ Deadlocked(p) \/ Crossed(p)
    /\ RollbackTx(p)
    /\ Becomes(p, Idle)
    /\ UNCHANGED <<docVars, sideVars>>

Arrive(p) ==
    \/ \E o \in Orders : \/ \E kind \in {"confirm", "cancel", "fulfill"} : ReadOrder(p, kind, o)
                         \/ CompleteDelivery(p, o)
    \/ \E a \in Adjustments : BeginAdjust(p, a)
    \/ \E m \in Moves : BeginMove(p, m)

Serve(p) ==
    \/ GateRefuses(p) \/ CheckCredit(p) \/ PlaceOnHold(p)
    \/ ListStock(p) \/ SkipLine(p) \/ UpdateStock(p) \/ LineFails(p)
    \/ CheckInvoice(p) \/ CreateInvoice(p) \/ PostToLedger(p) \/ CommitOrder(p) \/ Publish(p)
    \/ AutoInvoice(p) \/ PostToGL(p) \/ PostToAR(p)
    \/ ReadRow(p) \/ WriteRow(p) \/ WriteFails(p) \/ EndStockRequest(p)
    \/ DeadlockVictim(p)

Next == \E p \in Procs : Arrive(p) \/ Serve(p) \/ Fail(p)

Spec == Init /\ [][Next]_vars

\* A goroutine keeps running its handler, and PostgreSQL's lock queue is FIFO,
\* so a row that becomes free again and again is eventually granted.
FairSpec == Spec /\ \A p \in Procs : SF_vars(Serve(p))
-----------------------------------------------------------------------------
(* Properties.                                                             *)

Request == [kind : AllKinds \cup {"none"},
            stage : {"idle", "gate", "hold", "lines", "billing", "invoice", "ledger", "commit",
                     "publish", "autoInvoice", "postGL", "postAR", "calls"},
            order : Orders \cup {NoOrder}, read : Statuses, line : Nat \ {0},
            billed : BOOLEAN, moving : Seq([op : {"add", "set"}, row : Rows, quantity : Int])]

Events == {"order.confirmed", "order.cancelled", "invoice.created"}

\* Every variable has the shape of the columns and locals it stands for.
TypeOK == /\ InventoryTypeOK
          /\ status   \in [Orders -> Statuses]
          /\ invoices \in [Orders -> Nat]
          /\ glPosts  \in [Orders -> Nat]
          /\ arPosts  \in [Orders -> Nat]
          /\ delivered \subseteq Orders
          /\ feed     \in [Orders -> Seq(Events)]
          /\ stockFeed \subseteq {"inventory.adjusted"}
          /\ req      \in [Procs -> Request]

\* No committed row ever goes below zero, whatever requests interleave: the
\* WHERE clauses and the floor of AdjustStock are the only protection, the
\* table has no CHECK.
NonNegative == \A r \in Rows : stock[r].quantity >= 0 /\ stock[r].allocated >= 0

\* No row promises more units than it holds, however Allocate, Release and
\* Fulfill of concurrent transactions interleave between SELECT and UPDATE.
NoOversell == \A r \in Rows : stock[r].allocated <= stock[r].quantity

Demand(o, product) ==
    SumFunction([i \in DOMAIN Lines[o] |->
                    IF Lines[o][i].product = product THEN Lines[o][i].quantity ELSE 0])

DemandOf(s, product) ==
    SumFunctionOnSet([o \in Orders |-> Demand(o, product)], {o \in Orders : status[o] = s})

AllocatedIn(rows, product) ==
    SumFunctionOnSet([r \in Rows |-> rows[r].allocated], RowsOf(product))

OnHandIn(rows, product) ==
    SumFunctionOnSet([r \in Rows |-> rows[r].quantity], RowsOf(product))

\* What is allocated of a product is exactly what the CONFIRMED orders ask of
\* it: a cancel or a failed confirm strands nothing, a fulfilment leaves
\* nothing behind.
AllocationBacked ==
    \A product \in Products :
        AllocatedIn(stock, product) =
            AllocatedIn(InitialStock, product) + DemandOf("CONFIRMED", product)

\* What has left the yard is exactly what the FULFILLED orders asked for.
StockShipped ==
    \A product \in Products :
        OnHandIn(stock, product) = OnHandIn(InitialStock, product) - DemandOf("FULFILLED", product)

\* Moves neither create nor destroy units of a product nobody counts, even when
\* their two writes meet concurrent confirms and cancels of the same rows.
OnHandConserved ==
    \A product \in Products :
        (\A a \in Adjustments : ProductOf[a.row] # product)
            => OnHandIn(stock, product) = OnHandIn(InitialStock, product)

\* FulfillOrder and the delivery's auto-invoice never both bill an order.
BilledOnce == \A o \in Orders : invoices[o] <= 1

\* An order that shipped has been billed.
FulfilledIsBilled == \A o \in Orders : status[o] = "FULFILLED" => invoices[o] > 0

Quiet(o) == \A p \in Procs : req[p].order # o

\* With no request on it in flight, each invoice of an order has its journal
\* entry and its customer transaction.
LedgersAgree == \A o \in Orders : Quiet(o) => /\ glPosts[o] = invoices[o]
                                              /\ arPosts[o] = invoices[o]

\* How many invoice.created events were published for order o.
InvoicesAnnounced(o) == Cardinality({i \in DOMAIN feed[o] : feed[o][i] = "invoice.created"})

\* With no request on it in flight, each invoice of an order was announced by an
\* invoice.created event of its own, whichever path wrote it. (The converse is
\* not so: a fulfilment rolled back after CreateInvoice leaves its event out.)
EveryInvoiceAnnounced == \A o \in Orders : Quiet(o) => invoices[o] <= InvoicesAnnounced(o)

\* FULFILLED and CANCELLED are final.
FinalStatus ==
    [][\A o \in Orders : status[o] \in {"FULFILLED", "CANCELLED"} => status'[o] = status[o]]_vars

\* A cancel request that gets past its status check cancels the order, unless
\* its transaction is chosen to break a deadlock: no bookkeeping stops it.
CancelSucceeds ==
    [][\A p \in Procs :
          req[p].kind = "cancel" /\ req'[p] = Idle
              => status[req[p].order] = "CANCELLED" \/ Deadlocked(p)]_vars

\* The requests implement the order book: whatever they interleave statement by
\* statement, a confirm, a cancel and a fulfilment take effect at once.
Book == INSTANCE OrderBook WITH
            Asked    <- [o \in Orders |-> [x \in Products |-> Demand(o, x)]],
            onHand   <- [x \in Products |-> OnHandIn(stock, x)],
            promised <- [x \in Products |-> AllocatedIn(stock, x)]

BookSpec == Book!Spec

\* Every request ends: waits for rows end, cycles of them are broken, those of
\* two fulfilments on the row of their customer included.
EveryRequestEnds == \A p \in Procs : req[p] # Idle ~> req[p] = Idle
=============================================================================
