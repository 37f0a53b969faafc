--------------------------- MODULE BillingProofs ---------------------------
(***************************************************************************)
(* The billing of an order, for any orders, goroutines and bounds:         *)
(*   - whatever requests race and fail, an order that shipped was billed;  *)
(*   - while nothing fails, an order nobody works on has one journal       *)
(*     entry and one customer transaction per invoice, and at least one    *)
(*     invoice.created event, however many requests raced and however many *)
(*     transactions were aborted to break a deadlock;                      *)
(*   - when the requests on one order come one after the other, no order   *)
(*     is billed twice and FULFILLED and CANCELLED are final, whatever     *)
(*     fails. (When they race, neither holds: the README has the runs.)    *)
(***************************************************************************)
EXTENDS OrderToCashProofs, FiniteSetTheorems

USE FiniteAssumption

BeforeCommit == {"gate", "hold", "lines", "billing", "invoice", "ledger", "commit"}

\* What the stage of a request says of the invoice it is to create.
BillOK(r) ==
    /\ r.billed => r.stage \in {"ledger", "commit"} /\ r.kind = "fulfill"
    /\ r.stage \in {"billing", "invoice", "ledger"} => r.kind = "fulfill"
    /\ r.stage = "ledger" => r.billed
    /\ r.stage = "commit" /\ r.kind = "fulfill" => r.billed \/ invoices[r.order] > 0

Bills == \A p \in Procs : BillOK(req[p])

\* A stock call is open only while its request works on its lines or calls.
CallsOpen == \A p \in Procs : req[p].stage \notin {"lines", "calls"} => call[p] = NoCall

BillInv == IInv /\ CallsOpen /\ Bills /\ FulfilledIsBilled

\* The request b is a, gone on to a later stage without writing a document.
Advanced(a, b) ==
    /\ b.kind = a.kind /\ b.order = a.order /\ b.read = a.read /\ b.billed = a.billed
    /\ \/ a.stage = "gate" /\ a.kind = "confirm" /\ b.stage = "hold"
       \/ a.stage \in {"gate", "lines"} /\ b.stage = "lines"
       \/ a.stage \in {"gate", "lines"} /\ b.stage = IF a.kind = "fulfill" THEN "billing" ELSE "commit"
       \/ a.stage = "billing" /\ invoices[a.order] > 0 /\ b.stage = "commit"
       \/ a.stage = "billing" /\ invoices[a.order] = 0 /\ b.stage = "invoice"
       \/ a.stage = "ledger" /\ b.stage = "commit"
       \/ a.stage = "calls" /\ b.stage = "calls"

\* The requests on o that are at one of the stages.
Posting(o, stages) == {p \in Procs : req[p].order = o /\ req[p].stage \in stages}

\* The requests on o that published an invoice they have not committed.
Announcing(o) == {p \in Procs : req[p].order = o /\ req[p].billed}

\* Each posting an invoice still lacks is owed by a request on the order.
LedgerInv ==
    \A o \in Orders :
        /\ glPosts[o] + Cardinality(Posting(o, {"postGL"})) = invoices[o]
        /\ arPosts[o] + Cardinality(Posting(o, {"postGL", "postAR"})) = invoices[o]

\* Each invoice, and each one a request on the order is about to commit, has
\* been announced.
EventInv ==
    \A o \in Orders : InvoicesAnnounced(o) >= invoices[o] + Cardinality(Announcing(o))

AgreeInv == LedgerInv /\ EventInv

\* One request at a time on each order.
Serial == MaxInFlight <= 1

\* With one request at a time, what a request read is still so, and the order
\* it is about to bill has no invoice.
SerialOK(r) ==
    /\ r.stage \in BeforeCommit =>
          r.read = status[r.order] /\ r.read \in Accepts(r.kind)
    /\ r.stage \in {"invoice", "autoInvoice"} \/ r.billed => invoices[r.order] = 0

OnePerOrder ==
    \A p, q \in Procs : req[p].order \in Orders /\ req[p].order = req[q].order => p = q

SerialInv == OnePerOrder /\ BilledOnce /\ \A p \in Procs : SerialOK(req[p])

-----------------------------------------------------------------------------
(* Requests.                                                               *)

\* Only the request of p changes.
LEMMA OneChanges ==
  ASSUME IInv, NEW p \in Procs, NEW r, Becomes(p, r)
  PROVE  /\ req'[p] = r
         /\ \A q \in Procs \ {p} : req'[q] = req[q]
<1> QED
  BY DEF IInv, ReqInv, Becomes

\* A request that goes on to another stage keeps everything else.
LEMMA GotoIs ==
  ASSUME IInv, NEW p \in Procs, NEW s, Goto(p, s)
  PROVE  /\ req'[p].stage = s
         /\ req'[p].kind = req[p].kind /\ req'[p].order = req[p].order
         /\ req'[p].read = req[p].read /\ req'[p].billed = req[p].billed
         /\ req'[p].line = req[p].line
         /\ \A q \in Procs \ {p} : req'[q] = req[q]
<1>1. req \in [Procs -> Request] /\ req[p] \in Request
  BY DEF IInv, ReqInv
<1>2. req' = [req EXCEPT ![p] = [req[p] EXCEPT !.stage = s]]
  BY DEF Goto
<1>3. req'[p] = [req[p] EXCEPT !.stage = s] /\ \A q \in Procs \ {p} : req'[q] = req[q]
  BY <1>1, <1>2
<1> QED
  BY <1>1, <1>3 DEF Request

\* A request that goes on to a line keeps what it is about.
LEMMA AtLineIs ==
  ASSUME NEW r \in Request, NEW i
  PROVE  /\ AtLine(r, i).kind = r.kind /\ AtLine(r, i).order = r.order
         /\ AtLine(r, i).read = r.read /\ AtLine(r, i).billed = r.billed
         /\ AtLine(r, i).moving = r.moving /\ AtLine(r, i).line = i
         /\ AtLine(r, i).stage = IF i <= Len(Lines[r.order]) THEN "lines"
                                 ELSE IF r.kind = "fulfill" THEN "billing" ELSE "commit"
<1> QED
  BY DEF AtLine, Request

\* A request that just arrived.
LEMMA IdleIs ==
  /\ Idle.kind = "none" /\ Idle.stage = "idle" /\ Idle.order = NoOrder /\ NoOrder \notin Orders
  /\ Idle.billed = FALSE /\ Idle.moving = <<>>
<1> QED
  BY OrderAssumption DEF Idle

\* What arrives, and the stage it starts in.
LEMMA ReadOrderIs ==
  ASSUME IInv, NEW p \in Procs, NEW kind \in OrderKinds, NEW o \in Orders,
         ReadOrder(p, kind, o)
  PROVE  /\ req[p] = Idle /\ UNCHANGED <<call, docVars, sideVars>>
         /\ req'[p].kind = kind /\ req'[p].order = o /\ req'[p].billed = FALSE
         /\ SerialOK(req[p])'
         /\ req'[p].stage \in {"gate", "lines", "commit"}
         /\ kind # "cancel" => req'[p].stage = "gate"
         /\ \A q \in Procs \ {p} : req'[q] = req[q]
<1> DEFINE r == [Idle EXCEPT !.kind = kind, !.order = o, !.read = status[o]]
<1>1. /\ r \in Request /\ r.order = o /\ r.kind = kind /\ r.read = status[o] /\ r.billed = FALSE
  BY IdleOK DEF IInv, DocsTypeOK, Request, OrderKinds, AllKinds, Idle
<1>2. /\ kind # "cancel" => Becomes(p, [r EXCEPT !.stage = "gate"])
      /\ \/ Becomes(p, [r EXCEPT !.stage = "gate"])
         \/ Becomes(p, AtLine(r, 1))
         \/ Becomes(p, [r EXCEPT !.stage = "commit"])
  BY DEF ReadOrder
<1>3. req[p] = Idle /\ UNCHANGED <<call, docVars, sideVars>> /\ status[o] \in Accepts(kind)
  BY DEF ReadOrder
<1> HIDE DEF r
<1> DEFINE Taken == /\ req'[p].kind = kind /\ req'[p].order = o /\ req'[p].billed = FALSE
                    /\ req'[p].read = status[o]
                    /\ req'[p].stage \in {"gate", "lines", "commit"}
                    /\ kind # "cancel" => req'[p].stage = "gate"
                    /\ \A q \in Procs \ {p} : req'[q] = req[q]
<1>4. Becomes(p, [r EXCEPT !.stage = "gate"]) => Taken
  BY <1>1, OneChanges DEF Request
<1>5. kind = "cancel" /\ Becomes(p, AtLine(r, 1)) => Taken
  BY <1>1, OneChanges, AtLineIs
<1>6. kind = "cancel" /\ Becomes(p, [r EXCEPT !.stage = "commit"]) => Taken
  BY <1>1, OneChanges DEF Request
<1>7. Taken
  BY <1>2, <1>4, <1>5, <1>6
<1>8. SerialOK(req[p])'
  <2>1. status'[o] = status[o]
    BY <1>3 DEF docVars
  <2> QED
    BY <1>3, <1>7, <2>1 DEF SerialOK
<1> QED
  BY <1>3, <1>7, <1>8

LEMMA CompleteDeliveryIs ==
  ASSUME IInv, NEW p \in Procs, NEW o \in Orders, CompleteDelivery(p, o)
  PROVE  /\ req[p] = Idle /\ UNCHANGED <<call, docVars, feed>>
         /\ \/ UNCHANGED req
            \/ /\ invoices[o] = 0 /\ req'[p].order = o
               /\ req'[p].kind = "deliver" /\ req'[p].stage = "autoInvoice" /\ req'[p].billed = FALSE
               /\ \A q \in Procs \ {p} : req'[q] = req[q]
<1> DEFINE r == [Idle EXCEPT !.kind = "deliver", !.order = o, !.stage = "autoInvoice"]
<1>1. r.order = o /\ r.kind = "deliver" /\ r.stage = "autoInvoice" /\ r.billed = FALSE
  BY DEF Idle
<1>2. req[p] = Idle /\ UNCHANGED <<call, docVars, feed>>
  BY DEF CompleteDelivery
<1>3. UNCHANGED req \/ (~(invoices[o] > 0) /\ Becomes(p, r))
  BY DEF CompleteDelivery
<1>4. invoices[o] \in Nat
  BY DEF IInv, DocsTypeOK
<1> HIDE DEF r
<1> QED
  BY <1>1, <1>2, <1>3, <1>4, OneChanges

\* The requests about stock carry no order and no invoice.
LEMMA StockBeginsIs ==
  ASSUME IInv, NEW p \in Procs,
         \/ \E a \in Adjustments : BeginAdjust(p, a)
         \/ \E m \in Moves : BeginMove(p, m)
  PROVE  /\ req[p] = Idle /\ UNCHANGED <<call, docVars, sideVars>>
         /\ req'[p].order = NoOrder /\ req'[p].kind \in {"adjust", "move"}
         /\ req'[p].stage = "calls" /\ req'[p].billed = FALSE
         /\ \A q \in Procs \ {p} : req'[q] = req[q]
<1>1. req[p] = Idle /\ UNCHANGED <<call, docVars, sideVars>>
  BY DEF BeginAdjust, BeginMove
<1>2. ASSUME NEW kind \in {"adjust", "move"}, NEW todo,
             Becomes(p, [Idle EXCEPT !.kind = kind, !.stage = "calls", !.moving = todo])
      PROVE  /\ req'[p].order = NoOrder /\ req'[p].kind \in {"adjust", "move"}
             /\ req'[p].stage = "calls" /\ req'[p].billed = FALSE
             /\ \A q \in Procs \ {p} : req'[q] = req[q]
  <2> DEFINE r == [Idle EXCEPT !.kind = kind, !.stage = "calls", !.moving = todo]
  <2>1. r.order = NoOrder /\ r.kind = kind /\ r.stage = "calls" /\ r.billed = FALSE
    BY DEF Idle
  <2>2. Becomes(p, r)
    BY <1>2
  <2> HIDE DEF r
  <2> QED
    BY <2>1, <2>2, OneChanges
<1> QED
  BY <1>1, <1>2 DEF BeginAdjust, BeginMove

LEMMA CreateInvoiceIs ==
  ASSUME IInv, NEW p \in Procs, CreateInvoice(p)
  PROVE  /\ req[p].stage = "invoice" /\ req[p].order \in Orders
         /\ Announce(req[p].order, "invoice.created") /\ UNCHANGED <<call, docVars>>
         /\ req'[p].stage = "ledger" /\ req'[p].billed = TRUE
         /\ req'[p].kind = req[p].kind /\ req'[p].order = req[p].order /\ req'[p].read = req[p].read
         /\ req'[p].line = req[p].line
         /\ \A q \in Procs \ {p} : req'[q] = req[q]
<1> DEFINE r == [req[p] EXCEPT !.stage = "ledger", !.billed = TRUE]
<1>1. req[p] \in Request /\ ReqOK(req[p]) /\ req[p].stage = "invoice"
  BY DEF IInv, ReqInv, CreateInvoice, At
<1>2. /\ r.stage = "ledger" /\ r.billed = TRUE
      /\ r.kind = req[p].kind /\ r.order = req[p].order /\ r.read = req[p].read
      /\ r.line = req[p].line
  BY <1>1 DEF Request
<1>3. Becomes(p, r) /\ Announce(req[p].order, "invoice.created") /\ UNCHANGED <<call, docVars>>
  BY DEF CreateInvoice
<1> HIDE DEF r
<1> QED
  BY <1>1, <1>2, <1>3, OneChanges DEF ReqOK

LEMMA WriteRowIs ==
  ASSUME IInv, NEW p \in Procs, WriteRow(p)
  PROVE  /\ req[p].stage = "calls" /\ req'[p].stage = "calls" /\ UNCHANGED <<docVars, feed>>
         /\ req'[p].billed = req[p].billed
         /\ req'[p].kind = req[p].kind /\ req'[p].order = req[p].order
         /\ \A q \in Procs \ {p} : req'[q] = req[q]
<1> DEFINE r == [req[p] EXCEPT !.moving = Tail(@)]
<1>1. req[p] \in Request /\ req[p].stage = "calls"
  BY DEF IInv, ReqInv, WriteRow, At
<1>2. /\ r.stage = "calls" /\ r.billed = req[p].billed
      /\ r.kind = req[p].kind /\ r.order = req[p].order
  BY <1>1 DEF Request
<1>3. Becomes(p, r) /\ UNCHANGED <<docVars, feed>>
  BY DEF WriteRow
<1> HIDE DEF r
<1> QED
  BY <1>1, <1>2, <1>3, OneChanges

\* Only a request in the middle of a stock call is part of a deadlock of rows.
LEMMA DeadlockedInCall ==
  ASSUME CallsOpen, NEW p \in Procs, Deadlocked(p)
  PROVE  req[p].stage \in {"lines", "calls"}
<1>1. call[p] # NoCall
  BY DEF Deadlocked, Waits, NoCall
<1> QED
  BY <1>1 DEF CallsOpen

\* Only a fulfilment about to post its invoice is part of one of customers.
LEMMA CrossedAtLedger ==
  ASSUME NEW p \in Procs, Crossed(p)
  PROVE  req[p].stage = "ledger"
<1> QED
  BY DEF Crossed, AwaitsCustomer, OwnsCustomer, SharesCustomer, At

\* A request that ends leaves every document alone, and does not end while it
\* still has a document to write, unless something fails.
LEMMA EndIs ==
  ASSUME IInv, CallsOpen, NEW p \in Procs,
         \/ GateRefuses(p) \/ LineFails(p) \/ WriteFails(p) \/ EndStockRequest(p)
         \/ Fail(p) \/ DeadlockVictim(p)
  PROVE  /\ UNCHANGED <<docVars, sideVars>>
         /\ req'[p] = Idle /\ \A q \in Procs \ {p} : req'[q] = req[q]
         /\ CallsOpen'
         /\ Failures \/ req[p].stage \in {"gate", "lines", "calls", "ledger"}
<1> USE DEF GateRefuses, LineFails, WriteFails, EndStockRequest, Fail, DeadlockVictim
<1>1. UNCHANGED <<docVars, sideVars>> /\ Becomes(p, Idle)
  OBVIOUS
<1>2. req'[p] = Idle /\ \A q \in Procs \ {p} : req'[q] = req[q]
  BY <1>1, OneChanges
<1>3. UNCHANGED call \/ call' = [call EXCEPT ![p] = NoCall]
  BY DEF CommitTx, RollbackTx
<1>4. call[p] = NoCall \/ call'[p] = NoCall
  <2>1. CASE GateRefuses(p)
    BY <2>1 DEF At, CallsOpen
  <2>2. CASE call' = [call EXCEPT ![p] = NoCall]
    BY <2>2 DEF IInv, StockInv, InventoryTypeOK
  <2> QED
    BY <2>1, <2>2 DEF CommitTx, RollbackTx
<1>5. call'[p] = NoCall /\ \A q \in Procs \ {p} : call'[q] = call[q]
  BY <1>3, <1>4 DEF IInv, StockInv, InventoryTypeOK
<1>6. CallsOpen'
  BY <1>2, <1>5 DEF CallsOpen
<1>7. Failures \/ req[p].stage \in {"gate", "lines", "calls", "ledger"}
  BY DeadlockedInCall, CrossedAtLedger DEF At
<1> QED
  BY <1>1, <1>2, <1>6, <1>7

\* A request that goes on without writing a document.
LEMMA AdvanceIs ==
  ASSUME IInv, CallsOpen, NEW p \in Procs,
         \/ CheckCredit(p) \/ ListStock(p) \/ SkipLine(p) \/ UpdateStock(p)
         \/ CheckInvoice(p) \/ PostToLedger(p) \/ ReadRow(p) \/ WriteRow(p)
  PROVE  /\ UNCHANGED <<docVars, feed>>
         /\ \/ Advanced(req[p], req'[p])
            \/ req[p].stage = "gate" /\ req'[p] = Idle
         /\ \A q \in Procs \ {p} : req'[q] = req[q]
         /\ CallsOpen'
<1>1. call \in [Procs -> Call] /\ req \in [Procs -> Request] /\ req[p] \in Request
  BY DEF IInv, StockInv, InventoryTypeOK, ReqInv
<1>n. invoices \in [Orders -> Nat] /\ ReqOK(req[p])
  BY DEF IInv, DocsTypeOK, ReqInv
<1>2. CASE CheckCredit(p)
  <2>1. /\ req[p].stage = "gate" /\ UNCHANGED <<call, docVars, feed>>
        /\ \/ Goto(p, "hold") /\ req[p].kind = "confirm"
           \/ Becomes(p, Idle) \/ Becomes(p, AtLine(req[p], 1))
    BY <1>2 DEF CheckCredit, At, sideVars
  <2>2. Advanced(req[p], req'[p]) \/ req'[p] = Idle
    BY <1>1, <2>1, OneChanges, GotoIs, AtLineIs DEF Advanced
  <2>3. \A q \in Procs \ {p} : req'[q] = req[q]
    BY <2>1, OneChanges, GotoIs
  <2>4. call[p] = NoCall
    BY <2>1 DEF CallsOpen
  <2> QED
    BY <2>1, <2>2, <2>3, <2>4 DEF CallsOpen
<1>3. CASE ListStock(p)
  <2>1. /\ req[p].stage = "lines" /\ UNCHANGED <<docVars, feed, req>>
        /\ \E c : call' = [call EXCEPT ![p] = c]
    BY <1>3 DEF ListStock, At, List
  <2> QED
    BY <1>1, <2>1 DEF Advanced, CallsOpen
<1>4. CASE SkipLine(p)
  <2>1. /\ req[p].stage = "lines" /\ call[p] = NoCall /\ UNCHANGED <<call, docVars, feed>>
        /\ Becomes(p, AtLine(req[p], req[p].line + 1))
    BY <1>4 DEF SkipLine, At, sideVars
  <2> QED
    BY <1>1, <2>1, OneChanges, AtLineIs DEF Advanced, CallsOpen
<1>5. CASE UpdateStock(p)
  <2>1. /\ req[p].stage = "lines" /\ UNCHANGED <<docVars, feed>>
        /\ \E c : call' = [call EXCEPT ![p] = c]
        /\ \/ Becomes(p, AtLine(req[p], req[p].line + 1)) /\ call'[p] = NoCall
           \/ Becomes(p, req[p])
    BY <1>5 DEF UpdateStock, At, sideVars, Update
  <2> QED
    BY <1>1, <2>1, OneChanges, AtLineIs DEF Advanced, CallsOpen
<1>6. CASE CheckInvoice(p)
  <2>1. /\ req[p].stage = "billing" /\ UNCHANGED <<call, docVars, feed>>
        /\ \/ Goto(p, "commit") /\ invoices[req[p].order] > 0
           \/ Goto(p, "invoice") /\ ~(invoices[req[p].order] > 0)
    BY <1>6 DEF CheckInvoice, At, sideVars
  <2>2. call[p] = NoCall /\ invoices[req[p].order] \in Nat
    BY <2>1, <1>n DEF CallsOpen, ReqOK
  <2> QED
    BY <1>1, <2>1, <2>2, GotoIs DEF Advanced, CallsOpen
<1>7. CASE ReadRow(p)
  <2>1. /\ req[p].stage = "calls" /\ UNCHANGED <<docVars, feed, req>>
        /\ \E c : call' = [call EXCEPT ![p] = c]
    BY <1>7 DEF ReadRow, At, GetInventory
  <2> QED
    BY <1>1, <2>1 DEF Advanced, CallsOpen
<1>8. CASE WriteRow(p)
  <2>1. \E c : call' = [call EXCEPT ![p] = c]
    BY <1>8 DEF WriteRow, UpdateInventory
  <2>2. req'[p].read = req[p].read
    <3>1. Becomes(p, [req[p] EXCEPT !.moving = Tail(@)])
      BY <1>8 DEF WriteRow
    <3> QED
      BY <1>1, <3>1, OneChanges DEF Request
  <2> QED
    BY <1>1, <1>8, <2>1, <2>2, WriteRowIs DEF Advanced, CallsOpen
<1>9. CASE PostToLedger(p)
  <2>1. req[p].stage = "ledger" /\ UNCHANGED <<call, docVars, feed>> /\ Goto(p, "commit")
    BY <1>9 DEF PostToLedger, At, sideVars
  <2>2. call[p] = NoCall
    BY <2>1 DEF CallsOpen
  <2> QED
    BY <1>1, <2>1, <2>2, GotoIs DEF Advanced, CallsOpen
<1> QED
  BY <1>2, <1>3, <1>4, <1>5, <1>6, <1>7, <1>8, <1>9

\* The last step of an order's transaction.
LEMMA CommitOrderIs ==
  ASSUME IInv, NEW p \in Procs, CommitOrder(p)
  PROVE  LET a == req[p]
             o == a.order
             n == IF a.billed THEN 1 ELSE 0
         IN  /\ a.stage = "commit" /\ o \in Orders /\ a.kind \in OrderKinds
             /\ status' = [status EXCEPT ![o] = NewStatus(a.kind)]
             /\ invoices'[o] = invoices[o] + n
             /\ glPosts'[o] = glPosts[o] + n /\ arPosts'[o] = arPosts[o] + n
             /\ \A x \in Orders \ {o} : /\ invoices'[x] = invoices[x]
                                        /\ glPosts'[x] = glPosts[x] /\ arPosts'[x] = arPosts[x]
             /\ UNCHANGED sideVars
             /\ \/ a.kind = "fulfill" /\ req'[p] = Idle
                \/ /\ a.kind # "fulfill" /\ req'[p].stage = "publish"
                   /\ req'[p].kind = a.kind /\ req'[p].order = o /\ req'[p].billed = a.billed
             /\ \A q \in Procs \ {p} : req'[q] = req[q]
             /\ CallsOpen => CallsOpen'
<1> DEFINE n == IF req[p].billed THEN 1 ELSE 0
<1>1. req[p].stage = "commit" /\ req[p].order \in Orders /\ req[p].kind \in OrderKinds
  BY DEF IInv, ReqInv, ReqOK, CommitOrder, At
<1>2. /\ status'   = [status EXCEPT ![req[p].order] = NewStatus(req[p].kind)]
      /\ invoices' = [invoices EXCEPT ![req[p].order] = invoices[req[p].order] + n]
      /\ glPosts'  = [glPosts EXCEPT ![req[p].order] = glPosts[req[p].order] + n]
      /\ arPosts'  = [arPosts EXCEPT ![req[p].order] = arPosts[req[p].order] + n]
      /\ UNCHANGED sideVars
      /\ \/ req[p].kind = "fulfill" /\ Becomes(p, Idle)
         \/ req[p].kind # "fulfill" /\ Goto(p, "publish")
      /\ call' = [call EXCEPT ![p] = NoCall]
  BY DEF CommitOrder, CommitTx
<1> HIDE DEF n
<1>3. /\ invoices'[req[p].order] = invoices[req[p].order] + n
      /\ glPosts'[req[p].order] = glPosts[req[p].order] + n
      /\ arPosts'[req[p].order] = arPosts[req[p].order] + n
      /\ \A x \in Orders \ {req[p].order} :
            /\ invoices'[x] = invoices[x]
            /\ glPosts'[x] = glPosts[x] /\ arPosts'[x] = arPosts[x]
  BY <1>1, <1>2 DEF IInv, DocsTypeOK
<1>4. /\ \/ req[p].kind = "fulfill" /\ req'[p] = Idle
         \/ /\ req[p].kind # "fulfill" /\ req'[p].stage = "publish"
            /\ req'[p].kind = req[p].kind /\ req'[p].order = req[p].order
            /\ req'[p].billed = req[p].billed
      /\ \A q \in Procs \ {p} : req'[q] = req[q]
  BY <1>2, OneChanges, GotoIs
<1>5. CallsOpen => CallsOpen'
  BY <1>2, <1>4 DEF CallsOpen, IInv, StockInv, InventoryTypeOK
<1> QED
  BY <1>1, <1>2, <1>3, <1>4, <1>5 DEF n

\* The other steps that write a document: each works on its own order, and
\* opens no stock call.
LEMMA DocumentIs ==
  ASSUME IInv, CallsOpen, NEW p \in Procs,
         \/ PlaceOnHold(p) \/ CreateInvoice(p) \/ Publish(p)
         \/ AutoInvoice(p) \/ PostToGL(p) \/ PostToAR(p)
  PROVE  /\ req[p].order \in Orders
         /\ \A q \in Procs \ {p} : req'[q] = req[q]
         /\ \/ req'[p] = Idle
            \/ /\ req'[p].order = req[p].order /\ req'[p].kind = req[p].kind
               /\ req'[p].read = req[p].read
         /\ CallsOpen'
<1>1. req[p].stage \in {"hold", "invoice", "publish", "autoInvoice", "postGL", "postAR"}
  BY DEF PlaceOnHold, CreateInvoice, Publish, AutoInvoice, PostToGL, PostToAR, At
<1>2. req[p].order \in Orders /\ call[p] = NoCall /\ UNCHANGED call
  BY <1>1 DEF IInv, ReqInv, ReqOK, CallsOpen, PlaceOnHold, CreateInvoice, Publish, AutoInvoice, PostToGL, PostToAR
<1>3. CASE CreateInvoice(p)
  BY <1>2, <1>3, CreateInvoiceIs DEF CallsOpen
<1>4. CASE Becomes(p, Idle)
  BY <1>2, <1>4, OneChanges DEF CallsOpen
<1>5. CASE Goto(p, "postGL") \/ Goto(p, "postAR")
  BY <1>2, <1>5, GotoIs DEF CallsOpen
<1> QED
  BY <1>3, <1>4, <1>5 DEF PlaceOnHold, Publish, AutoInvoice, PostToGL, PostToAR

-----------------------------------------------------------------------------
(* Whatever races and fails, an order that shipped has been billed.        *)

\* Invoices only become more.
Growing == \A o \in Orders : invoices'[o] >= invoices[o]

LEMMA UnchangedGrows == IInv /\ UNCHANGED invoices => Growing
<1> QED
  BY DEF IInv, DocsTypeOK, Growing

\* One request moves on while invoices are at most added.
LEMMA BillsStep ==
  ASSUME IInv, IInv', Bills, Growing, NEW p \in Procs,
         \A q \in Procs \ {p} : req'[q] = req[q],
         BillOK(req[p])'
  PROVE  Bills'
<1>1. \A q \in Procs : req[q].stage = "commit" => req[q].order \in Orders
  BY DEF IInv, ReqInv, ReqOK
<1>2. \A o \in Orders : invoices[o] > 0 => invoices'[o] > 0
  BY DEF Growing, IInv, DocsTypeOK
<1> QED
  BY <1>1, <1>2 DEF Bills, BillOK

\* Every step preserves the invariant of the billing.
LEMMA BillNext == BillInv /\ [Next]_vars => BillInv'
<1> SUFFICES ASSUME BillInv, [Next]_vars PROVE BillInv'
  OBVIOUS
<1> USE DEF BillInv
<1>1. IInv'
  BY NextKeeps DEF Keeps
<1>t. /\ \A o \in Orders : invoices[o] \in Nat /\ invoices'[o] \in Nat
      /\ \A p \in Procs : BillOK(req[p]) /\ ReqOK(req[p])
  BY <1>1 DEF IInv, DocsTypeOK, ReqInv, Bills
<1>2. ASSUME UNCHANGED <<status, invoices>> PROVE FulfilledIsBilled' /\ Growing
  BY <1>2, UnchangedGrows DEF FulfilledIsBilled
<1>3. CASE UNCHANGED vars
  BY <1>1, <1>2, <1>3 DEF vars, docVars, CallsOpen, Bills, BillOK
<1>4. ASSUME NEW p \in Procs, NEW o \in Orders, NEW kind \in OrderKinds, ReadOrder(p, kind, o)
      PROVE  CallsOpen' /\ Bills' /\ FulfilledIsBilled'
  <2>1. BillOK(req[p])'
    BY <1>4, ReadOrderIs DEF BillOK, OrderKinds
  <2>2. /\ req[p] = Idle /\ UNCHANGED <<call, docVars>>
        /\ \A q \in Procs \ {p} : req'[q] = req[q]
    BY <1>4, ReadOrderIs
  <2>3. CallsOpen' /\ UNCHANGED <<status, invoices>>
    BY <2>2, IdleIs DEF CallsOpen, docVars
  <2> QED
    BY <1>1, <1>2, <2>1, <2>2, <2>3, BillsStep
<1>5. ASSUME NEW p \in Procs, NEW o \in Orders, CompleteDelivery(p, o)
      PROVE  CallsOpen' /\ Bills' /\ FulfilledIsBilled'
  <2>1. CASE UNCHANGED req
    BY <1>2, <1>5, <2>1, CompleteDeliveryIs DEF CallsOpen, Bills, BillOK, docVars
  <2>2. CASE req' # req
    <3>1. BillOK(req[p])'
      BY <1>5, <2>2, CompleteDeliveryIs DEF BillOK
    <3> QED
      BY <1>1, <1>2, <1>5, <2>2, <3>1, CompleteDeliveryIs, BillsStep, IdleIs DEF CallsOpen, docVars
  <2> QED
    BY <2>1, <2>2
<1>6. ASSUME NEW p \in Procs,
             \/ \E a \in Adjustments : BeginAdjust(p, a)
             \/ \E m \in Moves : BeginMove(p, m)
      PROVE  CallsOpen' /\ Bills' /\ FulfilledIsBilled'
  <2>1. BillOK(req[p])'
    BY <1>6, StockBeginsIs DEF BillOK
  <2> QED
    BY <1>1, <1>2, <1>6, <2>1, StockBeginsIs, BillsStep, IdleIs DEF CallsOpen, docVars
<1>7. ASSUME NEW p \in Procs,
             \/ GateRefuses(p) \/ LineFails(p) \/ WriteFails(p) \/ EndStockRequest(p)
             \/ Fail(p) \/ DeadlockVictim(p)
      PROVE  CallsOpen' /\ Bills' /\ FulfilledIsBilled'
  <2>1. BillOK(req[p])'
    BY <1>7, EndIs, IdleIs DEF BillOK
  <2> QED
    BY <1>1, <1>2, <1>7, <2>1, EndIs, BillsStep DEF docVars
<1>8. ASSUME NEW p \in Procs,
             \/ CheckCredit(p) \/ ListStock(p) \/ SkipLine(p) \/ UpdateStock(p)
             \/ CheckInvoice(p) \/ PostToLedger(p) \/ ReadRow(p) \/ WriteRow(p)
      PROVE  CallsOpen' /\ Bills' /\ FulfilledIsBilled'
  <2>1. UNCHANGED <<docVars, feed>> /\ (Advanced(req[p], req'[p]) \/ req'[p] = Idle)
    BY <1>8, AdvanceIs
  <2>2. BillOK(req[p])'
    BY <1>t, <2>1, IdleIs DEF Advanced, BillOK, docVars
  <2> QED
    BY <1>1, <1>2, <1>8, <2>2, AdvanceIs, BillsStep DEF docVars
<1>9. ASSUME NEW p \in Procs, CommitOrder(p)
      PROVE  CallsOpen' /\ Bills' /\ FulfilledIsBilled'
  <2>1. BillOK(req[p])'
    BY <1>t, <1>9, CommitOrderIs, IdleIs DEF BillOK
  <2>2. Growing
    BY <1>t, <1>9, CommitOrderIs DEF Growing
  <2>3. Bills'
    BY <1>1, <1>9, <2>1, <2>2, CommitOrderIs, BillsStep
  <2>4. FulfilledIsBilled'
    <3>1. ASSUME req[p].kind = "fulfill" PROVE invoices'[req[p].order] > 0
      BY <1>t, <1>9, <3>1, CommitOrderIs DEF BillOK
    <3>2. req[p].kind # "fulfill" => NewStatus(req[p].kind) # "FULFILLED"
      BY <1>9, CommitOrderIs DEF NewStatus, OrderKinds
    <3>3. \A x \in Orders \ {req[p].order} : status'[x] = status[x] /\ invoices'[x] = invoices[x]
      BY <1>9, CommitOrderIs DEF IInv, DocsTypeOK
    <3>4. status'[req[p].order] = NewStatus(req[p].kind)
      BY <1>9, CommitOrderIs DEF IInv, DocsTypeOK
    <3> QED
      BY <3>1, <3>2, <3>3, <3>4 DEF FulfilledIsBilled
  <2> QED
    BY <1>9, <2>3, <2>4, CommitOrderIs
<1>10. ASSUME NEW p \in Procs,
              \/ PlaceOnHold(p) \/ CreateInvoice(p) \/ Publish(p)
              \/ AutoInvoice(p) \/ PostToGL(p) \/ PostToAR(p)
       PROVE  CallsOpen' /\ Bills' /\ FulfilledIsBilled'
  <2>1. BillOK(req[p])'
    <3>1. CASE CreateInvoice(p)
      BY <1>t, <3>1, CreateInvoiceIs DEF BillOK
    <3>2. CASE Becomes(p, Idle)
      BY <3>2, OneChanges, IdleIs DEF BillOK
    <3>3. CASE AutoInvoice(p) \/ PostToGL(p)
      BY <1>t, <3>3, GotoIs DEF BillOK, AutoInvoice, PostToGL, At
    <3> QED
      BY <1>10, <3>1, <3>2, <3>3 DEF PlaceOnHold, Publish, PostToAR
  <2>2. Growing
    <3>1. CASE AutoInvoice(p)
      <4>1. invoices' = [invoices EXCEPT ![req[p].order] = invoices[req[p].order] + 1]
        BY <3>1 DEF AutoInvoice
      <4> QED
        BY <1>t, <4>1 DEF Growing, IInv, DocsTypeOK
    <3> QED
      BY <1>10, <3>1, UnchangedGrows
      DEF PlaceOnHold, CreateInvoice, Publish, PostToGL, PostToAR, docVars
  <2>3. FulfilledIsBilled'
    <3>1. \A x \in Orders : status'[x] = status[x] \/ status'[x] = "ON_HOLD"
      BY <1>10 DEF IInv, DocsTypeOK, PlaceOnHold, CreateInvoice, Publish, AutoInvoice, PostToGL, PostToAR, docVars
    <3> QED
      BY <1>t, <2>2, <3>1 DEF FulfilledIsBilled, Growing
  <2> QED
    BY <1>1, <1>10, <2>1, <2>2, <2>3, DocumentIs, BillsStep
<1> QED
  BY <1>1, <1>3, <1>4, <1>5, <1>6, <1>7, <1>8, <1>9, <1>10 DEF Next, Arrive, Serve, OrderKinds

\* The invariant of the billing holds in every reachable state.
LEMMA BillInvHolds == Spec => []BillInv
<1>1. Init => BillInv
  <2> SUFFICES ASSUME Init PROVE BillInv
    OBVIOUS
  <2>1. /\ \A p \in Procs : req[p] = Idle /\ call[p] = NoCall
        /\ \A o \in Orders : status[o] = "DRAFT"
    BY DEF Init, InventoryInit
  <2> QED
    BY <2>1, InitIInv, IdleIs DEF BillInv, CallsOpen, Bills, BillOK, FulfilledIsBilled
<1> QED
  BY <1>1, BillNext, PTL DEF Spec

\* An order that shipped has been billed, whatever requests race or fail.
THEOREM FulfilledIsBilledHolds == Spec => []FulfilledIsBilled
<1>1. BillInv => FulfilledIsBilled
  BY DEF BillInv
<1> QED
  BY <1>1, BillInvHolds, PTL

-----------------------------------------------------------------------------
(* While nothing fails, ledgers agree with invoices and none is unannounced.*)

\* Two sets that differ at most in p.
LEMMA Counted ==
  ASSUME NEW A \in SUBSET Procs, NEW B \in SUBSET Procs, NEW p \in Procs, A \ {p} = B \ {p}
  PROVE  /\ Cardinality(A) \in Nat /\ Cardinality(B) \in Nat
         /\ Cardinality(B) = Cardinality(A) + (IF p \in B THEN 1 ELSE 0)
                                            - (IF p \in A THEN 1 ELSE 0)
<1>1. IsFiniteSet(A) /\ IsFiniteSet(B)
  BY FS_Subset
<1>2. /\ Cardinality(A) \in Nat /\ Cardinality(B) \in Nat
      /\ Cardinality(A \ {p}) = Cardinality(A) - (IF p \in A THEN 1 ELSE 0)
      /\ Cardinality(B \ {p}) = Cardinality(B) - (IF p \in B THEN 1 ELSE 0)
  BY <1>1, FS_RemoveElement, FS_CardinalityType
<1> QED
  BY <1>2

\* How many postings are owed changes only with the request that moves.
LEMMA PostingChanges ==
  ASSUME NEW p \in Procs, \A q \in Procs \ {p} : req'[q] = req[q],
         NEW o \in Orders, NEW stages
  PROVE  LET owed(r) == r.order = o /\ r.stage \in stages
         IN  /\ Cardinality(Posting(o, stages)) \in Nat
             /\ Cardinality(Posting(o, stages)') =
                   Cardinality(Posting(o, stages)) + (IF owed(req'[p]) THEN 1 ELSE 0)
                                                   - (IF owed(req[p]) THEN 1 ELSE 0)
<1> DEFINE A == Posting(o, stages)
           B == Posting(o, stages)'
<1>1. /\ A \in SUBSET Procs /\ B \in SUBSET Procs /\ A \ {p} = B \ {p}
      /\ p \in A <=> req[p].order = o /\ req[p].stage \in stages
      /\ p \in B <=> req'[p].order = o /\ req'[p].stage \in stages
  BY DEF Posting
<1> HIDE DEF A, B
<1>2. /\ Cardinality(A) \in Nat
      /\ Cardinality(B) = Cardinality(A) + (IF p \in B THEN 1 ELSE 0) - (IF p \in A THEN 1 ELSE 0)
  BY <1>1, Counted
<1> QED
  BY <1>1, <1>2 DEF A, B

\* So does how many invoices are owed.
LEMMA AnnouncingChanges ==
  ASSUME NEW p \in Procs, \A q \in Procs \ {p} : req'[q] = req[q], NEW o \in Orders
  PROVE  LET owed(r) == r.order = o /\ r.billed
         IN  /\ Cardinality(Announcing(o)) \in Nat
             /\ Cardinality(Announcing(o)') =
                   Cardinality(Announcing(o)) + (IF owed(req'[p]) THEN 1 ELSE 0)
                                              - (IF owed(req[p]) THEN 1 ELSE 0)
<1> DEFINE A == Announcing(o)
           B == Announcing(o)'
<1>1. /\ A \in SUBSET Procs /\ B \in SUBSET Procs /\ A \ {p} = B \ {p}
      /\ p \in A <=> req[p].order = o /\ req[p].billed
      /\ p \in B <=> req'[p].order = o /\ req'[p].billed
  BY DEF Announcing
<1> HIDE DEF A, B
<1>2. /\ Cardinality(A) \in Nat
      /\ Cardinality(B) = Cardinality(A) + (IF p \in B THEN 1 ELSE 0) - (IF p \in A THEN 1 ELSE 0)
  BY <1>1, Counted
<1> QED
  BY <1>1, <1>2 DEF A, B

\* The feed of an order is finite.
LEMMA AnnouncedNat ==
  ASSUME NEW s \in Seq(Events)
  PROVE  Cardinality({i \in DOMAIN s : s[i] = "invoice.created"}) \in Nat
<1>1. Len(s) \in Nat /\ DOMAIN s = 1 .. Len(s)
  BY LenProperties
<1>2. IsFiniteSet(1 .. Len(s))
  BY <1>1, FS_Interval
<1> QED
  BY <1>1, <1>2, FS_Subset, FS_CardinalityType

\* An event published for o is one more in its feed.
LEMMA AnnouncedChanges ==
  ASSUME IInv, NEW o \in Orders, NEW e \in Events, Announce(o, e)
  PROVE  /\ InvoicesAnnounced(o) \in Nat
         /\ InvoicesAnnounced(o)' =
               InvoicesAnnounced(o) + (IF e = "invoice.created" THEN 1 ELSE 0)
         /\ \A x \in Orders \ {o} : InvoicesAnnounced(x)' = InvoicesAnnounced(x)
<1> DEFINE A == {i \in DOMAIN feed[o] : feed[o][i] = "invoice.created"}
           B == {i \in DOMAIN feed'[o] : feed'[o][i] = "invoice.created"}
           n == Len(feed[o]) + 1
<1>1. feed \in [Orders -> Seq(Events)] /\ feed[o] \in Seq(Events)
  BY DEF IInv, DocsTypeOK
<1>2. feed'[o] = Append(feed[o], e) /\ \A x \in Orders \ {o} : feed'[x] = feed[x]
  BY <1>1 DEF Announce
<1>3. /\ n \in Nat \ {0} /\ DOMAIN feed[o] = 1 .. (n - 1) /\ DOMAIN feed'[o] = 1 .. n
      /\ feed'[o][n] = e /\ \A i \in 1 .. (n - 1) : feed'[o][i] = feed[o][i]
  BY <1>1, <1>2, LenProperties, AppendProperties
<1>4. /\ \A i : i \in B <=> i \in A \/ (i = n /\ e = "invoice.created")
      /\ n \notin A /\ A \in SUBSET (1 .. n)
  <2> HIDE DEF n
  <2>1. 1 .. n = (1 .. (n - 1)) \cup {n} /\ n \notin 1 .. (n - 1)
    BY <1>3
  <2>2. \A i \in 1 .. (n - 1) : feed'[o][i] = feed[o][i]
    BY <1>3
  <2> QED
    BY <1>3, <2>1, <2>2
<1>5. IsFiniteSet(1 .. n)
  BY <1>3, FS_Interval
<1>6. IsFiniteSet(A) /\ Cardinality(A) \in Nat
  BY <1>4, <1>5, FS_Subset, FS_CardinalityType
<1>7. Cardinality(B) = Cardinality(A) + (IF e = "invoice.created" THEN 1 ELSE 0)
  <2> HIDE DEF A, B, n
  <2>1. CASE e = "invoice.created"
    <3>1. B = A \cup {n}
      BY <1>4, <2>1
    <3> QED
      BY <1>4, <1>6, <2>1, <3>1, FS_AddElement
  <2>2. CASE e # "invoice.created"
    <3>1. B = A
      BY <1>4, <2>2
    <3> QED
      BY <1>6, <2>2, <3>1
  <2> QED
    BY <2>1, <2>2
<1> QED
  BY <1>2, <1>6, <1>7 DEF InvoicesAnnounced

\* What the request r owes order o: postings at one of the stages; an invoice.
Owed(r, o, stages) == IF r.order = o /\ r.stage \in stages THEN 1 ELSE 0
Due(r, o)          == IF r.order = o /\ r.billed THEN 1 ELSE 0

\* The books stay balanced when what p posts is what it owed, and every invoice
\* it writes or is going to write has an event.
LEMMA Balanced ==
  ASSUME IInv, IInv', AgreeInv, NEW p \in Procs, \A q \in Procs \ {p} : req'[q] = req[q],
         \A o \in Orders :
            /\ glPosts'[o] + Owed(req'[p], o, {"postGL"})
                  = glPosts[o] + Owed(req[p], o, {"postGL"}) + (invoices'[o] - invoices[o])
            /\ arPosts'[o] + Owed(req'[p], o, {"postGL", "postAR"})
                  = arPosts[o] + Owed(req[p], o, {"postGL", "postAR"}) + (invoices'[o] - invoices[o])
            /\ InvoicesAnnounced(o)' + Due(req[p], o)
                  >= InvoicesAnnounced(o) + Due(req'[p], o) + (invoices'[o] - invoices[o])
  PROVE  AgreeInv'
<1> SUFFICES ASSUME NEW o \in Orders
             PROVE  /\ glPosts'[o] + Cardinality(Posting(o, {"postGL"}))' = invoices'[o]
                    /\ arPosts'[o] + Cardinality(Posting(o, {"postGL", "postAR"}))' = invoices'[o]
                    /\ InvoicesAnnounced(o)' >= invoices'[o] + Cardinality(Announcing(o))'
  BY DEF AgreeInv, LedgerInv, EventInv
<1> DEFINE GL == {"postGL"}
           AR == {"postGL", "postAR"}
           g == Cardinality(Posting(o, GL))     g2 == Cardinality(Posting(o, GL))'
           a == Cardinality(Posting(o, AR))     a2 == Cardinality(Posting(o, AR))'
           d == Cardinality(Announcing(o))      d2 == Cardinality(Announcing(o))'
           n == InvoicesAnnounced(o)            n2 == InvoicesAnnounced(o)'
           oweGL == Owed(req[p], o, GL)         oweGL2 == Owed(req'[p], o, GL)
           oweAR == Owed(req[p], o, AR)         oweAR2 == Owed(req'[p], o, AR)
           due == Due(req[p], o)                due2 == Due(req'[p], o)
           gl == glPosts[o]                     gl2 == glPosts'[o]
           ar == arPosts[o]                     ar2 == arPosts'[o]
           inv == invoices[o]                   inv2 == invoices'[o]
<1>1. /\ oweGL \in Int /\ oweGL2 \in Int /\ oweAR \in Int /\ oweAR2 \in Int
      /\ due \in Int /\ due2 \in Int
  BY DEF Owed, Due
<1>2. /\ gl \in Int /\ ar \in Int /\ inv \in Int
      /\ gl2 \in Int /\ ar2 \in Int /\ inv2 \in Int
  BY DEF IInv, DocsTypeOK
<1>3. n \in Int /\ n2 \in Int
  <2>1. feed[o] \in Seq(Events) /\ feed'[o] \in Seq(Events)
    BY DEF IInv, DocsTypeOK
  <2> QED
    BY <2>1, AnnouncedNat DEF InvoicesAnnounced
<1>4. gl + g = inv /\ ar + a = inv /\ n >= inv + d
  BY DEF AgreeInv, LedgerInv, EventInv
<1>5. /\ g \in Int /\ g2 = g + oweGL2 - oweGL
      /\ a \in Int /\ a2 = a + oweAR2 - oweAR
  BY PostingChanges DEF Owed
<1>6. d \in Int /\ d2 = d + due2 - due
  BY AnnouncingChanges DEF Due
<1>7. /\ gl2 + oweGL2 = gl + oweGL + (inv2 - inv)
      /\ ar2 + oweAR2 = ar + oweAR + (inv2 - inv)
      /\ n2 + due >= n + due2 + (inv2 - inv)
  OBVIOUS
<1> HIDE DEF g, g2, a, a2, d, d2, n, n2, oweGL, oweGL2, oweAR, oweAR2,
             due, due2, gl, gl2, ar, ar2, inv, inv2
<1>8. gl2 + g2 = inv2
  BY ONLY <1>1, <1>2, <1>4, <1>5, <1>7
<1>9. ar2 + a2 = inv2
  BY ONLY <1>1, <1>2, <1>4, <1>5, <1>7
<1>10. n2 >= inv2 + d2
  BY ONLY <1>1, <1>2, <1>3, <1>4, <1>6, <1>7
<1> QED
  BY <1>8, <1>9, <1>10 DEF g2, a2, d2, n2, gl2, ar2, inv2

\* While nothing fails, every step keeps postings balanced and invoices announced.
LEMMA AgreeNext == ~Failures /\ BillInv /\ AgreeInv /\ [Next]_vars => AgreeInv'
<1> SUFFICES ASSUME ~Failures, BillInv, AgreeInv, [Next]_vars PROVE AgreeInv'
  OBVIOUS
<1> DEFINE Posts == {"postGL", "postAR"}
           Quietly(r) == r.stage \notin Posts /\ r.billed = FALSE
           Others(p) == \A q \in Procs \ {p} : req'[q] = req[q]
<1>1. IInv /\ IInv' /\ CallsOpen /\ Bills /\ Bills'
  BY BillNext DEF BillInv
<1>2. /\ \A o \in Orders : /\ invoices[o] \in Nat /\ glPosts[o] \in Nat /\ arPosts[o] \in Nat
                           /\ InvoicesAnnounced(o) \in Nat
      /\ \A p \in Procs : BillOK(req[p]) /\ BillOK(req[p])' /\ req[p].billed \in BOOLEAN
  <2>1. \A o \in Orders : feed[o] \in Seq(Events)
    BY <1>1 DEF IInv, DocsTypeOK
  <2>2. \A o \in Orders : InvoicesAnnounced(o) \in Nat
    BY <2>1, AnnouncedNat DEF InvoicesAnnounced
  <2> QED
    BY <1>1, <2>2 DEF IInv, DocsTypeOK, ReqInv, Request, Bills
<1>3. ASSUME NEW p \in Procs, Others(p), UNCHANGED <<docVars, feed>>,
             \/ Quietly(req[p]) /\ Quietly(req'[p])
             \/ req'[p] = Idle /\ req[p].stage \notin Posts
             \/ /\ req'[p].order = req[p].order /\ req'[p].billed = req[p].billed
                /\ req[p].stage \notin Posts /\ req'[p].stage \notin Posts
      PROVE  AgreeInv'
  <2>1. \A o \in Orders : /\ Owed(req[p], o, {"postGL"}) = 0 /\ Owed(req'[p], o, {"postGL"}) = 0
                          /\ Owed(req[p], o, Posts) = 0 /\ Owed(req'[p], o, Posts) = 0
                          /\ Due(req[p], o) >= Due(req'[p], o)
                          /\ Due(req[p], o) \in {0, 1} /\ Due(req'[p], o) \in {0, 1}
    BY <1>3, IdleIs DEF Owed, Due
  <2>2. \A o \in Orders : /\ invoices'[o] = invoices[o] /\ glPosts'[o] = glPosts[o]
                          /\ arPosts'[o] = arPosts[o]
                          /\ InvoicesAnnounced(o)' = InvoicesAnnounced(o)
    BY <1>3 DEF docVars, InvoicesAnnounced
  <2> QED
    BY <1>1, <1>2, <1>3, <2>1, <2>2, Balanced
<1>4. CASE UNCHANGED vars
  BY <1>4 DEF vars, docVars, sideVars, AgreeInv, LedgerInv, EventInv, Posting, Announcing, InvoicesAnnounced
<1>5. ASSUME NEW p \in Procs, Arrive(p) PROVE AgreeInv'
  <2>1. ASSUME NEW o \in Orders, NEW kind \in OrderKinds, ReadOrder(p, kind, o) PROVE AgreeInv'
    <3>1. /\ Quietly(req[p]) /\ Others(p) /\ UNCHANGED <<docVars, feed>>
      BY <1>1, <2>1, ReadOrderIs, IdleIs DEF sideVars
    <3>2. Quietly(req'[p])
      BY <1>1, <2>1, ReadOrderIs
    <3> QED
      BY <1>3, <3>1, <3>2
  <2>2. ASSUME NEW o \in Orders, CompleteDelivery(p, o) PROVE AgreeInv'
    BY <1>1, <1>3, <2>2, CompleteDeliveryIs, IdleIs
  <2>3. ASSUME \/ \E a \in Adjustments : BeginAdjust(p, a)
               \/ \E m \in Moves : BeginMove(p, m)
        PROVE  AgreeInv'
    BY <1>1, <1>3, <2>3, StockBeginsIs, IdleIs DEF sideVars
  <2> QED
    BY <1>5, <2>1, <2>2, <2>3 DEF Arrive, OrderKinds
<1>6. ASSUME NEW p \in Procs,
             \/ GateRefuses(p) \/ LineFails(p) \/ WriteFails(p) \/ EndStockRequest(p)
             \/ Fail(p) \/ DeadlockVictim(p)
      PROVE  AgreeInv'
  <2>1. /\ UNCHANGED <<docVars, feed>> /\ req'[p] = Idle /\ Others(p)
        /\ req[p].stage \in {"gate", "lines", "calls", "ledger"}
    BY <1>1, <1>6, EndIs DEF sideVars
  <2> QED
    BY <1>3, <2>1
<1>7. ASSUME NEW p \in Procs,
             \/ CheckCredit(p) \/ ListStock(p) \/ SkipLine(p) \/ UpdateStock(p)
             \/ CheckInvoice(p) \/ PostToLedger(p) \/ ReadRow(p) \/ WriteRow(p)
      PROVE  AgreeInv'
  <2>1. /\ UNCHANGED <<docVars, feed>> /\ Others(p)
        /\ Advanced(req[p], req'[p]) \/ (req[p].stage = "gate" /\ req'[p] = Idle)
    BY <1>1, <1>7, AdvanceIs
  <2>2. CASE req[p].stage = "gate" /\ req'[p] = Idle
    BY <1>2, <1>3, <2>1, <2>2, IdleIs DEF BillOK
  <2>3. CASE Advanced(req[p], req'[p])
    BY <1>3, <2>1, <2>3 DEF Advanced
  <2> QED
    BY <2>1, <2>2, <2>3
<1>8. ASSUME NEW p \in Procs, PlaceOnHold(p) PROVE AgreeInv'
  <2>1. /\ UNCHANGED <<invoices, glPosts, arPosts, feed>> /\ req[p].stage = "hold"
        /\ req'[p] = Idle /\ Others(p)
    BY <1>1, <1>8, OneChanges DEF PlaceOnHold, At, sideVars
  <2>2. Quietly(req[p]) /\ Quietly(req'[p])
    BY <1>2, <2>1, IdleIs DEF BillOK
  <2>3. \A o \in Orders : /\ Owed(req[p], o, {"postGL"}) = 0 /\ Owed(req'[p], o, {"postGL"}) = 0
                          /\ Owed(req[p], o, Posts) = 0 /\ Owed(req'[p], o, Posts) = 0
                          /\ Due(req[p], o) = 0 /\ Due(req'[p], o) = 0
    BY <2>2 DEF Owed, Due
  <2>4. \A o \in Orders : InvoicesAnnounced(o)' = InvoicesAnnounced(o)
    BY <2>1 DEF InvoicesAnnounced
  <2> QED
    BY <1>1, <1>2, <2>1, <2>3, <2>4, Balanced
<1>9. ASSUME NEW p \in Procs, CreateInvoice(p) PROVE AgreeInv'
  <2>1. /\ Announce(req[p].order, "invoice.created") /\ req[p].order \in Orders
        /\ req[p].stage = "invoice" /\ req'[p].stage = "ledger" /\ req'[p].order = req[p].order
        /\ req[p].billed = FALSE /\ req'[p].billed = TRUE /\ Others(p)
        /\ UNCHANGED <<invoices, glPosts, arPosts>>
    BY <1>1, <1>2, <1>9, CreateInvoiceIs DEF BillOK, docVars
  <2>2. \A o \in Orders : /\ Owed(req[p], o, {"postGL"}) = 0 /\ Owed(req'[p], o, {"postGL"}) = 0
                          /\ Owed(req[p], o, Posts) = 0 /\ Owed(req'[p], o, Posts) = 0
                          /\ Due(req[p], o) = 0
                          /\ Due(req'[p], o) = IF o = req[p].order THEN 1 ELSE 0
    BY <2>1 DEF Owed, Due
  <2>3. \A o \in Orders : InvoicesAnnounced(o)'
                             = InvoicesAnnounced(o) + (IF o = req[p].order THEN 1 ELSE 0)
    BY <1>1, <1>2, <2>1, AnnouncedChanges DEF Events
  <2> QED
    BY <1>1, <1>2, <2>1, <2>2, <2>3, Balanced
<1>10. ASSUME NEW p \in Procs, CommitOrder(p) PROVE AgreeInv'
  <2>1. /\ UNCHANGED feed /\ Others(p) /\ req[p].stage = "commit" /\ req[p].order \in Orders
        /\ req'[p].stage \notin Posts /\ req'[p].billed = FALSE
    BY <1>1, <1>2, <1>10, CommitOrderIs, IdleIs DEF BillOK, sideVars
  <2>2. \A o \in Orders : /\ invoices'[o] = invoices[o] + Due(req[p], o)
                          /\ glPosts'[o] = glPosts[o] + Due(req[p], o)
                          /\ arPosts'[o] = arPosts[o] + Due(req[p], o)
    BY <1>1, <1>2, <1>10, CommitOrderIs DEF Due
  <2>3. \A o \in Orders : /\ Owed(req[p], o, {"postGL"}) = 0 /\ Owed(req'[p], o, {"postGL"}) = 0
                          /\ Owed(req[p], o, Posts) = 0 /\ Owed(req'[p], o, Posts) = 0
                          /\ Due(req'[p], o) = 0 /\ Due(req[p], o) \in {0, 1}
    BY <2>1 DEF Owed, Due
  <2>4. \A o \in Orders : InvoicesAnnounced(o)' = InvoicesAnnounced(o)
    BY <2>1 DEF InvoicesAnnounced
  <2> QED
    BY <1>1, <1>2, <2>1, <2>2, <2>3, <2>4, Balanced
<1>11. ASSUME NEW p \in Procs, Publish(p) PROVE AgreeInv'
  <2>1. PICK e \in Events \ {"invoice.created"} : Announce(req[p].order, e)
    BY <1>11 DEF Publish, Events
  <2>2. /\ req[p].order \in Orders /\ req[p].stage = "publish" /\ req'[p] = Idle /\ Others(p)
        /\ UNCHANGED <<invoices, glPosts, arPosts>>
    BY <1>1, <1>11, OneChanges, DocumentIs DEF Publish, At, docVars
  <2>3. Quietly(req[p]) /\ Quietly(req'[p])
    BY <1>2, <2>2, IdleIs DEF BillOK
  <2>4. \A o \in Orders : /\ Owed(req[p], o, {"postGL"}) = 0 /\ Owed(req'[p], o, {"postGL"}) = 0
                          /\ Owed(req[p], o, Posts) = 0 /\ Owed(req'[p], o, Posts) = 0
                          /\ Due(req[p], o) = 0 /\ Due(req'[p], o) = 0
    BY <2>3 DEF Owed, Due
  <2>5. \A o \in Orders : InvoicesAnnounced(o)' = InvoicesAnnounced(o)
    BY <1>1, <1>2, <2>1, <2>2, AnnouncedChanges
  <2> QED
    BY <1>1, <1>2, <2>2, <2>4, <2>5, Balanced
<1>12. ASSUME NEW p \in Procs, AutoInvoice(p) PROVE AgreeInv'
  <2>1. /\ Announce(req[p].order, "invoice.created") /\ req[p].order \in Orders
        /\ invoices' = [invoices EXCEPT ![req[p].order] = invoices[req[p].order] + 1]
        /\ req[p].stage = "autoInvoice" /\ Goto(p, "postGL") /\ UNCHANGED <<glPosts, arPosts>>
    BY <1>1, <1>12, DocumentIs DEF AutoInvoice, At
  <2>2. /\ req'[p].stage = "postGL" /\ req'[p].order = req[p].order
        /\ req[p].billed = FALSE /\ req'[p].billed = FALSE /\ Others(p)
    BY <1>1, <1>2, <2>1, GotoIs DEF BillOK
  <2>3. \A o \in Orders : invoices'[o] = invoices[o] + (IF o = req[p].order THEN 1 ELSE 0)
    <3>1. invoices \in [Orders -> Nat]
      BY <1>1 DEF IInv, DocsTypeOK
    <3>2. /\ req[p].order \in Orders
          /\ invoices' = [invoices EXCEPT ![req[p].order] = invoices[req[p].order] + 1]
      BY <2>1
    <3> QED
      BY <3>1, <3>2
  <2>4. \A o \in Orders : /\ Owed(req[p], o, {"postGL"}) = 0 /\ Owed(req[p], o, Posts) = 0
                          /\ Owed(req'[p], o, {"postGL"}) = IF o = req[p].order THEN 1 ELSE 0
                          /\ Owed(req'[p], o, Posts) = IF o = req[p].order THEN 1 ELSE 0
                          /\ Due(req[p], o) = 0 /\ Due(req'[p], o) = 0
    BY <2>1, <2>2 DEF Owed, Due
  <2>5. \A o \in Orders : InvoicesAnnounced(o)'
                             = InvoicesAnnounced(o) + (IF o = req[p].order THEN 1 ELSE 0)
    BY <1>1, <1>2, <2>1, AnnouncedChanges DEF Events
  <2> QED
    BY <1>1, <1>2, <2>1, <2>2, <2>3, <2>4, <2>5, Balanced
<1>13. ASSUME NEW p \in Procs, PostToGL(p) PROVE AgreeInv'
  <2>1. /\ glPosts' = [glPosts EXCEPT ![req[p].order] = glPosts[req[p].order] + 1]
        /\ req[p].order \in Orders
        /\ req[p].stage = "postGL" /\ Goto(p, "postAR") /\ UNCHANGED <<invoices, arPosts, feed>>
    BY <1>1, <1>13, DocumentIs DEF PostToGL, At, sideVars
  <2>2. /\ req'[p].stage = "postAR" /\ req'[p].order = req[p].order
        /\ req[p].billed = FALSE /\ req'[p].billed = FALSE /\ Others(p)
    BY <1>1, <1>2, <2>1, GotoIs DEF BillOK
  <2>3. \A o \in Orders : glPosts'[o] = glPosts[o] + (IF o = req[p].order THEN 1 ELSE 0)
    <3>1. glPosts \in [Orders -> Nat]
      BY <1>1 DEF IInv, DocsTypeOK
    <3> QED
      BY ONLY <2>1, <3>1
  <2>4. \A o \in Orders : /\ Owed(req[p], o, {"postGL"}) = IF o = req[p].order THEN 1 ELSE 0
                          /\ Owed(req'[p], o, {"postGL"}) = 0
                          /\ Owed(req'[p], o, Posts) = Owed(req[p], o, Posts)
                          /\ Owed(req[p], o, Posts) \in {0, 1}
                          /\ Due(req[p], o) = 0 /\ Due(req'[p], o) = 0
    BY <2>1, <2>2 DEF Owed, Due
  <2>5. \A o \in Orders : InvoicesAnnounced(o)' = InvoicesAnnounced(o)
    BY <2>1 DEF InvoicesAnnounced
  <2> QED
    BY <1>1, <1>2, <2>1, <2>2, <2>3, <2>4, <2>5, Balanced
<1>14. ASSUME NEW p \in Procs, PostToAR(p) PROVE AgreeInv'
  <2>1. /\ arPosts' = [arPosts EXCEPT ![req[p].order] = arPosts[req[p].order] + 1]
        /\ req[p].order \in Orders
        /\ req[p].stage = "postAR" /\ req'[p] = Idle /\ Others(p)
        /\ UNCHANGED <<invoices, glPosts, feed>>
    BY <1>1, <1>14, DocumentIs, OneChanges DEF PostToAR, At, sideVars
  <2>2. req[p].billed = FALSE
    BY <1>2, <2>1 DEF BillOK
  <2>3. \A o \in Orders : arPosts'[o] = arPosts[o] + (IF o = req[p].order THEN 1 ELSE 0)
    <3>1. arPosts \in [Orders -> Nat]
      BY <1>1 DEF IInv, DocsTypeOK
    <3> QED
      BY ONLY <2>1, <3>1
  <2>4. \A o \in Orders : /\ Owed(req[p], o, Posts) = IF o = req[p].order THEN 1 ELSE 0
                          /\ Owed(req'[p], o, Posts) = 0
                          /\ Owed(req[p], o, {"postGL"}) = 0 /\ Owed(req'[p], o, {"postGL"}) = 0
                          /\ Due(req[p], o) = 0 /\ Due(req'[p], o) = 0
    BY <2>1, <2>2, IdleIs DEF Owed, Due
  <2>5. \A o \in Orders : InvoicesAnnounced(o)' = InvoicesAnnounced(o)
    BY <2>1 DEF InvoicesAnnounced
  <2> QED
    BY <1>1, <1>2, <2>1, <2>2, <2>3, <2>4, <2>5, Balanced
<1> QED
  BY <1>4, <1>5, <1>6, <1>7, <1>8, <1>9, <1>10, <1>11, <1>12, <1>13, <1>14 DEF Next, Serve

\* While nothing fails, each posting still missing is owed by a request, and no
\* event is missing.
LEMMA AgreeInvHolds == ~Failures => (Spec => []AgreeInv)
<1> SUFFICES ASSUME ~Failures PROVE Spec => []AgreeInv
  OBVIOUS
<1>1. Init => AgreeInv
  <2> SUFFICES ASSUME Init, NEW o \in Orders
               PROVE  /\ glPosts[o] + Cardinality(Posting(o, {"postGL"})) = invoices[o]
                      /\ arPosts[o] + Cardinality(Posting(o, {"postGL", "postAR"})) = invoices[o]
                      /\ InvoicesAnnounced(o) >= invoices[o] + Cardinality(Announcing(o))
    BY DEF AgreeInv, LedgerInv, EventInv
  <2>1. /\ \A p \in Procs : req[p] = Idle
        /\ glPosts[o] = 0 /\ arPosts[o] = 0 /\ invoices[o] = 0 /\ feed[o] = <<>>
    BY DEF Init
  <2>2. /\ Posting(o, {"postGL"}) = {} /\ Posting(o, {"postGL", "postAR"}) = {}
        /\ Announcing(o) = {} /\ {i \in DOMAIN feed[o] : feed[o][i] = "invoice.created"} = {}
    BY <2>1, IdleIs DEF Posting, Announcing
  <2>3. /\ Cardinality(Posting(o, {"postGL"})) = 0
        /\ Cardinality(Posting(o, {"postGL", "postAR"})) = 0
        /\ Cardinality(Announcing(o)) = 0 /\ InvoicesAnnounced(o) = 0
    BY <2>2, FS_EmptySet, Zenon DEF InvoicesAnnounced
  <2> QED
    BY <2>1, <2>3
<1> QED
  BY <1>1, AgreeNext, BillInvHolds, PTL DEF Spec

\* While nothing fails, each invoice of an order nobody works on has its journal
\* entry and its customer transaction, however many requests raced to bill it.
THEOREM LedgersAgreeHolds == ~Failures => (Spec => []LedgersAgree)
<1>1. AgreeInv /\ IInv => LedgersAgree
  <2> SUFFICES ASSUME AgreeInv, IInv, NEW o \in Orders, Quiet(o)
               PROVE  glPosts[o] = invoices[o] /\ arPosts[o] = invoices[o]
    BY DEF LedgersAgree
  <2>1. Posting(o, {"postGL"}) = {} /\ Posting(o, {"postGL", "postAR"}) = {}
    BY DEF Quiet, Posting
  <2>2. /\ Cardinality(Posting(o, {"postGL"})) = 0
        /\ Cardinality(Posting(o, {"postGL", "postAR"})) = 0
    BY <2>1, FS_EmptySet, Zenon
  <2> QED
    BY <2>2 DEF AgreeInv, LedgerInv, IInv, DocsTypeOK
<1> QED
  BY <1>1, AgreeInvHolds, IInvHolds, PTL

\* While nothing fails, each invoice of an order nobody works on was announced by
\* an event of its own: by FulfillOrder, whose transaction publishes before it
\* commits and may yet be aborted by a deadlock, or by the delivery.
THEOREM EveryInvoiceAnnouncedHolds == ~Failures => (Spec => []EveryInvoiceAnnounced)
<1>1. AgreeInv /\ IInv => EveryInvoiceAnnounced
  <2> SUFFICES ASSUME AgreeInv, IInv, NEW o \in Orders, Quiet(o)
               PROVE  invoices[o] <= InvoicesAnnounced(o)
    BY DEF EveryInvoiceAnnounced
  <2>1. Announcing(o) = {}
    BY DEF Quiet, Announcing
  <2>2. Cardinality(Announcing(o)) = 0
    BY <2>1, FS_EmptySet, Zenon
  <2>3. feed[o] \in Seq(Events) /\ invoices[o] \in Nat
    BY DEF IInv, DocsTypeOK
  <2>4. InvoicesAnnounced(o) \in Nat
    BY <2>3, AnnouncedNat DEF InvoicesAnnounced
  <2> QED
    BY <2>2, <2>3, <2>4 DEF AgreeInv, EventInv
<1> QED
  BY <1>1, AgreeInvHolds, IInvHolds, PTL

-----------------------------------------------------------------------------
(* One request at a time on each order.                                    *)

\* A request on o is only taken on when no other is in flight.
LEMMA FirstOnOrder ==
  ASSUME Serial, NEW o \in Orders, InFlight(o) < MaxInFlight
  PROVE  \A q \in Procs : req[q].order # o
<1> DEFINE S == {q \in Procs : req[q].order = o}
<1>1. IsFiniteSet(S) /\ Cardinality(S) \in Nat
  BY FS_Subset, FS_CardinalityType
<1>2. Cardinality(S) = InFlight(o)
  BY DEF InFlight
<1> HIDE DEF S
<1>3. Cardinality(S) < 1
  BY <1>1, <1>2, RequestAssumption DEF Serial
<1>4. S = {}
  BY <1>1, <1>3, FS_EmptySet
<1> QED
  BY <1>4 DEF S

\* The statuses a handler accepts are not the final ones.
LEMMA AcceptsOpen ==
  ASSUME NEW kind \in OrderKinds
  PROVE  Accepts(kind) \cap {"FULFILLED", "CANCELLED"} = {}
<1> QED
  BY DEF Accepts, OrderKinds

\* A request that works on its own order does not disturb the others.
LEMMA SerialStep ==
  ASSUME BillInv, BillInv', SerialInv, NEW p \in Procs,
         \A q \in Procs \ {p} : req'[q] = req[q],
         req'[p].order = req[p].order \/ req'[p].order \notin Orders,
         \A x \in Orders \ {req[p].order} : status'[x] = status[x] /\ invoices'[x] = invoices[x],
         req[p].order \in Orders => invoices'[req[p].order] <= 1,
         SerialOK(req[p])'
  PROVE  SerialInv'
<1> USE DEF SerialInv
<1>1. OnePerOrder'
  BY DEF OnePerOrder
<1>2. BilledOnce'
  BY DEF BilledOnce
<1>3. ASSUME NEW q \in Procs \ {p} PROVE SerialOK(req[q])'
  <2>1. req'[q] = req[q] /\ SerialOK(req[q])
    OBVIOUS
  <2>2. req[q].stage \in BeforeCommit \cup {"autoInvoice"} \/ req[q].billed => req[q].order \in Orders
    BY DEF BillInv, Bills, BillOK, IInv, ReqInv, ReqOK, BeforeCommit
  <2>3. req[q].order \in Orders => req[q].order \in Orders \ {req[p].order}
    BY DEF OnePerOrder
  <2>4. BeforeCommit \cup {"autoInvoice"} = {"gate", "hold", "lines", "billing", "invoice", "ledger", "commit", "autoInvoice"}
    BY DEF BeforeCommit
  <2> QED
    BY <2>1, <2>2, <2>3, <2>4 DEF SerialOK, BeforeCommit
<1> QED
  BY <1>1, <1>2, <1>3

\* A request that is taken on is the only one on its order.
LEMMA SerialArrives ==
  ASSUME BillInv, BillInv', SerialInv, NEW p \in Procs,
         \A q \in Procs \ {p} : req'[q] = req[q],
         req'[p].order \in Orders => \A q \in Procs : req[q].order # req'[p].order,
         UNCHANGED docVars,
         SerialOK(req[p])'
  PROVE  SerialInv'
<1> USE DEF SerialInv
<1>1. OnePerOrder'
  BY DEF OnePerOrder
<1>2. BilledOnce'
  BY DEF BilledOnce, docVars
<1> QED
  BY <1>1, <1>2 DEF SerialOK, docVars

\* With one request at a time on an order, every step keeps what the request
\* read current, and changes the status of an order only if it is not final.
LEMMA SerialNext ==
  Serial /\ BillInv /\ SerialInv /\ [Next]_vars =>
     /\ SerialInv'
     /\ \A o \in Orders : status[o] \in {"FULFILLED", "CANCELLED"} => status'[o] = status[o]
<1> DEFINE Final == \A o \in Orders : status[o] \in {"FULFILLED", "CANCELLED"} => status'[o] = status[o]
           Others(p) == \A q \in Procs \ {p} : req'[q] = req[q]
<1> SUFFICES ASSUME Serial, BillInv, SerialInv, [Next]_vars PROVE SerialInv' /\ Final
  OBVIOUS
<1>1. BillInv' /\ IInv /\ IInv' /\ CallsOpen
  BY BillNext DEF BillInv
<1>2. /\ \A o \in Orders : invoices[o] \in Nat /\ invoices[o] <= 1 /\ status[o] \in Statuses
      /\ \A p \in Procs : BillOK(req[p]) /\ ReqOK(req[p]) /\ SerialOK(req[p]) /\ req[p].billed \in BOOLEAN
      /\ status \in [Orders -> Statuses] /\ invoices \in [Orders -> Nat]
  BY DEF BillInv, Bills, IInv, DocsTypeOK, ReqInv, Request, SerialInv, BilledOnce
<1>3. UNCHANGED docVars => Final
  BY DEF docVars
<1>4. CASE UNCHANGED vars
  BY <1>3, <1>4 DEF vars, docVars, SerialInv, OnePerOrder, BilledOnce, SerialOK
<1>5. ASSUME NEW p \in Procs, NEW o \in Orders, NEW kind \in OrderKinds, ReadOrder(p, kind, o)
      PROVE  SerialInv' /\ Final
  <2>1. /\ UNCHANGED docVars /\ Others(p) /\ req'[p].order = o
        /\ SerialOK(req[p])'
    BY <1>1, <1>5, ReadOrderIs
  <2>2. \A q \in Procs : req[q].order # o
    BY <1>5, FirstOnOrder DEF ReadOrder
  <2> QED
    BY <1>1, <1>3, <2>1, <2>2, SerialArrives
<1>6. ASSUME NEW p \in Procs, NEW o \in Orders, CompleteDelivery(p, o)
      PROVE  SerialInv' /\ Final
  <2>1. CASE UNCHANGED req
    BY <1>1, <1>3, <1>6, <2>1, CompleteDeliveryIs DEF docVars, SerialInv, OnePerOrder, BilledOnce, SerialOK
  <2>2. CASE req' # req
    <3>1. /\ UNCHANGED docVars /\ Others(p) /\ req'[p].order = o /\ req'[p].billed = FALSE
          /\ req'[p].stage = "autoInvoice" /\ invoices[o] = 0
      BY <1>1, <1>6, <2>2, CompleteDeliveryIs
    <3>2. \A q \in Procs : req[q].order # o
      BY <1>6, FirstOnOrder DEF CompleteDelivery
    <3>3. SerialOK(req[p])'
      BY <3>1 DEF SerialOK, docVars, BeforeCommit
    <3> QED
      BY <1>1, <1>3, <3>1, <3>2, <3>3, SerialArrives
  <2> QED
    BY <2>1, <2>2
<1>7. ASSUME NEW p \in Procs,
             \/ \E a \in Adjustments : BeginAdjust(p, a)
             \/ \E m \in Moves : BeginMove(p, m)
      PROVE  SerialInv' /\ Final
  <2>1. /\ UNCHANGED docVars /\ Others(p) /\ req'[p].order = NoOrder /\ req'[p].billed = FALSE
        /\ req'[p].stage = "calls"
    BY <1>1, <1>7, StockBeginsIs
  <2>2. SerialOK(req[p])' /\ req'[p].order \notin Orders
    BY <2>1, IdleIs DEF SerialOK, BeforeCommit
  <2> QED
    BY <1>1, <1>3, <2>1, <2>2, SerialArrives
<1>8. ASSUME NEW p \in Procs,
             \/ GateRefuses(p) \/ LineFails(p) \/ WriteFails(p) \/ EndStockRequest(p)
             \/ Fail(p) \/ DeadlockVictim(p)
      PROVE  SerialInv' /\ Final
  <2>1. UNCHANGED docVars /\ Others(p) /\ req'[p] = Idle
    BY <1>1, <1>8, EndIs
  <2>2. SerialOK(req[p])' /\ req'[p].order \notin Orders
    BY <2>1, IdleIs DEF SerialOK, BeforeCommit
  <2> QED
    BY <1>1, <1>3, <2>1, <2>2, SerialArrives
<1>9. ASSUME NEW p \in Procs,
             \/ CheckCredit(p) \/ ListStock(p) \/ SkipLine(p) \/ UpdateStock(p)
             \/ CheckInvoice(p) \/ PostToLedger(p) \/ ReadRow(p) \/ WriteRow(p)
      PROVE  SerialInv' /\ Final
  <2>1. /\ UNCHANGED docVars /\ Others(p)
        /\ Advanced(req[p], req'[p]) \/ req'[p] = Idle
    BY <1>1, <1>9, AdvanceIs
  <2>2. CASE req'[p] = Idle
    BY <1>1, <1>3, <2>1, <2>2, SerialArrives, IdleIs DEF SerialOK, BeforeCommit
  <2>3. CASE Advanced(req[p], req'[p])
    <3>1. SerialOK(req[p])'
      BY <1>2, <2>1, <2>3 DEF Advanced, SerialOK, BeforeCommit, docVars
    <3>2. \A x \in Orders : status'[x] = status[x] /\ invoices'[x] = invoices[x]
      BY <2>1 DEF docVars
    <3>3. req'[p].order = req[p].order
      BY <2>3 DEF Advanced
    <3> QED
      BY <1>1, <1>2, <1>3, <2>1, <3>1, <3>2, <3>3, SerialStep
  <2> QED
    BY <2>1, <2>2, <2>3
<1>10. ASSUME NEW p \in Procs, CommitOrder(p) PROVE SerialInv' /\ Final
  <2>1. /\ req[p].stage = "commit" /\ req[p].order \in Orders /\ req[p].kind \in OrderKinds
        /\ status' = [status EXCEPT ![req[p].order] = NewStatus(req[p].kind)]
        /\ \A x \in Orders \ {req[p].order} : invoices'[x] = invoices[x]
        /\ Others(p)
        /\ \/ req'[p] = Idle
           \/ req'[p].order = req[p].order /\ req'[p].stage = "publish"
    BY <1>1, <1>10, CommitOrderIs
  <2>2. invoices'[req[p].order] = invoices[req[p].order] + (IF req[p].billed THEN 1 ELSE 0)
    BY <1>1, <1>10, CommitOrderIs
  <2>3. invoices'[req[p].order] <= 1
    BY <1>2, <2>1, <2>2 DEF SerialOK
  <2>4. status[req[p].order] \notin {"FULFILLED", "CANCELLED"}
    BY <1>2, <2>1, AcceptsOpen DEF SerialOK, BeforeCommit
  <2>5. Final /\ \A x \in Orders \ {req[p].order} : status'[x] = status[x]
    BY <1>2, <2>1, <2>4
  <2>6. SerialOK(req[p])'
    <3>1. req'[p].stage \in {"idle", "publish"} /\ req'[p].billed = FALSE
      <4>1. BillOK(req[p])' /\ req'[p].billed \in BOOLEAN
        BY <1>1 DEF BillInv, Bills, IInv, ReqInv, Request
      <4> QED
        BY <2>1, <4>1, IdleIs DEF BillOK
    <3> QED
      BY <3>1 DEF SerialOK, BeforeCommit
  <2> QED
    BY <1>1, <2>1, <2>3, <2>5, <2>6, IdleIs, SerialStep
<1>11. ASSUME NEW p \in Procs, PlaceOnHold(p) PROVE SerialInv' /\ Final
  <2>1. /\ req[p].stage = "hold" /\ req[p].order \in Orders /\ req[p].kind \in OrderKinds
        /\ status' = [status EXCEPT ![req[p].order] = "ON_HOLD"]
        /\ UNCHANGED invoices /\ Others(p) /\ req'[p] = Idle
    BY <1>1, <1>2, <1>11, OneChanges DEF PlaceOnHold, At, ReqOK
  <2>2. status[req[p].order] \notin {"FULFILLED", "CANCELLED"}
    BY <1>2, <2>1, AcceptsOpen DEF SerialOK, BeforeCommit
  <2>3. Final /\ \A x \in Orders \ {req[p].order} : status'[x] = status[x]
    BY <1>2, <2>1, <2>2
  <2>4. SerialOK(req[p])'
    BY <2>1, IdleIs DEF SerialOK, BeforeCommit
  <2> QED
    BY <1>1, <1>2, <2>1, <2>3, <2>4, IdleIs, SerialStep
<1>12. ASSUME NEW p \in Procs,
              CreateInvoice(p) \/ Publish(p) \/ AutoInvoice(p) \/ PostToGL(p) \/ PostToAR(p)
       PROVE  SerialInv' /\ Final
  <2>1. /\ req[p].order \in Orders /\ Others(p) /\ UNCHANGED status
        /\ req'[p] = Idle \/ req'[p].order = req[p].order
    BY <1>1, <1>12, DocumentIs DEF CreateInvoice, Publish, AutoInvoice, PostToGL, PostToAR, docVars
  <2>2. /\ \A x \in Orders \ {req[p].order} : invoices'[x] = invoices[x]
        /\ invoices'[req[p].order] <= 1
    <3>1. CASE AutoInvoice(p)
      <4>1. /\ invoices' = [invoices EXCEPT ![req[p].order] = invoices[req[p].order] + 1]
            /\ req[p].stage = "autoInvoice"
        BY <3>1 DEF AutoInvoice, At
      <4>2. invoices[req[p].order] = 0
        BY <1>2, <4>1 DEF SerialOK
      <4> QED
        BY <1>2, <2>1, <4>1, <4>2
    <3> QED
      BY <1>2, <1>12, <2>1, <3>1 DEF CreateInvoice, Publish, PostToGL, PostToAR, docVars
  <2>3. SerialOK(req[p])'
    <3>1. CASE CreateInvoice(p)
      BY <1>1, <1>2, <3>1, CreateInvoiceIs DEF SerialOK, BeforeCommit, docVars
    <3>2. CASE ~CreateInvoice(p)
      <4>1. req'[p].stage \in {"idle", "postGL", "postAR"}
        BY <1>1, <1>12, <3>2, OneChanges, GotoIs, IdleIs DEF Publish, AutoInvoice, PostToGL, PostToAR
      <4>2. BillOK(req[p])'
        BY <1>1 DEF BillInv, Bills
      <4> QED
        BY <4>1, <4>2 DEF BillOK, SerialOK, BeforeCommit
    <3> QED
      BY <3>1, <3>2
  <2> QED
    BY <1>1, <2>1, <2>2, <2>3, IdleIs, SerialStep
<1> QED
  BY <1>4, <1>5, <1>6, <1>7, <1>8, <1>9, <1>10, <1>11, <1>12 DEF Next, Arrive, Serve, OrderKinds

\* The invariant of serial requests holds in every reachable state.
LEMMA SerialInvHolds == Serial => (Spec => []SerialInv)
<1> SUFFICES ASSUME Serial PROVE Spec => []SerialInv
  OBVIOUS
<1>1. Init => SerialInv
  <2> SUFFICES ASSUME Init PROVE SerialInv
    OBVIOUS
  <2>1. /\ \A p \in Procs : req[p] = Idle
        /\ \A o \in Orders : invoices[o] = 0
    BY DEF Init
  <2> QED
    BY <2>1, IdleIs DEF SerialInv, OnePerOrder, BilledOnce, SerialOK, BeforeCommit
<1> QED
  BY <1>1, SerialNext, BillInvHolds, PTL DEF Spec

\* With one request at a time on an order, no order is billed twice: neither by
\* FulfillOrder and its delivery, nor by a request repeated after a failure.
THEOREM BilledOnceHolds == Serial => (Spec => []BilledOnce)
<1>1. SerialInv => BilledOnce
  BY DEF SerialInv
<1> QED
  BY <1>1, SerialInvHolds, PTL

\* With one request at a time on an order, FULFILLED and CANCELLED are final.
THEOREM FinalStatusHolds == Serial => (Spec => FinalStatus)
<1> SUFFICES ASSUME Serial PROVE Spec => FinalStatus
  OBVIOUS
<1>1. BillInv /\ SerialInv /\ [Next]_vars =>
         [\A o \in Orders : status[o] \in {"FULFILLED", "CANCELLED"} => status'[o] = status[o]]_vars
  BY SerialNext
<1> QED
  BY <1>1, SerialInvHolds, BillInvHolds, PTL DEF Spec, FinalStatus
=============================================================================
