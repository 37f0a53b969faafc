------------------------- MODULE OrderToCashProofs -------------------------
(***************************************************************************)
(* Proved for any orders, lines, rows, goroutines and stock requests:      *)
(* every variable keeps its type, no inventory row goes below zero, and,   *)
(* when neither AdjustStock nor MoveStock requests arrive, no row promises *)
(* more than it holds. (With them it may: the README has the behaviour.)   *)
(***************************************************************************)
EXTENDS OrderToCash, SequenceTheorems, TLAPS

GuardedOps == {"allocate", "release", "fulfill"}

\* Neither the committed version of a row nor an uncommitted one is negative.
RowsOK == \A r \in Rows : /\ stock[r].quantity >= 0 /\ stock[r].allocated >= 0
                          /\ draft[r].quantity >= 0 /\ draft[r].allocated >= 0

\* A guarded call still has something to place, and the row it aims at offered
\* some of it when it was read. What an AdjustStock read is not negative.
CallOK(c) == /\ \A r \in Rows : c.seen[r].allocated >= 0
             /\ c.op \in GuardedOps => /\ c.left > 0
                                       /\ c.row # NoRow => Offers(c.op, c.seen[c.row]) > 0
             /\ c.op \in {"add", "set"} => c.row \in Rows

StockInv == /\ InventoryTypeOK
            /\ RowsOK
            /\ \A p \in Procs : CallOK(call[p])

\* No version of a row, committed or not, promises more than it holds.
Covered == \A r \in Rows : /\ stock[r].allocated <= stock[r].quantity
                           /\ draft[r].allocated <= draft[r].quantity

OrderKinds == {"confirm", "cancel", "fulfill"}

\* What the stage a handler is in says of the request it serves.
ReqOK(r) ==
    /\ r.stage \notin {"idle", "calls"} => r.order \in Orders
    /\ r.stage \in {"gate", "hold", "lines", "billing", "invoice", "ledger", "commit", "publish"}
          => r.kind \in OrderKinds
    /\ r.stage = "lines" => r.line \in 1 .. Len(Lines[r.order])
    /\ r.stage = "calls" => r.kind \in Kinds \cap {"adjust", "move"}

DocsTypeOK == /\ status   \in [Orders -> Statuses]
              /\ invoices \in [Orders -> Nat]
              /\ glPosts  \in [Orders -> Nat]
              /\ arPosts  \in [Orders -> Nat]
              /\ delivered \subseteq Orders
              /\ feed     \in [Orders -> Seq(Events)]
              /\ stockFeed \subseteq {"inventory.adjusted"}

ReqInv == /\ req \in [Procs -> Request]
          /\ \A p \in Procs : ReqOK(req[p])

IInv == StockInv /\ DocsTypeOK /\ ReqInv

\* Neither AdjustStock nor MoveStock requests arrive.
NoAdjustments == Kinds \cap {"adjust", "move"} = {}

USE NobodyAssumption, NoRowAssumption, MaxQuantityAssumption

-----------------------------------------------------------------------------
(* The stock calls, for any rows, products and goroutines.                 *)

\* The state of a goroutine that is in no stock call.
LEMMA NoCallOK == NoCall \in Call /\ CallOK(NoCall)
<1> QED
  BY DEF NoCall, Call, CallOK, Cell, GuardedOps

\* The rows a SELECT returns are well formed and not negative.
LEMMA ReadingOK ==
  ASSUME StockInv, NEW p \in Procs
  PROVE  /\ Reading(p) \in [Rows -> Cell]
         /\ \A r \in Rows : /\ Sees(p, r) \in Cell
                            /\ Reading(p)[r] = Sees(p, r)
                            /\ Sees(p, r).quantity >= 0 /\ Sees(p, r).allocated >= 0
                            /\ Covered => Sees(p, r).allocated <= Sees(p, r).quantity
<1> QED
  BY DEF StockInv, InventoryTypeOK, RowsTypeOK, RowsOK, Covered, Reading, Sees

\* A guarded call always takes at least one unit, and never more than is left.
LEMMA TakesPositive ==
  ASSUME NEW c \in Call, CallOK(c), c.op \in GuardedOps, c.row # NoRow
  PROVE  /\ Takes(c) \in Nat \ {0}
         /\ c.left - Takes(c) \in Nat
<1>1. c.row \in Rows /\ c.left \in Int /\ c.seen \in [Rows -> Cell]
  BY DEF Call
<1>2. c.seen[c.row] \in Cell
  BY <1>1
<1>3. Offers(c.op, c.seen[c.row]) \in Int
  BY <1>2 DEF Offers, Available, Cell
<1> QED
  BY <1>1, <1>3 DEF CallOK, Takes, Smaller

\* However a guarded call goes on, the call is well formed.
LEMMA ContinuationOK ==
  ASSUME NEW c \in Call, \A r \in Rows : c.seen[r].allocated >= 0,
         c.op \in GuardedOps,
         NEW todo \in SUBSET Rows, NEW left \in Nat,
         NEW d \in Continuations(c, todo, left)
  PROVE  d \in Call /\ CallOK(d)
<1>1. CASE left = 0
  BY <1>1, NoCallOK DEF Continuations
<1>2. CASE left # 0
  <2>1. PICK r \in Candidates(c.op, c.seen, todo) \cup {NoRow} :
           d = [c EXCEPT !.todo = todo, !.left = left, !.row = r]
    BY <1>2 DEF Continuations
  <2>2. r \in Rows \cup {NoRow} /\ (r # NoRow => Offers(c.op, c.seen[r]) > 0)
    BY DEF Candidates
  <2>3. d \in Call
    BY <2>1, <2>2, left \in Int DEF Call
  <2>4. d.op = c.op /\ d.seen = c.seen /\ d.left = left /\ d.row = r
    BY <2>1 DEF Call
  <2> QED
    BY <1>2, <2>2, <2>3, <2>4 DEF CallOK, GuardedOps
<1> QED
  BY <1>1, <1>2

\* What each guarded UPDATE writes when its WHERE clause holds: nothing goes
\* negative, and nothing is promised that is not there.
LEMMA UpdatedOK ==
  ASSUME NEW op \in GuardedOps, NEW c \in Cell, NEW n \in Nat,
         c.quantity >= 0, c.allocated >= 0, Fits(op, c, n)
  PROVE  /\ Updated(op, c, n) \in Cell
         /\ Updated(op, c, n).quantity >= 0 /\ Updated(op, c, n).allocated >= 0
         /\ c.allocated <= c.quantity =>
               Updated(op, c, n).allocated <= Updated(op, c, n).quantity
<1>1. CASE op = "allocate"
  BY <1>1 DEF Cell, Fits, Updated, Available
<1>2. CASE op = "release"
  BY <1>2 DEF Cell, Fits, Updated
<1>3. CASE op = "fulfill"
  BY <1>3 DEF Cell, Fits, Updated
<1> QED
  BY <1>1, <1>2, <1>3 DEF GuardedOps

-----------------------------------------------------------------------------
(* One lemma per stock action.                                             *)

\* COMMIT and ROLLBACK.
LEMMA TxEnds ==
  ASSUME StockInv, NEW p \in Procs, CommitTx(p) \/ RollbackTx(p)
  PROVE  StockInv' /\ (Covered => Covered')
<1> USE DEF CommitTx, RollbackTx, CommitRows, RollbackRows, Unlocked, Sees
<1>1. RowsTypeOK'
  BY DEF StockInv, InventoryTypeOK, RowsTypeOK
<1>2. RowsOK' /\ (Covered => Covered')
  BY DEF StockInv, InventoryTypeOK, RowsTypeOK, RowsOK, Covered
<1>3. call' \in [Procs -> Call] /\ \A q \in Procs : CallOK(call[q])'
  <2>1. call \in [Procs -> Call] /\ call' = [call EXCEPT ![p] = NoCall]
    BY DEF StockInv, InventoryTypeOK
  <2>2. \A q \in Procs : call'[q] = NoCall \/ call'[q] = call[q]
    BY <2>1
  <2> QED
    BY <2>1, <2>2, NoCallOK DEF StockInv, CallOK
<1> QED
  BY <1>1, <1>2, <1>3 DEF StockInv, InventoryTypeOK

\* The SELECT of a guarded call.
LEMMA ListKeeps ==
  ASSUME StockInv, NEW p \in Procs, NEW op \in GuardedOps, NEW product,
         NEW n \in Nat, List(p, op, product, n)
  PROVE  StockInv' /\ (Covered => Covered')
<1> DEFINE c == [NoCall EXCEPT !.op = op, !.seen = Reading(p)]
<1>1. c \in Call /\ c.op = op /\ \A r \in Rows : c.seen[r].allocated >= 0
  BY ReadingOK, NoCallOK DEF NoCall, Call, StockOps, GuardedOps
<1>2. PICK d \in Continuations(c, RowsOf(product), n) : call' = [call EXCEPT ![p] = d]
  BY DEF List
<1>3. RowsOf(product) \in SUBSET Rows
  BY DEF RowsOf
<1>4. d \in Call /\ CallOK(d)
  <2> HIDE DEF c
  <2> QED
    BY <1>1, <1>2, <1>3, ContinuationOK
<1>5. UNCHANGED <<stock, draft, holder>>
  BY DEF List, rowVars
<1> QED
  BY <1>2, <1>4, <1>5 DEF StockInv, InventoryTypeOK, RowsTypeOK, RowsOK, Covered, CallOK

\* The next guarded UPDATE.
LEMMA UpdateKeeps ==
  ASSUME StockInv, NEW p \in Procs, Update(p)
  PROVE  StockInv' /\ (Covered => Covered')
<1> DEFINE c   == call[p]
           n   == Takes(c)
           old == Sees(p, c.row)
           new == Updated(c.op, old, n)
<1>1. c \in Call /\ CallOK(c) /\ c.op \in GuardedOps /\ c.row \in Rows /\ c.row # NoRow
  BY DEF Update, StockInv, InventoryTypeOK, Call, GuardedOps
<1>2. n \in Nat \ {0} /\ c.left - n \in Nat
  BY <1>1, TakesPositive
<1>3. /\ old \in Cell /\ old.quantity >= 0 /\ old.allocated >= 0
      /\ Covered => old.allocated <= old.quantity
  BY <1>1, ReadingOK
<1>4. Fits(c.op, old, n) /\ Write(p, c.row, new)
  BY DEF Update
<1>5. /\ new \in Cell /\ new.quantity >= 0 /\ new.allocated >= 0
      /\ Covered => new.allocated <= new.quantity
  BY <1>1, <1>2, <1>3, <1>4, UpdatedOK
<1>6. PICK d \in Continuations(c, c.todo \ {c.row}, c.left - n) :
         call' = [call EXCEPT ![p] = d]
  BY DEF Update
<1>7. c.todo \ {c.row} \in SUBSET Rows /\ \A r \in Rows : c.seen[r].allocated >= 0
  BY <1>1 DEF Call, CallOK
<1> HIDE DEF c, n, old, new
<1>8. d \in Call /\ CallOK(d)
  BY <1>1, <1>2, <1>6, <1>7, ContinuationOK
<1>9. /\ RowsTypeOK' /\ RowsOK' /\ (Covered => Covered')
  BY <1>1, <1>4, <1>5 DEF Write, StockInv, InventoryTypeOK, RowsTypeOK, RowsOK, Covered
<1> QED
  BY <1>6, <1>8, <1>9 DEF StockInv, InventoryTypeOK, CallOK

\* The read of AdjustStock.
LEMMA GetKeeps ==
  ASSUME StockInv, NEW p \in Procs, NEW op \in {"add", "set"}, NEW r \in Rows,
         NEW n \in Int, GetInventory(p, op, r, n)
  PROVE  StockInv' /\ (Covered => Covered')
<1> DEFINE d == [op |-> op, seen |-> Reading(p), todo |-> {}, row |-> r, left |-> n]
<1>1. d \in Call /\ CallOK(d)
  BY ReadingOK DEF Call, CallOK, StockOps, GuardedOps
<1>2. call' = [call EXCEPT ![p] = d] /\ UNCHANGED <<stock, draft, holder>>
  BY DEF GetInventory, rowVars
<1> HIDE DEF d
<1> QED
  BY <1>1, <1>2 DEF StockInv, InventoryTypeOK, RowsTypeOK, RowsOK, Covered, CallOK

\* The write of AdjustStock: the floor keeps the quantity from going negative,
\* but nothing keeps the row covered.
LEMMA AdjustKeeps ==
  ASSUME StockInv, NEW p \in Procs, UpdateInventory(p)
  PROVE  StockInv'
<1> DEFINE c   == call[p]
           new == [quantity |-> Adjusted(c), allocated |-> c.seen[c.row].allocated]
<1>1. c \in Call /\ CallOK(c) /\ c.op \in {"add", "set"}
  BY DEF UpdateInventory, StockInv, InventoryTypeOK
<1>2. c.row \in Rows /\ c.seen[c.row] \in Cell /\ c.seen[c.row].allocated >= 0
  BY <1>1 DEF CallOK, Call
<1>3. Adjusted(c) \in 0 .. MaxQuantity /\ Write(p, c.row, new) /\ call' = [call EXCEPT ![p] = NoCall]
  BY DEF UpdateInventory
<1>4. new \in Cell /\ new.quantity >= 0 /\ new.allocated >= 0
  BY <1>2, <1>3 DEF Cell
<1> HIDE DEF c, new
<1>5. RowsTypeOK' /\ RowsOK'
  BY <1>2, <1>3, <1>4 DEF Write, StockInv, InventoryTypeOK, RowsTypeOK, RowsOK
<1> QED
  BY <1>3, <1>5, NoCallOK DEF StockInv, InventoryTypeOK, CallOK

\* A step that touches neither the rows nor the calls.
LEMMA StockUnchanged ==
  ASSUME StockInv, UNCHANGED <<stock, draft, holder, call>>
  PROVE  StockInv' /\ (Covered => Covered')
<1> QED
  BY DEF StockInv, InventoryTypeOK, RowsTypeOK, RowsOK, Covered, CallOK

USE OrderAssumption, StockAssumption, RequestAssumption

-----------------------------------------------------------------------------
(* The handlers.                                                           *)

\* The initial state satisfies both invariants.
LEMMA InitIInv == Init => IInv /\ Covered
<1> SUFFICES ASSUME Init PROVE IInv /\ Covered
  OBVIOUS
<1> USE DEF Init, InventoryInit, RowsInit
<1>1. RowsTypeOK /\ RowsOK /\ Covered
  BY DEF RowsTypeOK, RowsOK, Covered, Cell
<1>2. call \in [Procs -> Call] /\ \A p \in Procs : CallOK(call[p])
  BY NoCallOK
<1>3. DocsTypeOK
  BY EmptySeq DEF DocsTypeOK, Statuses
<1>4. Idle \in Request /\ ReqOK(Idle)
  BY EmptySeq DEF Idle, Request, ReqOK, Statuses
<1>5. ReqInv
  BY <1>4 DEF ReqInv
<1> QED
  BY <1>1, <1>2, <1>3, <1>5 DEF IInv, StockInv, InventoryTypeOK

-----------------------------------------------------------------------------
(* The requests.                                                           *)

\* Replacing the request of p by a well-formed one keeps them all well formed.
LEMMA Replaced ==
  ASSUME ReqInv, NEW p \in Procs, NEW r \in Request, ReqOK(r), Becomes(p, r)
  PROVE  ReqInv'
<1> QED
  BY DEF ReqInv, Becomes, ReqOK, Request

\* The request of a goroutine that serves none.
LEMMA IdleOK == Idle \in Request /\ ReqOK(Idle)
<1> QED
  BY EmptySeq DEF Idle, Request, ReqOK, Statuses

\* A handler that moves on to a line of its order.
LEMMA AtLineOK ==
  ASSUME NEW r \in Request, r.order \in Orders, r.kind \in OrderKinds, NEW i \in Nat \ {0}
  PROVE  AtLine(r, i) \in Request /\ ReqOK(AtLine(r, i))
<1>1. Len(Lines[r.order]) \in Nat
  BY LenProperties
<1>2. /\ AtLine(r, i) \in Request
      /\ AtLine(r, i).order = r.order /\ AtLine(r, i).kind = r.kind /\ AtLine(r, i).line = i
      /\ AtLine(r, i).stage \in {"lines", "billing", "commit"}
      /\ AtLine(r, i).stage = "lines" => i <= Len(Lines[r.order])
  BY <1>1 DEF AtLine, Request
<1> QED
  BY <1>1, <1>2 DEF ReqOK

\* A handler that goes on to a stage in which nothing new is required of it.
LEMMA GotoOK ==
  ASSUME ReqInv, NEW p \in Procs, req[p].order \in Orders,
         NEW s \in {"hold", "billing", "invoice", "commit", "publish", "postGL", "postAR"},
         s \in {"postGL", "postAR"} \/ req[p].kind \in OrderKinds,
         Goto(p, s)
  PROVE  ReqInv'
<1> DEFINE r == [req[p] EXCEPT !.stage = s]
<1>1. req[p] \in Request
  BY DEF ReqInv
<1>2. r \in Request /\ r.stage = s /\ r.order = req[p].order /\ r.kind = req[p].kind
  BY <1>1 DEF Request
<1>3. req' = [req EXCEPT ![p] = r]
  BY DEF Goto
<1> HIDE DEF r
<1>4. ReqOK(r)
  BY <1>2 DEF ReqOK
<1> QED
  BY <1>2, <1>3, <1>4, Replaced DEF Becomes

\* The lines of an order are well formed.
LEMMA LineOK ==
  ASSUME NEW p \in Procs, ReqInv, At(p, "lines")
  PROVE  /\ req[p] \in Request /\ req[p].order \in Orders /\ req[p].kind \in OrderKinds
         /\ req[p].line + 1 \in Nat \ {0}
         /\ CurrentLine(p).quantity \in Nat \ {0}
<1>1. /\ req[p] \in Request /\ req[p].order \in Orders /\ req[p].kind \in OrderKinds
      /\ req[p].line \in 1 .. Len(Lines[req[p].order])
  BY DEF ReqInv, ReqOK, At
<1>2. CurrentLine(p) \in [product : Products, quantity : Nat \ {0}]
  BY <1>1, ElementOfSeq DEF CurrentLine
<1> QED
  BY <1>1, <1>2 DEF Request

-----------------------------------------------------------------------------
(* The steps, grouped by what they touch.                                  *)

\* What every kind of step leaves true.
Keeps == IInv' /\ (NoAdjustments /\ Covered => Covered')

\* Steps that end a transaction, without changing a document.
LEMMA EndsKeep ==
  ASSUME IInv, NEW p \in Procs,
         LineFails(p) \/ WriteFails(p) \/ EndStockRequest(p) \/ Fail(p) \/ DeadlockVictim(p)
  PROVE  Keeps
<1> USE DEF LineFails, WriteFails, EndStockRequest, Fail, DeadlockVictim, IInv
<1>1. CommitTx(p) \/ RollbackTx(p)
  OBVIOUS
<1>2. StockInv' /\ (Covered => Covered')
  BY <1>1, TxEnds
<1>3. ReqInv'
  BY IdleOK, Replaced
<1>4. DocsTypeOK'
  BY DEF DocsTypeOK, docVars, sideVars
<1> QED
  BY <1>2, <1>3, <1>4 DEF Keeps

\* Steps that only move a request from stage to stage.
LEMMA StagesKeep ==
  ASSUME IInv, NEW p \in Procs,
         \/ GateRefuses(p) \/ CheckCredit(p) \/ SkipLine(p) \/ CheckInvoice(p) \/ PostToLedger(p)
         \/ \E o \in Orders, kind \in OrderKinds : ReadOrder(p, kind, o)
         \/ \E a \in Adjustments : BeginAdjust(p, a)
         \/ \E m \in Moves : BeginMove(p, m)
  PROVE  Keeps
<1> USE DEF IInv
<1>1. UNCHANGED <<stock, draft, holder, call, docVars, sideVars>>
  BY DEF GateRefuses, CheckCredit, SkipLine, CheckInvoice, PostToLedger, ReadOrder, BeginAdjust,
         BeginMove, rowVars
<1>2. StockInv' /\ (Covered => Covered')
  BY <1>1, StockUnchanged
<1>3. DocsTypeOK'
  BY <1>1 DEF DocsTypeOK, docVars, sideVars
<1>4. ReqInv'
  <2>1. CASE GateRefuses(p)
    BY <2>1, IdleOK, Replaced DEF GateRefuses
  <2>2. CASE CheckCredit(p)
    <3>1. /\ req[p] \in Request /\ req[p].order \in Orders /\ req[p].kind \in OrderKinds
      BY <2>2 DEF CheckCredit, At, ReqInv, ReqOK
    <3>2. \/ Goto(p, "hold") \/ Becomes(p, Idle) \/ Becomes(p, AtLine(req[p], 1))
      BY <2>2 DEF CheckCredit
    <3> QED
      BY <3>1, <3>2, IdleOK, AtLineOK, GotoOK, Replaced
  <2>3. CASE SkipLine(p)
    BY <2>3, LineOK, AtLineOK, Replaced DEF SkipLine
  <2>4. CASE CheckInvoice(p)
    <3>1. /\ req[p].order \in Orders /\ req[p].kind \in OrderKinds
      BY <2>4 DEF CheckInvoice, At, ReqInv, ReqOK
    <3>2. Goto(p, "commit") \/ Goto(p, "invoice")
      BY <2>4 DEF CheckInvoice
    <3> QED
      BY <3>1, <3>2, GotoOK
  <2>5. ASSUME NEW o \in Orders, NEW kind \in OrderKinds, ReadOrder(p, kind, o)
        PROVE  ReqInv'
    <3> DEFINE r == [Idle EXCEPT !.kind = kind, !.order = o, !.read = status[o]]
    <3>1. r \in Request /\ r.order = o /\ r.kind = kind
      BY IdleOK DEF DocsTypeOK, Request, OrderKinds, AllKinds
    <3>2. \/ Becomes(p, [r EXCEPT !.stage = "gate"])
          \/ Becomes(p, AtLine(r, 1))
          \/ Becomes(p, [r EXCEPT !.stage = "commit"])
      BY <2>5 DEF ReadOrder
    <3> HIDE DEF r
    <3>3. /\ [r EXCEPT !.stage = "gate"] \in Request /\ ReqOK([r EXCEPT !.stage = "gate"])
          /\ [r EXCEPT !.stage = "commit"] \in Request /\ ReqOK([r EXCEPT !.stage = "commit"])
      BY <3>1 DEF Request, ReqOK
    <3>4. AtLine(r, 1) \in Request /\ ReqOK(AtLine(r, 1))
      BY <3>1, AtLineOK
    <3> QED
      BY <3>2, <3>3, <3>4, Replaced
  <2>6. ASSUME NEW a \in Adjustments, BeginAdjust(p, a) PROVE ReqInv'
    <3> DEFINE r == [Idle EXCEPT !.kind = "adjust", !.stage = "calls", !.moving = <<a>>]
    <3>1. Becomes(p, r) /\ "adjust" \in Kinds
      BY <2>6 DEF BeginAdjust
    <3>2. <<a>> \in Seq([op : {"add", "set"}, row : Rows, quantity : Int])
      OBVIOUS
    <3>3. r \in Request /\ r.kind = "adjust" /\ r.stage = "calls"
      BY <3>2, IdleOK DEF Idle, Request, AllKinds
    <3> HIDE DEF r
    <3>4. ReqOK(r)
      BY <3>1, <3>3 DEF ReqOK
    <3> QED
      BY <3>1, <3>3, <3>4, Replaced
  <2>7. ASSUME NEW m \in Moves, BeginMove(p, m) PROVE ReqInv'
    <3> DEFINE out == [op |-> "add", row |-> m.from, quantity |-> -m.quantity]
               in  == [op |-> "add", row |-> m.to, quantity |-> m.quantity]
               r   == [Idle EXCEPT !.kind = "move", !.stage = "calls", !.moving = <<out, in>>]
    <3>1. /\ out \in [op : {"add", "set"}, row : Rows, quantity : Int]
          /\ in \in [op : {"add", "set"}, row : Rows, quantity : Int]
      OBVIOUS
    <3>2. Becomes(p, r) /\ "move" \in Kinds
      BY <2>7 DEF BeginMove
    <3> HIDE DEF out, in
    <3>3. <<out, in>> \in Seq([op : {"add", "set"}, row : Rows, quantity : Int])
      BY <3>1
    <3>4. r \in Request /\ r.kind = "move" /\ r.stage = "calls"
      BY <3>3, IdleOK DEF Idle, Request, AllKinds
    <3> HIDE DEF r
    <3>5. ReqOK(r)
      BY <3>2, <3>4 DEF ReqOK
    <3> QED
      BY <3>2, <3>4, <3>5, Replaced
  <2>8. CASE PostToLedger(p)
    <3>1. req[p].order \in Orders /\ req[p].kind \in OrderKinds /\ Goto(p, "commit")
      BY <2>8 DEF PostToLedger, At, ReqInv, ReqOK
    <3> QED
      BY <3>1, GotoOK
  <2> QED
    BY <2>1, <2>2, <2>3, <2>4, <2>5, <2>6, <2>7, <2>8
<1> QED
  BY <1>2, <1>3, <1>4 DEF Keeps

\* Steps that change a document but no row.
LEMMA DocumentsKeep ==
  ASSUME IInv, NEW p \in Procs,
         \/ PlaceOnHold(p) \/ CreateInvoice(p) \/ Publish(p)
         \/ \E o \in Orders : CompleteDelivery(p, o)
         \/ AutoInvoice(p) \/ PostToGL(p) \/ PostToAR(p)
  PROVE  Keeps
<1> USE DEF IInv
<1>1. UNCHANGED <<stock, draft, holder, call>>
  BY DEF PlaceOnHold, CreateInvoice, Publish, CompleteDelivery, AutoInvoice, PostToGL, PostToAR, rowVars
<1>2. StockInv' /\ (Covered => Covered')
  BY <1>1, StockUnchanged
<1>o. ASSUME NEW s \in {"hold", "invoice", "publish", "autoInvoice", "postGL", "postAR"}, At(p, s)
      PROVE  req[p] \in Request /\ req[p].order \in Orders
  BY <1>o DEF At, ReqInv, ReqOK
<1>a. ASSUME NEW o \in Orders, NEW e \in Events
      PROVE  [feed EXCEPT ![o] = Append(@, e)] \in [Orders -> Seq(Events)]
  BY AppendProperties DEF DocsTypeOK
<1>3. CASE PlaceOnHold(p)
  <2>1. DocsTypeOK'
    BY <1>3 DEF PlaceOnHold, DocsTypeOK, Statuses, sideVars
  <2>2. ReqInv'
    BY <1>3, IdleOK, Replaced DEF PlaceOnHold
  <2> QED
    BY <1>2, <2>1, <2>2 DEF Keeps
<1>4. CASE CreateInvoice(p)
  <2> DEFINE r == [req[p] EXCEPT !.stage = "ledger", !.billed = TRUE]
  <2>1. DocsTypeOK'
    BY <1>4, <1>o, <1>a DEF CreateInvoice, Announce, DocsTypeOK, docVars, Events
  <2>2. req[p].kind \in OrderKinds /\ Becomes(p, r)
    BY <1>4 DEF CreateInvoice, At, ReqInv, ReqOK
  <2>3. /\ r \in Request /\ r.stage = "ledger"
        /\ r.order = req[p].order /\ r.kind = req[p].kind
    BY <1>4, <1>o DEF CreateInvoice, Request
  <2> HIDE DEF r
  <2>4. ReqOK(r)
    BY <1>4, <1>o, <2>2, <2>3 DEF CreateInvoice, ReqOK
  <2> QED
    BY <1>2, <2>1, <2>2, <2>3, <2>4, Replaced DEF Keeps
<1>5. CASE Publish(p)
  <2>1. DocsTypeOK'
    BY <1>5, <1>o, <1>a DEF Publish, Announce, DocsTypeOK, docVars, Events
  <2>2. ReqInv'
    BY <1>5, IdleOK, Replaced DEF Publish
  <2> QED
    BY <1>2, <2>1, <2>2 DEF Keeps
<1>6. ASSUME NEW o \in Orders, CompleteDelivery(p, o) PROVE Keeps
  <2> DEFINE r == [Idle EXCEPT !.kind = "deliver", !.order = o, !.stage = "autoInvoice"]
  <2>1. DocsTypeOK'
    BY <1>6 DEF CompleteDelivery, DocsTypeOK, docVars
  <2>2. r \in Request /\ ReqOK(r)
    BY IdleOK DEF Idle, Request, AllKinds, ReqOK
  <2>3. UNCHANGED req \/ Becomes(p, r)
    BY <1>6 DEF CompleteDelivery
  <2> HIDE DEF r
  <2>4. ReqInv'
    BY <2>2, <2>3, Replaced DEF ReqInv, ReqOK
  <2> QED
    BY <1>2, <2>1, <2>4 DEF Keeps
<1>7. CASE AutoInvoice(p)
  <2>1. DocsTypeOK'
    <3>1. invoices' \in [Orders -> Nat]
      BY <1>7, <1>o DEF AutoInvoice, DocsTypeOK
    <3>2. feed' \in [Orders -> Seq(Events)]
      BY <1>7, <1>o, <1>a DEF AutoInvoice, Announce, Events
    <3> QED
      BY <1>7, <3>1, <3>2 DEF AutoInvoice, DocsTypeOK
  <2>2. ReqInv'
    BY <1>7, <1>o, GotoOK DEF AutoInvoice
  <2> QED
    BY <1>2, <2>1, <2>2 DEF Keeps
<1>8. CASE PostToGL(p)
  <2>1. DocsTypeOK'
    BY <1>8, <1>o DEF PostToGL, DocsTypeOK, sideVars
  <2>2. ReqInv'
    BY <1>8, <1>o, GotoOK DEF PostToGL
  <2> QED
    BY <1>2, <2>1, <2>2 DEF Keeps
<1>9. CASE PostToAR(p)
  <2>1. DocsTypeOK'
    <3>1. arPosts' \in [Orders -> Nat]
      BY <1>9, <1>o DEF PostToAR, DocsTypeOK
    <3> QED
      BY <1>9, <3>1 DEF PostToAR, DocsTypeOK, sideVars
  <2>2. ReqInv'
    BY <1>9, IdleOK, Replaced DEF PostToAR
  <2> QED
    BY <1>2, <2>1, <2>2 DEF Keeps
<1> QED
  BY <1>3, <1>4, <1>5, <1>6, <1>7, <1>8, <1>9

\* The steps of a stock call.
LEMMA CallsKeep ==
  ASSUME IInv, NEW p \in Procs, ListStock(p) \/ UpdateStock(p) \/ ReadRow(p) \/ WriteRow(p)
  PROVE  Keeps
<1> USE DEF IInv
<1>1. CASE ListStock(p)
  <2> DEFINE op == StockOp(req[p].kind)
             n  == CurrentLine(p).quantity
  <2>1. op \in GuardedOps /\ n \in Nat
    BY <1>1, LineOK DEF ListStock, StockOp, OrderKinds, GuardedOps
  <2>2. List(p, op, CurrentLine(p).product, n)
    BY <1>1 DEF ListStock
  <2> HIDE DEF op, n
  <2>3. StockInv' /\ (Covered => Covered')
    BY <2>1, <2>2, ListKeeps
  <2>4. DocsTypeOK' /\ ReqInv'
    BY <1>1 DEF ListStock, DocsTypeOK, ReqInv, ReqOK, docVars
  <2> QED
    BY <2>3, <2>4 DEF Keeps
<1>2. CASE UpdateStock(p)
  <2>1. StockInv' /\ (Covered => Covered')
    BY <1>2, UpdateKeeps DEF UpdateStock
  <2>2. DocsTypeOK'
    BY <1>2 DEF UpdateStock, DocsTypeOK, docVars, sideVars
  <2>3. Becomes(p, AtLine(req[p], req[p].line + 1)) \/ Becomes(p, req[p])
    BY <1>2 DEF UpdateStock
  <2>4. ReqInv'
    BY <1>2, <2>3, LineOK, AtLineOK, Replaced DEF UpdateStock, ReqInv
  <2> QED
    BY <2>1, <2>2, <2>4 DEF Keeps
<1>3. CASE ReadRow(p)
  <2> DEFINE a == Head(req[p].moving)
  <2>1. a \in [op : {"add", "set"}, row : Rows, quantity : Int]
    BY <1>3, HeadTailProperties DEF ReadRow, ReqInv, Request
  <2>2. GetInventory(p, a.op, a.row, a.quantity)
    BY <1>3 DEF ReadRow
  <2> HIDE DEF a
  <2>3. StockInv' /\ (Covered => Covered')
    BY <2>1, <2>2, GetKeeps
  <2>4. DocsTypeOK' /\ ReqInv'
    BY <1>3 DEF ReadRow, DocsTypeOK, ReqInv, ReqOK, docVars
  <2> QED
    BY <2>3, <2>4 DEF Keeps
<1>4. CASE WriteRow(p)
  <2> DEFINE r == [req[p] EXCEPT !.moving = Tail(@)]
  <2>1. StockInv'
    BY <1>4, AdjustKeeps DEF WriteRow
  <2>2. DocsTypeOK'
    BY <1>4 DEF WriteRow, DocsTypeOK, docVars
  <2>3. req[p] \in Request /\ req[p].stage = "calls" /\ ReqOK(req[p])
    BY <1>4 DEF WriteRow, At, ReqInv
  <2>4. Becomes(p, r)
    BY <1>4 DEF WriteRow
  <2>5. ~NoAdjustments
    BY <2>3 DEF ReqOK, NoAdjustments
  <2>6. req[p].moving # <<>>
    BY <1>4 DEF WriteRow
  <2>7. r \in Request /\ r.stage = "calls" /\ r.kind = req[p].kind
    BY <2>3, <2>6, HeadTailProperties DEF Request
  <2> HIDE DEF r
  <2>8. ReqOK(r)
    BY <2>3, <2>7 DEF ReqOK
  <2>9. ReqInv'
    BY <2>4, <2>7, <2>8, Replaced
  <2> QED
    BY <2>1, <2>2, <2>5, <2>9 DEF Keeps
<1> QED
  BY <1>1, <1>2, <1>3, <1>4

\* The last statement of an order's transaction and its COMMIT.
LEMMA CommitKeeps ==
  ASSUME IInv, NEW p \in Procs, CommitOrder(p)
  PROVE  Keeps
<1> USE DEF IInv, CommitOrder
<1>1. StockInv' /\ (Covered => Covered')
  BY TxEnds
<1>2. req[p] \in Request /\ req[p].order \in Orders /\ req[p].kind \in OrderKinds
  BY DEF At, ReqInv, ReqOK
<1>3. NewStatus(req[p].kind) \in Statuses
  BY <1>2 DEF NewStatus, OrderKinds, Statuses
<1>4. DocsTypeOK'
  <2>1. status' \in [Orders -> Statuses]
    BY <1>3 DEF DocsTypeOK
  <2>2. PICK n \in {0, 1} : /\ invoices' = [invoices EXCEPT ![req[p].order] = @ + n]
                            /\ glPosts'  = [glPosts EXCEPT ![req[p].order] = @ + n]
                            /\ arPosts'  = [arPosts EXCEPT ![req[p].order] = @ + n]
    OBVIOUS
  <2> HIDE DEF CommitOrder
  <2>3. ASSUME NEW f \in [Orders -> Nat]
        PROVE  [f EXCEPT ![req[p].order] = @ + n] \in [Orders -> Nat]
    BY <1>2, f[req[p].order] + n \in Nat
  <2>4. invoices' \in [Orders -> Nat] /\ glPosts' \in [Orders -> Nat] /\ arPosts' \in [Orders -> Nat]
    BY <2>2, <2>3 DEF DocsTypeOK
  <2> QED
    BY <2>1, <2>4 DEF CommitOrder, DocsTypeOK, sideVars
<1>5. Becomes(p, Idle) \/ Goto(p, "publish")
  OBVIOUS
<1>6. ReqInv'
  BY <1>2, <1>5, IdleOK, GotoOK, Replaced
<1> QED
  BY <1>1, <1>4, <1>6 DEF Keeps

-----------------------------------------------------------------------------
\* Every step preserves the invariant and, without adjustments, coverage.
LEMMA NextKeeps == IInv /\ [Next]_vars => Keeps
<1> SUFFICES ASSUME IInv, [Next]_vars PROVE Keeps
  OBVIOUS
<1>1. CASE UNCHANGED vars
  <2>1. UNCHANGED <<stock, draft, holder, call>>
    BY <1>1 DEF vars, rowVars
  <2>2. StockInv' /\ (Covered => Covered')
    BY <2>1, StockUnchanged DEF IInv
  <2>3. DocsTypeOK' /\ ReqInv'
    BY <1>1 DEF vars, IInv, DocsTypeOK, ReqInv, ReqOK, docVars, sideVars
  <2> QED
    BY <2>2, <2>3 DEF Keeps, IInv
<1>2. ASSUME NEW p \in Procs, Arrive(p) PROVE Keeps
  BY <1>2, StagesKeep, DocumentsKeep DEF Arrive, OrderKinds
<1>3. ASSUME NEW p \in Procs, Serve(p) \/ Fail(p) PROVE Keeps
  BY <1>3, EndsKeep, StagesKeep, DocumentsKeep, CallsKeep, CommitKeeps DEF Serve
<1> QED
  BY <1>1, <1>2, <1>3 DEF Next

\* The invariant holds in every reachable state.
THEOREM IInvHolds == Spec => []IInv
<1>1. Init => IInv
  BY InitIInv
<1>2. IInv /\ [Next]_vars => IInv'
  BY NextKeeps DEF Keeps
<1> QED
  BY <1>1, <1>2, PTL DEF Spec

\* The variables have their types in every reachable state.
THEOREM Typed == Spec => []TypeOK
<1>1. IInv => TypeOK
  BY DEF IInv, StockInv, DocsTypeOK, ReqInv, TypeOK
<1> QED
  BY <1>1, IInvHolds, PTL

\* No inventory row ever goes below zero, whatever requests of whatever kinds
\* interleave, fail or deadlock.
THEOREM NonNegativeHolds == Spec => []NonNegative
<1>1. IInv => NonNegative
  BY DEF IInv, StockInv, RowsOK, NonNegative
<1> QED
  BY <1>1, IInvHolds, PTL

\* As long as stock changes only through Allocate, Release and Fulfill, no row
\* ever promises more units than it holds.
THEOREM NoOversellHolds == NoAdjustments => (Spec => []NoOversell)
<1> SUFFICES ASSUME NoAdjustments PROVE Spec => []NoOversell
  OBVIOUS
<1>1. Init => Covered
  BY InitIInv
<1>2. IInv /\ Covered /\ [Next]_vars => Covered'
  BY NextKeeps DEF Keeps
<1>3. Covered => NoOversell
  BY DEF Covered, NoOversell
<1> QED
  BY <1>1, <1>2, <1>3, IInvHolds, PTL DEF Spec
=============================================================================
