----------------------------- MODULE Inventory -----------------------------
(***************************************************************************)
(* internal/inventory: the stock calls that other services make inside     *)
(* their transactions. Allocate, Release and Fulfill first SELECT the rows *)
(* of a product, choose from what they read, and then UPDATE row by row    *)
(* with a guard in the WHERE clause. AdjustStock reads one row and writes  *)
(* BOTH of its columns back, with no guard. A call is several statements,  *)
(* so the calls of different transactions interleave between them.         *)
(*                                                                         *)
(* The list query has no ORDER BY: the order in which Fulfill visits rows, *)
(* and the order in which the sorts of Allocate and Release break ties,    *)
(* are nondeterministic.                                                   *)
(***************************************************************************)
EXTENDS Postgres, FiniteSetsExt

CONSTANTS Products,
          ProductOf,  \* ProductOf[r]: the product row r stocks
          NoRow,
          MaxQuantity \* the largest quantity the column holds (NUMERIC(12, 4))

ASSUME MaxQuantityAssumption == MaxQuantity \in Nat
ASSUME ProductAssumption == ProductOf \in [Rows -> Products]
ASSUME NoRowAssumption   == NoRow \notin Rows

VARIABLE call         \* call[p]: the stock call p is in the middle of

StockOps == {"allocate", "release", "fulfill", "add", "set"}

\* seen: the rows as the SELECT returned them; todo: the rows not visited yet;
\* row: the row the next UPDATE is aimed at; left: the quantity still to place
\* (for "add" and "set", the quantity of the adjustment request).
NoCall == [op |-> "none", seen |-> [r \in Rows |-> [quantity |-> 0, allocated |-> 0]],
           todo |-> {}, row |-> NoRow, left |-> 0]

Call == [op : StockOps \cup {"none"}, seen : [Rows -> Cell], todo : SUBSET Rows,
         row : Rows \cup {NoRow}, left : Int]

InventoryTypeOK == RowsTypeOK /\ call \in [Procs -> Call]

InventoryInit(initial) == RowsInit(initial) /\ call = [p \in Procs |-> NoCall]

RowsOf(product) == {r \in Rows : ProductOf[r] = product}

Smaller(a, b) == IF a <= b THEN a ELSE b

-----------------------------------------------------------------------------
(* The guard and the effect of each UPDATE in repository.go.              *)

\* Mutant: the WHERE clause of the allocation compares with the quantity on hand.
FitsOnHand(op, c, n) ==
    CASE op = "allocate" -> c.quantity >= n
      [] op = "release"  -> c.allocated >= n
      [] op = "fulfill"  -> c.quantity >= n /\ c.allocated >= n

\* Mutant: the release compares with > instead of >=.
FitsStrictly(op, c, n) ==
    CASE op = "allocate" -> Available(c) >= n
      [] op = "release"  -> c.allocated > n
      [] op = "fulfill"  -> c.quantity >= n /\ c.allocated >= n

Fits(op, c, n) ==
    CASE op = "allocate" -> Available(c) >= n
      [] op = "release"  -> c.allocated >= n
      [] op = "fulfill"  -> c.quantity >= n /\ c.allocated >= n

\* Mutant: fulfilling leaves the allocation behind.
UpdatedKeepingAllocation(op, c, n) ==
    CASE op = "allocate" -> [c EXCEPT !.allocated = @ + n]
      [] op = "release"  -> [c EXCEPT !.allocated = @ - n]
      [] op = "fulfill"  -> [c EXCEPT !.quantity = @ - n]

\* Mutant: fulfilling only releases.
UpdatedKeepingQuantity(op, c, n) ==
    CASE op = "allocate" -> [c EXCEPT !.allocated = @ + n]
      [] op \in {"release", "fulfill"} -> [c EXCEPT !.allocated = @ - n]

Updated(op, c, n) ==
    CASE op = "allocate" -> [c EXCEPT !.allocated = @ + n]
      [] op = "release"  -> [c EXCEPT !.allocated = @ - n]
      [] op = "fulfill"  -> [quantity |-> c.quantity - n, allocated |-> c.allocated - n]

-----------------------------------------------------------------------------
(* Choosing rows. Allocate takes the fullest remaining row first, Release  *)
(* asks for everything from the row with the most allocated, Fulfill takes *)
(* allocated rows in the order they were listed.                           *)

Offers(op, c) == IF op = "allocate" THEN Available(c) ELSE c.allocated

Candidates(op, seen, todo) ==
    {r \in todo : /\ Offers(op, seen[r]) > 0
                  /\ op # "fulfill" => \A s \in todo : Offers(op, seen[s]) <= Offers(op, seen[r])}

Takes(c) == IF c.op = "release" THEN c.left
                                ELSE Smaller(c.left, Offers(c.op, c.seen[c.row]))

\* The calls that continue c once quantity left remains over rows todo: none
\* when nothing is left, one aimed at NoRow when no row can serve the rest.
Continuations(c, todo, left) ==
    IF left = 0 THEN {NoCall}
    ELSE LET next == Candidates(c.op, c.seen, todo)
         IN  {[c EXCEPT !.todo = todo, !.left = left, !.row = r] :
                 r \in IF next = {} THEN {NoRow} ELSE next}

Reading(p) == [r \in Rows |-> Sees(p, r)]

Total(op, seen, rows) ==
    MapThenSumSet(LAMBDA r : IF Offers(op, seen[r]) > 0 THEN Offers(op, seen[r]) ELSE 0, rows)

\* ErrNothingAllocated: no row of the product has anything allocated.
NothingAllocated(p, product) ==
    Candidates("release", Reading(p), RowsOf(product)) = {}

\* Allocate rejects up-front when the free stock is insufficient. Fulfill finds
\* out at the end of its loop; what it wrote until then is rolled back.
Insufficient(p, op, product, n) ==
    op # "release" /\ Total(op, Reading(p), RowsOf(product)) < n

-----------------------------------------------------------------------------
\* The SELECT that starts Allocate, Release or Fulfill of n units.
List(p, op, product, n) ==
    /\ call[p] = NoCall
    /\ \E c \in Continuations([NoCall EXCEPT !.op = op, !.seen = Reading(p)],
                              RowsOf(product), n) :
          call' = [call EXCEPT ![p] = c]
    /\ UNCHANGED rowVars

\* AllocateStock, DeallocateStock or FulfillStock on the chosen row.
Update(p) ==
    LET c == call[p]
        n == Takes(c)
    IN  /\ c.op \in {"allocate", "release", "fulfill"}
        /\ c.row # NoRow
        /\ CanWrite(p, c.row)
        /\ Fits(c.op, Sees(p, c.row), n)
        /\ Write(p, c.row, Updated(c.op, Sees(p, c.row), n))
        /\ \E d \in Continuations(c, c.todo \ {c.row}, c.left - n) :
              call' = [call EXCEPT ![p] = d]

\* The UPDATE matched no row (a version that does not qualify is not waited
\* for), or no row is left to serve the rest.
UpdateFails(p) ==
    /\ call[p].op \in {"allocate", "release", "fulfill"}
    /\ \/ call[p].row = NoRow
       \/ ~Fits(call[p].op, Sees(p, call[p].row), Takes(call[p]))

-----------------------------------------------------------------------------
\* GetInventory of AdjustStock.
GetInventory(p, op, r, n) ==
    /\ call[p] = NoCall
    /\ call' = [call EXCEPT ![p] = [op |-> op, seen |-> Reading(p), todo |-> {},
                                    row |-> r, left |-> n]]
    /\ UNCHANGED rowVars

Adjusted(c) == IF c.op = "add" THEN c.seen[c.row].quantity + c.left ELSE c.left

\* Mutant: AdjustStock has no floor at zero.
UpdateInventoryUnfloored(p) ==
    LET c == call[p]
    IN  /\ c.op \in {"add", "set"}
        /\ Adjusted(c) <= MaxQuantity
        /\ CanWrite(p, c.row)
        /\ Write(p, c.row, [quantity |-> Adjusted(c), allocated |-> c.seen[c.row].allocated])
        /\ call' = [call EXCEPT ![p] = NoCall]

\* UpdateInventory of AdjustStock: allocated is written back as it was read.
UpdateInventory(p) ==
    LET c == call[p]
    IN  /\ c.op \in {"add", "set"}
        /\ Adjusted(c) \in 0 .. MaxQuantity
        /\ CanWrite(p, c.row)
        /\ Write(p, c.row, [quantity |-> Adjusted(c), allocated |-> c.seen[c.row].allocated])
        /\ call' = [call EXCEPT ![p] = NoCall]

\* The floor of AdjustStock, or the overflow of the column.
AdjustFails(p) == call[p].op \in {"add", "set"} /\ Adjusted(call[p]) \notin 0 .. MaxQuantity

-----------------------------------------------------------------------------
\* p waits for q: its next UPDATE is on a row q holds.
Waits(p, q) == /\ call[p].row # NoRow
               /\ q # p
               /\ holder[call[p].row] = q

\* PostgreSQL's detector aborts a transaction that is part of a cycle of waits.
Deadlocked(p) ==
    \E S \in SUBSET Procs :
        /\ p \in S
        /\ \A a \in S : \E b \in S : Waits(a, b)
        /\ \A b \in S : \E a \in S : Waits(a, b)

CommitTx(p) == CommitRows(p) /\ call' = [call EXCEPT ![p] = NoCall]

\* Mutant: RunInTx returns the error of a handler without rolling back.
RollbackTxForgotten(p) == UNCHANGED rowVars /\ call' = [call EXCEPT ![p] = NoCall]

RollbackTx(p) == RollbackRows(p) /\ call' = [call EXCEPT ![p] = NoCall]
=============================================================================
