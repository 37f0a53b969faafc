--------------------------- MODULE MCOrderToCash ---------------------------
(* Small instances of OrderToCash for TLC.                                 *)
EXTENDS OrderToCash, TLC

CONSTANTS lumber, nails, bolts, yard, shed, bin, o1, o2, o3, ann, p1, p2

\* Lumber lies in two locations, nails in one.
mcProductOf == (yard :> lumber) @@ (shed :> lumber) @@ (bin :> nails)
mcStock == (yard :> [quantity |-> 2, allocated |-> 0])
        @@ (shed :> [quantity |-> 1, allocated |-> 0])
        @@ (bin  :> [quantity |-> 2, allocated |-> 0])

\* Two orders that want the same two products in opposite orders: their
\* transactions can wait for each other.
mcCrossing == (o1 :> <<[product |-> lumber, quantity |-> 1], [product |-> nails, quantity |-> 1]>>)
           @@ (o2 :> <<[product |-> nails, quantity |-> 1], [product |-> lumber, quantity |-> 2]>>)

\* The same products, each in one location.
mcPiles     == (yard :> lumber) @@ (bin :> nails)
mcPileStock == (yard :> [quantity |-> 3, allocated |-> 0])
            @@ (bin  :> [quantity |-> 2, allocated |-> 0])

\* A unit of lumber in each of two locations, for two orders of one unit: they
\* share a customer and need not share a row.
mcTwoYards  == (yard :> lumber) @@ (shed :> lumber)
mcTwoStock  == (yard :> [quantity |-> 1, allocated |-> 0])
            @@ (shed :> [quantity |-> 1, allocated |-> 0])
mcSingle   == (o1 :> <<[product |-> lumber, quantity |-> 1]>>)
           @@ (o2 :> <<[product |-> lumber, quantity |-> 1]>>)

\* The crossing orders of the piles, and one of bolts alone: its fulfilment meets
\* the others' only on the row of the customer.
mcBolts      == mcPiles @@ (shed :> bolts)
mcBoltStock  == mcPileStock @@ (shed :> [quantity |-> 1, allocated |-> 0])
mcThreeOrders == mcCrossing @@ (o3 :> <<[product |-> bolts, quantity |-> 1]>>)

\* Every order is of one customer, whose row their invoices lock.
mcCustomer == [o \in Orders |-> ann]

mcTotal == [o \in Orders |-> 1]

mcMoves == {[from |-> yard, to |-> shed, quantity |-> 1]}

\* Counts of nails, which are not moved.
mcCounts == {[op |-> "set", row |-> bin, quantity |-> 1],
             [op |-> "add", row |-> bin, quantity |-> -1]}

Symmetry == Permutations(Procs)
=============================================================================
