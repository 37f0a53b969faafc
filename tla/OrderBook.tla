----------------------------- MODULE OrderBook -----------------------------
(***************************************************************************)
(* The state machine of an order that the comment on CancelOrder           *)
(* (internal/order/service.go) lays down, as a dealer thinks of it: a      *)
(* confirmation, a cancellation and a fulfilment each happen at once. The  *)
(* status, the stock of every product the order asks for and the invoice   *)
(* change together or not at all. Locations, rows, transactions and        *)
(* requests in progress do not exist here.                                 *)
(***************************************************************************)
EXTENDS Integers

CONSTANTS Orders, Products,
          Asked       \* Asked[o][x]: the units of product x that o asks for

VARIABLES status,     \* the statuses of the orders
          onHand,     \* onHand[x]: the units of x in the yard
          promised,   \* promised[x]: those that are some order's already
          invoices    \* the number of invoices of each order

bookVars == <<status, onHand, promised, invoices>>

\* Nothing has been ordered, and no more is promised than there is.
Init == /\ status   = [o \in Orders |-> "DRAFT"]
        /\ invoices = [o \in Orders |-> 0]
        /\ \A x \in Products : 0 <= promised[x] /\ promised[x] <= onHand[x]

Turns(o, from, to) == status[o] \in from /\ status' = [status EXCEPT ![o] = to]

\* A confirmed order is promised all it asks for, and only what is free.
Confirm(o) == /\ Turns(o, {"DRAFT"}, "CONFIRMED")
              /\ \A x \in Products : promised[x] + Asked[o][x] <= onHand[x]
              /\ promised' = [x \in Products |-> promised[x] + Asked[o][x]]
              /\ UNCHANGED <<onHand, invoices>>

\* The credit limit is exceeded.
Hold(o) == Turns(o, {"DRAFT"}, "ON_HOLD") /\ UNCHANGED <<onHand, promised, invoices>>

\* Only a confirmed order has something to give back.
CancelUnpromised(o) == /\ Turns(o, {"DRAFT", "ON_HOLD"}, "CANCELLED")
                       /\ UNCHANGED <<onHand, promised, invoices>>

CancelConfirmed(o) == /\ Turns(o, {"CONFIRMED"}, "CANCELLED")
                      /\ promised' = [x \in Products |-> promised[x] - Asked[o][x]]
                      /\ UNCHANGED <<onHand, invoices>>

\* What was promised leaves the yard; the order is billed, unless a delivery
\* has billed it before.
Fulfill(o) == /\ Turns(o, {"CONFIRMED"}, "FULFILLED")
              /\ onHand'   = [x \in Products |-> onHand[x] - Asked[o][x]]
              /\ promised' = [x \in Products |-> promised[x] - Asked[o][x]]
              /\ invoices' = [invoices EXCEPT ![o] = 1]

\* A completed delivery bills an order that has no invoice.
Bill(o) == /\ invoices[o] = 0
           /\ invoices' = [invoices EXCEPT ![o] = 1]
           /\ UNCHANGED <<status, onHand, promised>>

Next == \E o \in Orders : \/ Confirm(o) \/ Hold(o) \/ CancelUnpromised(o) \/ CancelConfirmed(o)
                          \/ Fulfill(o) \/ Bill(o)

Spec == Init /\ [][Next]_bookVars
=============================================================================
