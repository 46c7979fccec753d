-------------------------------- MODULE DealBook -------------------------------
(***************************************************************************)
(* What is left of the order-to-cash core when every request races: a book *)
(* of deals.  A deal is a set of quotes that only grows, and no two deals  *)
(* share one; an order is entered in one deal and moves only inside it; a  *)
(* quote carries at most one live order; an order is billed once, for an   *)
(* offer of its deal (ADR 0126; order_quote_active_uq and                  *)
(* invoice_order_active_uq).  No pointer, status, request or read appears  *)
(* here; Deal is shown to implement it.                                    *)
(***************************************************************************)
CONSTANTS QuoteIds, NoQuote, OrderIds, NoOrder, InvoiceIds

VARIABLES
  deals,      \* sets of quotes: each a first offer and its revisions
  standsOn,   \* the quote an order is built on
  live,       \* the orders that are not cancelled
  billed,     \* the order an invoice bills
  basis       \* the quote an invoice is drawn up from

vars == <<deals, standsOn, live, billed, basis>>

Init ==
  /\ deals = {}
  /\ standsOn = [o \in OrderIds |-> NoQuote]
  /\ live = {}
  /\ billed = [i \in InvoiceIds |-> NoOrder]
  /\ basis = [i \in InvoiceIds |-> NoQuote]

(* No live order but o stands on q.                                        *)
Free(o, q) == \A other \in live \ {o} : standsOn[other] # q

(* A first offer opens a deal; a revision joins one.                       *)
Offer(q) ==
  /\ deals' = deals \union {{q}}
  /\ UNCHANGED <<standsOn, live, billed, basis>>

Revise(D, q) ==
  /\ deals' = (deals \ {D}) \union {D \union {q}}
  /\ UNCHANGED <<standsOn, live, billed, basis>>

(* An order is placed on a quote, moves inside its deal, is cancelled, and *)
(* is brought back by a status written late.                               *)
Place(o, q) ==
  /\ standsOn[o] = NoQuote
  /\ Free(o, q)
  /\ standsOn' = [standsOn EXCEPT ![o] = q]
  /\ live' = live \union {o}
  /\ UNCHANGED <<deals, billed, basis>>

Move(D, o, q) ==
  /\ standsOn[o] \in D
  /\ o \in live => Free(o, q)
  /\ standsOn' = [standsOn EXCEPT ![o] = q]
  /\ UNCHANGED <<deals, live, billed, basis>>

Cancel(o) ==
  /\ o \in live
  /\ live' = live \ {o}
  /\ UNCHANGED <<deals, standsOn, billed, basis>>

Revive(o) ==
  /\ standsOn[o] # NoQuote
  /\ Free(o, standsOn[o])
  /\ live' = live \union {o}
  /\ UNCHANGED <<deals, standsOn, billed, basis>>

(* An order, cancelled by now or not, is billed for an offer of its deal.  *)
Bill(D, i, o, q) ==
  /\ billed[i] = NoOrder
  /\ \A j \in InvoiceIds : billed[j] # o
  /\ standsOn[o] \in D
  /\ billed' = [billed EXCEPT ![i] = o]
  /\ basis' = [basis EXCEPT ![i] = q]
  /\ UNCHANGED <<deals, standsOn, live>>

Next ==
  \/ \E o \in OrderIds : Cancel(o) \/ Revive(o)
  \/ \E D \in deals, o \in OrderIds : \E q \in D :
       \/ Place(o, q)
       \/ Move(D, o, q)
       \/ \E i \in InvoiceIds : Bill(D, i, o, q)
  \/ \E q \in QuoteIds \ UNION deals : Offer(q) \/ \E D \in deals : Revise(D, q)

Spec == Init /\ [][Next]_vars
================================================================================
