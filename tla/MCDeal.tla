--------------------------------- MODULE MCDeal --------------------------------
(* Small instances of Deal.  Rows and requests are interchangeable, and the *)
(* runs that use Symmetry check no liveness.                                *)
EXTENDS Deal, TLC, FiniteSets

(* The outbox rows and the ledger rows are written and never read back, so  *)
(* a run whose properties do not speak of them need not tell them apart.    *)
Rows ==
  <<quoteStatus, revisionOf, supersededBy, lapsed, orderStatus, orderQuote,
    invoiceStatus, invoiceOrder, invoiceQuote, req>>

Symmetry ==
  Permutations(QuoteIds) \union Permutations(OrderIds)
    \union Permutations(InvoiceIds) \union Permutations(Requests)

(* The bound of the races: a chain with a middle beside one order and one   *)
(* invoice, or two quotes beside three orders and invoices.                 *)
Created(status) == Cardinality({x \in DOMAIN status : status[x] # "absent"})

WithinBounds ==
  \/ Created(orderStatus) <= 1 /\ Created(invoiceStatus) <= 1
  \/ Created(quoteStatus) <= 2 /\ Created(orderStatus) + Created(invoiceStatus) <= 3

BoundedSpec == Init /\ [][Next /\ WithinBounds']_vars

(* Requests on different deals interleave, those on one come one by one;    *)
(* an invoice is issued beside one order and two quotes.                    *)
WithinSerialBounds ==
  Created(invoiceStatus) = 0 \/ (Created(orderStatus) = 1 /\ Created(quoteStatus) <= 2)

SerialSpec == Init /\ [][Next /\ DealsAreSerial' /\ WithinSerialBounds']_vars
================================================================================
