---------------------------------- MODULE Deal ---------------------------------
(***************************************************************************)
(* The order-to-cash core: quotes, the orders built on them and the        *)
(* invoices that bill those, with several requests in flight at once.      *)
(*                                                                         *)
(* While no two requests are about one deal the guards of the services are *)
(* exact and the strong properties below hold.  With two, a stale read may *)
(* be committed, and what is left is what the conditional updates and the  *)
(* unique indexes of PostgreSQL enforce.                                   *)
(***************************************************************************)
EXTENDS Invoices

vars == <<quoteVars, orderVars, invoiceVars, req>>

TypeOK == QuotesTypeOK /\ OrdersTypeOK /\ InvoicesTypeOK

Init == QuotesInit /\ OrdersInit /\ InvoicesInit

Next ==
  \/ QuotesNext /\ UNCHANGED <<orderVars, invoiceVars>>
  \/ OrdersNext /\ UNCHANGED <<quoteVars, invoiceVars>>
  \/ InvoicesNext /\ UNCHANGED <<quoteVars, orderVars>>

Spec == Init /\ [][Next]_vars

--------------------------------------------------------------------------------
(* What holds however requests interleave, beside ChainsAreLinear,         *)
(* OneLiveOrderPerQuote and OneInvoicePerOrder.                            *)

(* An order never leaves the deal it was created on: whatever repoints and *)
(* revisions race, its quote moves only within one supersession chain.     *)
OrderStaysInDeal ==
  [][\A o \in OrderIds :
       orderStatus[o] # "absent" => orderQuote'[o] \in Chain(orderQuote[o])]_vars

(* The tables implement the book: with its chain of revisions for a deal,  *)
(* no race of offers, revisions, orders, repoints, cancels and invoices    *)
(* does what the book forbids (ADR 0126 "one live order per DEAL": what of *)
(* it the indexes alone keep).                                             *)
Exists(q) == quoteStatus[q] # "absent"

Book ==
  INSTANCE DealBook WITH
    deals <- {Chain(q) : q \in {x \in QuoteIds : Exists(x)}},
    standsOn <- orderQuote,
    live <- {o \in OrderIds : Live(o)},
    billed <- invoiceOrder,
    basis <- invoiceQuote

ImplementsDealBook == Book!Spec

(* An invoice bills the deal its order is in: the basis frozen into it is  *)
(* a revision of the order's quote, even if the order moves after the read. *)
InvoiceBillsItsDeal ==
  \A i \in InvoiceIds :
    invoiceStatus[i] # "absent" =>
      invoiceQuote[i] \in Chain(orderQuote[invoiceOrder[i]])

(* What makes all of these inductive: the rows are complete, and a request *)
(* has read rows that still exist, of the deal its order is still in.      *)
RowsAreComplete ==
  /\ \A q \in QuoteIds :
       quoteStatus[q] = "absent" => supersededBy[q] = NoQuote /\ revisionOf[q] = NoQuote
  /\ \A o \in OrderIds :
       IF orderStatus[o] = "absent" THEN orderQuote[o] = NoQuote
       ELSE orderQuote[o] \in QuoteIds /\ quoteStatus[orderQuote[o]] # "absent"
  /\ \A i \in InvoiceIds :
       IF invoiceStatus[i] = "absent" THEN invoiceOrder[i] = NoOrder
       ELSE invoiceOrder[i] \in OrderIds /\ orderStatus[invoiceOrder[i]] # "absent"

QuoteOps == {"revise", "accept", "decline", "create", "create_checked"}
OrderOps == {"repoint", "repoint_checked", "start", "complete", "cancel", "invoice"}

KnowsItsRows(r) ==
  /\ r.op \in QuoteOps => r.quote \in QuoteIds /\ quoteStatus[r.quote] # "absent"
  /\ r.op \in OrderOps =>
       /\ r.order \in OrderIds /\ orderStatus[r.order] # "absent"
       /\ r.quote \in QuoteIds /\ orderQuote[r.order] \in Chain(r.quote)
  /\ r.op = "repoint" => r.target \in QuoteIds
  /\ r.op = "repoint_checked" =>
       /\ r.target \in QuoteIds /\ quoteStatus[r.target] # "absent"
       /\ Reaches(supersededBy, r.quote, r.target)

RequestsKnowTheirRows == \A p \in Requests : KnowsItsRows(req[p])

DealInv ==
  /\ ChainsAreLinear
  /\ RowsAreComplete
  /\ RequestsKnowTheirRows
  /\ OneLiveOrderPerQuote
  /\ OneInvoicePerOrder
  /\ InvoiceBillsItsDeal

--------------------------------------------------------------------------------
(* What the services promise, and keep while no two requests are about one *)
(* deal at the same time.                                                  *)

DealsAreSerial ==
  \A p1, p2 \in Requests :
    p1 # p2 /\ req[p1] # IdleRequest /\ req[p2] # IdleRequest =>
      req[p2].quote \notin Chain(req[p1].quote)

(* The per-deal half of one live order (OrdersService.create, ADR 0126):   *)
(* no two orders that are not cancelled stand on revisions of one quote.   *)
OneLiveOrderPerDeal ==
  \A o1, o2 \in OrderIds :
    Live(o1) /\ Live(o2) /\ orderQuote[o2] \in Chain(orderQuote[o1]) => o1 = o2

(* Production, completion or invoicing never rests on an offer the buyer   *)
(* did not accept: the quote of every order is accepted, and stays so.     *)
OrdersRestOnAcceptance ==
  \A o \in OrderIds :
    orderStatus[o] # "absent" => quoteStatus[orderQuote[o]] = "accepted"

(* "An accepted/declined quote is terminal" (quote-lifecycle.ts).          *)
ResolutionIsFinal ==
  [][\A q \in QuoteIds :
       quoteStatus[q] \in {"accepted", "declined"} => quoteStatus'[q] = quoteStatus[q]]_vars

(* "A forwarded stale link must never resolve" (quotes.service.ts): the    *)
(* status of a superseded quote does not move.                             *)
StaleLinkNeverResolves ==
  [][\A q \in QuoteIds :
       supersededBy[q] # NoQuote => quoteStatus'[q] = quoteStatus[q]]_vars

(* "completed and cancelled are terminal" (order-lifecycle.ts).            *)
OrderEndsOnce ==
  [][\A o \in OrderIds :
       orderStatus[o] \in {"completed", "cancelled"} => orderStatus'[o] = orderStatus[o]]_vars

(* Re-point is "legal ONLY before production starts", and only forward in  *)
(* the chain (order-lifecycle.ts, QuotesService.assertRepointTarget).      *)
RepointsForwardBeforeProduction ==
  [][\A o \in OrderIds :
       orderStatus[o] # "absent" /\ orderQuote'[o] # orderQuote[o] =>
         /\ orderStatus[o] = "confirmed"
         /\ Reaches(supersededBy, orderQuote[o], orderQuote'[o])]_vars

(* "order is cancelled, cannot be invoiced" (assertIssuableForInvoice): an *)
(* invoice is issued for a live order, and what is frozen into it is the   *)
(* offer the order stands on at that moment.                               *)
InvoicesAreIssuable ==
  [][\A i \in InvoiceIds :
       invoiceStatus[i] = "absent" /\ invoiceStatus'[i] # "absent" =>
         /\ Live(invoiceOrder'[i])
         /\ invoiceQuote'[i] = orderQuote[invoiceOrder'[i]]]_vars

(* An order cancelled after its production started has left its stranded   *)
(* material on the deviation ledger (OrdersService.cancel, ADR-O4).        *)
StrandedMaterialIsLedgered ==
  \A o \in OrderIds :
    orderStatus[o] = "cancelled" /\ <<o, "order.production_started">> \in emitted =>
      o \in exceptions
================================================================================
