-------------------------------- MODULE Invoices -------------------------------
(***************************************************************************)
(* The invoice rows: InvoicesService over the rows of Orders and Quotes.   *)
(* issue reads the order and its quote, runs its guards, and inserts; the  *)
(* partial unique index invoice_order_active_uq decides a double issue.    *)
(* markPaid and unmarkPaid are conditional updates: one step each.         *)
(***************************************************************************)
EXTENDS Orders

CONSTANT InvoiceIds   \* the invoice rows that may come to exist (bound)

VARIABLES
  invoiceStatus,   \* "absent", "issued" or "paid"
  invoiceOrder,    \* the order the invoice bills
  invoiceQuote,    \* the quote whose prices are frozen into the invoice
  announced        \* <<invoice, event>>: the outbox rows of the invoices

invoiceVars == <<invoiceStatus, invoiceOrder, invoiceQuote, announced>>

InvoicesTypeOK ==
  /\ invoiceStatus \in [InvoiceIds -> {"absent", "issued", "paid"}]
  /\ invoiceOrder \in [InvoiceIds -> OrderIds \union {NoOrder}]
  /\ invoiceQuote \in [InvoiceIds -> QuoteIds \union {NoQuote}]
  /\ announced \in SUBSET (InvoiceIds \X {"invoice.issued", "invoice.paid"})

InvoicesInit ==
  /\ invoiceStatus = [i \in InvoiceIds |-> "absent"]
  /\ invoiceOrder = [i \in InvoiceIds |-> NoOrder]
  /\ invoiceQuote = [i \in InvoiceIds |-> NoQuote]
  /\ announced = {}

--------------------------------------------------------------------------------

(* Mutant: a cancelled order may be invoiced.                              *)
ReadInvoiceOfCancelled(p, o) ==
  /\ orderStatus[o] # "absent"
  /\ Opens(p, OnOrder("invoice", o))
  /\ UNCHANGED invoiceVars

(* assertIssuableForInvoice and getInvoiceBasis: the order is not          *)
(* cancelled; its quote's frozen prices are the basis.                     *)
ReadInvoice(p, o) ==
  /\ orderStatus[o] \notin {"absent", "cancelled"}
  /\ Opens(p, OnOrder("invoice", o))
  /\ UNCHANGED invoiceVars

(* Mutant: a double-click issues twice.                                    *)
CommitInvoiceTwice(p, i) ==
  /\ req[p].op = "invoice"
  /\ invoiceStatus[i] = "absent"
  /\ invoiceStatus' = [invoiceStatus EXCEPT ![i] = "issued"]
  /\ invoiceOrder' = [invoiceOrder EXCEPT ![i] = req[p].order]
  /\ invoiceQuote' = [invoiceQuote EXCEPT ![i] = req[p].quote]
  /\ announced' = announced \union {<<i, "invoice.issued">>}
  /\ Closes(p)

(* The insert.  No code writes superseded_by_id of an invoice, so the      *)
(* index admits one invoice per order (409 invoice_exists: Abandon).       *)
CommitInvoice(p, i) ==
  /\ req[p].op = "invoice"
  /\ invoiceStatus[i] = "absent"
  /\ \A j \in InvoiceIds : invoiceOrder[j] # req[p].order
  /\ invoiceStatus' = [invoiceStatus EXCEPT ![i] = "issued"]
  /\ invoiceOrder' = [invoiceOrder EXCEPT ![i] = req[p].order]
  /\ invoiceQuote' = [invoiceQuote EXCEPT ![i] = req[p].quote]
  /\ announced' = announced \union {<<i, "invoice.issued">>}
  /\ Closes(p)

(* Conditional on the status being issued.                                 *)
MarkPaid(i) ==
  /\ invoiceStatus[i] = "issued"
  /\ invoiceStatus' = [invoiceStatus EXCEPT ![i] = "paid"]
  /\ announced' = announced \union {<<i, "invoice.paid">>}
  /\ UNCHANGED <<invoiceOrder, invoiceQuote, req>>

(* Conditional on the status being paid; no event.                         *)
UnmarkPaid(i) ==
  /\ invoiceStatus[i] = "paid"
  /\ invoiceStatus' = [invoiceStatus EXCEPT ![i] = "issued"]
  /\ UNCHANGED <<invoiceOrder, invoiceQuote, announced, req>>

InvoicesNext ==
  \/ \E i \in InvoiceIds : MarkPaid(i) \/ UnmarkPaid(i)
  \/ \E p \in Requests :
       \/ \E o \in OrderIds : ReadInvoice(p, o)
       \/ \E i \in InvoiceIds : CommitInvoice(p, i)

--------------------------------------------------------------------------------

(* No order is billed twice, however the issues interleave.                *)
OneInvoicePerOrder ==
  \A i, j \in InvoiceIds :
    invoiceStatus[i] # "absent" /\ invoiceOrder[i] = invoiceOrder[j] => i = j
================================================================================
