--------------------------------- MODULE Orders --------------------------------
(***************************************************************************)
(* The order rows, their outbox events and the exceptions the deviation    *)
(* ledger keeps for them: OrdersService over the rows of Quotes.  The      *)
(* requests run as in Quotes: a read step, and a commit step whose only    *)
(* check is what PostgreSQL enforces, the partial unique index             *)
(* order_quote_active_uq.                                                  *)
(***************************************************************************)
EXTENDS Quotes

VARIABLES
  orderStatus,   \* "absent", or the status of the row
  orderQuote,    \* the quote the order is built on
  emitted,       \* <<order, event>>: the outbox rows of the orders
  exceptions     \* the orders with an order_exception row in the ledger

orderVars == <<orderStatus, orderQuote, emitted, exceptions>>

Events == {"order.confirmed", "order.production_started", "order.completed",
           "order.cancelled"}

OrdersTypeOK ==
  /\ orderStatus \in [OrderIds -> OrderStatuses]
  /\ orderQuote \in [OrderIds -> QuoteIds \union {NoQuote}]
  /\ emitted \in SUBSET (OrderIds \X Events)
  /\ exceptions \in SUBSET OrderIds

OrdersInit ==
  /\ orderStatus = [o \in OrderIds |-> "absent"]
  /\ orderQuote = [o \in OrderIds |-> NoQuote]
  /\ emitted = {}
  /\ exceptions = {}

(* Live is the index's own predicate: completed orders count.              *)
Live(o) == orderStatus[o] \notin {"absent", "cancelled"}

(* Mutant: completed orders are left out of the index.                     *)
IndexAllowsInFlightOnly(o, status, q) ==
  status = "cancelled"
    \/ \A other \in OrderIds \ {o} :
         orderStatus[other] \in {"confirmed", "in_production"} => orderQuote[other] # q

(* order_quote_active_uq lets row o have this status and this quote.       *)
IndexAllows(o, status, q) ==
  status = "cancelled"
    \/ \A other \in OrderIds \ {o} : Live(other) => orderQuote[other] # q

OnOrder(op, o) ==
  [op |-> op, quote |-> orderQuote[o], order |-> o, target |-> NoQuote,
   was |-> orderStatus[o]]

--------------------------------------------------------------------------------

(* assertAcceptedForOrder: not superseded, and effectively accepted.       *)
ReadCreate(p, q) ==
  /\ supersededBy[q] = NoQuote
  /\ EffectiveStatus(q) = "accepted"
  /\ Opens(p, OnQuote("create", q))
  /\ UNCHANGED orderVars

(* Mutant: only the quote's own orders are looked up, not the deal's.      *)
CheckDealSkipped(p) ==
  /\ req[p].op = "create"
  /\ GoesOn(p, "create_checked")
  /\ UNCHANGED orderVars

(* chainQuoteIds and findLiveByQuoteIds: no live order on another revision *)
(* of the deal.  The quote itself is left to the index.                    *)
CheckDeal(p) ==
  /\ req[p].op = "create"
  /\ \A o \in OrderIds :
       Live(o) => orderQuote[o] \notin Chain(req[p].quote) \ {req[p].quote}
  /\ GoesOn(p, "create_checked")
  /\ UNCHANGED orderVars

(* The insert, unless the index refuses it (409 order_exists: Abandon).    *)
CommitCreate(p, o) ==
  /\ req[p].op = "create_checked"
  /\ orderStatus[o] = "absent"
  /\ IndexAllows(o, "confirmed", req[p].quote)
  /\ orderStatus' = [orderStatus EXCEPT ![o] = "confirmed"]
  /\ orderQuote' = [orderQuote EXCEPT ![o] = req[p].quote]
  /\ emitted' = emitted \union {<<o, "order.confirmed">>}
  /\ Closes(p)
  /\ UNCHANGED exceptions

(* repoint reads the order, then the target it is asked to move to.        *)
ReadRepoint(p, o, q) ==
  /\ orderStatus[o] = "confirmed"
  /\ Opens(p, [OnOrder("repoint", o) EXCEPT !.target = q])
  /\ UNCHANGED orderVars

(* Mutant: any accepted quote is taken for a revision of the order's.      *)
CheckTargetAcceptedOnly(p) ==
  /\ req[p].op = "repoint"
  /\ EffectiveStatus(req[p].target) = "accepted"
  /\ GoesOn(p, "repoint_checked")
  /\ UNCHANGED orderVars

(* Mutant: an order moves to any later revision, accepted or not.          *)
CheckTargetAnyStatus(p) ==
  /\ req[p].op = "repoint"
  /\ EffectiveStatus(req[p].target) # "absent"
  /\ Reaches(supersededBy, req[p].quote, req[p].target)
  /\ GoesOn(p, "repoint_checked")
  /\ UNCHANGED orderVars

(* assertRepointTarget: the target is accepted, and a later revision of    *)
(* the quote the order was read with (or that quote).                      *)
CheckTarget(p) ==
  /\ req[p].op = "repoint"
  /\ EffectiveStatus(req[p].target) = "accepted"
  /\ Reaches(supersededBy, req[p].quote, req[p].target)
  /\ GoesOn(p, "repoint_checked")
  /\ UNCHANGED orderVars

(* The UPDATE looks at neither the status nor the quote that were read;    *)
(* the index may refuse it (an unmapped error: Abandon).                   *)
CommitRepoint(p) ==
  LET o == req[p].order IN
  /\ req[p].op = "repoint_checked"
  /\ IndexAllows(o, orderStatus[o], req[p].target)
  /\ orderQuote' = [orderQuote EXCEPT ![o] = req[p].target]
  /\ Closes(p)
  /\ UNCHANGED <<orderStatus, emitted, exceptions>>

--------------------------------------------------------------------------------

Transitions == {"start", "complete", "cancel"}

(* Mutant: a completed order may still be cancelled.                       *)
CanTransitionLax(op, status) ==
  \/ op = "start" /\ status = "confirmed"
  \/ op = "complete" /\ status = "in_production"
  \/ op = "cancel" /\ status \in {"confirmed", "in_production", "completed"}

(* canStart, canComplete and canCancel.                                    *)
CanTransition(op, status) ==
  \/ op = "start" /\ status = "confirmed"
  \/ op = "complete" /\ status = "in_production"
  \/ op = "cancel" /\ status \in {"confirmed", "in_production"}

StatusAfter(op) ==
  CASE op = "start" -> "in_production"
    [] op = "complete" -> "completed"
    [] op = "cancel" -> "cancelled"

EventOf(op) ==
  CASE op = "start" -> "order.production_started"
    [] op = "complete" -> "order.completed"
    [] op = "cancel" -> "order.cancelled"

ReadTransition(p, o, op) ==
  /\ CanTransition(op, orderStatus[o])
  /\ Opens(p, OnOrder(op, o))
  /\ UNCHANGED orderVars

(* Mutant: the ledger row of a cancelled production is forgotten.          *)
StrandedNothing(r) == {}

(* Cancelling what was read as in production strands cut material.         *)
Stranded(r) ==
  IF r.op = "cancel" /\ r.was = "in_production" THEN {r.order} ELSE {}

(* setStatus looks at the row's id only.  The index refuses to bring a     *)
(* cancelled order back beside a new one (an unmapped error: Abandon).     *)
CommitTransition(p) ==
  LET r == req[p] IN
  /\ r.op \in Transitions
  /\ IndexAllows(r.order, StatusAfter(r.op), orderQuote[r.order])
  /\ orderStatus' = [orderStatus EXCEPT ![r.order] = StatusAfter(r.op)]
  /\ emitted' = emitted \union {<<r.order, EventOf(r.op)>>}
  /\ exceptions' = exceptions \union Stranded(r)
  /\ Closes(p)
  /\ UNCHANGED orderQuote

(* recordException: the order exists, in any status, and keeps it.         *)
RecordException(o) ==
  /\ orderStatus[o] # "absent"
  /\ exceptions' = exceptions \union {o}
  /\ UNCHANGED <<orderStatus, orderQuote, emitted, req>>

OrdersNext ==
  \/ \E o \in OrderIds : RecordException(o)
  \/ \E p \in Requests :
       \/ CheckDeal(p)
       \/ CheckTarget(p)
       \/ CommitRepoint(p)
       \/ CommitTransition(p)
       \/ \E q \in QuoteIds : ReadCreate(p, q)
       \/ \E o \in OrderIds :
            \/ CommitCreate(p, o)
            \/ \E q \in QuoteIds : ReadRepoint(p, o, q)
            \/ \E op \in Transitions : ReadTransition(p, o, op)

--------------------------------------------------------------------------------

(* Whatever the order in which creates, repoints, cancels and stale status *)
(* writes commit, a quote has at most one order that is not cancelled.     *)
OneLiveOrderPerQuote ==
  \A o1, o2 \in OrderIds :
    Live(o1) /\ Live(o2) /\ orderQuote[o1] = orderQuote[o2] => o1 = o2
================================================================================
