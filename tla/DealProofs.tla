------------------------------- MODULE DealProofs ------------------------------
(***************************************************************************)
(* For any number of quotes, orders, invoices and concurrent requests:     *)
(* what the conditional updates and the unique indexes of PostgreSQL keep  *)
(* true of the deals, whatever stale reads are committed.  And while no    *)
(* two requests are about one deal, what the services promise.             *)
(***************************************************************************)
EXTENDS Deal, TLAPS

--------------------------------------------------------------------------------
(* What following the pointers of the quote rows reaches, and why the      *)
(* chains of linear pointers are the classes of an equivalence: the deals. *)

Pointers == [QuoteIds -> QuoteIds \union {NoQuote}]

LEMMA ReachesSelf ==
  ASSUME NEW P \in Pointers, NEW q \in QuoteIds PROVE Reaches(P, q, q)
  BY DEF Reaches

LEMMA ReachesQuotes ==
  ASSUME NEW P \in Pointers, NEW q \in QuoteIds, NEW r, Reaches(P, q, r)
  PROVE  r \in QuoteIds
  BY DEF Reaches, Pointers

LEMMA ReachesNext ==
  ASSUME NEW P \in Pointers, NEW q \in QuoteIds, NEW r \in QuoteIds,
         Reaches(P, q, r), P[r] # NoQuote
  PROVE  Reaches(P, q, P[r])
  BY DEF Reaches, Pointers

LEMMA ReachesTransitive ==
  ASSUME NEW P \in Pointers, NEW q \in QuoteIds, NEW r \in QuoteIds, NEW s \in QuoteIds,
         Reaches(P, q, r), Reaches(P, r, s)
  PROVE  Reaches(P, q, s)
  BY DEF Reaches

(* What is reached is the start, or is reached from its successor.         *)
LEMMA ReachesFirst ==
  ASSUME NEW P \in Pointers, NEW q \in QuoteIds, NEW r \in QuoteIds,
         Reaches(P, q, r), r # q
  PROVE  P[q] \in QuoteIds /\ Reaches(P, P[q], r)
  <1> DEFINE S == {x \in QuoteIds : x = q \/ (P[q] \in QuoteIds /\ Reaches(P, P[q], x))}
  <1>1. ASSUME NEW x \in S PROVE P[x] \in S \union {NoQuote}
    <2>1. CASE x = q
      BY <2>1, ReachesSelf DEF Pointers
    <2>2. CASE P[q] \in QuoteIds /\ Reaches(P, P[q], x)
      BY <2>2, ReachesNext DEF Pointers
    <2>3. QED
      BY <1>1, <2>1, <2>2
  <1>2. r \in S
    BY <1>1 DEF Reaches
  <1>3. QED
    BY <1>2

(* Of two quotes reached from a third, one reaches the other.              *)
LEMMA ReachesOrdered ==
  ASSUME NEW P \in Pointers, NEW q \in QuoteIds, NEW r \in QuoteIds, NEW s \in QuoteIds,
         Reaches(P, q, r), Reaches(P, q, s)
  PROVE  Reaches(P, r, s) \/ Reaches(P, s, r)
  <1> DEFINE S == {x \in QuoteIds : Reaches(P, r, x) \/ Reaches(P, x, r)}
  <1>1. ASSUME NEW x \in S PROVE P[x] \in S \union {NoQuote}
    <2>1. CASE Reaches(P, r, x)
      BY <1>1, <2>1, ReachesNext DEF Pointers
    <2>2. CASE Reaches(P, x, r) /\ x = r
      BY <2>2, ReachesSelf, ReachesNext DEF Pointers
    <2>3. CASE Reaches(P, x, r) /\ x # r
      BY <2>3, ReachesFirst
    <2>4. QED
      BY <1>1, <2>1, <2>2, <2>3
  <1>2. s \in S
    BY <1>1 DEF Reaches
  <1>3. QED
    BY <1>2

(* Pointers that are only ever set where there was none reach no less.     *)
LEMMA ReachesGrows ==
  ASSUME NEW P \in Pointers, NEW Q \in Pointers, NEW q \in QuoteIds, NEW r,
         \A x \in QuoteIds : P[x] # NoQuote => Q[x] = P[x],
         Reaches(P, q, r)
  PROVE  Reaches(Q, q, r)
  <1> SUFFICES ASSUME NEW S \in SUBSET QuoteIds, q \in S,
                      \A x \in S : Q[x] \in S \union {NoQuote}
               PROVE  r \in S
    BY DEF Reaches
  <1>1. \A x \in S : P[x] \in S \union {NoQuote}
    OBVIOUS
  <1>2. QED
    BY <1>1 DEF Reaches

(* Two pointers that undo each other reach the same pairs, backwards.      *)
Undoes(P, Q) == \A x \in QuoteIds : P[x] # NoQuote => Q[P[x]] = x

LEMMA ReachesBack ==
  ASSUME NEW P \in Pointers, NEW Q \in Pointers, Undoes(P, Q),
         NEW q \in QuoteIds, NEW r \in QuoteIds, Reaches(P, q, r)
  PROVE  Reaches(Q, r, q)
  <1> DEFINE S == {x \in QuoteIds : Reaches(Q, x, q)}
  <1>1. q \in S
    BY ReachesSelf
  <1>2. ASSUME NEW x \in S, P[x] # NoQuote PROVE P[x] \in S
    <2>1. P[x] \in QuoteIds /\ Q[P[x]] = x
      BY <1>2 DEF Undoes, Pointers
    <2>2. Reaches(Q, P[x], x)
      BY <2>1, ReachesSelf, ReachesNext, QuotesAssumption
    <2>3. QED
      BY <2>1, <2>2, ReachesTransitive
  <1>3. r \in S
    BY <1>1, <1>2 DEF Reaches
  <1>4. QED
    BY <1>3

--------------------------------------------------------------------------------
(* The deals.                                                              *)

LinearPointers ==
  /\ revisionOf \in Pointers /\ supersededBy \in Pointers
  /\ Undoes(revisionOf, supersededBy) /\ Undoes(supersededBy, revisionOf)

LEMMA LinearChains ==
  ASSUME QuotesTypeOK, ChainsAreLinear PROVE LinearPointers
  BY DEF QuotesTypeOK, ChainsAreLinear, LinearPointers, Undoes, Pointers

LEMMA ChainReflexive ==
  ASSUME LinearPointers, NEW q \in QuoteIds PROVE q \in Chain(q)
  BY ReachesSelf DEF Chain, LinearPointers

LEMMA ChainSymmetric ==
  ASSUME LinearPointers, NEW q \in QuoteIds, NEW r \in Chain(q)
  PROVE  r \in QuoteIds /\ q \in Chain(r)
  BY ReachesBack DEF Chain, LinearPointers

(* In a deal every quote is before or after every other.                   *)
LEMMA ChainByForward ==
  ASSUME LinearPointers, NEW q \in QuoteIds, NEW r \in QuoteIds
  PROVE  r \in Chain(q) <=> Reaches(supersededBy, q, r) \/ Reaches(supersededBy, r, q)
  BY ReachesBack DEF Chain, LinearPointers

LEMMA ChainByBackward ==
  ASSUME LinearPointers, NEW q \in QuoteIds, NEW r \in QuoteIds
  PROVE  r \in Chain(q) <=> Reaches(revisionOf, q, r) \/ Reaches(revisionOf, r, q)
  BY ReachesBack DEF Chain, LinearPointers

LEMMA ChainTransitive ==
  ASSUME LinearPointers, NEW q \in QuoteIds, NEW r \in Chain(q), NEW s \in Chain(r)
  PROVE  s \in Chain(q)
  <1>1. r \in QuoteIds /\ s \in QuoteIds
    BY DEF Chain
  <1>2. revisionOf \in Pointers /\ supersededBy \in Pointers
    BY DEF LinearPointers
  <1>3. CASE Reaches(supersededBy, q, r) /\ Reaches(supersededBy, r, s)
    BY <1>1, <1>2, <1>3, ReachesTransitive, ChainByForward
  <1>4. CASE Reaches(supersededBy, r, q) /\ Reaches(supersededBy, s, r)
    BY <1>1, <1>2, <1>4, ReachesTransitive, ChainByForward
  <1>5. CASE Reaches(supersededBy, r, q) /\ Reaches(supersededBy, r, s)
    BY <1>1, <1>2, <1>5, ReachesOrdered, ChainByForward
  <1>6. CASE Reaches(supersededBy, q, r) /\ Reaches(supersededBy, s, r)
    <2>1. Reaches(revisionOf, r, q) /\ Reaches(revisionOf, r, s)
      BY <1>1, <1>2, <1>6, ReachesBack DEF LinearPointers
    <2>2. QED
      BY <1>1, <1>2, <2>1, ReachesOrdered, ChainByBackward
  <1>7. QED
    BY <1>1, <1>3, <1>4, <1>5, <1>6, ChainByForward

--------------------------------------------------------------------------------
(* The types, and what a step does to the rows.                            *)

LEMMA InitDeal == Init => TypeOK /\ DealInv
  <1> SUFFICES ASSUME Init PROVE TypeOK /\ DealInv
    OBVIOUS
  <1> USE DEF Init, QuotesInit, OrdersInit, InvoicesInit, IdleRequest
  <1>1. QuotesTypeOK
    BY DEF QuotesTypeOK, QuoteStatuses, RequestStates, Ops, OrderStatuses
  <1>2. OrdersTypeOK /\ InvoicesTypeOK
    BY DEF OrdersTypeOK, InvoicesTypeOK, OrderStatuses
  <1>3. ChainsAreLinear /\ RowsAreComplete
    BY DEF ChainsAreLinear, RowsAreComplete
  <1>4. RequestsKnowTheirRows
    BY DEF RequestsKnowTheirRows, KnowsItsRows, QuoteOps, OrderOps
  <1>5. OneLiveOrderPerQuote /\ OneInvoicePerOrder /\ InvoiceBillsItsDeal
    BY DEF OneLiveOrderPerQuote, Live, OneInvoicePerOrder, InvoiceBillsItsDeal
  <1>6. QED
    BY <1>1, <1>2, <1>3, <1>4, <1>5 DEF TypeOK, DealInv

--------------------------------------------------------------------------------
(* Types.                                                                  *)

LEMMA RequestMoves ==
  ASSUME QuotesTypeOK, NEW p \in Requests
  PROVE  /\ IdleRequest \in RequestStates
         /\ \A r \in RequestStates : Opens(p, r) => req' \in [Requests -> RequestStates]
         /\ Closes(p) => req' \in [Requests -> RequestStates]
         /\ \A op \in Ops : GoesOn(p, op) => req' \in [Requests -> RequestStates]
         /\ \A op \in Ops, q \in QuoteIds : OnQuote(op, q) \in RequestStates
  <1>1. IdleRequest \in RequestStates
    BY DEF RequestStates, IdleRequest, Ops, OrderStatuses
  <1>2. req \in [Requests -> RequestStates]
    BY DEF QuotesTypeOK
  <1>3. \A r \in RequestStates : Opens(p, r) => req' \in [Requests -> RequestStates]
    BY <1>2 DEF Opens
  <1>4. Closes(p) => req' \in [Requests -> RequestStates]
    BY <1>1, <1>2 DEF Closes
  <1>5. ASSUME NEW op \in Ops, GoesOn(p, op) PROVE req' \in [Requests -> RequestStates]
    <2>1. [req[p] EXCEPT !.op = op] \in RequestStates
      BY <1>2 DEF RequestStates
    <2>2. req' = [req EXCEPT ![p] = [req[p] EXCEPT !.op = op]]
      BY <1>5 DEF GoesOn
    <2>3. QED
      BY <1>2, <2>1, <2>2
  <1>6. ASSUME NEW op \in Ops, NEW q \in QuoteIds PROVE OnQuote(op, q) \in RequestStates
    BY DEF OnQuote, RequestStates, IdleRequest, OrderStatuses
  <1>7. QED
    BY <1>1, <1>3, <1>4, <1>5, <1>6

LEMMA OrderRequests ==
  ASSUME TypeOK, NEW o \in OrderIds, NEW op \in Ops
  PROVE  /\ OnOrder(op, o) \in RequestStates
         /\ \A q \in QuoteIds : [OnOrder(op, o) EXCEPT !.target = q] \in RequestStates
  BY DEF TypeOK, QuotesTypeOK, OrdersTypeOK, RequestStates, OnOrder

LEMMA QuotesKeepTypes == TypeOK /\ QuotesNext => QuotesTypeOK'
  <1> SUFFICES ASSUME TypeOK, QuotesNext PROVE QuotesTypeOK'
    OBVIOUS
  <1> USE DEF QuotesTypeOK
  <1>0. QuotesTypeOK
    BY DEF TypeOK
  <1>1. ASSUME NEW q \in QuoteIds, Lapse(q) \/ IssueQuote(q) PROVE QuotesTypeOK'
    BY <1>0, <1>1 DEF Lapse, IssueQuote, InsertQuote, QuoteStatuses
  <1>2. ASSUME NEW p \in Requests, Abandon(p) PROVE QuotesTypeOK'
    BY <1>0, <1>2, RequestMoves DEF Abandon, quoteVars
  <1>3. ASSUME NEW p \in Requests, CommitResolve(p) PROVE QuotesTypeOK'
    BY <1>0, <1>3, RequestMoves DEF CommitResolve, QuoteStatuses
  <1>4. ASSUME NEW p \in Requests, NEW q \in QuoteIds, ReadRevise(p, q) PROVE QuotesTypeOK'
    BY <1>0, <1>4, RequestMoves DEF ReadRevise, quoteVars, Ops
  <1>5. ASSUME NEW p \in Requests, NEW q \in QuoteIds, CommitRevise(p, q) PROVE QuotesTypeOK'
    <2>1. req[p].quote \in QuoteIds \union {NoQuote}
      BY <1>0 DEF RequestStates
    <2>2. QED
      BY <1>0, <1>5, <2>1, RequestMoves DEF CommitRevise, InsertQuote, QuoteStatuses
  <1>6. ASSUME NEW p \in Requests, NEW q \in QuoteIds, NEW op \in {"accept", "decline"},
               ReadResolve(p, q, op)
        PROVE  QuotesTypeOK'
    BY <1>0, <1>6, RequestMoves DEF ReadResolve, quoteVars, Ops
  <1>7. QED
    BY <1>1, <1>2, <1>3, <1>4, <1>5, <1>6 DEF QuotesNext

LEMMA TransitionTypes ==
  /\ Transitions \subseteq Ops
  /\ \A op \in Transitions : /\ StatusAfter(op) \in OrderStatuses \ {"absent"}
                             /\ EventOf(op) \in Events
  <1> SUFFICES ASSUME NEW op \in Transitions
               PROVE  /\ StatusAfter(op) \in OrderStatuses \ {"absent"}
                      /\ EventOf(op) \in Events
    BY DEF Transitions, Ops
  <1>1. CASE op = "start"
    BY <1>1 DEF StatusAfter, EventOf, OrderStatuses, Events
  <1>2. CASE op = "complete"
    BY <1>2 DEF StatusAfter, EventOf, OrderStatuses, Events
  <1>3. CASE op = "cancel"
    BY <1>3 DEF StatusAfter, EventOf, OrderStatuses, Events
  <1>4. QED
    BY <1>1, <1>2, <1>3 DEF Transitions

LEMMA OrdersKeepTypes ==
  TypeOK /\ RequestsKnowTheirRows /\ OrdersNext =>
    OrdersTypeOK' /\ req' \in [Requests -> RequestStates]
  <1> DEFINE Typed == OrdersTypeOK' /\ req' \in [Requests -> RequestStates]
  <1> SUFFICES ASSUME TypeOK, RequestsKnowTheirRows, OrdersNext PROVE Typed
    OBVIOUS
  <1>0. QuotesTypeOK /\ OrdersTypeOK
    BY DEF TypeOK
  <1>r. \A p \in Requests :
          /\ req[p] \in RequestStates
          /\ req[p].op \in Ops
          /\ req[p].quote \in QuoteIds \union {NoQuote}
          /\ req[p].target \in QuoteIds \union {NoQuote}
          /\ req[p].order \in OrderIds \union {NoOrder}
    BY <1>0 DEF QuotesTypeOK, RequestStates
  <1>1. ASSUME NEW o \in OrderIds, RecordException(o) PROVE Typed
    BY <1>0, <1>1 DEF RecordException, OrdersTypeOK, QuotesTypeOK
  <1>2. ASSUME NEW p \in Requests, CheckDeal(p) \/ CheckTarget(p) PROVE Typed
    BY <1>0, <1>2, RequestMoves DEF CheckDeal, CheckTarget, orderVars, OrdersTypeOK, Ops
  <1>3. ASSUME NEW p \in Requests, CommitRepoint(p) PROVE Typed
    BY <1>0, <1>3, <1>r, RequestMoves DEF CommitRepoint, OrdersTypeOK
  <1>4. ASSUME NEW p \in Requests, CommitTransition(p) PROVE Typed
    <2>1. req[p].op \in Transitions /\ req[p].order \in OrderIds
      BY <1>4 DEF CommitTransition, RequestsKnowTheirRows, KnowsItsRows, Transitions, OrderOps
    <2>2. Stranded(req[p]) \in SUBSET OrderIds
      BY <2>1 DEF Stranded
    <2>3. QED
      BY <1>0, <1>4, <2>1, <2>2, RequestMoves, TransitionTypes
         DEF CommitTransition, OrdersTypeOK
  <1>5. ASSUME NEW p \in Requests, NEW q \in QuoteIds, ReadCreate(p, q) PROVE Typed
    BY <1>0, <1>5, RequestMoves DEF ReadCreate, orderVars, OrdersTypeOK, Ops
  <1>6. ASSUME NEW p \in Requests, NEW o \in OrderIds, CommitCreate(p, o) PROVE Typed
    BY <1>0, <1>6, <1>r, RequestMoves DEF CommitCreate, OrdersTypeOK, OrderStatuses, Events
  <1>7. ASSUME NEW p \in Requests, NEW o \in OrderIds, NEW q \in QuoteIds,
               ReadRepoint(p, o, q)
        PROVE  Typed
    BY <1>0, <1>7, RequestMoves, OrderRequests DEF ReadRepoint, orderVars, OrdersTypeOK, Ops
  <1>8. ASSUME NEW p \in Requests, NEW o \in OrderIds, NEW op \in Transitions,
               ReadTransition(p, o, op)
        PROVE  Typed
    BY <1>0, <1>8, RequestMoves, OrderRequests, TransitionTypes
       DEF ReadTransition, orderVars, OrdersTypeOK
  <1>9. QED
    BY <1>1, <1>2, <1>3, <1>4, <1>5, <1>6, <1>7, <1>8 DEF OrdersNext

LEMMA InvoicesKeepTypes ==
  TypeOK /\ InvoicesNext => InvoicesTypeOK' /\ req' \in [Requests -> RequestStates]
  <1> DEFINE Typed == InvoicesTypeOK' /\ req' \in [Requests -> RequestStates]
  <1> SUFFICES ASSUME TypeOK, InvoicesNext PROVE Typed
    OBVIOUS
  <1>0. QuotesTypeOK /\ InvoicesTypeOK
    BY DEF TypeOK
  <1>1. ASSUME NEW i \in InvoiceIds, MarkPaid(i) \/ UnmarkPaid(i) PROVE Typed
    BY <1>0, <1>1 DEF MarkPaid, UnmarkPaid, InvoicesTypeOK, QuotesTypeOK
  <1>2. ASSUME NEW p \in Requests, NEW o \in OrderIds, ReadInvoice(p, o) PROVE Typed
    BY <1>0, <1>2, RequestMoves, OrderRequests
       DEF ReadInvoice, invoiceVars, InvoicesTypeOK, Ops
  <1>3. ASSUME NEW p \in Requests, NEW i \in InvoiceIds, CommitInvoice(p, i) PROVE Typed
    <2>1. req[p].order \in OrderIds \union {NoOrder} /\ req[p].quote \in QuoteIds \union {NoQuote}
      BY <1>0 DEF QuotesTypeOK, RequestStates
    <2>2. QED
      BY <1>0, <1>3, <2>1, RequestMoves DEF CommitInvoice, InvoicesTypeOK
  <1>4. QED
    BY <1>1, <1>2, <1>3 DEF InvoicesNext

LEMMA NextTypeOK == TypeOK /\ DealInv /\ [Next]_vars => TypeOK'
  <1> SUFFICES ASSUME TypeOK, DealInv, [Next]_vars PROVE TypeOK'
    OBVIOUS
  <1>1. CASE QuotesNext /\ UNCHANGED <<orderVars, invoiceVars>>
    BY <1>1, QuotesKeepTypes
       DEF TypeOK, OrdersTypeOK, InvoicesTypeOK, orderVars, invoiceVars
  <1>2. CASE OrdersNext /\ UNCHANGED <<quoteVars, invoiceVars>>
    BY <1>2, OrdersKeepTypes
       DEF DealInv, TypeOK, QuotesTypeOK, InvoicesTypeOK, quoteVars, invoiceVars
  <1>3. CASE InvoicesNext /\ UNCHANGED <<quoteVars, orderVars>>
    BY <1>3, InvoicesKeepTypes
       DEF TypeOK, QuotesTypeOK, OrdersTypeOK, quoteVars, orderVars
  <1>4. CASE UNCHANGED vars
    BY <1>4 DEF vars, TypeOK, QuotesTypeOK, OrdersTypeOK, InvoicesTypeOK,
                quoteVars, orderVars, invoiceVars
  <1>5. QED
    BY <1>1, <1>2, <1>3, <1>4 DEF Next

--------------------------------------------------------------------------------
(* Rows are only added to: none disappears, no pointer that is set is set  *)
(* again, an order moves only within its deal, an invoice is frozen.       *)

RowsGrow ==
  /\ \A q \in QuoteIds :
       /\ quoteStatus[q] # "absent" => quoteStatus'[q] # "absent"
       /\ revisionOf[q] # NoQuote => revisionOf'[q] = revisionOf[q]
       /\ supersededBy[q] # NoQuote => supersededBy'[q] = supersededBy[q]
  /\ \A o \in OrderIds : orderStatus[o] # "absent" =>
       orderStatus'[o] # "absent" /\ orderQuote'[o] \in Chain(orderQuote[o])
  /\ \A i \in InvoiceIds : invoiceStatus[i] # "absent" =>
       /\ invoiceStatus'[i] # "absent"
       /\ invoiceOrder'[i] = invoiceOrder[i]
       /\ invoiceQuote'[i] = invoiceQuote[i]

LEMMA OrderQuoteInChain ==
  ASSUME TypeOK, DealInv, NEW o \in OrderIds, orderStatus[o] # "absent"
  PROVE  /\ orderQuote[o] \in QuoteIds
         /\ quoteStatus[orderQuote[o]] # "absent"
         /\ orderQuote[o] \in Chain(orderQuote[o])
  BY LinearChains, ChainReflexive DEF TypeOK, DealInv, RowsAreComplete

LEMMA QuotesGrow ==
  ASSUME TypeOK, DealInv, QuotesNext
  PROVE  \A q \in QuoteIds :
           /\ quoteStatus[q] # "absent" => quoteStatus'[q] # "absent"
           /\ revisionOf[q] # NoQuote => revisionOf'[q] = revisionOf[q]
           /\ supersededBy[q] # NoQuote => supersededBy'[q] = supersededBy[q]
  <1> DEFINE Grow == \A q \in QuoteIds :
               /\ quoteStatus[q] # "absent" => quoteStatus'[q] # "absent"
               /\ revisionOf[q] # NoQuote => revisionOf'[q] = revisionOf[q]
               /\ supersededBy[q] # NoQuote => supersededBy'[q] = supersededBy[q]
  <1>0. QuotesTypeOK /\ RowsAreComplete
    BY DEF TypeOK, DealInv
  <1>1. ASSUME NEW q \in QuoteIds, Lapse(q) \/ IssueQuote(q) PROVE Grow
    BY <1>0, <1>1 DEF Lapse, IssueQuote, InsertQuote, RowsAreComplete, QuotesTypeOK
  <1>2. ASSUME NEW p \in Requests, CommitResolve(p) PROVE Grow
    BY <1>0, <1>2 DEF CommitResolve, QuotesTypeOK
  <1>3. ASSUME NEW p \in Requests, NEW q \in QuoteIds, CommitRevise(p, q) PROVE Grow
    BY <1>0, <1>3 DEF CommitRevise, InsertQuote, RowsAreComplete, QuotesTypeOK
  <1>4. ASSUME UNCHANGED quoteVars PROVE Grow
    BY <1>4 DEF quoteVars
  <1>5. QED
    BY <1>1, <1>2, <1>3, <1>4 DEF QuotesNext, Abandon, ReadRevise, ReadResolve

LEMMA OrdersGrow ==
  ASSUME TypeOK, DealInv, OrdersNext
  PROVE  \A o \in OrderIds : orderStatus[o] # "absent" =>
           orderStatus'[o] # "absent" /\ orderQuote'[o] \in Chain(orderQuote[o])
  <1> DEFINE Grow == \A o \in OrderIds : orderStatus[o] # "absent" =>
               orderStatus'[o] # "absent" /\ orderQuote'[o] \in Chain(orderQuote[o])
  <1>0. OrdersTypeOK
    BY DEF TypeOK
  <1>1. ASSUME UNCHANGED <<orderStatus, orderQuote>> PROVE Grow
    BY <1>1, OrderQuoteInChain
  <1>2. ASSUME NEW p \in Requests, NEW o \in OrderIds, CommitCreate(p, o) PROVE Grow
    BY <1>0, <1>2, OrderQuoteInChain DEF CommitCreate, OrdersTypeOK
  <1>3. ASSUME NEW p \in Requests, CommitRepoint(p) PROVE Grow
    <2> DEFINE r == req[p]
    <2>1. /\ r.order \in OrderIds /\ orderStatus[r.order] # "absent"
          /\ r.quote \in QuoteIds /\ orderQuote[r.order] \in Chain(r.quote)
          /\ r.target \in QuoteIds /\ Reaches(supersededBy, r.quote, r.target)
      BY <1>3 DEF CommitRepoint, DealInv, RequestsKnowTheirRows, KnowsItsRows, OrderOps
    <2>2. LinearPointers
      BY LinearChains DEF TypeOK, DealInv
    <2>3. r.quote \in Chain(orderQuote[r.order])
      BY <2>1, <2>2, ChainSymmetric
    <2>4. r.target \in Chain(r.quote)
      BY <2>1 DEF Chain
    <2>5. r.target \in Chain(orderQuote[r.order])
      BY <2>1, <2>2, <2>3, <2>4, ChainTransitive, OrderQuoteInChain
    <2>6. orderStatus' = orderStatus /\ orderQuote' = [orderQuote EXCEPT ![r.order] = r.target]
      BY <1>3 DEF CommitRepoint
    <2>7. QED
      BY <1>0, <2>1, <2>5, <2>6, OrderQuoteInChain DEF OrdersTypeOK
  <1>4. ASSUME NEW p \in Requests, CommitTransition(p) PROVE Grow
    <2>1. StatusAfter(req[p].op) # "absent"
      BY <1>4, TransitionTypes DEF CommitTransition
    <2>2. QED
      BY <1>0, <1>4, <2>1, OrderQuoteInChain DEF CommitTransition, OrdersTypeOK
  <1>5. QED
    BY <1>1, <1>2, <1>3, <1>4
       DEF OrdersNext, RecordException, CheckDeal, CheckTarget, ReadCreate, ReadRepoint,
           ReadTransition, orderVars

LEMMA StepGrows == TypeOK /\ DealInv /\ [Next]_vars => RowsGrow
  <1> SUFFICES ASSUME TypeOK, DealInv, [Next]_vars PROVE RowsGrow
    OBVIOUS
  <1>0. /\ UNCHANGED <<orderStatus, orderQuote>> =>
             \A o \in OrderIds : orderStatus[o] # "absent" =>
               orderStatus'[o] # "absent" /\ orderQuote'[o] \in Chain(orderQuote[o])
    BY OrderQuoteInChain
  <1>1. CASE QuotesNext /\ UNCHANGED <<orderVars, invoiceVars>>
    BY <1>0, <1>1, QuotesGrow DEF RowsGrow, orderVars, invoiceVars
  <1>2. CASE OrdersNext /\ UNCHANGED <<quoteVars, invoiceVars>>
    BY <1>2, OrdersGrow DEF RowsGrow, quoteVars, invoiceVars
  <1>3. CASE InvoicesNext /\ UNCHANGED <<quoteVars, orderVars>>
    <2>1. \A i \in InvoiceIds : invoiceStatus[i] # "absent" =>
            /\ invoiceStatus'[i] # "absent"
            /\ invoiceOrder'[i] = invoiceOrder[i]
            /\ invoiceQuote'[i] = invoiceQuote[i]
      BY <1>3 DEF InvoicesNext, MarkPaid, UnmarkPaid, ReadInvoice, CommitInvoice,
                  invoiceVars, TypeOK, InvoicesTypeOK
    <2>2. QED
      BY <1>0, <1>3, <2>1 DEF RowsGrow, quoteVars, orderVars
  <1>4. CASE UNCHANGED vars
    BY <1>0, <1>4 DEF vars, RowsGrow, quoteVars, orderVars, invoiceVars
  <1>5. QED
    BY <1>1, <1>2, <1>3, <1>4 DEF Next

LEMMA ChainsGrow ==
  ASSUME TypeOK, TypeOK', RowsGrow, NEW q \in QuoteIds, NEW r \in QuoteIds
  PROVE  /\ Reaches(supersededBy, q, r) => Reaches(supersededBy', q, r)
         /\ r \in Chain(q) => r \in Chain(q)'
  <1>1. /\ revisionOf \in Pointers /\ revisionOf' \in Pointers
        /\ supersededBy \in Pointers /\ supersededBy' \in Pointers
    BY DEF TypeOK, QuotesTypeOK, Pointers
  <1>2. Reaches(supersededBy, q, r) => Reaches(supersededBy', q, r)
    BY <1>1, ReachesGrows DEF RowsGrow
  <1>3. Reaches(revisionOf, q, r) => Reaches(revisionOf', q, r)
    BY <1>1, ReachesGrows DEF RowsGrow
  <1>4. QED
    BY <1>2, <1>3 DEF Chain

(* What a request knows of its rows stays true while others commit.        *)
LEMMA KnowsStable ==
  ASSUME TypeOK, TypeOK', DealInv, RowsGrow, NEW r \in RequestStates, KnowsItsRows(r)
  PROVE  KnowsItsRows(r)'
  <1>1. r.op \in QuoteOps => r.quote \in QuoteIds /\ quoteStatus'[r.quote] # "absent"
    BY DEF KnowsItsRows, RowsGrow
  <1>2. ASSUME r.op \in OrderOps
        PROVE  /\ r.order \in OrderIds /\ orderStatus'[r.order] # "absent"
               /\ r.quote \in QuoteIds /\ orderQuote'[r.order] \in Chain(r.quote)'
    <2>1. /\ r.order \in OrderIds /\ orderStatus[r.order] # "absent"
          /\ r.quote \in QuoteIds /\ orderQuote[r.order] \in Chain(r.quote)
      BY <1>2 DEF KnowsItsRows
    <2>2. orderStatus'[r.order] # "absent" /\ orderQuote'[r.order] \in Chain(orderQuote[r.order])
      BY <2>1 DEF RowsGrow
    <2>3. LinearPointers
      BY LinearChains DEF TypeOK, DealInv
    <2>4. orderQuote'[r.order] \in Chain(r.quote)
      BY <2>1, <2>2, <2>3, ChainTransitive
    <2>5. orderQuote'[r.order] \in QuoteIds
      BY <2>4 DEF Chain
    <2>6. QED
      BY <2>1, <2>2, <2>4, <2>5, ChainsGrow
  <1>3. ASSUME r.op = "repoint_checked"
        PROVE  /\ r.target \in QuoteIds /\ quoteStatus'[r.target] # "absent"
               /\ Reaches(supersededBy', r.quote, r.target)
    <2>1. /\ r.target \in QuoteIds /\ quoteStatus[r.target] # "absent"
          /\ r.quote \in QuoteIds /\ Reaches(supersededBy, r.quote, r.target)
      BY <1>3 DEF KnowsItsRows, OrderOps
    <2>2. QED
      BY <2>1, ChainsGrow DEF RowsGrow
  <1>4. QED
    BY <1>1, <1>2, <1>3 DEF KnowsItsRows

(* What a step reads, it knows at that moment.                             *)
LEMMA FreshReads ==
  ASSUME TypeOK, DealInv
  PROVE  /\ KnowsItsRows(IdleRequest)
         /\ \A q \in QuoteIds, op \in {"revise", "accept", "decline", "create"} :
              quoteStatus[q] # "absent" => KnowsItsRows(OnQuote(op, q))
         /\ \A o \in OrderIds, op \in Transitions \union {"invoice"} :
              orderStatus[o] # "absent" => KnowsItsRows(OnOrder(op, o))
         /\ \A o \in OrderIds, q \in QuoteIds :
              orderStatus[o] # "absent" =>
                KnowsItsRows([OnOrder("repoint", o) EXCEPT !.target = q])
  <1> USE DEF KnowsItsRows, QuoteOps, OrderOps
  <1>1. KnowsItsRows(IdleRequest)
    BY DEF IdleRequest
  <1>2. ASSUME NEW q \in QuoteIds, NEW op \in {"revise", "accept", "decline", "create"},
               quoteStatus[q] # "absent"
        PROVE  KnowsItsRows(OnQuote(op, q))
    <2>1. OnQuote(op, q).op = op /\ OnQuote(op, q).quote = q
      BY DEF OnQuote, IdleRequest
    <2>2. QED
      BY <1>2, <2>1
  <1>3. ASSUME NEW o \in OrderIds, NEW op \in Transitions \union {"invoice"},
               orderStatus[o] # "absent"
        PROVE  KnowsItsRows(OnOrder(op, o))
    BY <1>3, OrderQuoteInChain DEF OnOrder, Transitions
  <1>4. ASSUME NEW o \in OrderIds, NEW q \in QuoteIds, orderStatus[o] # "absent"
        PROVE  KnowsItsRows([OnOrder("repoint", o) EXCEPT !.target = q])
    BY <1>4, OrderQuoteInChain DEF OnOrder
  <1>5. QED
    BY <1>1, <1>2, <1>3, <1>4

LEMMA StepKnows ==
  ASSUME TypeOK, DealInv, [Next]_vars, NEW p \in Requests PROVE KnowsItsRows(req'[p])
  <1>0. /\ req \in [Requests -> RequestStates]
        /\ \A s \in Requests : KnowsItsRows(req[s])
    BY DEF TypeOK, QuotesTypeOK, DealInv, RequestsKnowTheirRows
  <1>1. ASSUME NEW s \in Requests, Closes(s) PROVE KnowsItsRows(req'[p])
    BY <1>0, <1>1, FreshReads DEF Closes
  <1>2. ASSUME NEW s \in Requests, NEW r \in RequestStates, Opens(s, r), KnowsItsRows(r)
        PROVE  KnowsItsRows(req'[p])
    BY <1>0, <1>2 DEF Opens
  <1>3. ASSUME UNCHANGED req PROVE KnowsItsRows(req'[p])
    BY <1>0, <1>3
  <1>4. CASE QuotesNext
    <2>1. ASSUME NEW s \in Requests, NEW q \in QuoteIds, ReadRevise(s, q)
          PROVE  KnowsItsRows(req'[p])
      BY <1>2, <2>1, RequestMoves, FreshReads DEF ReadRevise, Ops, TypeOK
    <2>2. ASSUME NEW s \in Requests, NEW q \in QuoteIds, NEW op \in {"accept", "decline"},
                 ReadResolve(s, q, op)
          PROVE  KnowsItsRows(req'[p])
      BY <1>2, <2>2, RequestMoves, FreshReads DEF ReadResolve, EffectiveStatus, Ops, TypeOK
    <2>3. QED
      BY <1>1, <1>3, <1>4, <2>1, <2>2
         DEF QuotesNext, Lapse, IssueQuote, Abandon, CommitResolve, CommitRevise
  <1>5. CASE OrdersNext
    <2>1. ASSUME NEW s \in Requests, CheckDeal(s) PROVE KnowsItsRows(req'[p])
      <3>1. KnowsItsRows([req[s] EXCEPT !.op = "create_checked"])
        BY <1>0, <2>1 DEF CheckDeal, KnowsItsRows, QuoteOps, OrderOps, RequestStates
      <3>2. req' = [req EXCEPT ![s] = [req[s] EXCEPT !.op = "create_checked"]]
        BY <2>1 DEF CheckDeal, GoesOn
      <3>3. QED
        BY <1>0, <3>1, <3>2
    <2>2. ASSUME NEW s \in Requests, CheckTarget(s) PROVE KnowsItsRows(req'[p])
      <3>1. quoteStatus[req[s].target] # "absent"
        BY <2>2 DEF CheckTarget, EffectiveStatus
      <3>2. KnowsItsRows([req[s] EXCEPT !.op = "repoint_checked"])
        BY <1>0, <2>2, <3>1 DEF CheckTarget, KnowsItsRows, QuoteOps, OrderOps, RequestStates
      <3>3. req' = [req EXCEPT ![s] = [req[s] EXCEPT !.op = "repoint_checked"]]
        BY <2>2 DEF CheckTarget, GoesOn
      <3>4. QED
        BY <1>0, <3>2, <3>3
    <2>3. ASSUME NEW s \in Requests, NEW q \in QuoteIds, ReadCreate(s, q)
          PROVE  KnowsItsRows(req'[p])
      BY <1>2, <2>3, RequestMoves, FreshReads DEF ReadCreate, EffectiveStatus, Ops, TypeOK
    <2>4. ASSUME NEW s \in Requests, NEW o \in OrderIds, NEW q \in QuoteIds,
                 ReadRepoint(s, o, q)
          PROVE  KnowsItsRows(req'[p])
      BY <1>2, <2>4, OrderRequests, FreshReads DEF ReadRepoint, Ops
    <2>5. ASSUME NEW s \in Requests, NEW o \in OrderIds, NEW op \in Transitions,
                 ReadTransition(s, o, op)
          PROVE  KnowsItsRows(req'[p])
      <3>1. orderStatus[o] # "absent"
        BY <2>5 DEF ReadTransition, CanTransition
      <3>2. QED
        BY <1>2, <2>5, <3>1, OrderRequests, TransitionTypes, FreshReads DEF ReadTransition
    <2>6. QED
      BY <1>1, <1>3, <1>5, <2>1, <2>2, <2>3, <2>4, <2>5
         DEF OrdersNext, RecordException, CommitRepoint, CommitTransition, CommitCreate
  <1>6. CASE InvoicesNext
    <2>1. ASSUME NEW s \in Requests, NEW o \in OrderIds, ReadInvoice(s, o)
          PROVE  KnowsItsRows(req'[p])
      BY <1>2, <2>1, OrderRequests, FreshReads DEF ReadInvoice, Ops
    <2>2. QED
      BY <1>1, <1>3, <1>6, <2>1 DEF InvoicesNext, MarkPaid, UnmarkPaid, CommitInvoice
  <1>7. QED
    BY <1>3, <1>4, <1>5, <1>6 DEF Next, vars

--------------------------------------------------------------------------------
(* Each part of the invariant, over every step.                            *)

LEMMA NextChains == TypeOK /\ DealInv /\ [Next]_vars => ChainsAreLinear'
  <1> SUFFICES ASSUME TypeOK, DealInv, [Next]_vars PROVE ChainsAreLinear'
    OBVIOUS
  <1>0. QuotesTypeOK /\ ChainsAreLinear /\ RowsAreComplete
    BY DEF TypeOK, DealInv
  <1>1. RowsGrow
    BY StepGrows
  <1>2. ASSUME UNCHANGED <<revisionOf, supersededBy>> PROVE ChainsAreLinear'
    BY <1>0, <1>1, <1>2 DEF ChainsAreLinear, RowsGrow, QuotesTypeOK
  <1>3. ASSUME NEW q \in QuoteIds, IssueQuote(q) PROVE ChainsAreLinear'
    <2>1. UNCHANGED <<revisionOf, supersededBy>>
      BY <1>0, <1>3 DEF IssueQuote, InsertQuote, RowsAreComplete, QuotesTypeOK
    <2>2. QED
      BY <1>2, <2>1
  <1>4. ASSUME NEW p \in Requests, NEW q \in QuoteIds, CommitRevise(p, q)
        PROVE  ChainsAreLinear'
    <2> DEFINE old == req[p].quote
    <2>1. old \in QuoteIds /\ quoteStatus[old] # "absent" /\ supersededBy[old] = NoQuote
      BY <1>4 DEF CommitRevise, DealInv, RequestsKnowTheirRows, KnowsItsRows, QuoteOps
    <2>2. /\ quoteStatus[q] = "absent"
          /\ quoteStatus' = [quoteStatus EXCEPT ![q] = "issued"]
          /\ revisionOf' = [revisionOf EXCEPT ![q] = old]
          /\ supersededBy' = [supersededBy EXCEPT ![old] = q]
      BY <1>4 DEF CommitRevise, InsertQuote
    <2>3. QED
      BY <1>0, <2>1, <2>2, QuotesAssumption
         DEF ChainsAreLinear, RowsAreComplete, QuotesTypeOK
  <1>5. CASE QuotesNext
    BY <1>2, <1>3, <1>4, <1>5
       DEF QuotesNext, Lapse, Abandon, CommitResolve, ReadRevise, ReadResolve, quoteVars
  <1>6. CASE UNCHANGED quoteVars
    BY <1>2, <1>6 DEF quoteVars
  <1>7. QED
    BY <1>5, <1>6 DEF Next, vars

LEMMA NextRows == TypeOK /\ DealInv /\ [Next]_vars => RowsAreComplete'
  <1> SUFFICES ASSUME TypeOK, DealInv, [Next]_vars PROVE RowsAreComplete'
    OBVIOUS
  <1>0. TypeOK' /\ RowsGrow /\ RowsAreComplete
    BY NextTypeOK, StepGrows DEF DealInv
  <1> DEFINE Quotes == \A q \in QuoteIds :
               quoteStatus[q] = "absent" => supersededBy[q] = NoQuote /\ revisionOf[q] = NoQuote
             Orders == \A o \in OrderIds :
               IF orderStatus[o] = "absent" THEN orderQuote[o] = NoQuote
               ELSE orderQuote[o] \in QuoteIds /\ quoteStatus[orderQuote[o]] # "absent"
             Invoices == \A i \in InvoiceIds :
               IF invoiceStatus[i] = "absent" THEN invoiceOrder[i] = NoOrder
               ELSE invoiceOrder[i] \in OrderIds /\ orderStatus[invoiceOrder[i]] # "absent"
  <1>r. \A p \in Requests : KnowsItsRows(req[p])
    BY DEF DealInv, RequestsKnowTheirRows
  <1>1. Quotes'
    <2>1. ASSUME NEW p \in Requests, NEW q \in QuoteIds, CommitRevise(p, q) PROVE Quotes'
      <3>1. req[p].quote \in QuoteIds /\ quoteStatus[req[p].quote] # "absent"
        BY <1>r, <2>1 DEF CommitRevise, KnowsItsRows, QuoteOps
      <3>2. QED
        BY <1>0, <2>1, <3>1
           DEF CommitRevise, InsertQuote, RowsAreComplete, TypeOK, QuotesTypeOK
    <2>2. ASSUME NEW q \in QuoteIds, Lapse(q) \/ IssueQuote(q) PROVE Quotes'
      BY <1>0, <2>2
         DEF Lapse, IssueQuote, InsertQuote, RowsAreComplete, TypeOK, QuotesTypeOK
    <2>3. ASSUME NEW p \in Requests, CommitResolve(p) PROVE Quotes'
      BY <1>0, <2>3 DEF CommitResolve, RowsAreComplete, TypeOK, QuotesTypeOK
    <2>4. ASSUME UNCHANGED quoteVars PROVE Quotes'
      BY <1>0, <2>4 DEF quoteVars, RowsAreComplete
    <2>5. QED
      BY <2>1, <2>2, <2>3, <2>4 DEF Next, vars, QuotesNext, Abandon, ReadRevise, ReadResolve
  <1>2. Orders'
    <2>1. ASSUME UNCHANGED <<orderStatus, orderQuote>> PROVE Orders'
      BY <1>0, <2>1 DEF RowsAreComplete, RowsGrow
    <2>2. ASSUME NEW p \in Requests, NEW o \in OrderIds, CommitCreate(p, o), UNCHANGED quoteVars
          PROVE  Orders'
      <3>1. req[p].quote \in QuoteIds /\ quoteStatus[req[p].quote] # "absent"
        BY <1>r, <2>2 DEF CommitCreate, KnowsItsRows, QuoteOps
      <3>2. QED
        BY <1>0, <2>2, <3>1
           DEF CommitCreate, quoteVars, RowsAreComplete, TypeOK, OrdersTypeOK
    <2>3. ASSUME NEW p \in Requests, CommitRepoint(p), UNCHANGED quoteVars PROVE Orders'
      <3>1. /\ req[p].order \in OrderIds /\ orderStatus[req[p].order] # "absent"
            /\ req[p].target \in QuoteIds /\ quoteStatus[req[p].target] # "absent"
        BY <1>r, <2>3 DEF CommitRepoint, KnowsItsRows, OrderOps
      <3>2. QED
        BY <1>0, <2>3, <3>1
           DEF CommitRepoint, quoteVars, RowsAreComplete, TypeOK, OrdersTypeOK
    <2>4. ASSUME NEW p \in Requests, CommitTransition(p), UNCHANGED quoteVars PROVE Orders'
      <3>1. req[p].order \in OrderIds /\ orderStatus[req[p].order] # "absent"
        BY <1>r, <2>4 DEF CommitTransition, Transitions, KnowsItsRows, OrderOps
      <3>2. StatusAfter(req[p].op) # "absent"
        BY <2>4, TransitionTypes DEF CommitTransition
      <3>3. QED
        BY <1>0, <2>4, <3>1, <3>2
           DEF CommitTransition, quoteVars, RowsAreComplete, TypeOK, OrdersTypeOK
    <2>5. QED
      BY <2>1, <2>2, <2>3, <2>4
         DEF Next, vars, orderVars, OrdersNext, RecordException, CheckDeal, CheckTarget,
             ReadCreate, ReadRepoint, ReadTransition
  <1>3. Invoices'
    <2>1. ASSUME NEW p \in Requests, NEW i \in InvoiceIds, CommitInvoice(p, i)
          PROVE  Invoices'
      <3>1. req[p].order \in OrderIds /\ orderStatus[req[p].order] # "absent"
        BY <1>r, <2>1 DEF CommitInvoice, KnowsItsRows, OrderOps
      <3>2. QED
        BY <1>0, <2>1, <3>1
           DEF CommitInvoice, RowsAreComplete, RowsGrow, TypeOK, InvoicesTypeOK
    <2>2. ASSUME NEW i \in InvoiceIds, MarkPaid(i) \/ UnmarkPaid(i) PROVE Invoices'
      BY <1>0, <2>2 DEF MarkPaid, UnmarkPaid, RowsAreComplete, RowsGrow, TypeOK, InvoicesTypeOK
    <2>3. ASSUME UNCHANGED invoiceVars PROVE Invoices'
      BY <1>0, <2>3 DEF invoiceVars, RowsAreComplete, RowsGrow
    <2>4. QED
      BY <2>1, <2>2, <2>3 DEF Next, vars, InvoicesNext, ReadInvoice
  <1>4. QED
    BY <1>1, <1>2, <1>3 DEF RowsAreComplete

LEMMA NextRequests == TypeOK /\ DealInv /\ [Next]_vars => RequestsKnowTheirRows'
  <1> SUFFICES ASSUME TypeOK, DealInv, [Next]_vars, NEW p \in Requests
               PROVE  KnowsItsRows(req[p])'
    BY DEF RequestsKnowTheirRows
  <1>1. TypeOK' /\ RowsGrow /\ KnowsItsRows(req'[p])
    BY NextTypeOK, StepGrows, StepKnows
  <1>2. PICK r \in RequestStates : r = req'[p]
    BY <1>1 DEF TypeOK, QuotesTypeOK
  <1>3. KnowsItsRows(r)'
    BY <1>1, <1>2, KnowsStable
  <1>4. QED
    BY <1>2, <1>3 DEF KnowsItsRows

(* No row disappears, so only the index's own three updates matter.        *)
LEMMA NextOrderIndex == TypeOK /\ DealInv /\ [Next]_vars => OneLiveOrderPerQuote'
  <1> SUFFICES ASSUME TypeOK, DealInv, [Next]_vars PROVE OneLiveOrderPerQuote'
    OBVIOUS
  <1>0. OrdersTypeOK /\ OneLiveOrderPerQuote
    BY DEF TypeOK, DealInv
  <1> USE DEF OneLiveOrderPerQuote, Live, IndexAllows, OrdersTypeOK
  <1>1. ASSUME UNCHANGED <<orderStatus, orderQuote>> PROVE OneLiveOrderPerQuote'
    BY <1>0, <1>1
  <1>2. ASSUME NEW p \in Requests, NEW o \in OrderIds, CommitCreate(p, o)
        PROVE  OneLiveOrderPerQuote'
    BY <1>0, <1>2 DEF CommitCreate
  <1>3. ASSUME NEW p \in Requests, CommitRepoint(p) PROVE OneLiveOrderPerQuote'
    BY <1>0, <1>3 DEF CommitRepoint
  <1>4. ASSUME NEW p \in Requests, CommitTransition(p) PROVE OneLiveOrderPerQuote'
    <2> DEFINE new == StatusAfter(req[p].op)
               o == req[p].order
    <2>1. /\ orderQuote' = orderQuote /\ orderStatus' = [orderStatus EXCEPT ![o] = new]
          /\ IndexAllows(o, new, orderQuote[o])
      BY <1>4 DEF CommitTransition
    <2>2. QED
      BY <1>0, <2>1
  <1>5. QED
    BY <1>1, <1>2, <1>3, <1>4
       DEF Next, vars, orderVars, OrdersNext, RecordException, CheckDeal, CheckTarget,
           ReadCreate, ReadRepoint, ReadTransition

LEMMA NextInvoices ==
  TypeOK /\ DealInv /\ [Next]_vars => OneInvoicePerOrder' /\ InvoiceBillsItsDeal'
  <1> SUFFICES ASSUME TypeOK, DealInv, [Next]_vars
               PROVE  OneInvoicePerOrder' /\ InvoiceBillsItsDeal'
    OBVIOUS
  <1>0. /\ TypeOK' /\ RowsGrow /\ InvoicesTypeOK /\ OneInvoicePerOrder
        /\ RowsAreComplete /\ InvoiceBillsItsDeal /\ LinearPointers
    BY NextTypeOK, StepGrows, LinearChains DEF TypeOK, DealInv
  <1>1. ASSUME NEW i \in InvoiceIds, invoiceStatus[i] # "absent"
        PROVE  invoiceQuote'[i] \in (Chain(orderQuote[invoiceOrder[i]]))'
    <2> DEFINE was == orderQuote[invoiceOrder[i]]
               is == orderQuote'[invoiceOrder[i]]
    <2>1. /\ invoiceOrder[i] \in OrderIds /\ orderStatus[invoiceOrder[i]] # "absent"
          /\ invoiceOrder'[i] = invoiceOrder[i] /\ invoiceQuote'[i] = invoiceQuote[i]
      BY <1>0, <1>1 DEF RowsAreComplete, RowsGrow
    <2>2. was \in QuoteIds /\ is \in Chain(was) /\ invoiceQuote[i] \in Chain(was)
      BY <1>0, <1>1, <2>1, OrderQuoteInChain DEF RowsGrow, InvoiceBillsItsDeal
    <2>3. is \in QuoteIds /\ was \in Chain(is)
      BY <1>0, <2>2, ChainSymmetric
    <2>4. invoiceQuote[i] \in Chain(is) /\ invoiceQuote[i] \in QuoteIds
      BY <1>0, <2>2, <2>3, ChainTransitive DEF Chain
    <2>5. QED
      BY <1>0, <2>1, <2>3, <2>4, ChainsGrow
  <1>2. ASSUME UNCHANGED <<invoiceOrder, invoiceQuote>>,
               \A i \in InvoiceIds : invoiceStatus'[i] # "absent" => invoiceStatus[i] # "absent"
        PROVE  OneInvoicePerOrder' /\ InvoiceBillsItsDeal'
    <2>1. OneInvoicePerOrder'
      BY <1>0, <1>2 DEF OneInvoicePerOrder
    <2>2. InvoiceBillsItsDeal'
      BY <1>1, <1>2 DEF InvoiceBillsItsDeal
    <2>3. QED
      BY <2>1, <2>2
  <1>3. ASSUME NEW p \in Requests, NEW i \in InvoiceIds, CommitInvoice(p, i),
               UNCHANGED <<quoteVars, orderVars>>
        PROVE  OneInvoicePerOrder' /\ InvoiceBillsItsDeal'
    <2> DEFINE r == req[p]
    <2>1. /\ r.order \in OrderIds
          /\ r.quote \in QuoteIds /\ orderQuote[r.order] \in Chain(r.quote)
      BY <1>3 DEF CommitInvoice, DealInv, RequestsKnowTheirRows, KnowsItsRows, OrderOps
    <2>2. /\ invoiceStatus[i] = "absent"
          /\ \A j \in InvoiceIds : invoiceOrder[j] # r.order
          /\ invoiceStatus' = [invoiceStatus EXCEPT ![i] = "issued"]
          /\ invoiceOrder' = [invoiceOrder EXCEPT ![i] = r.order]
          /\ invoiceQuote' = [invoiceQuote EXCEPT ![i] = r.quote]
      BY <1>3 DEF CommitInvoice
    <2>3. OneInvoicePerOrder'
      BY <1>0, <2>1, <2>2 DEF OneInvoicePerOrder, InvoicesTypeOK
    <2>4. r.quote \in Chain(orderQuote[r.order])
      BY <1>0, <2>1, ChainSymmetric
    <2>5. r.quote \in (Chain(orderQuote[invoiceOrder[i]]))'
      <3>1. /\ orderQuote' = orderQuote /\ revisionOf' = revisionOf
            /\ supersededBy' = supersededBy /\ invoiceOrder'[i] = r.order
        BY <1>0, <1>3, <2>2 DEF quoteVars, orderVars, InvoicesTypeOK
      <3>2. QED
        BY <2>4, <3>1 DEF Chain
    <2>6. \A j \in InvoiceIds : invoiceStatus'[j] # "absent" =>
            j = i \/ invoiceStatus[j] # "absent"
      BY <1>0, <2>2 DEF InvoicesTypeOK
    <2>7. invoiceQuote'[i] = r.quote
      BY <1>0, <2>2 DEF InvoicesTypeOK
    <2>8. InvoiceBillsItsDeal'
      BY <1>1, <2>5, <2>6, <2>7 DEF InvoiceBillsItsDeal
    <2>9. QED
      BY <2>3, <2>8
  <1>4. ASSUME NEW i \in InvoiceIds, MarkPaid(i) \/ UnmarkPaid(i)
        PROVE  OneInvoicePerOrder' /\ InvoiceBillsItsDeal'
    BY <1>0, <1>2, <1>4 DEF MarkPaid, UnmarkPaid, InvoicesTypeOK
  <1>5. ASSUME UNCHANGED invoiceVars PROVE OneInvoicePerOrder' /\ InvoiceBillsItsDeal'
    BY <1>2, <1>5 DEF invoiceVars
  <1>6. QED
    BY <1>3, <1>4, <1>5 DEF Next, vars, InvoicesNext, ReadInvoice

--------------------------------------------------------------------------------
(* The theorems.                                                           *)

LEMMA Inductive == Spec => [](TypeOK /\ DealInv)
  <1>1. TypeOK /\ DealInv /\ [Next]_vars => (TypeOK /\ DealInv)'
    BY NextTypeOK, NextChains, NextRows, NextRequests, NextOrderIndex, NextInvoices
       DEF DealInv
  <1>2. QED
    BY InitDeal, <1>1, PTL DEF Spec

(* Every row and request of the deals has its type, however many there are *)
(* and however they interleave.                                            *)
THEOREM DealTypeCorrect == Spec => []TypeOK
  BY Inductive, PTL

(* What conditional updates and unique indexes keep true of the deals.     *)
THEOREM DealInvariant == Spec => []DealInv
  BY Inductive, PTL

(* revise: the two pointers of the quote rows always agree, so a deal is   *)
(* one line of revisions whatever revises race.                            *)
THEOREM DealChainsAreLinear == Spec => []ChainsAreLinear
  <1>1. DealInv => ChainsAreLinear
    BY DEF DealInv
  <1>2. QED
    BY <1>1, DealInvariant, PTL

(* order_quote_active_uq: no quote ever has two live orders.               *)
THEOREM DealOneLiveOrderPerQuote == Spec => []OneLiveOrderPerQuote
  <1>1. DealInv => OneLiveOrderPerQuote
    BY DEF DealInv
  <1>2. QED
    BY <1>1, DealInvariant, PTL

(* invoice_order_active_uq: no order is ever billed twice.                 *)
THEOREM DealOneInvoicePerOrder == Spec => []OneInvoicePerOrder
  <1>1. DealInv => OneInvoicePerOrder
    BY DEF DealInv
  <1>2. QED
    BY <1>1, DealInvariant, PTL

(* issue and repoint: an invoice's basis is always a revision of the quote *)
(* its order stands on, even when the order moved after it was read.       *)
THEOREM DealInvoiceBillsItsDeal == Spec => []InvoiceBillsItsDeal
  <1>1. DealInv => InvoiceBillsItsDeal
    BY DEF DealInv
  <1>2. QED
    BY <1>1, DealInvariant, PTL

(* repoint: whatever stale target is committed, an order stays on the      *)
(* revisions of the deal it was created on.                                *)
THEOREM DealOrderStaysInDeal == Spec => OrderStaysInDeal
  <1> DEFINE Stays == \A o \in OrderIds :
               orderStatus[o] # "absent" => orderQuote'[o] \in Chain(orderQuote[o])
  <1>1. TypeOK /\ DealInv /\ [Next]_vars => [Stays]_vars
    BY StepGrows DEF RowsGrow
  <1>2. QED
    BY <1>1, Inductive, PTL DEF Spec, OrderStaysInDeal

--------------------------------------------------------------------------------
(* One request at a time on each deal: what a request has read still holds *)
(* when it commits, whatever is done to other deals, and the guards of the *)
(* services are exact.                                                     *)

NoOtherOrder(q) ==
  \A o \in OrderIds : Live(o) => orderQuote[o] \notin Chain(q) \ {q}

ReadStands(r) ==
  /\ r.op \in {"accept", "decline"} =>
       quoteStatus[r.quote] = "issued" /\ supersededBy[r.quote] = NoQuote
  /\ r.op \in {"create", "create_checked"} => quoteStatus[r.quote] = "accepted"
  /\ r.op = "create_checked" => NoOtherOrder(r.quote)
  /\ r.op \in {"repoint", "repoint_checked"} =>
       orderStatus[r.order] = "confirmed" /\ orderQuote[r.order] = r.quote
  /\ r.op = "repoint_checked" => quoteStatus[r.target] = "accepted"
  /\ r.op \in Transitions =>
       CanTransition(r.op, orderStatus[r.order]) /\ r.was = orderStatus[r.order]
  /\ r.op = "invoice" => Live(r.order) /\ orderQuote[r.order] = r.quote

ReadsStand == \A p \in Requests : ReadStands(req[p])

(* An order whose production started is in it, or through with it, or has  *)
(* been written off.                                                       *)
StartedIsAccounted ==
  \A o \in OrderIds :
    <<o, "order.production_started">> \in emitted =>
      orderStatus[o] \in {"in_production", "completed"} \/ o \in exceptions

SerialInv ==
  /\ ReadsStand
  /\ OrdersRestOnAcceptance
  /\ StartedIsAccounted
  /\ OneLiveOrderPerDeal

(* A step links existing quotes to new ones only, and new ones to none.    *)
LinksForward ==
  \A x \in QuoteIds :
    IF quoteStatus[x] = "absent" THEN supersededBy'[x] = NoQuote
    ELSE supersededBy'[x] = supersededBy[x]
           \/ (supersededBy'[x] \in QuoteIds /\ quoteStatus[supersededBy'[x]] = "absent")

(* So no step joins two deals.                                             *)
LEMMA DealsNeverMerge ==
  ASSUME TypeOK, DealInv, TypeOK', DealInv', LinksForward,
         NEW x \in QuoteIds, NEW y \in QuoteIds,
         quoteStatus[x] # "absent", quoteStatus[y] # "absent", y \in Chain(x)'
  PROVE  y \in Chain(x)
  <1>1. LinearPointers /\ LinearPointers'
    BY DEF TypeOK, DealInv, QuotesTypeOK, ChainsAreLinear, LinearPointers, Undoes, Pointers
  <1>2. ASSUME NEW q \in QuoteIds, NEW r \in QuoteIds,
               quoteStatus[q] # "absent", quoteStatus[r] # "absent", Reaches(supersededBy', q, r)
        PROVE  Reaches(supersededBy, q, r)
    <2> SUFFICES ASSUME NEW S \in SUBSET QuoteIds, q \in S,
                        \A z \in S : supersededBy[z] \in S \union {NoQuote}
                 PROVE  r \in S
      BY DEF Reaches
    <2> DEFINE New == {z \in QuoteIds : quoteStatus[z] = "absent"}
    <2>1. \A z \in S \union New : supersededBy'[z] \in (S \union New) \union {NoQuote}
      BY DEF LinksForward
    <2>2. S \union New \in SUBSET QuoteIds /\ q \in S \union New
      OBVIOUS
    <2>3. r \in S \union New
      <3> HIDE DEF New
      <3>1. QED
        BY <1>2, <2>1, <2>2 DEF Reaches
    <2>4. QED
      BY <1>2, <2>3
  <1>3. Chain(x)' = {r \in QuoteIds : Reaches(revisionOf', x, r) \/ Reaches(supersededBy', x, r)}
    BY DEF Chain
  <1>4. Reaches(supersededBy', x, y) \/ Reaches(supersededBy', y, x)
    <2>1. revisionOf' \in Pointers /\ supersededBy' \in Pointers /\ Undoes(revisionOf', supersededBy')
      BY <1>1 DEF LinearPointers, Undoes
    <2>2. QED
      BY <1>3, <2>1, ReachesBack
  <1>5. QED
    BY <1>1, <1>2, <1>4, ChainByForward

(* Nor does it bring two live orders into one, unless it moves an order.   *)
LEMMA DealsStayApart ==
  ASSUME TypeOK, DealInv, TypeOK', DealInv', SerialInv, LinksForward,
         UNCHANGED <<orderStatus, orderQuote>>
  PROVE  OneLiveOrderPerDeal'
  <1> SUFFICES ASSUME NEW o1 \in OrderIds, NEW o2 \in OrderIds, Live(o1)', Live(o2)',
                      orderQuote[o2] \in Chain(orderQuote[o1])'
               PROVE  o1 = o2
    BY DEF OneLiveOrderPerDeal
  <1>1. Live(o1) /\ Live(o2) /\ orderStatus[o1] # "absent" /\ orderStatus[o2] # "absent"
    BY DEF Live
  <1>2. orderQuote[o2] \in Chain(orderQuote[o1])
    BY <1>1, DealsNeverMerge DEF DealInv, RowsAreComplete
  <1>3. QED
    BY <1>1, <1>2 DEF SerialInv, OneLiveOrderPerDeal

(* Orders and requests at rest: the step is about quotes at most.          *)
LEMMA QuietStep ==
  ASSUME TypeOK, DealInv, TypeOK', DealInv', SerialInv, LinksForward,
         UNCHANGED <<req, orderStatus, orderQuote, emitted>>,
         exceptions \subseteq exceptions',
         \A q \in QuoteIds : quoteStatus[q] # "absent" =>
           quoteStatus'[q] = quoteStatus[q] /\ supersededBy'[q] = supersededBy[q]
  PROVE  SerialInv'
  <1>1. \A o \in OrderIds : orderStatus[o] # "absent" =>
          orderQuote[o] \in QuoteIds /\ quoteStatus[orderQuote[o]] # "absent"
    BY DEF DealInv, RowsAreComplete
  <1>2. OrdersRestOnAcceptance'
    BY <1>1 DEF SerialInv, OrdersRestOnAcceptance
  <1>3. StartedIsAccounted'
    BY DEF SerialInv, StartedIsAccounted
  <1>4. OneLiveOrderPerDeal'
    BY DealsStayApart
  <1>5. ASSUME NEW p \in Requests
        PROVE  ReadStands(req[p])'
    <2>0. PICK r \in RequestStates : r = req[p] /\ r = req'[p]
      BY DEF TypeOK, QuotesTypeOK
    <2>1. ReadStands(r) /\ KnowsItsRows(r)
      BY <2>0 DEF SerialInv, ReadsStand, DealInv, RequestsKnowTheirRows
    <2>3. r.op = "create_checked" => NoOtherOrder(r.quote)'
      <3> SUFFICES ASSUME r.op = "create_checked", NEW o \in OrderIds, Live(o)',
                          orderQuote[o] \in Chain(r.quote)'
                   PROVE  orderQuote[o] = r.quote
        BY DEF NoOtherOrder
      <3>1. Live(o) /\ orderStatus[o] # "absent"
        BY DEF Live
      <3>2. r.quote \in QuoteIds /\ quoteStatus[r.quote] # "absent"
        BY <2>1 DEF KnowsItsRows, QuoteOps
      <3>3. orderQuote[o] \in Chain(r.quote)
        BY <1>1, <3>1, <3>2, DealsNeverMerge
      <3>4. QED
        BY <2>1, <3>1, <3>3 DEF ReadStands, NoOtherOrder
    <2>4. ReadStands(r)'
      BY <2>1, <2>3 DEF ReadStands, KnowsItsRows, QuoteOps, OrderOps, Live
    <2>5. QED
      BY <2>0, <2>4 DEF ReadStands, NoOtherOrder, Live
  <1>6. QED
    BY <1>2, <1>3, <1>4, <1>5 DEF SerialInv, ReadsStand

(* A request moves on, and leaves the rows and the others as they were.    *)
LEMMA ReadStep ==
  ASSUME TypeOK, SerialInv, NEW p \in Requests, UNCHANGED <<quoteVars, orderVars>>,
         \A s \in Requests : s # p => req'[s] = req[s],
         ReadStands(req'[p])
  PROVE  SerialInv'
  <1>1. \A s \in Requests : ReadStands(req'[s])
    BY DEF SerialInv, ReadsStand
  <1>2. ReadsStand'
    BY <1>1
       DEF ReadsStand, ReadStands, NoOtherOrder, Chain, Live, quoteVars, orderVars
  <1>3. QED
    BY <1>2
       DEF SerialInv, OrdersRestOnAcceptance, StartedIsAccounted, OneLiveOrderPerDeal, Chain,
           Live, quoteVars, orderVars

LEMMA IdleStands == ReadStands(IdleRequest) /\ ReadStands(IdleRequest)'
  BY DEF ReadStands, IdleRequest, Transitions

(* The step leaves the deal of q alone: its quotes and orders stay as they *)
(* are, and no order comes to it.                                          *)
DealRests(q) ==
  /\ \A x \in Chain(q) : quoteStatus[x] # "absent" =>
       quoteStatus'[x] = quoteStatus[x] /\ supersededBy'[x] = supersededBy[x]
  /\ \A o \in OrderIds : orderStatus[o] # "absent" /\ orderQuote[o] \in Chain(q) =>
       orderStatus'[o] = orderStatus[o] /\ orderQuote'[o] = orderQuote[o]
  /\ \A o \in OrderIds : orderStatus'[o] # "absent" /\ orderQuote'[o] \in Chain(q)' =>
       orderStatus[o] # "absent" /\ orderQuote[o] \in Chain(q)

(* What was read of a deal stands while the deal rests.                    *)
LEMMA RestingReads ==
  ASSUME TypeOK, DealInv, NEW r \in RequestStates, KnowsItsRows(r), ReadStands(r),
         DealRests(r.quote)
  PROVE  ReadStands(r)'
  <1>0. LinearPointers
    BY LinearChains DEF TypeOK, DealInv
  <1>1. r.op \in QuoteOps =>
          /\ r.quote \in QuoteIds
          /\ quoteStatus'[r.quote] = quoteStatus[r.quote]
          /\ supersededBy'[r.quote] = supersededBy[r.quote]
    BY <1>0, ChainReflexive DEF KnowsItsRows, DealRests
  <1>2. r.op \in OrderOps =>
          /\ orderStatus'[r.order] = orderStatus[r.order]
          /\ orderQuote'[r.order] = orderQuote[r.order]
    BY DEF KnowsItsRows, DealRests
  <1>3. r.op = "repoint_checked" => quoteStatus'[r.target] = quoteStatus[r.target]
    <2> SUFFICES ASSUME r.op = "repoint_checked"
                 PROVE  quoteStatus'[r.target] = quoteStatus[r.target]
      OBVIOUS
    <2>1. r.target \in Chain(r.quote) /\ quoteStatus[r.target] # "absent"
      BY DEF KnowsItsRows, Chain
    <2>2. QED
      BY <2>1 DEF DealRests
  <1>4. r.op = "create_checked" => NoOtherOrder(r.quote)'
    <2> SUFFICES ASSUME r.op = "create_checked", NEW o \in OrderIds, Live(o)',
                        (orderQuote[o] \in Chain(r.quote))'
                 PROVE  orderQuote'[o] = r.quote
      BY DEF NoOtherOrder
    <2>1. orderStatus[o] # "absent" /\ orderQuote[o] \in Chain(r.quote)
      BY DEF Live, DealRests
    <2>2. orderStatus'[o] = orderStatus[o] /\ orderQuote'[o] = orderQuote[o]
      BY <2>1 DEF DealRests
    <2>3. QED
      BY <2>1, <2>2 DEF ReadStands, NoOtherOrder, Live
  <1>5. QED
    BY <1>1, <1>2, <1>3, <1>4 DEF ReadStands, QuoteOps, OrderOps, Transitions, Live

(* Every request is about a quote that exists.                             *)
LEMMA RequestsAreAboutQuotes ==
  ASSUME TypeOK, DealInv, NEW p \in Requests, req[p].op # "idle"
  PROVE  req[p].quote \in QuoteIds /\ quoteStatus[req[p].quote] # "absent"
  <1> DEFINE q == req[p].quote
  <1>0. KnowsItsRows(req[p]) /\ req[p] \in RequestStates
    BY DEF DealInv, RequestsKnowTheirRows, TypeOK, QuotesTypeOK
  <1>1. CASE req[p].op \in QuoteOps
    BY <1>0, <1>1 DEF KnowsItsRows
  <1>2. CASE req[p].op \in OrderOps
    <2> DEFINE s == orderQuote[req[p].order]
    <2>1. q \in QuoteIds /\ s \in Chain(q) /\ s \in QuoteIds /\ quoteStatus[s] # "absent"
      BY <1>0, <1>2 DEF KnowsItsRows, DealInv, RowsAreComplete
    <2> HIDE DEF s
    <2>2. CASE quoteStatus[q] = "absent"
      <3>1. supersededBy[q] = NoQuote /\ revisionOf[q] = NoQuote
        BY <2>1, <2>2 DEF DealInv, RowsAreComplete
      <3>2. s \in {q}
        <4> HIDE DEF q
        <4>1. Reaches(revisionOf, q, s) \/ Reaches(supersededBy, q, s)
          BY <2>1 DEF Chain
        <4>2. {q} \in SUBSET QuoteIds
          BY <2>1
        <4>3. QED
          BY <3>1, <4>1, <4>2 DEF Reaches
      <3>3. QED
        BY <2>1, <2>2, <3>2
    <2>3. QED
      BY <2>1, <2>2
  <1>3. QED
    BY <1>0, <1>1, <1>2 DEF RequestStates, Ops, QuoteOps, OrderOps

(* So a commit leaves the other requests alone that disturbs no deal but   *)
(* its own.                                                                *)
LEMMA OtherReadsStand ==
  ASSUME DealsAreSerial, TypeOK, DealInv, SerialInv, NEW p \in Requests,
         req[p].op # "idle", Closes(p),
         \A y \in QuoteIds :
           quoteStatus[y] # "absent" /\ y \notin Chain(req[p].quote) => DealRests(y)
  PROVE  ReadsStand'
  <1> SUFFICES ASSUME NEW s \in Requests PROVE ReadStands(req[s])'
    BY DEF ReadsStand
  <1>0. req \in [Requests -> RequestStates]
    BY DEF TypeOK, QuotesTypeOK
  <1>1. CASE s = p
    <2>1. req'[s] = IdleRequest
      BY <1>0, <1>1 DEF Closes
    <2>2. QED
      BY <2>1 DEF ReadStands, IdleRequest, Transitions
  <1>2. CASE s # p
    <2>1. PICK r \in RequestStates : r = req[s] /\ r = req'[s]
      BY <1>0, <1>2 DEF Closes
    <2>2. ReadStands(r) /\ KnowsItsRows(r)
      BY <2>1 DEF SerialInv, ReadsStand, DealInv, RequestsKnowTheirRows
    <2>3. CASE r.op = "idle"
      BY <2>1, <2>3 DEF ReadStands, Transitions
    <2>4. CASE r.op # "idle"
      <3>1. req[p] # IdleRequest /\ req[s] # IdleRequest
        BY <2>1, <2>4 DEF IdleRequest
      <3>2. r.quote \in QuoteIds /\ quoteStatus[r.quote] # "absent"
        BY <2>1, <2>4, RequestsAreAboutQuotes
      <3>3. DealRests(r.quote)
        BY <1>2, <2>1, <3>1, <3>2 DEF DealsAreSerial
      <3>4. ReadStands(r)'
        BY <2>2, <3>3, RestingReads
      <3>5. QED
        BY <2>1, <3>4 DEF ReadStands, NoOtherOrder
    <2>5. QED
      BY <2>3, <2>4
  <1>3. QED
    BY <1>1, <1>2

(* The step gives no row a pointer, or the new revision's.                 *)
LEMMA StepLinksForward == TypeOK /\ DealInv /\ [Next]_vars => LinksForward
  <1> SUFFICES ASSUME TypeOK, DealInv, [Next]_vars PROVE LinksForward
    OBVIOUS
  <1>0. QuotesTypeOK /\ RowsAreComplete
    BY DEF TypeOK, DealInv
  <1>1. ASSUME UNCHANGED supersededBy PROVE LinksForward
    BY <1>0, <1>1 DEF LinksForward, RowsAreComplete
  <1>2. ASSUME NEW p \in Requests, NEW q \in QuoteIds, CommitRevise(p, q) PROVE LinksForward
    <2>1. req[p].quote \in QuoteIds /\ quoteStatus[req[p].quote] # "absent"
      BY <1>2 DEF CommitRevise, DealInv, RequestsKnowTheirRows, KnowsItsRows, QuoteOps
    <2>2. QED
      BY <1>0, <1>2, <2>1
         DEF CommitRevise, InsertQuote, LinksForward, RowsAreComplete, QuotesTypeOK
  <1>3. QED
    BY <1>1, <1>2
       DEF Next, vars, QuotesNext, Lapse, IssueQuote, Abandon, CommitResolve, ReadRevise,
           ReadResolve, quoteVars

--------------------------------------------------------------------------------
(* The commits.                                                            *)

(* An open offer has no order, so its answer takes none away.              *)
LEMMA ResolveStep ==
  ASSUME DealsAreSerial, TypeOK, DealInv, SerialInv, NEW p \in Requests, CommitResolve(p),
         UNCHANGED orderVars
  PROVE  SerialInv'
  <1> DEFINE r == req[p]
  <1>1. /\ r.op \in {"accept", "decline"}
        /\ r.quote \in QuoteIds /\ quoteStatus[r.quote] = "issued"
    BY DEF CommitResolve, SerialInv, ReadsStand, ReadStands, DealInv, RequestsKnowTheirRows,
           KnowsItsRows, QuoteOps
  <1>2. /\ Closes(p) /\ UNCHANGED <<revisionOf, supersededBy>>
        /\ \A q \in QuoteIds : q # r.quote => quoteStatus'[q] = quoteStatus[q]
    BY DEF CommitResolve, TypeOK, QuotesTypeOK
  <1>3. OrdersRestOnAcceptance'
    <2> SUFFICES ASSUME NEW o \in OrderIds, orderStatus[o] # "absent"
                 PROVE  quoteStatus'[orderQuote[o]] = "accepted"
      BY DEF OrdersRestOnAcceptance, orderVars
    <2>1. orderQuote[o] \in QuoteIds /\ quoteStatus[orderQuote[o]] = "accepted"
      BY DEF SerialInv, OrdersRestOnAcceptance, DealInv, RowsAreComplete
    <2>2. QED
      BY <1>1, <1>2, <2>1
  <1>4. StartedIsAccounted' /\ OneLiveOrderPerDeal'
    BY <1>2 DEF SerialInv, StartedIsAccounted, OneLiveOrderPerDeal, Chain, Live, orderVars
  <1>5. ASSUME NEW y \in QuoteIds, y \notin Chain(r.quote) PROVE DealRests(y)
    <2>1. LinearPointers
      BY LinearChains DEF TypeOK, DealInv
    <2>2. r.quote \notin Chain(y)
      BY <1>1, <1>5, <2>1, ChainSymmetric
    <2>3. Chain(y)' = Chain(y)
      BY <1>2 DEF Chain
    <2>4. QED
      BY <1>2, <2>2, <2>3 DEF DealRests, Chain, orderVars
  <1>6. ReadsStand'
    BY <1>1, <1>2, <1>5, OtherReadsStand
  <1>7. QED
    BY <1>3, <1>4, <1>6 DEF SerialInv

(* The new revision is a quote no order stands on yet.                     *)
LEMMA ReviseStep ==
  ASSUME DealsAreSerial, TypeOK, DealInv, TypeOK', DealInv', SerialInv, LinksForward,
         NEW p \in Requests, NEW q \in QuoteIds, CommitRevise(p, q), UNCHANGED orderVars
  PROVE  SerialInv'
  <1>1. \A o \in OrderIds : orderStatus[o] # "absent" =>
          orderQuote[o] \in QuoteIds /\ quoteStatus[orderQuote[o]] # "absent"
    BY DEF DealInv, RowsAreComplete
  <1>2. /\ Closes(p) /\ quoteStatus[q] = "absent"
        /\ \A x \in QuoteIds : x # q => quoteStatus'[x] = quoteStatus[x]
    BY DEF CommitRevise, InsertQuote, TypeOK, QuotesTypeOK
  <1>3. OrdersRestOnAcceptance'
    BY <1>1, <1>2 DEF SerialInv, OrdersRestOnAcceptance, orderVars
  <1>4. StartedIsAccounted'
    BY DEF SerialInv, StartedIsAccounted, orderVars
  <1>5. OneLiveOrderPerDeal'
    BY <1>1, DealsStayApart DEF orderVars
  <1> DEFINE old == req[p].quote
  <1>6. /\ req[p].op = "revise" /\ old \in QuoteIds /\ quoteStatus[old] # "absent"
        /\ \A x \in QuoteIds : x # old => supersededBy'[x] = supersededBy[x]
    BY DEF CommitRevise, TypeOK, QuotesTypeOK, DealInv, RequestsKnowTheirRows, KnowsItsRows,
           QuoteOps
  <1> HIDE DEF old
  <1>7. ASSUME NEW y \in QuoteIds, quoteStatus[y] # "absent", y \notin Chain(old)
        PROVE  DealRests(y)
    <2>1. old \notin Chain(y)
      BY <1>6, <1>7, LinearChains, ChainSymmetric DEF TypeOK, DealInv
    <2>2. \A x \in Chain(y) : quoteStatus[x] # "absent" =>
            quoteStatus'[x] = quoteStatus[x] /\ supersededBy'[x] = supersededBy[x]
      BY <1>2, <1>6, <2>1 DEF Chain
    <2>3. \A o \in OrderIds :
            orderStatus'[o] # "absent" /\ orderQuote'[o] \in Chain(y)' =>
              orderStatus[o] # "absent" /\ orderQuote[o] \in Chain(y)
      BY <1>1, <1>7, DealsNeverMerge DEF orderVars
    <2>4. QED
      BY <2>2, <2>3 DEF DealRests, orderVars
  <1>8. ReadsStand'
    BY <1>2, <1>6, <1>7, OtherReadsStand DEF old
  <1>9. QED
    BY <1>3, <1>4, <1>5, <1>8 DEF SerialInv

(* The deal was looked at, and the index looks at the quote itself.        *)
LEMMA CreateStep ==
  ASSUME DealsAreSerial, TypeOK, DealInv, SerialInv, NEW p \in Requests, NEW n \in OrderIds,
         CommitCreate(p, n), UNCHANGED quoteVars
  PROVE  SerialInv'
  <1> DEFINE q == req[p].quote
  <1>1. /\ q \in QuoteIds /\ quoteStatus[q] = "accepted" /\ NoOtherOrder(q)
    BY DEF CommitCreate, SerialInv, ReadsStand, ReadStands, DealInv, RequestsKnowTheirRows,
           KnowsItsRows, QuoteOps
  <1>2. /\ Closes(p) /\ orderStatus[n] = "absent" /\ UNCHANGED exceptions
        /\ orderStatus' = [orderStatus EXCEPT ![n] = "confirmed"]
        /\ orderQuote' = [orderQuote EXCEPT ![n] = q]
        /\ emitted' = emitted \union {<<n, "order.confirmed">>}
    BY DEF CommitCreate
  <1>3. \A other \in OrderIds \ {n} : Live(other) => orderQuote[other] # q
    BY DEF CommitCreate, IndexAllows
  <1> HIDE DEF q
  <1>4. OrdersRestOnAcceptance'
    BY <1>1, <1>2 DEF SerialInv, OrdersRestOnAcceptance, quoteVars, TypeOK, OrdersTypeOK
  <1>5. StartedIsAccounted'
    BY <1>2 DEF SerialInv, StartedIsAccounted, TypeOK, OrdersTypeOK
  <1>6. ASSUME NEW o \in OrderIds, o # n, Live(o)
        PROVE  orderQuote[o] \notin Chain(q) /\ q \notin Chain(orderQuote[o])
    <2>1. orderQuote[o] \notin Chain(q)
      BY <1>1, <1>3, <1>6 DEF NoOtherOrder
    <2>2. orderQuote[o] \in QuoteIds /\ LinearPointers
      BY <1>6, LinearChains DEF Live, TypeOK, DealInv, RowsAreComplete
    <2>3. QED
      BY <2>1, <2>2, ChainSymmetric
  <1>7. OneLiveOrderPerDeal'
    <2> SUFFICES ASSUME NEW o1 \in OrderIds, NEW o2 \in OrderIds, Live(o1)', Live(o2)',
                        (orderQuote[o2] \in Chain(orderQuote[o1]))'
                 PROVE  o1 = o2
      BY DEF OneLiveOrderPerDeal
    <2>1. orderQuote'[o2] \in Chain(orderQuote'[o1])
      BY DEF Chain, quoteVars
    <2>2. \A o \in OrderIds : o # n =>
            orderQuote'[o] = orderQuote[o] /\ (Live(o)' => Live(o))
      BY <1>2 DEF Live, TypeOK, OrdersTypeOK
    <2>3. orderQuote'[n] = q
      BY <1>2 DEF TypeOK, OrdersTypeOK
    <2>4. QED
      BY <1>6, <2>1, <2>2, <2>3 DEF SerialInv, OneLiveOrderPerDeal
  <1>8. ASSUME NEW y \in QuoteIds, y \notin Chain(q) PROVE DealRests(y)
    <2>1. q \notin Chain(y)
      BY <1>1, <1>8, LinearChains, ChainSymmetric DEF TypeOK, DealInv
    <2>2. Chain(y)' = Chain(y) /\ UNCHANGED <<quoteStatus, supersededBy>>
      BY DEF Chain, quoteVars
    <2>3. \A o \in OrderIds :
            IF o = n THEN orderStatus[o] = "absent" /\ orderQuote'[o] = q
            ELSE orderStatus'[o] = orderStatus[o] /\ orderQuote'[o] = orderQuote[o]
      BY <1>2 DEF TypeOK, OrdersTypeOK
    <2>4. QED
      BY <2>1, <2>2, <2>3 DEF DealRests
  <1>9. req[p].op # "idle"
    BY DEF CommitCreate
  <1>10. ReadsStand'
    BY <1>2, <1>8, <1>9, OtherReadsStand DEF q
  <1>11. QED
    BY <1>4, <1>5, <1>7, <1>10 DEF SerialInv

(* A repoint stays in the deal, of which its order is the only one.        *)
LEMMA RepointStep ==
  ASSUME DealsAreSerial, TypeOK, DealInv, SerialInv, NEW p \in Requests, CommitRepoint(p),
         UNCHANGED quoteVars
  PROVE  SerialInv'
  <1> DEFINE n == req[p].order
             t == req[p].target
  <1>1. /\ n \in OrderIds /\ orderStatus[n] = "confirmed"
        /\ t \in QuoteIds /\ quoteStatus[t] = "accepted"
        /\ orderQuote[n] \in QuoteIds /\ Reaches(supersededBy, orderQuote[n], t)
    BY DEF CommitRepoint, SerialInv, ReadsStand, ReadStands, DealInv, RequestsKnowTheirRows,
           KnowsItsRows, OrderOps
  <1>2. /\ Closes(p) /\ UNCHANGED <<orderStatus, emitted, exceptions>>
        /\ orderQuote' = [orderQuote EXCEPT ![n] = t]
    BY DEF CommitRepoint
  <1> HIDE DEF n, t
  <1>3. OrdersRestOnAcceptance'
    BY <1>1, <1>2 DEF SerialInv, OrdersRestOnAcceptance, quoteVars, TypeOK, OrdersTypeOK
  <1>4. StartedIsAccounted'
    BY <1>2 DEF SerialInv, StartedIsAccounted
  <1>5. LinearPointers /\ t \in Chain(orderQuote[n]) /\ orderQuote[n] \in Chain(t)
    BY <1>1, LinearChains, ChainSymmetric DEF Chain, TypeOK, DealInv
  <1>6. ASSUME NEW o \in OrderIds, o # n, Live(o)
        PROVE  orderQuote[o] \notin Chain(t) /\ t \notin Chain(orderQuote[o])
    <2>1. Live(n) /\ orderQuote[o] \in QuoteIds
      BY <1>1, <1>6 DEF Live, DealInv, RowsAreComplete
    <2>2. /\ orderQuote[o] \notin Chain(orderQuote[n])
          /\ orderQuote[n] \notin Chain(orderQuote[o])
      BY <1>1, <1>6, <2>1 DEF SerialInv, OneLiveOrderPerDeal
    <2>3. QED
      BY <1>1, <1>5, <2>1, <2>2, ChainTransitive
  <1>7. OneLiveOrderPerDeal'
    <2> SUFFICES ASSUME NEW o1 \in OrderIds, NEW o2 \in OrderIds, Live(o1)', Live(o2)',
                        (orderQuote[o2] \in Chain(orderQuote[o1]))'
                 PROVE  o1 = o2
      BY DEF OneLiveOrderPerDeal
    <2>1. orderQuote'[o2] \in Chain(orderQuote'[o1]) /\ Live(o1) /\ Live(o2)
      BY <1>2 DEF Chain, quoteVars, Live
    <2>2. /\ orderQuote'[n] = t
          /\ \A o \in OrderIds : o # n => orderQuote'[o] = orderQuote[o]
      BY <1>1, <1>2 DEF TypeOK, OrdersTypeOK
    <2>3. QED
      BY <1>6, <2>1, <2>2 DEF SerialInv, OneLiveOrderPerDeal
  <1>8. req[p].op # "idle" /\ req[p].quote = orderQuote[n]
    BY DEF CommitRepoint, SerialInv, ReadsStand, ReadStands, n
  <1>9. ASSUME NEW y \in QuoteIds, y \notin Chain(orderQuote[n]) PROVE DealRests(y)
    <2>1. orderQuote[n] \notin Chain(y) /\ t \notin Chain(y)
      BY <1>1, <1>5, <1>9, ChainSymmetric, ChainTransitive
    <2>2. Chain(y)' = Chain(y) /\ UNCHANGED <<quoteStatus, supersededBy>>
      BY DEF Chain, quoteVars
    <2>3. \A o \in OrderIds :
            IF o = n THEN orderQuote'[o] = t ELSE orderQuote'[o] = orderQuote[o]
      BY <1>2 DEF TypeOK, OrdersTypeOK
    <2>4. QED
      BY <1>2, <2>1, <2>2, <2>3 DEF DealRests
  <1>10. ReadsStand'
    BY <1>2, <1>8, <1>9, OtherReadsStand
  <1>11. QED
    BY <1>3, <1>4, <1>7, <1>10 DEF SerialInv

(* The transition is the one the order's status allows, so no order comes  *)
(* back to life and the cut material of a cancelled one is accounted for.  *)
LEMMA TransitionStep ==
  ASSUME DealsAreSerial, TypeOK, DealInv, SerialInv, NEW p \in Requests, CommitTransition(p),
         UNCHANGED quoteVars
  PROVE  SerialInv'
  <1> DEFINE r == req[p]
             n == req[p].order
             new == StatusAfter(req[p].op)
  <1>1. /\ r.op \in Transitions /\ n \in OrderIds
        /\ CanTransition(r.op, orderStatus[n]) /\ r.was = orderStatus[n]
    BY DEF CommitTransition, SerialInv, ReadsStand, ReadStands, DealInv, RequestsKnowTheirRows,
           KnowsItsRows, OrderOps, Transitions
  <1>2. /\ Closes(p) /\ UNCHANGED orderQuote
        /\ orderStatus' = [orderStatus EXCEPT ![n] = new]
        /\ emitted' = emitted \union {<<n, EventOf(r.op)>>}
        /\ exceptions' = exceptions \union Stranded(r)
    BY DEF CommitTransition
  <1>3. /\ Live(n) /\ orderStatus[n] # "absent"
        /\ \/ r.op = "start" /\ new = "in_production"
           \/ r.op = "complete" /\ new = "completed" /\ EventOf(r.op) = "order.completed"
           \/ /\ r.op = "cancel" /\ new = "cancelled" /\ EventOf(r.op) = "order.cancelled"
              /\ orderStatus[n] = "in_production" => n \in Stranded(r)
              /\ orderStatus[n] \in {"confirmed", "in_production"}
    BY <1>1 DEF CanTransition, StatusAfter, EventOf, Stranded, Live, Transitions
  <1> HIDE DEF r, n, new
  <1>4. OrdersRestOnAcceptance'
    BY <1>1, <1>2, <1>3
       DEF SerialInv, OrdersRestOnAcceptance, quoteVars, TypeOK, OrdersTypeOK
  <1>5. ASSUME NEW o \in OrderIds, <<o, "order.production_started">> \in emitted'
        PROVE  orderStatus'[o] \in {"in_production", "completed"} \/ o \in exceptions'
    <2>1. CASE o # n
      BY <1>2, <1>5, <2>1 DEF SerialInv, StartedIsAccounted, TypeOK, OrdersTypeOK
    <2>2. CASE o = n
      <3>1. orderStatus'[n] = new
        BY <1>1, <1>2 DEF TypeOK, OrdersTypeOK
      <3>2. CASE new \in {"in_production", "completed"}
        BY <2>2, <3>1, <3>2
      <3>3. CASE r.op = "cancel" /\ new = "cancelled" /\ EventOf(r.op) = "order.cancelled"
        <4>1. <<n, "order.production_started">> \in emitted
          BY <1>2, <1>5, <2>2, <3>3
        <4>2. orderStatus[n] = "in_production" \/ n \in exceptions
          BY <1>1, <1>3, <3>3, <4>1 DEF SerialInv, StartedIsAccounted
        <4>3. QED
          BY <1>2, <1>3, <2>2, <3>3, <4>2
      <3>4. QED
        BY <1>3, <3>2, <3>3
    <2>3. QED
      BY <2>1, <2>2
  <1>6. OneLiveOrderPerDeal'
    <2>1. \A o \in OrderIds : Live(o)' => Live(o)
      BY <1>1, <1>2, <1>3 DEF Live, TypeOK, OrdersTypeOK
    <2>2. QED
      BY <1>2, <2>1 DEF SerialInv, OneLiveOrderPerDeal, Chain, quoteVars
  <1>7. r.op # "idle" /\ r.quote \in QuoteIds /\ orderQuote[n] \in Chain(r.quote)
    BY <1>1 DEF r, n, DealInv, RequestsKnowTheirRows, KnowsItsRows, OrderOps, Transitions
  <1>8. ASSUME NEW y \in QuoteIds, y \notin Chain(r.quote) PROVE DealRests(y)
    <2>1. orderQuote[n] \notin Chain(y)
      BY <1>7, <1>8, LinearChains, ChainSymmetric, ChainTransitive DEF TypeOK, DealInv
    <2>2. Chain(y)' = Chain(y) /\ UNCHANGED <<quoteStatus, supersededBy>>
      BY DEF Chain, quoteVars
    <2>3. \A o \in OrderIds : o # n => orderStatus'[o] = orderStatus[o]
      BY <1>2 DEF TypeOK, OrdersTypeOK
    <2>4. QED
      BY <1>2, <2>1, <2>2, <2>3 DEF DealRests
  <1>9. ReadsStand'
    BY <1>2, <1>7, <1>8, OtherReadsStand DEF r
  <1>10. QED
    BY <1>4, <1>5, <1>6, <1>9 DEF SerialInv, StartedIsAccounted

--------------------------------------------------------------------------------
(* Every step while the deals are serial.                                  *)

(* What a request reads is so when it reads it.                            *)
LEMMA ReadsAreFresh ==
  ASSUME TypeOK, DealInv, SerialInv, UNCHANGED <<quoteVars, orderVars>>,
         NEW p \in Requests,
         \/ Abandon(p) \/ CheckDeal(p) \/ CheckTarget(p)
         \/ \E q \in QuoteIds :
              \/ ReadRevise(p, q) \/ ReadCreate(p, q)
              \/ \E op \in {"accept", "decline"} : ReadResolve(p, q, op)
         \/ \E o \in OrderIds :
              \/ ReadInvoice(p, o)
              \/ \E q \in QuoteIds : ReadRepoint(p, o, q)
              \/ \E op \in Transitions : ReadTransition(p, o, op)
         \/ \E i \in InvoiceIds : CommitInvoice(p, i)
  PROVE  SerialInv'
  <1>0. req \in [Requests -> RequestStates] /\ ReadStands(req[p])
    BY DEF TypeOK, QuotesTypeOK, SerialInv, ReadsStand
  <1> DEFINE Alone == \A s \in Requests : s # p => req'[s] = req[s]
  <1>9. Alone
    <2>1. Closes(p) => Alone
      BY <1>0 DEF Closes
    <2>2. \A r : Opens(p, r) => Alone
      BY <1>0 DEF Opens
    <2>3. \A op : GoesOn(p, op) => Alone
      BY <1>0 DEF GoesOn
    <2> HIDE DEF Alone
    <2>4. QED
      BY <2>1, <2>2, <2>3
         DEF Abandon, CheckDeal, CheckTarget, ReadRevise, ReadCreate, ReadResolve, ReadInvoice,
             ReadRepoint, ReadTransition, CommitInvoice
  <1>1. CASE Closes(p)
    <2>1. req'[p] = IdleRequest
      BY <1>0, <1>1 DEF Closes
    <2>2. QED
      BY <1>9, <2>1, IdleStands, ReadStep
  <1>2. CASE CheckDeal(p)
    <2>1. /\ req[p].op = "create" /\ NoOtherOrder(req[p].quote)
          /\ req'[p] = [req[p] EXCEPT !.op = "create_checked"]
      BY <1>0, <1>2 DEF CheckDeal, GoesOn, NoOtherOrder
    <2>2. ReadStands(req'[p])
      BY <1>0, <2>1 DEF ReadStands, RequestStates, Transitions
    <2>3. QED
      BY <1>9, <2>2, ReadStep
  <1>3. CASE CheckTarget(p)
    <2>1. /\ req[p].op = "repoint" /\ quoteStatus[req[p].target] = "accepted"
          /\ req'[p] = [req[p] EXCEPT !.op = "repoint_checked"]
      BY <1>0, <1>3 DEF CheckTarget, GoesOn, EffectiveStatus
    <2>2. ReadStands(req'[p])
      BY <1>0, <2>1 DEF ReadStands, RequestStates, Transitions
    <2>3. QED
      BY <1>9, <2>2, ReadStep
  <1>4. ASSUME NEW q \in QuoteIds, NEW op \in Ops, Opens(p, OnQuote(op, q)),
               \/ op = "revise"
               \/ /\ op \in {"accept", "decline"}
                  /\ supersededBy[q] = NoQuote /\ EffectiveStatus(q) = "issued"
               \/ op = "create" /\ EffectiveStatus(q) = "accepted"
        PROVE  SerialInv'
    <2>1. req'[p] = OnQuote(op, q)
      BY <1>0, <1>4 DEF Opens
    <2>2. OnQuote(op, q).op = op /\ OnQuote(op, q).quote = q
      BY DEF OnQuote, IdleRequest
    <2>3. ReadStands(OnQuote(op, q))
      BY <1>4, <2>2 DEF ReadStands, EffectiveStatus, Transitions
    <2>4. QED
      BY <1>9, <2>1, <2>3, ReadStep
  <1>5. ASSUME NEW o \in OrderIds, NEW op \in Transitions \union {"invoice"},
               Opens(p, OnOrder(op, o)),
               IF op = "invoice" THEN Live(o) ELSE CanTransition(op, orderStatus[o])
        PROVE  SerialInv'
    <2>1. req'[p] = OnOrder(op, o)
      BY <1>0, <1>5 DEF Opens
    <2>2. ReadStands(OnOrder(op, o))
      BY <1>5 DEF ReadStands, OnOrder, Transitions
    <2>3. QED
      BY <1>9, <2>1, <2>2, ReadStep
  <1>6. ASSUME NEW o \in OrderIds, NEW q \in QuoteIds, ReadRepoint(p, o, q)
        PROVE  SerialInv'
    <2>1. req'[p] = [OnOrder("repoint", o) EXCEPT !.target = q] /\ orderStatus[o] = "confirmed"
      BY <1>0, <1>6 DEF Opens, ReadRepoint
    <2>2. ReadStands(req'[p])
      BY <2>1 DEF ReadStands, OnOrder, Transitions
    <2>3. QED
      BY <1>9, <2>2, ReadStep
  <1>7. QED
    <2>1. ASSUME NEW q \in QuoteIds,
                 \/ ReadRevise(p, q) \/ ReadCreate(p, q)
                 \/ \E op \in {"accept", "decline"} : ReadResolve(p, q, op)
          PROVE  SerialInv'
      BY <1>4, <2>1 DEF ReadRevise, ReadCreate, ReadResolve, Ops
    <2>2. ASSUME NEW o \in OrderIds,
                 ReadInvoice(p, o) \/ \E op \in Transitions : ReadTransition(p, o, op)
          PROVE  SerialInv'
      BY <1>5, <2>2 DEF ReadInvoice, ReadTransition, Transitions, Live
    <2>3. QED
      BY <1>1, <1>2, <1>3, <1>6, <2>1, <2>2 DEF Abandon, CommitInvoice

LEMMA NextSerial ==
  ASSUME DealsAreSerial, TypeOK, DealInv, SerialInv, [Next]_vars
  PROVE  SerialInv'
  <1>0. TypeOK' /\ DealInv' /\ LinksForward
    BY NextTypeOK, NextChains, NextRows, NextRequests, NextOrderIndex, NextInvoices,
       StepLinksForward DEF DealInv
  <1> DEFINE Quiet == /\ UNCHANGED <<req, orderStatus, orderQuote, emitted>>
                      /\ exceptions \subseteq exceptions'
                      /\ \A q \in QuoteIds : quoteStatus[q] # "absent" =>
                           quoteStatus'[q] = quoteStatus[q] /\ supersededBy'[q] = supersededBy[q]
  <1>1. Quiet => SerialInv'
    BY <1>0, QuietStep
  <1>2. CASE QuotesNext /\ UNCHANGED <<orderVars, invoiceVars>>
    <2>1. ASSUME NEW q \in QuoteIds, Lapse(q) \/ IssueQuote(q) PROVE SerialInv'
      <3>1. Quiet
        BY <1>2, <2>1 DEF Lapse, IssueQuote, InsertQuote, orderVars, TypeOK, QuotesTypeOK
      <3>2. QED
        BY <1>1, <3>1
    <2>2. QED
      BY <1>0, <1>2, <2>1, ResolveStep, ReviseStep, ReadsAreFresh
         DEF QuotesNext, Abandon, ReadRevise, ReadResolve
  <1>3. CASE OrdersNext /\ UNCHANGED <<quoteVars, invoiceVars>>
    <2>1. ASSUME NEW o \in OrderIds, RecordException(o) PROVE SerialInv'
      <3>1. Quiet
        BY <1>3, <2>1 DEF RecordException, quoteVars
      <3>2. QED
        BY <1>1, <3>1
    <2>2. QED
      BY <1>3, <2>1, CreateStep, RepointStep, TransitionStep, ReadsAreFresh
         DEF OrdersNext, CheckDeal, CheckTarget, ReadCreate, ReadRepoint, ReadTransition
  <1>4. CASE InvoicesNext /\ UNCHANGED <<quoteVars, orderVars>>
    <2>1. ASSUME NEW i \in InvoiceIds, MarkPaid(i) \/ UnmarkPaid(i) PROVE SerialInv'
      <3>1. Quiet
        BY <1>4, <2>1 DEF MarkPaid, UnmarkPaid, quoteVars, orderVars
      <3>2. QED
        BY <1>1, <3>1
    <2>2. QED
      BY <1>4, <2>1, ReadsAreFresh DEF InvoicesNext
  <1>5. CASE UNCHANGED vars
    <2>1. Quiet
      BY <1>5 DEF vars, quoteVars, orderVars
    <2>2. QED
      BY <1>1, <2>1
  <1>6. QED
    BY <1>2, <1>3, <1>4, <1>5 DEF Next

LEMMA InitSerial == Init => SerialInv
  BY DEF Init, QuotesInit, OrdersInit, SerialInv, ReadsStand, ReadStands, IdleRequest,
         Transitions, OrdersRestOnAcceptance, StartedIsAccounted, OneLiveOrderPerDeal, Live

LEMMA SerialInductive == Spec /\ []DealsAreSerial => [](TypeOK /\ DealInv /\ SerialInv)
  <1>1. DealsAreSerial /\ TypeOK /\ DealInv /\ SerialInv /\ [Next]_vars => SerialInv'
    BY NextSerial
  <1>2. QED
    BY InitSerial, Inductive, <1>1, PTL DEF Spec

--------------------------------------------------------------------------------
(* The theorems of serial deals.                                           *)

(* create, with assertAcceptedForOrder and the deal's lookup: no two live  *)
(* orders on the revisions of one quote.                                   *)
THEOREM SerialOneLiveOrderPerDeal == Spec /\ []DealsAreSerial => []OneLiveOrderPerDeal
  <1>1. SerialInv => OneLiveOrderPerDeal
    BY DEF SerialInv
  <1>2. QED
    BY <1>1, SerialInductive, PTL

(* create, repoint and resolveByShareToken: every order stands on a quote  *)
(* its buyer accepted.                                                     *)
THEOREM SerialOrdersRestOnAcceptance == Spec /\ []DealsAreSerial => []OrdersRestOnAcceptance
  <1>1. SerialInv => OrdersRestOnAcceptance
    BY DEF SerialInv
  <1>2. QED
    BY <1>1, SerialInductive, PTL

(* cancel: the cut material of an order whose production had started is on *)
(* the deviation ledger.                                                   *)
THEOREM SerialStrandedMaterialIsLedgered ==
  Spec /\ []DealsAreSerial => []StrandedMaterialIsLedgered
  <1>1. SerialInv => StrandedMaterialIsLedgered
    BY DEF SerialInv, StartedIsAccounted, StrandedMaterialIsLedgered
  <1>2. QED
    BY <1>1, SerialInductive, PTL

(* resolveByShareToken: no answer of a buyer is ever changed, and none     *)
(* reaches a quote that has been superseded.                               *)
LEMMA ResolvesOpenOffers ==
  ASSUME TypeOK, DealInv, SerialInv, Next, NEW q \in QuoteIds,
         quoteStatus[q] # "absent", quoteStatus'[q] # quoteStatus[q]
  PROVE  quoteStatus[q] = "issued" /\ supersededBy[q] = NoQuote
  <1>1. PICK p \in Requests : CommitResolve(p)
    BY DEF Next, QuotesNext, Lapse, IssueQuote, InsertQuote, Abandon, ReadRevise, CommitRevise,
           ReadResolve, quoteVars, TypeOK, QuotesTypeOK
  <1>2. req[p].quote = q
    BY <1>1 DEF CommitResolve, TypeOK, QuotesTypeOK
  <1>3. QED
    BY <1>1, <1>2 DEF CommitResolve, SerialInv, ReadsStand, ReadStands

(* An accepted or declined quote stays what it is.                         *)
THEOREM SerialResolutionIsFinal == Spec /\ []DealsAreSerial => ResolutionIsFinal
  <1> DEFINE Final == \A q \in QuoteIds :
               quoteStatus[q] \in {"accepted", "declined"} => quoteStatus'[q] = quoteStatus[q]
  <1>1. TypeOK /\ DealInv /\ SerialInv /\ [Next]_vars => [Final]_vars
    BY ResolvesOpenOffers
  <1>2. QED
    BY <1>1, SerialInductive, PTL DEF Spec, ResolutionIsFinal

(* The share link of a superseded quote does not move its status.          *)
THEOREM SerialStaleLinkNeverResolves == Spec /\ []DealsAreSerial => StaleLinkNeverResolves
  <1> DEFINE Stale == \A q \in QuoteIds :
               supersededBy[q] # NoQuote => quoteStatus'[q] = quoteStatus[q]
  <1>1. TypeOK /\ DealInv /\ SerialInv /\ [Next]_vars => [Stale]_vars
    BY ResolvesOpenOffers DEF DealInv, RowsAreComplete
  <1>2. QED
    BY <1>1, SerialInductive, PTL DEF Spec, StaleLinkNeverResolves

(* setStatus: a completed or cancelled order stays completed or cancelled. *)
THEOREM SerialOrderEndsOnce == Spec /\ []DealsAreSerial => OrderEndsOnce
  <1> DEFINE Ended == \A o \in OrderIds :
               orderStatus[o] \in {"completed", "cancelled"} => orderStatus'[o] = orderStatus[o]
  <1>1. ASSUME TypeOK, DealInv, SerialInv, Next PROVE Ended
    <2>1. ASSUME NEW p \in Requests, CommitTransition(p) PROVE Ended
      <3>1. CanTransition(req[p].op, orderStatus[req[p].order])
        BY <1>1, <2>1 DEF CommitTransition, SerialInv, ReadsStand, ReadStands
      <3>2. orderStatus[req[p].order] \notin {"completed", "cancelled"}
        BY <3>1 DEF CanTransition
      <3>3. QED
        BY <1>1, <2>1, <3>2 DEF CommitTransition, TypeOK, OrdersTypeOK
    <2>2. ASSUME NEW p \in Requests, NEW o \in OrderIds, CommitCreate(p, o) PROVE Ended
      BY <1>1, <2>2 DEF CommitCreate, TypeOK, OrdersTypeOK
    <2>3. QED
      BY <1>1, <2>1, <2>2
         DEF Next, OrdersNext, RecordException, CheckDeal, CheckTarget, CommitRepoint, ReadCreate,
             ReadRepoint, ReadTransition, orderVars
  <1>2. TypeOK /\ DealInv /\ SerialInv /\ [Next]_vars => [Ended]_vars
    BY <1>1
  <1>3. QED
    BY <1>2, SerialInductive, PTL DEF Spec, OrderEndsOnce

(* repoint: an order moves only forward in its chain, and only before its  *)
(* production starts.                                                      *)
THEOREM SerialRepointsForwardBeforeProduction ==
  Spec /\ []DealsAreSerial => RepointsForwardBeforeProduction
  <1> DEFINE Forward == \A o \in OrderIds :
               orderStatus[o] # "absent" /\ orderQuote'[o] # orderQuote[o] =>
                 /\ orderStatus[o] = "confirmed"
                 /\ Reaches(supersededBy, orderQuote[o], orderQuote'[o])
  <1>1. ASSUME TypeOK, DealInv, SerialInv, Next PROVE Forward
    <2>1. ASSUME NEW p \in Requests, CommitRepoint(p) PROVE Forward
      <3>1. /\ orderStatus[req[p].order] = "confirmed"
            /\ Reaches(supersededBy, orderQuote[req[p].order], req[p].target)
        BY <1>1, <2>1 DEF CommitRepoint, SerialInv, ReadsStand, ReadStands, DealInv,
                          RequestsKnowTheirRows, KnowsItsRows, OrderOps
      <3>2. QED
        BY <1>1, <2>1, <3>1 DEF CommitRepoint, TypeOK, OrdersTypeOK
    <2>2. ASSUME NEW p \in Requests, NEW o \in OrderIds, CommitCreate(p, o) PROVE Forward
      BY <1>1, <2>2 DEF CommitCreate, TypeOK, OrdersTypeOK
    <2>3. QED
      BY <1>1, <2>1, <2>2
         DEF Next, OrdersNext, RecordException, CheckDeal, CheckTarget, CommitTransition,
             ReadCreate, ReadRepoint, ReadTransition, orderVars
  <1>2. TypeOK /\ DealInv /\ SerialInv /\ [Next]_vars => [Forward]_vars
    BY <1>1
  <1>3. QED
    BY <1>2, SerialInductive, PTL DEF Spec, RepointsForwardBeforeProduction

(* assertIssuableForInvoice and getInvoiceBasis: an invoice is issued for  *)
(* a live order, on the offer the order stands on.                         *)
THEOREM SerialInvoicesAreIssuable == Spec /\ []DealsAreSerial => InvoicesAreIssuable
  <1> DEFINE Issuable == \A i \in InvoiceIds :
               invoiceStatus[i] = "absent" /\ invoiceStatus'[i] # "absent" =>
                 /\ Live(invoiceOrder'[i])
                 /\ invoiceQuote'[i] = orderQuote[invoiceOrder'[i]]
  <1>1. ASSUME TypeOK, SerialInv, Next, NEW i \in InvoiceIds,
               invoiceStatus[i] = "absent", invoiceStatus'[i] # "absent"
        PROVE  Live(invoiceOrder'[i]) /\ invoiceQuote'[i] = orderQuote[invoiceOrder'[i]]
    <2>1. PICK p \in Requests : CommitInvoice(p, i)
      <3>1. InvoicesNext
        BY <1>1 DEF Next, invoiceVars
      <3>2. PICK p \in Requests, j \in InvoiceIds : CommitInvoice(p, j)
        BY <1>1, <3>1
           DEF InvoicesNext, MarkPaid, UnmarkPaid, ReadInvoice, invoiceVars, TypeOK,
               InvoicesTypeOK
      <3>3. j = i
        BY <1>1, <3>2 DEF CommitInvoice, TypeOK, InvoicesTypeOK
      <3>4. QED
        BY <3>2, <3>3
    <2>2. req[p].op = "invoice" /\ ReadStands(req[p])
      BY <1>1, <2>1 DEF CommitInvoice, SerialInv, ReadsStand
    <2>3. invoiceOrder'[i] = req[p].order /\ invoiceQuote'[i] = req[p].quote
      BY <1>1, <2>1 DEF CommitInvoice, TypeOK, InvoicesTypeOK
    <2>4. QED
      BY <2>2, <2>3 DEF ReadStands
  <1>2. TypeOK /\ DealInv /\ SerialInv /\ [Next]_vars => [Issuable]_vars
    BY <1>1
  <1>3. QED
    BY <1>2, SerialInductive, PTL DEF Spec, InvoicesAreIssuable

--------------------------------------------------------------------------------
(* The tables implement the book of deals.                                 *)

DealSet == {Chain(q) : q \in {x \in QuoteIds : Exists(x)}}
LiveSet == {o \in OrderIds : Live(o)}

(* What the book asks of a step, in terms of the tables.                   *)
OrdersFree(o, q) == \A other \in LiveSet \ {o} : orderQuote[other] # q

LEMMA BookSees ==
  /\ Book!Init <=> /\ DealSet = {} /\ LiveSet = {}
                   /\ orderQuote = [o \in OrderIds |-> NoQuote]
                   /\ invoiceOrder = [i \in InvoiceIds |-> NoOrder]
                   /\ invoiceQuote = [i \in InvoiceIds |-> NoQuote]
  /\ UNCHANGED Book!vars <=> /\ DealSet' = DealSet /\ LiveSet' = LiveSet
                             /\ UNCHANGED <<orderQuote, invoiceOrder, invoiceQuote>>
  /\ \A q : Book!Offer(q) <=>
       /\ DealSet' = DealSet \union {{q}} /\ LiveSet' = LiveSet
       /\ UNCHANGED <<orderQuote, invoiceOrder, invoiceQuote>>
  /\ \A D, q : Book!Revise(D, q) <=>
       /\ DealSet' = (DealSet \ {D}) \union {D \union {q}} /\ LiveSet' = LiveSet
       /\ UNCHANGED <<orderQuote, invoiceOrder, invoiceQuote>>
  /\ \A o, q : Book!Place(o, q) <=>
       /\ orderQuote[o] = NoQuote /\ OrdersFree(o, q)
       /\ orderQuote' = [orderQuote EXCEPT ![o] = q] /\ LiveSet' = LiveSet \union {o}
       /\ DealSet' = DealSet /\ UNCHANGED <<invoiceOrder, invoiceQuote>>
  /\ \A D, o, q : Book!Move(D, o, q) <=>
       /\ orderQuote[o] \in D /\ (o \in LiveSet => OrdersFree(o, q))
       /\ orderQuote' = [orderQuote EXCEPT ![o] = q] /\ LiveSet' = LiveSet
       /\ DealSet' = DealSet /\ UNCHANGED <<invoiceOrder, invoiceQuote>>
  /\ \A o : Book!Cancel(o) <=>
       /\ o \in LiveSet /\ LiveSet' = LiveSet \ {o}
       /\ DealSet' = DealSet /\ UNCHANGED <<orderQuote, invoiceOrder, invoiceQuote>>
  /\ \A o : Book!Revive(o) <=>
       /\ orderQuote[o] # NoQuote /\ OrdersFree(o, orderQuote[o])
       /\ LiveSet' = LiveSet \union {o}
       /\ DealSet' = DealSet /\ UNCHANGED <<orderQuote, invoiceOrder, invoiceQuote>>
  /\ \A D, i, o, q : Book!Bill(D, i, o, q) <=>
       /\ invoiceOrder[i] = NoOrder /\ \A j \in InvoiceIds : invoiceOrder[j] # o
       /\ orderQuote[o] \in D
       /\ invoiceOrder' = [invoiceOrder EXCEPT ![i] = o]
       /\ invoiceQuote' = [invoiceQuote EXCEPT ![i] = q]
       /\ DealSet' = DealSet /\ LiveSet' = LiveSet /\ UNCHANGED orderQuote
  BY DEF Book!Init, Book!vars, Book!Offer, Book!Revise, Book!Place, Book!Move, Book!Cancel,
         Book!Revive, Book!Bill, Book!Free, DealSet, LiveSet, OrdersFree

LEMMA BookSteps ==
  /\ \A q \in QuoteIds \ UNION DealSet : Book!Offer(q) => Book!Next
  /\ \A q \in QuoteIds \ UNION DealSet, D \in DealSet : Book!Revise(D, q) => Book!Next
  /\ \A o \in OrderIds : Book!Cancel(o) \/ Book!Revive(o) => Book!Next
  /\ \A D \in DealSet, o \in OrderIds : \A q \in D :
       Book!Place(o, q) \/ Book!Move(D, o, q) => Book!Next
  /\ \A D \in DealSet, o \in OrderIds, i \in InvoiceIds : \A q \in D :
       Book!Bill(D, i, o, q) => Book!Next
  BY DEF Book!Next, DealSet

(* The revisions of a quote that exists exist.                             *)
LEMMA DealMembers ==
  ASSUME TypeOK, DealInv, NEW q \in QuoteIds, Exists(q), NEW r \in Chain(q)
  PROVE  r \in QuoteIds /\ Exists(r)
  <1> DEFINE S == {x \in QuoteIds : Exists(x)}
  <1>1. \A x \in S : /\ revisionOf[x] \in S \union {NoQuote}
                     /\ supersededBy[x] \in S \union {NoQuote}
    BY DEF TypeOK, QuotesTypeOK, DealInv, ChainsAreLinear, Exists
  <1>2. q \in S /\ S \in SUBSET QuoteIds
    OBVIOUS
  <1> HIDE DEF S
  <1>3. r \in S
    BY <1>1, <1>2 DEF Chain, Reaches
  <1>4. QED
    BY <1>3 DEF S

(* Every quote of a deal has that deal for its chain.                      *)
LEMMA SameDeal ==
  ASSUME LinearPointers, NEW q \in QuoteIds, NEW r \in Chain(q)
  PROVE  Chain(r) = Chain(q)
  <1>1. r \in QuoteIds /\ q \in Chain(r)
    BY ChainSymmetric
  <1>2. \A s \in Chain(q) : s \in Chain(r)
    BY <1>1, ChainTransitive
  <1>3. \A s \in Chain(r) : s \in Chain(q)
    BY ChainTransitive
  <1>4. QED
    BY <1>2, <1>3

LEMMA DealOfQuote ==
  ASSUME TypeOK, DealInv, NEW q \in QuoteIds
  PROVE  /\ Exists(q) => Chain(q) \in DealSet /\ q \in Chain(q)
         /\ q \in UNION DealSet => Exists(q)
  <1>1. Exists(q) => Chain(q) \in DealSet /\ q \in Chain(q)
    BY LinearChains, ChainReflexive DEF TypeOK, DealInv, DealSet
  <1>2. ASSUME q \in UNION DealSet PROVE Exists(q)
    <2>1. PICK x \in QuoteIds : Exists(x) /\ q \in Chain(x)
      BY <1>2 DEF DealSet
    <2>2. QED
      BY <2>1, DealMembers
  <1>3. QED
    BY <1>1, <1>2

LEMMA SameDeals ==
  ASSUME UNCHANGED <<revisionOf, supersededBy>>, \A q \in QuoteIds : Exists(q)' <=> Exists(q)
  PROVE  DealSet' = DealSet
  <1>1. \A q \in QuoteIds : Chain(q)' = Chain(q)
    BY DEF Chain
  <1>2. DealSet' = {Chain(q)' : q \in {x \in QuoteIds : Exists(x)'}}
    BY DEF DealSet
  <1>3. QED
    BY <1>1, <1>2 DEF DealSet

(* A first offer is a deal of its own.                                     *)
LEMMA OfferStep ==
  ASSUME TypeOK, DealInv, NEW q \in QuoteIds, IssueQuote(q)
  PROVE  DealSet' = DealSet \union {{q}} /\ ~Exists(q)
  <1>1. /\ ~Exists(q) /\ Exists(q)'
        /\ \A x \in QuoteIds : x # q => (Exists(x)' <=> Exists(x))
        /\ UNCHANGED <<revisionOf, supersededBy>>
        /\ revisionOf[q] = NoQuote /\ supersededBy[q] = NoQuote
    BY DEF IssueQuote, InsertQuote, Exists, TypeOK, QuotesTypeOK, DealInv, RowsAreComplete
  <1>2. \A x \in QuoteIds : Chain(x)' = Chain(x)
    BY <1>1 DEF Chain
  <1>3. Chain(q) = {q}
    <2>1. \A r \in Chain(q) : r = q
      BY <1>1, ReachesFirst, QuotesAssumption
         DEF Chain, Pointers, TypeOK, QuotesTypeOK
    <2>2. q \in Chain(q)
      BY LinearChains, ChainReflexive DEF TypeOK, DealInv
    <2>3. QED
      BY <2>1, <2>2
  <1>4. DealSet' = {Chain(x)' : x \in {y \in QuoteIds : Exists(y)'}}
    BY DEF DealSet
  <1>5. DealSet' = {Chain(x) : x \in {y \in QuoteIds : Exists(y) \/ y = q}}
    BY <1>1, <1>2, <1>4
  <1>6. QED
    BY <1>1, <1>3, <1>5 DEF DealSet

(* A chain after the step, read along the pointers to the revisions.       *)
LEMMA ChainAfter ==
  ASSUME TypeOK', DealInv', NEW x \in QuoteIds, NEW y \in QuoteIds
  PROVE  y \in Chain(x)' <=> Reaches(supersededBy', x, y) \/ Reaches(supersededBy', y, x)
  <1>1. /\ revisionOf' \in Pointers /\ supersededBy' \in Pointers
        /\ Undoes(revisionOf', supersededBy') /\ Undoes(supersededBy', revisionOf')
    BY DEF TypeOK, QuotesTypeOK, DealInv, ChainsAreLinear, Undoes, Pointers
  <1>2. Reaches(revisionOf', x, y) <=> Reaches(supersededBy', y, x)
    BY <1>1, ReachesBack
  <1>3. Chain(x)' = {r \in QuoteIds : Reaches(revisionOf', x, r) \/ Reaches(supersededBy', x, r)}
    BY DEF Chain
  <1>4. QED
    BY <1>2, <1>3

(* A revision joins the deal of the quote it revises, and no other.        *)
LEMMA ReviseChains ==
  ASSUME TypeOK, DealInv, TypeOK', DealInv', RowsGrow, LinksForward,
         NEW p \in Requests, NEW q \in QuoteIds, CommitRevise(p, q)
  PROVE  /\ ~Exists(q)
         /\ \A x \in QuoteIds : Exists(x)' <=> Exists(x) \/ x = q
         /\ Exists(req[p].quote) /\ req[p].quote \in QuoteIds
         /\ \A x \in QuoteIds : Exists(x) =>
              Chain(x)' = IF x \in Chain(req[p].quote) THEN Chain(x) \union {q} ELSE Chain(x)
         /\ Chain(q)' = Chain(req[p].quote) \union {q}
  <1>1. PICK old \in QuoteIds :
          old = req[p].quote /\ Exists(old) /\ supersededBy[old] = NoQuote
    BY DEF CommitRevise, DealInv, RequestsKnowTheirRows, KnowsItsRows, QuoteOps, Exists
  <1>2. /\ ~Exists(q)
        /\ \A x \in QuoteIds : Exists(x)' <=> Exists(x) \/ x = q
        /\ supersededBy' = [supersededBy EXCEPT ![old] = q]
        /\ supersededBy[q] = NoQuote
    BY <1>1
       DEF CommitRevise, InsertQuote, Exists, TypeOK, QuotesTypeOK, DealInv, RowsAreComplete
  <1>3. /\ supersededBy \in Pointers /\ supersededBy' \in Pointers /\ LinearPointers
        /\ supersededBy'[old] = q /\ supersededBy'[q] = NoQuote /\ q # old /\ q # NoQuote
    BY <1>1, <1>2, LinearChains, QuotesAssumption
       DEF TypeOK, QuotesTypeOK, DealInv, Pointers
  <1>4. \A x, y \in QuoteIds : Exists(x) /\ Exists(y) => (y \in Chain(x)' <=> y \in Chain(x))
    BY DealsNeverMerge, ChainsGrow DEF Exists
  <1>5. ASSUME NEW x \in QuoteIds, Exists(x)
        PROVE  Reaches(supersededBy', x, q) <=> x \in Chain(old)
    <2>1. ASSUME x \in Chain(old) PROVE Reaches(supersededBy', x, q)
      <3>1. Reaches(supersededBy, x, old)
        <4>1. Reaches(supersededBy, old, x) \/ Reaches(supersededBy, x, old)
          BY <1>1, <1>3, <2>1, ChainByForward
        <4>2. QED
          BY <1>1, <1>3, <4>1, ReachesFirst, ReachesSelf, QuotesAssumption
      <3>2. Reaches(supersededBy', x, old)
        BY <1>1, <1>3, <3>1, ChainsGrow
      <3>3. QED
        BY <1>1, <1>3, <3>2, ReachesNext
    <2>2. ASSUME Reaches(supersededBy', x, q) PROVE x \in Chain(old)
      <3>1. Reaches(supersededBy', x, old)
        <4> DEFINE S == {y \in QuoteIds : Reaches(supersededBy', x, y) /\ y # q}
        <4> SUFFICES ASSUME ~Reaches(supersededBy', x, old) PROVE FALSE
          OBVIOUS
        <4>1. ASSUME NEW y \in S PROVE supersededBy'[y] \in S \union {NoQuote}
          <5>1. y # old
            BY <4>1
          <5>2. supersededBy'[y] = NoQuote \/ Reaches(supersededBy', x, supersededBy'[y])
            BY <1>3, <4>1, ReachesNext
          <5>3. supersededBy'[y] # q
            <6>1. supersededBy'[y] = supersededBy[y]
              BY <1>2, <4>1, <5>1 DEF TypeOK, QuotesTypeOK
            <6>2. supersededBy[y] # NoQuote => Exists(supersededBy[y])
              BY <4>1 DEF DealInv, ChainsAreLinear, Exists
            <6>3. QED
              BY <1>2, <1>3, <6>1, <6>2
          <5>4. supersededBy'[y] \in QuoteIds \union {NoQuote}
            BY <1>3, <4>1 DEF Pointers
          <5>5. QED
            BY <5>2, <5>3, <5>4
        <4>2. x \in S /\ S \in SUBSET QuoteIds
          BY <1>2, <1>3, <1>5, ReachesSelf
        <4> HIDE DEF S
        <4>3. q \in S
          BY <2>2, <4>1, <4>2 DEF Reaches
        <4>4. QED
          BY <4>3 DEF S
      <3>2. x \in Chain(old)'
        BY <1>1, <3>1, ChainAfter
      <3>3. QED
        BY <1>1, <1>4, <1>5, <3>2
    <2>3. QED
      BY <2>1, <2>2
  <1>6. ASSUME NEW x \in QuoteIds, Exists(x)
        PROVE  /\ q \in Chain(x)' <=> x \in Chain(old)
               /\ x \in Chain(q)' <=> x \in Chain(old)
    <2>1. ~Reaches(supersededBy', q, x)
      BY <1>2, <1>3, <1>6, ReachesFirst, QuotesAssumption
    <2>2. QED
      BY <1>5, <1>6, <2>1, ChainAfter
  <1>7. \A x, y \in QuoteIds : Exists(x)' /\ y \in Chain(x)' => Exists(y) \/ y = q
    <2> SUFFICES ASSUME NEW x \in QuoteIds, NEW y \in QuoteIds, Exists(x)', y \in Chain(x)'
                 PROVE  Exists(y)'
      BY <1>2
    <2> DEFINE S == {z \in QuoteIds : Exists(z)'}
    <2>1. \A z \in S : /\ revisionOf'[z] \in S \union {NoQuote}
                       /\ supersededBy'[z] \in S \union {NoQuote}
      BY DEF TypeOK, QuotesTypeOK, DealInv, ChainsAreLinear, Exists
    <2>2. x \in S /\ S \in SUBSET QuoteIds
      OBVIOUS
    <2> HIDE DEF S
    <2>3. y \in S
      BY <2>1, <2>2 DEF Chain, Reaches
    <2>4. QED
      BY <2>3 DEF S
  <1>8. \A x, y \in QuoteIds : Exists(x) /\ y \in Chain(x) => Exists(y)
    BY DealMembers
  <1>9. \A x : Chain(x) \subseteq QuoteIds /\ Chain(x)' \subseteq QuoteIds
    BY DEF Chain
  <1>10. q \in Chain(q)'
    BY <1>3, ChainAfter, ReachesSelf
  <1>11. ASSUME NEW x \in QuoteIds, Exists(x)
         PROVE  Chain(x)' = IF x \in Chain(old) THEN Chain(x) \union {q} ELSE Chain(x)
    <2>1. \A y \in QuoteIds :
            y \in Chain(x)' <=> y \in Chain(x) \/ (y = q /\ x \in Chain(old))
      BY <1>2, <1>4, <1>6, <1>7, <1>8, <1>11
    <2>2. QED
      BY <1>9, <2>1
  <1>12. Chain(q)' = Chain(old) \union {q}
    <2>1. \A y \in QuoteIds : y \in Chain(q)' <=> y \in Chain(old) \/ y = q
      BY <1>1, <1>2, <1>6, <1>7, <1>8, <1>10
    <2>2. QED
      BY <1>9, <2>1
  <1>13. QED
    BY <1>1, <1>2, <1>11, <1>12

LEMMA ReviseStepDeals ==
  ASSUME TypeOK, DealInv, TypeOK', DealInv', RowsGrow, LinksForward,
         NEW p \in Requests, NEW q \in QuoteIds, CommitRevise(p, q)
  PROVE  /\ q \notin UNION DealSet /\ Chain(req[p].quote) \in DealSet
         /\ DealSet' = (DealSet \ {Chain(req[p].quote)}) \union {Chain(req[p].quote) \union {q}}
  <1> DEFINE old == req[p].quote
             D == Chain(old)
  <1>1. /\ ~Exists(q) /\ Exists(old) /\ old \in QuoteIds
        /\ \A x \in QuoteIds : Exists(x)' <=> Exists(x) \/ x = q
        /\ \A x \in QuoteIds : Exists(x) =>
             Chain(x)' = IF x \in D THEN Chain(x) \union {q} ELSE Chain(x)
        /\ Chain(q)' = D \union {q}
    BY ReviseChains
  <1> HIDE DEF old
  <1>2. LinearPointers
    BY LinearChains DEF TypeOK, DealInv
  <1>3. \A x \in QuoteIds : x \in D <=> Chain(x) = D
    BY <1>1, <1>2, SameDeal, ChainReflexive
  <1>4. DealSet' = {Chain(x)' : x \in {y \in QuoteIds : Exists(y)'}}
    BY DEF DealSet
  <1> HIDE DEF D
  <1>5. \A x \in QuoteIds : Exists(x)' =>
          Chain(x)' \in (DealSet \ {D}) \union {D \union {q}}
    BY <1>1, <1>3 DEF DealSet
  <1>6. ASSUME NEW E \in DealSet, E # D PROVE E \in DealSet'
    <2>1. PICK x \in QuoteIds : Exists(x) /\ E = Chain(x)
      BY DEF DealSet
    <2>2. Chain(x)' = E /\ Exists(x)'
      BY <1>1, <1>3, <1>6, <2>1
    <2>3. QED
      BY <1>4, <2>2
  <1>7. D \union {q} \in DealSet'
    BY <1>1, <1>4
  <1>8. DealSet' = (DealSet \ {D}) \union {D \union {q}}
    BY <1>4, <1>5, <1>6, <1>7
  <1>9. q \notin UNION DealSet /\ D \in DealSet
    BY <1>1, DealOfQuote DEF D
  <1>10. QED
    BY <1>8, <1>9 DEF D, old

(* What the index admits is what the book admits.                          *)
LEMMA IndexIsFree ==
  ASSUME TypeOK, NEW o \in OrderIds, NEW q \in QuoteIds, NEW s, s # "cancelled",
         IndexAllows(o, s, q)
  PROVE  OrdersFree(o, q)
  BY DEF IndexAllows, OrdersFree, LiveSet

(* Every step of the services on the quotes is a step of the book.         *)
LEMMA QuotesKeepBook ==
  ASSUME TypeOK, DealInv, TypeOK', DealInv', RowsGrow, LinksForward,
         QuotesNext, UNCHANGED <<orderVars, invoiceVars>>
  PROVE  Book!Next \/ UNCHANGED Book!vars
  <1>0. LiveSet' = LiveSet /\ UNCHANGED <<orderQuote, invoiceOrder, invoiceQuote>>
    BY DEF LiveSet, Live, orderVars, invoiceVars
  <1>1. ASSUME UNCHANGED <<revisionOf, supersededBy>>,
               \A q \in QuoteIds : Exists(q)' <=> Exists(q)
        PROVE  UNCHANGED Book!vars
    BY <1>0, <1>1, SameDeals, BookSees
  <1>2. ASSUME NEW q \in QuoteIds, IssueQuote(q) PROVE Book!Next
    <2>1. DealSet' = DealSet \union {{q}} /\ q \notin UNION DealSet
      BY <1>2, OfferStep, DealOfQuote
    <2>2. QED
      BY <1>0, <2>1, BookSees, BookSteps
  <1>3. ASSUME NEW p \in Requests, NEW q \in QuoteIds, CommitRevise(p, q) PROVE Book!Next
    <2> DEFINE D == Chain(req[p].quote)
    <2>1. /\ q \notin UNION DealSet /\ D \in DealSet
          /\ DealSet' = (DealSet \ {D}) \union {D \union {q}}
      BY <1>3, ReviseStepDeals
    <2>2. QED
      BY <1>0, <2>1, BookSees, BookSteps
  <1>4. ASSUME NEW q \in QuoteIds, Lapse(q) PROVE UNCHANGED Book!vars
    BY <1>1, <1>4 DEF Lapse, Exists
  <1>5. ASSUME NEW p \in Requests, CommitResolve(p) PROVE UNCHANGED Book!vars
    <2>1. req[p].quote \in QuoteIds /\ Exists(req[p].quote)
      BY <1>5 DEF CommitResolve, DealInv, RequestsKnowTheirRows, KnowsItsRows, QuoteOps, Exists
    <2>2. QED
      BY <1>1, <1>5, <2>1 DEF CommitResolve, Exists, TypeOK, QuotesTypeOK
  <1>6. ASSUME UNCHANGED quoteVars PROVE UNCHANGED Book!vars
    BY <1>1, <1>6 DEF quoteVars, Exists
  <1>7. QED
    BY <1>2, <1>3, <1>4, <1>5, <1>6 DEF QuotesNext, Abandon, ReadRevise, ReadResolve

(* So is every step on the orders: a late re-point moves inside the deal,  *)
(* and a late status write cancels, brings back, or changes nothing.       *)
LEMMA OrdersKeepBook ==
  ASSUME TypeOK, DealInv, OrdersNext, UNCHANGED <<quoteVars, invoiceVars>>
  PROVE  Book!Next \/ UNCHANGED Book!vars
  <1>0. DealSet' = DealSet /\ UNCHANGED <<invoiceOrder, invoiceQuote>>
    BY SameDeals DEF quoteVars, invoiceVars, Exists
  <1>k. \A p \in Requests : KnowsItsRows(req[p])
    BY DEF DealInv, RequestsKnowTheirRows
  <1>1. ASSUME NEW p \in Requests, NEW o \in OrderIds, CommitCreate(p, o) PROVE Book!Next
    <2> DEFINE q == req[p].quote
    <2>1. q \in QuoteIds /\ Exists(q)
      BY <1>k, <1>1 DEF CommitCreate, KnowsItsRows, QuoteOps, Exists
    <2>2. orderQuote[o] = NoQuote /\ OrdersFree(o, q)
      BY <1>1, <2>1, IndexIsFree DEF CommitCreate, DealInv, RowsAreComplete
    <2>3. orderQuote' = [orderQuote EXCEPT ![o] = q] /\ LiveSet' = LiveSet \union {o}
      BY <1>1 DEF CommitCreate, LiveSet, Live, TypeOK, OrdersTypeOK
    <2>4. Book!Place(o, q)
      BY <1>0, <2>2, <2>3, BookSees
    <2>5. QED
      BY <2>1, <2>4, DealOfQuote, BookSteps
  <1>2. ASSUME NEW p \in Requests, CommitRepoint(p) PROVE Book!Next
    <2> DEFINE o == req[p].order
               q == req[p].target
    <2>1. /\ o \in OrderIds /\ orderStatus[o] # "absent"
          /\ req[p].quote \in QuoteIds /\ orderQuote[o] \in Chain(req[p].quote)
          /\ q \in QuoteIds /\ Exists(q) /\ Reaches(supersededBy, req[p].quote, q)
      BY <1>k, <1>2 DEF CommitRepoint, KnowsItsRows, OrderOps, Exists
    <2>2. Chain(req[p].quote) = Chain(q) /\ orderQuote[o] \in Chain(q)
      BY <2>1, LinearChains, SameDeal DEF Chain, TypeOK, DealInv
    <2>3. o \in LiveSet => OrdersFree(o, q)
      BY <1>2, <2>1, IndexIsFree DEF CommitRepoint, LiveSet, Live
    <2>4. orderQuote' = [orderQuote EXCEPT ![o] = q] /\ LiveSet' = LiveSet
      BY <1>2 DEF CommitRepoint, LiveSet, Live
    <2>5. Book!Move(Chain(q), o, q)
      BY <1>0, <2>2, <2>3, <2>4, BookSees
    <2>6. QED
      BY <2>1, <2>5, DealOfQuote, BookSteps
  <1>3. ASSUME NEW p \in Requests, CommitTransition(p)
        PROVE  Book!Next \/ UNCHANGED Book!vars
    <2> DEFINE o == req[p].order
               s == StatusAfter(req[p].op)
    <2>1. o \in OrderIds /\ orderStatus[o] # "absent"
      BY <1>k, <1>3 DEF CommitTransition, Transitions, KnowsItsRows, OrderOps
    <2>2. orderQuote[o] \in QuoteIds /\ orderQuote[o] # NoQuote
      BY <2>1, OrderQuoteInChain, QuotesAssumption
    <2>3. /\ orderStatus' = [orderStatus EXCEPT ![o] = s] /\ s # "absent"
          /\ UNCHANGED orderQuote /\ IndexAllows(o, s, orderQuote[o])
      BY <1>3, TransitionTypes DEF CommitTransition
    <2> HIDE DEF o, s
    <2>4. CASE s = "cancelled" /\ o \in LiveSet
      <3>1. LiveSet' = LiveSet \ {o}
        BY <2>1, <2>3, <2>4 DEF LiveSet, Live, TypeOK, OrdersTypeOK
      <3>2. QED
        BY <1>0, <2>1, <2>3, <2>4, <3>1, BookSees, BookSteps
    <2>5. CASE s = "cancelled" /\ o \notin LiveSet
      <3>1. LiveSet' = LiveSet
        BY <2>1, <2>3, <2>5 DEF LiveSet, Live, TypeOK, OrdersTypeOK
      <3>2. QED
        BY <1>0, <2>3, <3>1, BookSees
    <2>6. CASE s # "cancelled"
      <3>1. LiveSet' = LiveSet \union {o}
        BY <2>1, <2>3, <2>6 DEF LiveSet, Live, TypeOK, OrdersTypeOK
      <3>2. OrdersFree(o, orderQuote[o])
        BY <2>1, <2>2, <2>3, <2>6, IndexIsFree
      <3>3. QED
        BY <1>0, <2>1, <2>2, <2>3, <3>1, <3>2, BookSees, BookSteps
    <2>7. QED
      BY <2>4, <2>5, <2>6
  <1>4. ASSUME UNCHANGED <<orderStatus, orderQuote>> PROVE UNCHANGED Book!vars
    <2>1. LiveSet' = LiveSet
      BY <1>4 DEF LiveSet, Live
    <2>2. QED
      BY <1>0, <1>4, <2>1, BookSees
  <1>5. QED
    BY <1>1, <1>2, <1>3, <1>4
       DEF OrdersNext, RecordException, CheckDeal, CheckTarget, ReadCreate, ReadRepoint,
           ReadTransition, orderVars

(* And on the invoices: the offer read for an invoice is of the deal.      *)
LEMMA InvoicesKeepBook ==
  ASSUME TypeOK, DealInv, InvoicesNext, UNCHANGED <<quoteVars, orderVars>>
  PROVE  Book!Next \/ UNCHANGED Book!vars
  <1>0. DealSet' = DealSet /\ LiveSet' = LiveSet /\ UNCHANGED orderQuote
    BY SameDeals DEF quoteVars, orderVars, Exists, LiveSet, Live
  <1>1. ASSUME NEW p \in Requests, NEW i \in InvoiceIds, CommitInvoice(p, i) PROVE Book!Next
    <2> DEFINE o == req[p].order
               q == req[p].quote
    <2>1. /\ o \in OrderIds /\ orderStatus[o] # "absent"
          /\ q \in QuoteIds /\ orderQuote[o] \in Chain(q)
      BY <1>1 DEF CommitInvoice, DealInv, RequestsKnowTheirRows, KnowsItsRows, OrderOps
    <2>2. Exists(q)
      <3>1. LinearPointers /\ Exists(orderQuote[o])
        BY <2>1, LinearChains, OrderQuoteInChain DEF TypeOK, DealInv, Exists
      <3>2. orderQuote[o] \in QuoteIds /\ q \in Chain(orderQuote[o])
        BY <2>1, <3>1, ChainSymmetric
      <3>3. QED
        BY <3>1, <3>2, DealMembers
    <2>3. invoiceOrder[i] = NoOrder
      BY <1>1 DEF CommitInvoice, DealInv, RowsAreComplete
    <2>4. /\ \A j \in InvoiceIds : invoiceOrder[j] # o
          /\ invoiceOrder' = [invoiceOrder EXCEPT ![i] = o]
          /\ invoiceQuote' = [invoiceQuote EXCEPT ![i] = q]
      BY <1>1 DEF CommitInvoice
    <2> HIDE DEF o, q
    <2>5. Book!Bill(Chain(q), i, o, q)
      BY <1>0, <2>1, <2>3, <2>4, BookSees
    <2>6. QED
      BY <2>1, <2>2, <2>5, DealOfQuote, BookSteps
  <1>2. ASSUME UNCHANGED <<invoiceOrder, invoiceQuote>> PROVE UNCHANGED Book!vars
    BY <1>0, <1>2, BookSees
  <1>3. QED
    BY <1>1, <1>2 DEF InvoicesNext, MarkPaid, UnmarkPaid, ReadInvoice, invoiceVars

(* The tables of quotes, orders and invoices implement the book of deals,  *)
(* whatever requests race: deals are never joined or split, an order stays *)
(* in its deal, a quote has one live order, an order one invoice, for an   *)
(* offer of its deal.                                                      *)
THEOREM DealImplementsDealBook == Spec => ImplementsDealBook
  <1>1. Init => Book!Init
    <2> SUFFICES ASSUME Init PROVE Book!Init
      OBVIOUS
    <2>1. DealSet = {} /\ LiveSet = {}
      BY DEF Init, QuotesInit, OrdersInit, DealSet, LiveSet, Exists, Live
    <2>2. QED
      BY <2>1, BookSees DEF Init, OrdersInit, InvoicesInit
  <1>2. TypeOK /\ DealInv /\ (TypeOK /\ DealInv)' /\ [Next]_vars => [Book!Next]_(Book!vars)
    <2> SUFFICES ASSUME TypeOK, DealInv, TypeOK', DealInv', [Next]_vars
                 PROVE  Book!Next \/ UNCHANGED Book!vars
      OBVIOUS
    <2>1. RowsGrow /\ LinksForward
      BY StepGrows, StepLinksForward
    <2>2. CASE UNCHANGED vars
      <3>1. DealSet' = DealSet /\ LiveSet' = LiveSet
        BY <2>2, SameDeals DEF vars, quoteVars, orderVars, Exists, LiveSet, Live
      <3>2. QED
        BY <2>2, <3>1, BookSees DEF vars, orderVars, invoiceVars
    <2>3. QED
      BY <2>1, <2>2, QuotesKeepBook, OrdersKeepBook, InvoicesKeepBook DEF Next
  <1>3. QED
    BY <1>1, <1>2, Inductive, PTL DEF Spec, ImplementsDealBook, Book!Spec
================================================================================
