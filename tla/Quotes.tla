--------------------------------- MODULE Quotes --------------------------------
(***************************************************************************)
(* The quote rows and the requests that change them: issue, revise, and    *)
(* the buyer's accept and decline through the share link.                  *)
(*                                                                         *)
(* A request runs in one READ COMMITTED transaction.  What it reads it     *)
(* keeps (the fields of req[p]); its guards look at what it read; its      *)
(* UPDATE looks again only at the predicate of its own WHERE clause, under *)
(* the row lock.  So a request is a read step, which fills req[p], and a   *)
(* commit step, with any step of any other request in between.  A refused  *)
(* request changes nothing: its read step is simply not taken.             *)
(***************************************************************************)
EXTENDS Naturals

CONSTANTS
  QuoteIds,    \* the quote rows that may come to exist (bound)
  NoQuote,
  Dated,       \* the quotes issued with a validUntil
  OrderIds,    \* the order rows that may come to exist (bound)
  NoOrder,
  Requests     \* the requests that may be in flight at the same time (bound)

ASSUME QuotesAssumption ==
  /\ NoQuote \notin QuoteIds
  /\ NoOrder \notin OrderIds
  /\ Dated \subseteq QuoteIds

VARIABLES
  quoteStatus,    \* "absent", or the stored status of the row
  revisionOf,     \* the quote a quote revises: set at insert
  supersededBy,   \* the revision that supersedes a quote
  lapsed,         \* the quotes whose validUntil has passed
  req             \* per request, what it is doing and what it has read

quoteVars == <<quoteStatus, revisionOf, supersededBy, lapsed>>

QuoteStatuses == {"absent", "issued", "accepted", "declined"}
OrderStatuses == {"absent", "confirmed", "in_production", "completed", "cancelled"}

(* op is what a request does next; quote and order are the rows it is      *)
(* about, target the quote a repoint moves to, was the status it read.     *)
Ops ==
  {"idle", "revise", "accept", "decline", "create", "create_checked", "repoint",
   "repoint_checked", "start", "complete", "cancel", "invoice"}

RequestStates ==
  [op : Ops, quote : QuoteIds \union {NoQuote}, order : OrderIds \union {NoOrder},
   target : QuoteIds \union {NoQuote}, was : OrderStatuses]

IdleRequest ==
  [op |-> "idle", quote |-> NoQuote, order |-> NoOrder, target |-> NoQuote,
   was |-> "absent"]

QuotesTypeOK ==
  /\ quoteStatus \in [QuoteIds -> QuoteStatuses]
  /\ revisionOf \in [QuoteIds -> QuoteIds \union {NoQuote}]
  /\ supersededBy \in [QuoteIds -> QuoteIds \union {NoQuote}]
  /\ lapsed \in SUBSET QuoteIds
  /\ req \in [Requests -> RequestStates]

QuotesInit ==
  /\ quoteStatus = [q \in QuoteIds |-> "absent"]
  /\ revisionOf = [q \in QuoteIds |-> NoQuote]
  /\ supersededBy = [q \in QuoteIds |-> NoQuote]
  /\ lapsed = {}
  /\ req = [p \in Requests |-> IdleRequest]

OnQuote(op, q) == [IdleRequest EXCEPT !.op = op, !.quote = q]

(* The read step of request p, which keeps r; its last step; and the step  *)
(* between two reads, after which it goes on with op.                      *)
Opens(p, r) == req[p] = IdleRequest /\ req' = [req EXCEPT ![p] = r]
Closes(p) == req' = [req EXCEPT ![p] = IdleRequest]
GoesOn(p, op) == req' = [req EXCEPT ![p].op = op]

(* A later guard refuses the request, or its process dies: the transaction *)
(* rolls back.                                                             *)
Abandon(p) ==
  /\ req[p] # IdleRequest
  /\ Closes(p)
  /\ UNCHANGED quoteVars

--------------------------------------------------------------------------------

(* expired is derived, never stored: an issued quote past its validUntil.  *)
EffectiveStatus(q) ==
  IF quoteStatus[q] = "issued" /\ q \in lapsed THEN "expired" ELSE quoteStatus[q]

(* r is reached from q by following a pointer of the rows.                 *)
Reaches(pointer, q, r) ==
  \A S \in SUBSET QuoteIds :
    (q \in S /\ \A x \in S : pointer[x] \in S \union {NoQuote}) => r \in S

(* The deal of q: its chain from the root revision to the live head.       *)
Chain(q) ==
  {r \in QuoteIds : Reaches(revisionOf, q, r) \/ Reaches(supersededBy, q, r)}

--------------------------------------------------------------------------------

(* The insert that ends issueQuoteRow: every quote is born issued.         *)
InsertQuote(q, revised) ==
  /\ quoteStatus[q] = "absent"
  /\ quoteStatus' = [quoteStatus EXCEPT ![q] = "issued"]
  /\ revisionOf' = [revisionOf EXCEPT ![q] = revised]

(* The clock passes the validUntil of an open quote.                       *)
Lapse(q) ==
  /\ quoteStatus[q] = "issued"
  /\ q \in Dated \ lapsed
  /\ lapsed' = lapsed \union {q}
  /\ UNCHANGED <<quoteStatus, revisionOf, supersededBy, req>>

IssueQuote(q) ==
  /\ InsertQuote(q, NoQuote)
  /\ UNCHANGED <<supersededBy, lapsed, req>>

ReadRevise(p, q) ==
  /\ quoteStatus[q] # "absent"
  /\ supersededBy[q] = NoQuote
  /\ Opens(p, OnQuote("revise", q))
  /\ UNCHANGED quoteVars

(* Mutant: setSupersededBy is unconditional.                               *)
CommitReviseBlind(p, q) ==
  /\ req[p].op = "revise"
  /\ InsertQuote(q, req[p].quote)
  /\ supersededBy' = [supersededBy EXCEPT ![req[p].quote] = q]
  /\ Closes(p)
  /\ UNCHANGED lapsed

(* The new row q and the pointer to it, in one transaction: the pointer is *)
(* set WHERE superseded_by_id IS NULL, and a revise that finds it set      *)
(* rolls back, which is Abandon.                                           *)
CommitRevise(p, q) ==
  /\ req[p].op = "revise"
  /\ supersededBy[req[p].quote] = NoQuote
  /\ InsertQuote(q, req[p].quote)
  /\ supersededBy' = [supersededBy EXCEPT ![req[p].quote] = q]
  /\ Closes(p)
  /\ UNCHANGED lapsed

(* Mutant: the share link of a superseded quote still resolves.            *)
ReadResolveStaleLink(p, q, op) ==
  /\ EffectiveStatus(q) = "issued"
  /\ Opens(p, OnQuote(op, q))
  /\ UNCHANGED quoteVars

(* Mutant: a resolved quote may be resolved again.                         *)
ReadResolveAgain(p, q, op) ==
  /\ supersededBy[q] = NoQuote
  /\ EffectiveStatus(q) \in {"issued", "accepted", "declined"}
  /\ Opens(p, OnQuote(op, q))
  /\ UNCHANGED quoteVars

(* resolveByShareToken up to its guards; op is "accept" or "decline".      *)
ReadResolve(p, q, op) ==
  /\ supersededBy[q] = NoQuote
  /\ EffectiveStatus(q) = "issued"
  /\ Opens(p, OnQuote(op, q))
  /\ UNCHANGED quoteVars

(* setStatus is unconditional: it looks at the row's id only.              *)
CommitResolve(p) ==
  /\ req[p].op \in {"accept", "decline"}
  /\ quoteStatus' = [quoteStatus EXCEPT ![req[p].quote] =
                       IF req[p].op = "accept" THEN "accepted" ELSE "declined"]
  /\ Closes(p)
  /\ UNCHANGED <<revisionOf, supersededBy, lapsed>>

QuotesNext ==
  \/ \E q \in QuoteIds : Lapse(q) \/ IssueQuote(q)
  \/ \E p \in Requests :
       \/ Abandon(p)
       \/ CommitResolve(p)
       \/ \E q \in QuoteIds :
            \/ ReadRevise(p, q)
            \/ CommitRevise(p, q)
            \/ \E op \in {"accept", "decline"} : ReadResolve(p, q, op)

--------------------------------------------------------------------------------

(* The two pointers of the rows agree: a quote is superseded by exactly    *)
(* the quote that revises it.  So no quote is revised twice, chains do not *)
(* fork, and a revise that lost the race left no orphan behind.            *)
ChainsAreLinear ==
  /\ \A q \in QuoteIds : supersededBy[q] # NoQuote =>
       quoteStatus[supersededBy[q]] # "absent" /\ revisionOf[supersededBy[q]] = q
  /\ \A q \in QuoteIds : revisionOf[q] # NoQuote =>
       quoteStatus[revisionOf[q]] # "absent" /\ supersededBy[revisionOf[q]] = q
================================================================================
