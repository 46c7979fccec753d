--------------------------------- MODULE Ledger ---------------------------------
(***************************************************************************)
(* LedgerService: the deviation ledger.  Issuing a quote writes its rows   *)
(* in the transaction of the issue; a rebuild reads the quotes of its      *)
(* organization outside any transaction, and in one transaction deletes    *)
(* the projected rows and inserts them again from what it has read.        *)
(*                                                                         *)
(* Every quote stands for one with an override and a margin override: one  *)
(* row that is projected from its snapshot, and one that is authoritative. *)
(***************************************************************************)
EXTENDS Tenancy

CONSTANTS
  QuoteIds,
  Rebuilds    \* the calls of rebuildLedger (bound: each is one call)

VARIABLES
  ledger,     \* the rows: organization, quote, source, and the act that inserted it
  rebuild,    \* per call, its progress and what it has read
  drifted     \* history: the quotes whose rows a race may have lost or doubled

ledgerVars == <<ledger, rebuild, drifted>>

Sources == {"quote_override", "margin_override"}
Acts == Rebuilds \union {"issue"}
Rows == [org : Orgs, quote : QuoteIds, source : Sources, act : Acts]
Row(o, q, source, act) == [org |-> o, quote |-> q, source |-> source, act |-> act]

(* The projected rows of the quotes Q of o, as act inserts them.           *)
Projection(o, Q, act) == {Row(o, q, "quote_override", act) : q \in Q}

Call(at) ==
  [at |-> at, org |-> NoOrg, seen |-> {}, doomed |-> {}, missed |-> {}, overlapped |-> FALSE]

LedgerTypeOK ==
  /\ ledger \subseteq Rows
  /\ rebuild \in [Rebuilds ->
       [at : {"called", "read", "deleted", "done"}, org : Orgs \union {NoOrg},
        seen : SUBSET QuoteIds, doomed : SUBSET Rows, missed : SUBSET QuoteIds,
        overlapped : BOOLEAN]]
  /\ drifted \subseteq QuoteIds

LedgerInit ==
  /\ ledger = {}
  /\ rebuild = [b \in Rebuilds |-> Call("called")]
  /\ drifted = {}

Running(b, o) == rebuild[b].at \in {"read", "deleted"} /\ rebuild[b].org = o

(* The end of an issue: its rows commit with the quote, and a rebuild that *)
(* has read the quotes and not yet deleted their rows misses it.           *)
RecordIssue(o, q) ==
  /\ ledger' = ledger \union {Row(o, q, source, "issue") : source \in Sources}
  /\ rebuild' = [b \in Rebuilds |->
       IF rebuild[b].at = "read" /\ rebuild[b].org = o
       THEN [rebuild[b] EXCEPT !.missed = @ \union {q}] ELSE rebuild[b]]
  /\ UNCHANGED drifted

(* findAllWithSnapshot: issued are the quotes of o that have committed.    *)
RebuildRead(b, o, issued) ==
  LET others == {c \in Rebuilds : Running(c, o)} IN
  /\ rebuild[b].at = "called"
  /\ rebuild' = [c \in Rebuilds |->
       CASE c = b -> [Call("read") EXCEPT !.org = o, !.seen = issued, !.overlapped = others # {}]
         [] c \in others -> [rebuild[c] EXCEPT !.overlapped = TRUE]
         [] OTHER -> rebuild[c]]
  /\ UNCHANGED <<ledger, drifted>>

(* Mutant of Doomed: the whole ledger of the organization.                 *)
DoomedAll(o) == {row \in ledger : row.org = o}

(* The DELETE dooms the projected rows that are committed when it starts.  *)
Doomed(o) == {row \in ledger : row.org = o /\ row.source = "quote_override"}

RebuildDelete(b) ==
  /\ rebuild[b].at = "read"
  /\ rebuild' = [rebuild EXCEPT ![b].at = "deleted", ![b].doomed = Doomed(rebuild[b].org)]
  /\ UNCHANGED <<ledger, drifted>>

RebuildCommit(b) ==
  LET r == rebuild[b] IN
  /\ r.at = "deleted"
  /\ ledger' = (ledger \ r.doomed) \union Projection(r.org, r.seen, b)
  /\ rebuild' = [rebuild EXCEPT ![b] = Call("done")]
  /\ drifted' = IF r.overlapped THEN drifted \union r.seen \union r.missed
                ELSE (drifted \ r.seen) \union r.missed

RebuildFails(b) ==
  /\ rebuild[b].at \in {"read", "deleted"}
  /\ rebuild' = [rebuild EXCEPT ![b] = Call("done")]
  /\ UNCHANGED <<ledger, drifted>>

RebuildStep(b) == RebuildDelete(b) \/ RebuildCommit(b) \/ RebuildFails(b)

RowsOf(q, source) == {row \in ledger : row.quote = q /\ row.source = source}

(* "A drifted projection is repaired by construction" (rebuildQuoteOverrides): *)
(* after a rebuild every quote has its projected row exactly once, but for *)
(* one issued between its read and its DELETE, or when two rebuilds ran at *)
(* once; and no rebuild touches the authoritative rows.                    *)
DriftHasACause(issued) ==
  \A q \in issued :
    /\ Cardinality(RowsOf(q, "margin_override")) = 1
    /\ q \notin drifted => Cardinality(RowsOf(q, "quote_override")) = 1
================================================================================
