-------------------------------- MODULE Catalog ---------------------------------
(***************************************************************************)
(* What a quote is derived from.  Releases, catalog versions and price     *)
(* tables are append-only stores; a quote is issued on releases assigned   *)
(* to its organization, each with the catalog it was published against,    *)
(* and on the price table in force, and stamps what it used, so that it    *)
(* can be derived again for ever, whatever is retired, unassigned,         *)
(* repinned or repriced since.                                             *)
(*                                                                         *)
(* The engine is pure: what it derives is represented by what it was given. *)
(***************************************************************************)
EXTENDS Releases, Ledger

CONSTANTS
  CatalogVersions,
  TableVersions,
  Contents,       \* the bodies of releases, catalogs and price tables
  None,
  MaxTime,        \* bound of the clock
  MaxRoster       \* bound: a quote has so many different releases

ASSUME CatalogAssumption ==
  /\ None \notin Contents
  /\ TableVersions \subseteq Nat
  /\ MaxTime \in Nat
  /\ MaxRoster \in Nat

VARIABLES
  body,       \* release.body and release.catalogVersion
  catalogs,   \* catalog_version.body
  tables,     \* price_table, per organization and version
  now,
  quotes      \* the quotes, and the issues that have passed the assignment gate

vars == <<releaseVars, ledgerVars, body, catalogs, tables, now, quotes>>

Times == 0..MaxTime
Open == MaxTime + 1    \* effectiveTo IS NULL
Rosters == {R \in SUBSET Releases : R # {} /\ Cardinality(R) <= MaxRoster}

NoBody == [content |-> None, catalog |-> None]
NoTable == [from |-> 0, to |-> 0, content |-> None]

NoQuote == [at |-> "absent", org |-> NoOrg, roster |-> {}, stamps |-> None, snapshot |-> None]

Init ==
  /\ ReleasesInit /\ LedgerInit
  /\ body = [r \in Releases |-> NoBody]
  /\ catalogs = [c \in CatalogVersions |-> None]
  /\ tables = [o \in Orgs |-> [v \in TableVersions |-> NoTable]]
  /\ now = 0
  /\ quotes = [q \in QuoteIds |-> NoQuote]

Issued == {q \in QuoteIds : quotes[q].at = "issued"}
IssuedBy(o) == {q \in Issued : quotes[q].org = o}

--------------------------------------------------------------------------------
(* The stores: an insert under a unique index, and no update.              *)

PublishCatalog(c, k) ==
  /\ catalogs[c] = None
  /\ catalogs' = [catalogs EXCEPT ![c] = k]
  /\ UNCHANGED <<releaseVars, ledgerVars, body, tables, now, quotes>>

PublishRelease(r, c, k) ==
  /\ catalogs[c] # None
  /\ Publish(r)
  /\ body' = [body EXCEPT ![r] = [content |-> k, catalog |-> c]]
  /\ UNCHANGED <<ledgerVars, catalogs, tables, now, quotes>>

(* Mutant of PublishTable: publishing a version again replaces it.         *)
PublishTableAgain(o, v, from, to, k) ==
  /\ tables' = [tables EXCEPT ![o][v] = [from |-> from, to |-> to, content |-> k]]
  /\ UNCHANGED <<releaseVars, ledgerVars, body, catalogs, now, quotes>>

PublishTable(o, v, from, to, k) ==
  /\ tables[o][v] = NoTable
  /\ tables' = [tables EXCEPT ![o][v] = [from |-> from, to |-> to, content |-> k]]
  /\ UNCHANGED <<releaseVars, ledgerVars, body, catalogs, now, quotes>>

Tick ==
  /\ now < MaxTime
  /\ now' = now + 1
  /\ UNCHANGED <<releaseVars, ledgerVars, body, catalogs, tables, quotes>>

--------------------------------------------------------------------------------

InForce(o, at) == {v \in TableVersions : tables[o][v].from <= at /\ at < tables[o][v].to}

(* ORDER BY effective_from DESC, version DESC LIMIT 1.                     *)
IsActive(o, at, v) ==
  /\ v \in InForce(o, at)
  /\ \A w \in InForce(o, at) :
       \/ tables[o][w].from < tables[o][v].from
       \/ tables[o][w].from = tables[o][v].from /\ w <= v

(* What deriveSite is given for a roster, its catalogs and a price table.  *)
Derived(o, roster, catalogOf, v) ==
  [releases |-> [r \in roster |-> body[r].content],
   catalogs |-> [r \in roster |-> catalogs[catalogOf[r]]],
   prices |-> tables[o][v].content]

(* issueQuoteRow, up to assertAssigned: the releases are loaded and the    *)
(* gate is passed, whatever their status.                                  *)
IssueGate(q, o, roster) ==
  /\ quotes[q] = NoQuote
  /\ \A r \in roster : status[r] # "absent" /\ r \in assigned[o]
  /\ quotes' = [quotes EXCEPT ![q] = [NoQuote EXCEPT !.at = "gated", !.org = o, !.roster = roster]]
  /\ UNCHANGED <<releaseVars, ledgerVars, body, catalogs, tables, now>>

(* The rest: the active price table, the derivation, the insert with its   *)
(* stamps and the ledger rows.                                             *)
Issue(q, v) ==
  LET o == quotes[q].org
      roster == quotes[q].roster
      catalogOf == [r \in roster |-> body[r].catalog]
  IN
  /\ quotes[q].at = "gated"
  /\ IsActive(o, now, v)
  /\ quotes' = [quotes EXCEPT ![q] =
       [@ EXCEPT !.at = "issued",
                 !.stamps = [catalogs |-> catalogOf, table |-> v],
                 !.snapshot = Derived(o, roster, catalogOf, v)]]
  /\ RecordIssue(o, q)
  /\ UNCHANGED <<releaseVars, body, catalogs, tables, now>>

(* Refused later on (no price table, no valid site), or failed: rolled back. *)
IssueFails(q) ==
  /\ quotes[q].at = "gated"
  /\ quotes' = [quotes EXCEPT ![q] = NoQuote]
  /\ UNCHANGED <<releaseVars, ledgerVars, body, catalogs, tables, now>>

--------------------------------------------------------------------------------

StoresNext ==
  \/ \E c \in CatalogVersions, k \in Contents : PublishCatalog(c, k)
  \/ \E r \in Releases, c \in CatalogVersions, k \in Contents : PublishRelease(r, c, k)
  \/ \E o \in Orgs, v \in TableVersions, from \in Times, to \in Times \union {Open},
        k \in Contents : from < to /\ PublishTable(o, v, from, to, k)
  \/ Tick

QuotesNext ==
  \/ \E q \in QuoteIds, o \in Orgs, roster \in Rosters : IssueGate(q, o, roster)
  \/ \E q \in QuoteIds, v \in TableVersions : Issue(q, v)
  \/ \E q \in QuoteIds : IssueFails(q)

RebuildsNext ==
  \/ \E b \in Rebuilds, o \in Orgs : RebuildRead(b, o, IssuedBy(o))
  \/ \E b \in Rebuilds : RebuildStep(b)

Next ==
  \/ StoresNext
  \/ QuotesNext
  \/ ReleasesNext /\ UNCHANGED <<ledgerVars, body, catalogs, tables, now, quotes>>
  \/ RebuildsNext /\ UNCHANGED <<releaseVars, body, catalogs, tables, now, quotes>>

Spec == Init /\ [][Next]_vars

--------------------------------------------------------------------------------

(* verifyReproducibility: everything is loaded by the stamps, and nothing  *)
(* asks for an assignment, a pin or a status.                              *)
Reproduced(q) ==
  LET o == quotes[q].org
      roster == quotes[q].roster
      stamps == quotes[q].stamps
  IN
  /\ \A r \in roster : status[r] # "absent" /\ catalogs[stamps.catalogs[r]] # None
  /\ tables[o][stamps.table] # NoTable
  /\ Derived(o, roster, stamps.catalogs, stamps.table) = quotes[q].snapshot

(* "A quote stamped on it re-derives forever" (I3): every issued quote is  *)
(* derived again from its stamps to what was frozen into it, through       *)
(* retirements, unassignments, repins, new catalogs and new price tables.  *)
IssuedQuotesReproduce == \A q \in Issued : Reproduced(q)

(* The ledger of all quotes: DriftHasACause over the ones issued.          *)
LedgerDriftHasACause == DriftHasACause(Issued)
================================================================================
