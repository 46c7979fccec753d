-------------------------------- MODULE MCCatalog -------------------------------
(* Small instances of Catalog: two versions of one model.                  *)
EXTENDS Catalog, TLC

CONSTANTS v1, v2

OneModel == [r \in Releases |-> "gate"]
Versions == [r \in Releases |-> IF r = v1 THEN 1 ELSE 2]

Symmetry ==
  Permutations(Orgs) \union Permutations(CatalogVersions) \union Permutations(Contents) \union Permutations(Requests)
    \union Permutations(QuoteIds)

(* The bound: many hands on the assignments and pins of two organizations, *)
(* with nothing quoted; or the quote of one organization, beside stores    *)
(* that go on to a second catalog and a second content, or beside a request *)
(* on its assignments and pins; or the rebuilds of a ledger beside issues. *)
InStores == {body[r].content : r \in Releases} \union {catalogs[c] : c \in CatalogVersions}
Tables == {<<o, v>> \in Orgs \X TableVersions : tables[o][v] # NoTable}
Catalogs == {c \in CatalogVersions : catalogs[c] # None}
NothingRebuilt == \A b \in Rebuilds : rebuild[b].at = "called"
Published == {r \in Releases : status[r] # "absent"}
Quoted == {q \in QuoteIds : quotes[q] # NoQuote}
Active == {p \in Requests : req[p] # Idle}
Served == {o \in Orgs : assigned[o] # {}} \union {t[1] : t \in Tables}

WithinBounds ==
  \/ /\ Tables = {} /\ NothingRebuilt /\ now = 0 /\ Quoted = {}
     /\ Cardinality(InStores \ {None}) <= 1 /\ Cardinality(Catalogs) <= 1
  \/ /\ Cardinality(Served) <= 1 /\ \A o \in Orgs : overtaken[o] = {}
     /\ \/ NothingRebuilt /\ Cardinality(Quoted) <= 1 /\ Active = {}
           /\ Cardinality(InStores \ {None}) <= 1 + Cardinality(Quoted)
        \/ /\ Cardinality(InStores \ {None}) <= 1 /\ Cardinality(Catalogs) <= 1
           /\ Cardinality(Tables) <= 1 /\ now = 0
           /\ \/ NothingRebuilt /\ Cardinality(Quoted) <= 1 /\ Cardinality(Active) <= 1
              \/ Active = {} /\ Cardinality(Published) <= 1

BoundedSpec == Init /\ [][Next /\ WithinBounds']_vars
================================================================================
