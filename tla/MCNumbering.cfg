SPECIFICATION FairSpec
CONSTANTS
  Series = {quote2026, invoice2026}
  Txns = {t1, t2, t3}
  NoTxn = NoTxn
  MaxNumber = 3
INVARIANTS
  NumberingInv
  GapFree
PROPERTIES
  ImplementsGapFreeSeries
  NoIssueWaitsForever
