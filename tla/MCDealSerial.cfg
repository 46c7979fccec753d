SPECIFICATION SerialSpec
CONSTANTS
  QuoteIds = {q1, q2, q3}
  NoQuote = NoQuote
  Dated = {q1, q2, q3}
  OrderIds = {o1, o2}
  NoOrder = NoOrder
  InvoiceIds = {i1}
  Requests = {r1, r2}
SYMMETRY Symmetry
CHECK_DEADLOCK FALSE
INVARIANTS
  OneLiveOrderPerDeal
  OrdersRestOnAcceptance
  StrandedMaterialIsLedgered
PROPERTIES
  ResolutionIsFinal
  StaleLinkNeverResolves
  OrderEndsOnce
  RepointsForwardBeforeProduction
  InvoicesAreIssuable
