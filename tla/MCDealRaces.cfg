SPECIFICATION BoundedSpec
CONSTANTS
  QuoteIds = {q1, q2, q3}
  NoQuote = NoQuote
  Dated = {}
  OrderIds = {o1, o2}
  NoOrder = NoOrder
  InvoiceIds = {i1, i2}
  Requests = {r1, r2}
SYMMETRY Symmetry
VIEW Rows
CHECK_DEADLOCK FALSE
INVARIANTS
  DealInv
  ChainsAreLinear
  InvoiceBillsItsDeal
  OneLiveOrderPerQuote
PROPERTIES
  ImplementsDealBook
