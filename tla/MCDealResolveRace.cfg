SPECIFICATION Spec
CONSTANTS
  QuoteIds = {q1}
  NoQuote = NoQuote
  Dated = {}
  OrderIds = {}
  NoOrder = NoOrder
  InvoiceIds = {}
  Requests = {r1, r2}
SYMMETRY Symmetry
CHECK_DEADLOCK FALSE
PROPERTIES
  ResolutionIsFinal
