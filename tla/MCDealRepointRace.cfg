SPECIFICATION Spec
CONSTANTS
  QuoteIds = {q1, q2}
  NoQuote = NoQuote
  Dated = {}
  OrderIds = {o1}
  NoOrder = NoOrder
  InvoiceIds = {}
  Requests = {r1, r2}
SYMMETRY Symmetry
CHECK_DEADLOCK FALSE
PROPERTIES
  RepointsForwardBeforeProduction
