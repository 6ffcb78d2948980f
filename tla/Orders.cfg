CONSTANTS
  MaxOrders = 2
  Job = {j1}
  Article = {a1}
  Manual = {m1}
  LooseStock = 1
  MaxPayments = 2
  MaxRequests = 2
  MaxVersion = 2
SPECIFICATION Spec
INVARIANTS
  TypeOK
  JobChargedOnce
  FinancialIntegrity
  InvoiceFigureTrue
  StockConserved
CHECK_DEADLOCK FALSE
