SPECIFICATION Spec
CONSTANTS
  Clerks = {c1, c2}
  Invoices = {i1}
  NoInvoice = NoInvoice
  Entries = {e1}
  Forms = {f1}
  NoForm = NoForm
  Totals = {0, 2}
  Amounts <- Debits
  MaxSaves = 2
  MaxPayments = 2
INVARIANT IssuedIsLocked
CHECK_DEADLOCK FALSE
