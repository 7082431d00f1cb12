SPECIFICATION Spec
CONSTANTS
  Clerks = {c1, c2}
  Invoices = {i1, i2}
  NoInvoice = NoInvoice
  Entries = {e1}
  Forms = {f1}
  NoForm = NoForm
  Totals = {0, 2}
  Amounts <- Debits
  MaxSaves = 2
  MaxPayments = 2
INVARIANTS LedgerBalances BilledOnce SubmittedOnce StatusMatchesBalance VoidReleases
PROPERTY VoidIsFinal
SYMMETRY Symmetry
CHECK_DEADLOCK FALSE
