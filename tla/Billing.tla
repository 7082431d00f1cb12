------------------------------ MODULE Billing ------------------------------
(***************************************************************************)
(* Invoices, the time entries and expenses they bill, and the payments      *)
(* recorded against them (src/src/server/services/finance.ts, 20-167), as    *)
(* requests of several clerks interleave on one MySQL database.             *)
(*                                                                          *)
(* Transactions run under REPEATABLE READ: plain reads see the snapshot of  *)
(* the transaction's first plain read, while UPDATE, DELETE, INSERT and     *)
(* SELECT ... FOR UPDATE work on current rows and lock them to the commit.  *)
(* A transaction is therefore its snapshot read followed by one step that   *)
(* does all its writes; where FOR UPDATE comes first, the read that follows *)
(* sees current rows too and the transaction is a single step.  Reads       *)
(* before the transaction are steps of their own.  A request whose check    *)
(* fails, whose transaction is rolled back (deadlock, lock timeout, broken  *)
(* index) or whose process dies ends in GiveUp; withTxRetry is a GiveUp and *)
(* a new request.                                                           *)
(***************************************************************************)
EXTENDS Integers, Sequences, FiniteSets

CONSTANTS
  Clerks,      \* requests in flight at the same time
  Invoices,    \* identities of Invoice rows
  NoInvoice,
  Entries,     \* billable time entries and expenses
  Forms,       \* payment forms opened on each invoice: the idempotency keys
  NoForm,      \* a payment without a key
  Totals,      \* invoice totals, in units of money
  Amounts,     \* amounts of payments and, negative, of refunds
  MaxSaves,    \* bound: how often each invoice is saved
  MaxPayments  \* bound: number of Payment rows

ASSUME BillingConstants ==
  /\ NoInvoice \notin Invoices /\ NoForm \notin Forms
  /\ Totals \subseteq Nat /\ Amounts \subseteq Int \ {0}
  /\ MaxSaves \in Nat /\ MaxPayments \in Nat

VARIABLES
  invoice,  \* the Invoice table; version counts the saves
  item,     \* InvoiceItem rows that link an entry
  payment,  \* the Payment table, oldest first
  clerk,    \* the request each clerk has in flight
  late,     \* history: invoices whose draft was saved after they left DRAFT
  answered  \* history: payment forms answered with a payment id

vars == <<invoice, item, payment, clerk, late, answered>>

Settled == {"ISSUED", "PARTIALLY_PAID", "PAID"}

NoRow == [status |-> "NONE", total |-> 0, paid |-> 0, version |-> 0]
Idle  == [pc |-> "idle", invoice |-> NoInvoice, entries |-> {}, snapshot |-> {}, seen |-> NoRow,
          to |-> "VOID", form |-> NoForm]

RowsOf(i) == {r \in item : r.invoice = i}
Rows(i, entries, version) ==
  [invoice : {i}, entry : entries, version : {version}]

\* Operators named Mutant... are faulty variants of the definition after them;
\* a property of the runs fails when one takes that definition's place.

MutantRefundKeepsStatus(total, paid, current) ==
  IF paid >= total /\ total > 0 THEN "PAID" ELSE IF paid > 0 THEN "PARTIALLY_PAID" ELSE current

\* statusFor: the status of an issued invoice follows from its balance.
StatusFor(total, paid, current) ==
  IF current \in {"VOID", "DRAFT"}   THEN current
  ELSE IF paid >= total /\ total > 0 THEN "PAID"
  ELSE IF paid > 0                   THEN "PARTIALLY_PAID"
  ELSE "ISSUED"

----------------------------------------------------------------------------
Init ==
  /\ invoice = [i \in Invoices |-> NoRow]
  /\ item = {}
  /\ payment = <<>>
  /\ clerk = [c \in Clerks |-> Idle]
  /\ late = {}
  /\ answered = {}

GiveUp(c) ==
  /\ clerk[c] # Idle
  /\ clerk' = [clerk EXCEPT ![c] = Idle]
  /\ UNCHANGED <<invoice, item, payment, late, answered>>

----------------------------------------------------------------------------
(* saveInvoice *)

\* The count of items already billed, in the rows the transaction sees.
Taken(rows, entries) == \E r \in rows : r.entry \in entries

MutantNoIndex(rows, entries) == TRUE

\* The unique indexes on InvoiceItem.timeEntryId and expenseId.
LinksFree(rows, entries) == ~Taken(rows, entries)

\* A new invoice: the count is the transaction's first read.
OpenNew(c) ==
  /\ clerk[c] = Idle
  /\ \E entries \in SUBSET Entries :
       /\ ~Taken(item, entries)
       /\ clerk' = [clerk EXCEPT ![c].pc = "create", ![c].entries = entries]
  /\ UNCHANGED <<invoice, item, payment, late, answered>>

WriteNew(c) ==
  LET entries == clerk[c].entries IN
  /\ clerk[c].pc = "create"
  /\ LinksFree(item, entries)
  /\ \E i \in Invoices, total \in Totals :
       /\ invoice[i].status = "NONE"
       /\ invoice' = [invoice EXCEPT ![i].status = "DRAFT", ![i].total = total, ![i].version = 1]
       /\ item' = item \cup Rows(i, entries, 1)
  /\ clerk' = [clerk EXCEPT ![c] = Idle]
  /\ UNCHANGED <<payment, late, answered>>

\* An edit: the first read finds the draft and fixes the snapshot.
OpenEdit(c) ==
  /\ clerk[c] = Idle
  /\ \E i \in Invoices :
       /\ invoice[i].status = "DRAFT" /\ invoice[i].version < MaxSaves
       /\ clerk' = [clerk EXCEPT ![c].pc = "edit", ![c].invoice = i, ![c].snapshot = item]
  /\ UNCHANGED <<invoice, item, payment, late, answered>>

\* The invoice's current rows are deleted, the others are counted in the
\* snapshot, and the invoice row is updated by id, whatever its status is now.
WriteEdit(c) ==
  LET i == clerk[c].invoice IN
  /\ clerk[c].pc = "edit"
  /\ \E entries \in SUBSET Entries, total \in Totals :
       /\ ~Taken(clerk[c].snapshot \ RowsOf(i), entries)
       /\ LinksFree(item \ RowsOf(i), entries)
       /\ invoice' = [invoice EXCEPT ![i].total = total, ![i].version = @ + 1]
       /\ item' = (item \ RowsOf(i)) \cup Rows(i, entries, invoice[i].version + 1)
  /\ late' = IF invoice[i].status = "DRAFT" THEN late ELSE late \cup {i}
  /\ clerk' = [clerk EXCEPT ![c] = Idle]
  /\ UNCHANGED <<payment, answered>>

----------------------------------------------------------------------------
(* setInvoiceStatus *)

\* The check before the transaction.
MayBecome(inv, to) ==
  IF to = "ISSUED" THEN inv.status = "DRAFT"
  ELSE inv.status \notin {"NONE", "VOID"} /\ inv.paid = 0

ReadStatus(c) ==
  /\ clerk[c] = Idle
  /\ \E i \in Invoices, to \in {"ISSUED", "VOID"} :
       /\ MayBecome(invoice[i], to)
       /\ clerk' = [clerk EXCEPT ![c].pc = "status", ![c].invoice = i, ![c].to = to,
                                 ![c].seen = [invoice[i] EXCEPT !.version = 0]]
  /\ UNCHANGED <<invoice, item, payment, late, answered>>

MutantTrustRead(cur, seen, to) == TRUE

\* The check repeated under the row lock.
StillValid(cur, seen, to) == cur.status = seen.status /\ (to = "VOID" => cur.paid = 0)

MutantKeepLinks(i, to) == item

\* A void invoice releases its entries for another invoice.
Released(i, to) == IF to = "VOID" THEN item \ RowsOf(i) ELSE item

WriteStatus(c) ==
  LET me == clerk[c] IN
  /\ me.pc = "status"
  /\ StillValid(invoice[me.invoice], me.seen, me.to)
  /\ invoice' = [invoice EXCEPT ![me.invoice].status = me.to]
  /\ item' = Released(me.invoice, me.to)
  /\ clerk' = [clerk EXCEPT ![c] = Idle]
  /\ UNCHANGED <<payment, late, answered>>

----------------------------------------------------------------------------
(* recordPayment *)

\* The first read of the invoice.
ReadInvoice(c) ==
  /\ clerk[c] = Idle
  /\ \E i \in Invoices, form \in Forms \cup {NoForm} :
       /\ invoice[i].status \in Settled
       /\ clerk' = [clerk EXCEPT ![c].pc = IF form = NoForm THEN "pay" ELSE "lookup",
                                 ![c].invoice = i, ![c].form = form,
                                 ![c].seen = [invoice[i] EXCEPT !.version = 0]]
  /\ UNCHANGED <<invoice, item, payment, late, answered>>

MutantNoKey(i, form) == TRUE

\* The unique index on Payment.idempotencyKey, a key being a form of one
\* invoice.
KeyFree(i, form) ==
  form = NoForm \/ \A n \in DOMAIN payment : <<payment[n].invoice, payment[n].form>> # <<i, form>>

Answer(c) ==
  /\ answered' = answered \cup ({clerk[c].invoice} \X ({clerk[c].form} \ {NoForm}))
  /\ clerk' = [clerk EXCEPT ![c] = Idle]

\* A form that was submitted before is answered with the payment it made; the
\* same lookup answers a request that lost the race for the key.
LookupKey(c) ==
  /\ clerk[c].pc \in {"lookup", "duplicate"}
  /\ \/ /\ ~KeyFree(clerk[c].invoice, clerk[c].form)
        /\ Answer(c)
     \/ /\ clerk[c].pc = "lookup" /\ KeyFree(clerk[c].invoice, clerk[c].form)
        /\ clerk' = [clerk EXCEPT ![c].pc = "pay"]
        /\ UNCHANGED answered
  /\ UNCHANGED <<invoice, item, payment, late>>

MutantStaleBalance(c) == clerk[c].seen

\* The row under the lock.
Locked(c) == invoice[clerk[c].invoice]

\* No payment above what is due, no refund (a negative amount) above what was
\* paid.
WithinBalance(cur, amount) ==
  IF amount < 0 THEN -amount <= cur.paid ELSE amount <= cur.total - cur.paid

\* The amounts of which one may be recorded now.
Accepted(c) ==
  {amount \in Amounts :
     /\ clerk[c].pc = "pay"
     /\ Locked(c).status \in Settled
     /\ WithinBalance(Locked(c), amount)}

Pay(c) ==
  LET i == clerk[c].invoice  form == clerk[c].form IN
  /\ KeyFree(i, form)
  /\ Len(payment) < MaxPayments
  /\ \E amount \in Accepted(c) :
       LET paid == Locked(c).paid + amount IN
       /\ payment' = Append(payment, [invoice |-> i, form |-> form, amount |-> amount])
       /\ invoice' = [invoice EXCEPT ![i].paid = paid,
                        ![i].status = StatusFor(Locked(c).total, paid, Locked(c).status)]
  /\ Answer(c)
  /\ UNCHANGED <<item, late>>

\* Another submission of the form took the key: P2002, and a second lookup.
LoseKey(c) ==
  /\ Accepted(c) # {}
  /\ ~KeyFree(clerk[c].invoice, clerk[c].form)
  /\ clerk' = [clerk EXCEPT ![c].pc = "duplicate"]
  /\ UNCHANGED <<invoice, item, payment, late, answered>>

----------------------------------------------------------------------------
Next ==
  \E c \in Clerks :
    \/ OpenNew(c) \/ WriteNew(c) \/ OpenEdit(c) \/ WriteEdit(c)
    \/ ReadStatus(c) \/ WriteStatus(c)
    \/ ReadInvoice(c) \/ LookupKey(c) \/ Pay(c) \/ LoseKey(c)
    \/ GiveUp(c)

Spec == Init /\ [][Next]_vars

----------------------------------------------------------------------------
(* Properties *)

InvoiceType == [status : {"NONE", "DRAFT", "VOID"} \cup Settled, total : Nat, paid : Nat, version : Nat]

ItemType == [invoice : Invoices, entry : Entries, version : Nat]

ClerkType == [pc : {"idle", "create", "edit", "status", "lookup", "pay", "duplicate"},
              invoice : Invoices \cup {NoInvoice}, entries : SUBSET Entries, snapshot : SUBSET ItemType,
              seen : InvoiceType, to : {"ISSUED", "VOID"}, form : Forms \cup {NoForm}]

\* Every variable has the type of the table or local variable it models; in
\* particular no refund makes amountPaid negative.
TypeOK ==
  /\ invoice \in [Invoices -> InvoiceType]
  /\ item \subseteq ItemType
  /\ payment \in Seq([invoice : Invoices, form : Forms \cup {NoForm}, amount : Int])
  /\ clerk \in [Clerks -> ClerkType]
  /\ \A c \in Clerks : clerk[c].pc \notin {"idle", "create"} => clerk[c].invoice \in Invoices
  /\ late \subseteq Invoices
  /\ answered \subseteq Invoices \X Forms

\* What was paid on an invoice (sign 1) or refunded (sign -1): one element for each unit of money.
Units(i, sign) ==
  UNION {{n} \X (1..(sign * payment[n].amount)) : n \in {m \in DOMAIN payment : payment[m].invoice = i}}

Ledger(i) == Cardinality(Units(i, 1)) - Cardinality(Units(i, -1))

\* The balance on an invoice is the sum of its Payment rows, whatever payments,
\* refunds, edits and voids race (finance.ts:131-144).
LedgerBalances == \A i \in Invoices : invoice[i].paid = Ledger(i)

\* A time entry or expense is billed at most once, although the count before
\* the insert reads a snapshot (finance.ts:62, 72-73).
BilledOnce == \A r, s \in item : r.entry = s.entry => r = s

\* A payment form submitted twice records one payment, and every submission
\* that is answered with a payment id has that payment (finance.ts:121-128, 148-152).
SubmittedOnce ==
  /\ \A m, n \in DOMAIN payment :
       /\ payment[m].form # NoForm
       /\ payment[m].invoice = payment[n].invoice /\ payment[m].form = payment[n].form
       => m = n
  /\ \A a \in answered :
       \E n \in DOMAIN payment : payment[n].invoice = a[1] /\ payment[n].form = a[2]

\* Unless its draft was saved after it was issued, an invoice is never overpaid,
\* is PAID or PARTIALLY_PAID exactly when its balance says so, and is void, a
\* draft or merely issued only with nothing paid (finance.ts:20-25, 135-144).
StatusMatchesBalance ==
  \A i \in Invoices \ late :
    LET inv == invoice[i] IN
    /\ inv.paid \in 0..inv.total
    /\ inv.status = "PAID" <=> inv.paid = inv.total /\ inv.paid > 0
    /\ inv.status = "PARTIALLY_PAID" <=> inv.paid \in 1..(inv.total - 1)

\* Unless its draft was saved after it was voided, a void invoice holds no
\* entry back from being billed again (finance.ts:108).
VoidReleases == \A i \in Invoices \ late : invoice[i].status = "VOID" => RowsOf(i) = {}

\* A void invoice is never revived and never takes a payment, however old the
\* read that a request starts from (finance.ts:103-106, 131-135).
VoidIsFinal ==
  [][\A i \in Invoices : invoice[i].status = "VOID" =>
       invoice'[i].status = "VOID" /\ invoice'[i].paid = invoice[i].paid]_vars

----------------------------------------------------------------------------
(* What the documentation promises and the code does not keep *)

\* "Issued invoices are locked. Void and re-issue to change them."
\* (src/src/i18n/messages/modules/finance.ts:52): no save reaches an invoice
\* that has left DRAFT.
IssuedIsLocked == late = {}
=============================================================================
