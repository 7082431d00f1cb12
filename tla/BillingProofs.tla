---------------------------- MODULE BillingProofs ----------------------------
(* Theorems about Billing, for every value of its constants. *)
EXTENDS Billing, FiniteSetTheorems, TLAPS

----------------------------------------------------------------------------
(* The inductive invariant *)

\* An invoice that does not exist yet has nothing paid on it.
UnusedUnpaid == \A i \in Invoices : invoice[i].status = "NONE" => invoice[i].paid = 0

\* A clerk who is about to change a status has read one that allows it.
ClerkReads ==
  \A c \in Clerks : clerk[c].pc = "status" =>
    IF clerk[c].to = "ISSUED" THEN clerk[c].seen.status = "DRAFT"
                              ELSE clerk[c].seen.status \notin {"NONE", "VOID"}

IInv ==
  /\ TypeOK
  /\ ClerkReads
  /\ UnusedUnpaid
  /\ BilledOnce
  /\ StatusMatchesBalance
  /\ VoidReleases
  /\ SubmittedOnce

----------------------------------------------------------------------------
(* Helpers *)

LEMMA SentinelTypes == NoRow \in InvoiceType /\ Idle \in ClerkType
BY DEF NoRow, InvoiceType, Idle, ClerkType, Settled

\* The new rows of a save are well typed, and no two of them link one entry.
LEMMA RowsType ==
  ASSUME NEW i \in Invoices, NEW entries \in SUBSET Entries, NEW n \in Nat
  PROVE  /\ Rows(i, entries, n) \subseteq ItemType
         /\ \A r \in Rows(i, entries, n) : r.invoice = i /\ r.entry \in entries
         /\ \A r, s \in Rows(i, entries, n) : r.entry = s.entry => r = s
BY DEF Rows, ItemType

\* Adding rows for entries that no row links keeps entries billed once.
LEMMA AddedRows ==
  ASSUME NEW rows, \A r, s \in rows : r.entry = s.entry => r = s,
         NEW i \in Invoices, NEW entries \in SUBSET Entries, NEW n \in Nat,
         LinksFree(rows, entries), item' = rows \cup Rows(i, entries, n)
  PROVE  BilledOnce'
<1> DEFINE new == Rows(i, entries, n)
<1>1. \A r, s \in new : r.entry = s.entry => r = s
  BY RowsType
<1>2. \A r \in rows, s \in new : r.entry # s.entry
  BY RowsType DEF LinksFree, Taken
<1> HIDE DEF new
<1>3. item' = rows \cup new
  BY DEF new
<1> QED
  BY <1>1, <1>2, <1>3 DEF BilledOnce

\* The status of a settled invoice after a payment within its balance.
LEMMA StatusForType ==
  ASSUME NEW total \in Nat, NEW paid \in Nat, NEW current \in Settled
  PROVE  /\ StatusFor(total, paid, current) \in Settled
         /\ paid \in 0..total =>
              /\ StatusFor(total, paid, current) = "PAID" <=> paid = total /\ paid > 0
              /\ StatusFor(total, paid, current) = "PARTIALLY_PAID" <=> paid \in 1..(total - 1)
BY DEF StatusFor, Settled

\* One row of the Invoice table changes to inv.
InvoiceStep(i, inv) == invoice' = [invoice EXCEPT ![i] = inv]

\* What StatusMatchesBalance says of one invoice.
Balanced(inv) ==
  /\ inv.paid \in 0..inv.total
  /\ inv.status = "PAID" <=> inv.paid = inv.total /\ inv.paid > 0
  /\ inv.status = "PARTIALLY_PAID" <=> inv.paid \in 1..(inv.total - 1)

\* What a well-formed change of one invoice keeps.
LEMMA InvoiceSteps ==
  ASSUME IInv, NEW i \in Invoices, NEW inv \in InvoiceType, InvoiceStep(i, inv),
         late \subseteq late', inv.status = "NONE" => inv.paid = 0,
         i \in late' \/ Balanced(inv)
  PROVE  /\ invoice' \in [Invoices -> InvoiceType]
         /\ \A j \in Invoices : invoice'[j] = IF j = i THEN inv ELSE invoice[j]
         /\ UnusedUnpaid'
         /\ StatusMatchesBalance'
<1>1. invoice' = [invoice EXCEPT ![i] = inv] /\ invoice \in [Invoices -> InvoiceType]
  BY DEF InvoiceStep, IInv, TypeOK
<1>2. \A j \in Invoices : invoice'[j] = IF j = i THEN inv ELSE invoice[j]
  BY <1>1
<1>3. UnusedUnpaid'
  BY <1>2 DEF IInv, UnusedUnpaid
<1>4. \A j \in Invoices \ late : Balanced(invoice[j])
  BY DEF IInv, StatusMatchesBalance, Balanced
<1>5. \A j \in Invoices \ late' : Balanced(invoice'[j])
  BY <1>2, <1>4
<1> QED
  BY <1>1, <1>2, <1>3, <1>5 DEF StatusMatchesBalance, Balanced

\* One clerk's request changes to k, which is well formed.
ClerkStep(c, k) ==
  /\ clerk' = [clerk EXCEPT ![c] = k]
  /\ k \in ClerkType
  /\ k.pc \notin {"idle", "create"} => k.invoice \in Invoices
  /\ k.pc = "status" => IF k.to = "ISSUED" THEN k.seen.status = "DRAFT"
                                           ELSE k.seen.status \notin {"NONE", "VOID"}

\* What a well-formed change of one clerk keeps.
LEMMA ClerkSteps ==
  ASSUME IInv, NEW c \in Clerks, NEW k, ClerkStep(c, k)
  PROVE  /\ clerk' \in [Clerks -> ClerkType]
         /\ \A d \in Clerks : clerk'[d].pc \notin {"idle", "create"} => clerk'[d].invoice \in Invoices
         /\ ClerkReads'
<1>1. clerk' = [clerk EXCEPT ![c] = k] /\ clerk \in [Clerks -> ClerkType]
  BY DEF ClerkStep, IInv, TypeOK
<1>2. \A d \in Clerks : clerk'[d] = IF d = c THEN k ELSE clerk[d]
  BY <1>1
<1> QED
  BY <1>1, <1>2 DEF ClerkStep, IInv, TypeOK, ClerkReads

LEMMA IdleStep ==
  ASSUME NEW c \in Clerks, clerk' = [clerk EXCEPT ![c] = Idle]
  PROVE  ClerkStep(c, Idle)
BY SentinelTypes DEF ClerkStep, Idle

----------------------------------------------------------------------------
(* Reads: a request starts, ends or loses the key, and no table changes *)

ReadStep(c) ==
  \/ OpenNew(c) \/ OpenEdit(c) \/ ReadStatus(c) \/ ReadInvoice(c) \/ LoseKey(c) \/ GiveUp(c)

Tables == <<invoice, item, payment, late>>

LEMMA ReadSteps ==
  ASSUME IInv, NEW c \in Clerks, ReadStep(c)
  PROVE  UNCHANGED <<Tables, answered>> /\ \E k : ClerkStep(c, k)
<1>0. /\ clerk \in [Clerks -> ClerkType] /\ invoice \in [Invoices -> InvoiceType]
      /\ item \in SUBSET ItemType /\ clerk[c] \in ClerkType
  BY DEF IInv, TypeOK
<1>1. ASSUME OpenNew(c) PROVE \E k : ClerkStep(c, k)
  <2>1. PICK entries \in SUBSET Entries :
          clerk' = [clerk EXCEPT ![c].pc = "create", ![c].entries = entries]
    BY <1>1 DEF OpenNew
  <2> DEFINE k == [clerk[c] EXCEPT !.pc = "create", !.entries = entries]
  <2>2. k \in ClerkType /\ k.pc = "create"
    BY <1>0 DEF ClerkType
  <2>3. clerk' = [clerk EXCEPT ![c] = k]
    BY <1>0, <2>1 DEF ClerkType
  <2> HIDE DEF k
  <2> QED
    BY <2>2, <2>3 DEF ClerkStep
<1>2. ASSUME OpenEdit(c) PROVE \E k : ClerkStep(c, k)
  <2>1. PICK i \in Invoices :
          clerk' = [clerk EXCEPT ![c].pc = "edit", ![c].invoice = i, ![c].snapshot = item]
    BY <1>2 DEF OpenEdit
  <2> DEFINE k == [clerk[c] EXCEPT !.pc = "edit", !.invoice = i, !.snapshot = item]
  <2>2. k \in ClerkType /\ k.pc = "edit" /\ k.invoice = i
    BY <1>0 DEF ClerkType
  <2>3. clerk' = [clerk EXCEPT ![c] = k]
    BY <1>0, <2>1 DEF ClerkType
  <2> HIDE DEF k
  <2> QED
    BY <2>2, <2>3 DEF ClerkStep
<1>3. ASSUME ReadStatus(c) PROVE \E k : ClerkStep(c, k)
  <2>1. PICK i \in Invoices, to \in {"ISSUED", "VOID"} :
          /\ MayBecome(invoice[i], to)
          /\ clerk' = [clerk EXCEPT ![c].pc = "status", ![c].invoice = i, ![c].to = to,
                                    ![c].seen = [invoice[i] EXCEPT !.version = 0]]
    BY <1>3 DEF ReadStatus
  <2> DEFINE seen == [invoice[i] EXCEPT !.version = 0]
  <2>2. seen \in InvoiceType /\ seen.status = invoice[i].status
    BY <1>0 DEF InvoiceType
  <2>3. IF to = "ISSUED" THEN seen.status = "DRAFT" ELSE seen.status \notin {"NONE", "VOID"}
    BY <2>1, <2>2 DEF MayBecome
  <2>4. clerk' = [clerk EXCEPT ![c].pc = "status", ![c].invoice = i, ![c].to = to, ![c].seen = seen]
    BY <2>1
  <2> HIDE DEF seen
  <2> DEFINE k == [clerk[c] EXCEPT !.pc = "status", !.invoice = i, !.to = to, !.seen = seen]
  <2>5. k \in ClerkType /\ k.pc = "status" /\ k.invoice = i /\ k.to = to /\ k.seen = seen
    BY <1>0, <2>2 DEF ClerkType
  <2>6. clerk' = [clerk EXCEPT ![c] = k]
    BY <1>0, <2>4 DEF ClerkType
  <2> HIDE DEF k
  <2> QED
    BY <2>3, <2>5, <2>6 DEF ClerkStep
<1>4. ASSUME ReadInvoice(c) PROVE \E k : ClerkStep(c, k)
  <2>1. PICK i \in Invoices, form \in Forms \cup {NoForm} :
          clerk' = [clerk EXCEPT ![c].pc = IF form = NoForm THEN "pay" ELSE "lookup",
                                 ![c].invoice = i, ![c].form = form,
                                 ![c].seen = [invoice[i] EXCEPT !.version = 0]]
    BY <1>4 DEF ReadInvoice
  <2> DEFINE seen == [invoice[i] EXCEPT !.version = 0]
             pc == IF form = NoForm THEN "pay" ELSE "lookup"
  <2>2. seen \in InvoiceType
    BY <1>0 DEF InvoiceType
  <2>3. clerk' = [clerk EXCEPT ![c].pc = pc, ![c].invoice = i, ![c].form = form, ![c].seen = seen]
    BY <2>1
  <2>4. pc \in {"pay", "lookup"}
    OBVIOUS
  <2> HIDE DEF seen, pc
  <2> DEFINE k == [clerk[c] EXCEPT !.pc = pc, !.invoice = i, !.form = form, !.seen = seen]
  <2>5. k \in ClerkType /\ k.pc = pc /\ k.invoice = i
    BY <1>0, <2>2, <2>4 DEF ClerkType
  <2>6. clerk' = [clerk EXCEPT ![c] = k]
    BY <1>0, <2>3 DEF ClerkType
  <2> HIDE DEF k
  <2> QED
    BY <2>4, <2>5, <2>6 DEF ClerkStep
<1>5. ASSUME LoseKey(c) PROVE \E k : ClerkStep(c, k)
  <2> DEFINE k == [clerk[c] EXCEPT !.pc = "duplicate"]
  <2>1. k \in ClerkType /\ k.pc = "duplicate" /\ k.invoice = clerk[c].invoice
    BY <1>0 DEF ClerkType
  <2>2. clerk[c].pc = "pay"
    BY <1>5 DEF LoseKey, Accepted
  <2>3. clerk[c].invoice \in Invoices
    BY <2>2 DEF IInv, TypeOK
  <2>4. clerk' = [clerk EXCEPT ![c] = k]
    BY <1>0, <1>5 DEF LoseKey, ClerkType
  <2> HIDE DEF k
  <2> QED
    BY <2>1, <2>3, <2>4 DEF ClerkStep
<1>6. ASSUME GiveUp(c) PROVE \E k : ClerkStep(c, k)
  BY <1>6, IdleStep DEF GiveUp
<1>7. UNCHANGED <<Tables, answered>>
  BY DEF ReadStep, OpenNew, OpenEdit, ReadStatus, ReadInvoice, LoseKey, GiveUp, Tables
<1> QED
  BY <1>1, <1>2, <1>3, <1>4, <1>5, <1>6, <1>7 DEF ReadStep

----------------------------------------------------------------------------
(* Writes: one lemma per action that changes a table *)

LEMMA WriteNewStep ==
  ASSUME IInv, NEW c \in Clerks, WriteNew(c)
  PROVE  IInv'
<1> DEFINE entries == clerk[c].entries
<1>1. PICK i \in Invoices, total \in Totals :
        /\ invoice[i].status = "NONE"
        /\ invoice' = [invoice EXCEPT ![i].status = "DRAFT", ![i].total = total, ![i].version = 1]
        /\ item' = item \cup Rows(i, entries, 1)
  BY DEF WriteNew
<1>2. /\ LinksFree(item, entries) /\ entries \in SUBSET Entries
      /\ clerk' = [clerk EXCEPT ![c] = Idle]
      /\ UNCHANGED <<payment, late, answered>>
  BY DEF WriteNew, IInv, TypeOK, ClerkType
<1> HIDE DEF entries
<1> DEFINE inv == [invoice[i] EXCEPT !.status = "DRAFT", !.total = total, !.version = 1]
<1>3. /\ invoice[i] \in InvoiceType /\ invoice[i].paid = 0 /\ total \in Nat
      /\ invoice \in [Invoices -> InvoiceType]
  BY <1>1, BillingConstants DEF BillingConstants, IInv, TypeOK, UnusedUnpaid
<1>4. inv \in InvoiceType /\ inv.status = "DRAFT" /\ inv.paid = 0 /\ inv.total = total
  BY <1>3 DEF InvoiceType
<1>5. InvoiceStep(i, inv)
  BY <1>1, <1>3 DEF InvoiceStep, InvoiceType
<1> HIDE DEF inv
<1>6. Balanced(inv)
  BY <1>3, <1>4 DEF Balanced
<1>7. /\ invoice' \in [Invoices -> InvoiceType]
      /\ \A j \in Invoices : invoice'[j] = IF j = i THEN inv ELSE invoice[j]
      /\ UnusedUnpaid' /\ StatusMatchesBalance'
  BY <1>2, <1>4, <1>5, <1>6, InvoiceSteps
<1>8. BilledOnce'
  BY <1>1, <1>2, AddedRows DEF IInv, BilledOnce
<1>9. /\ item' \subseteq ItemType
      /\ \A r \in item' : r \in item \/ r.invoice = i
  BY <1>1, <1>2, RowsType DEF IInv, TypeOK
<1>10. VoidReleases'
  BY <1>2, <1>4, <1>7, <1>9 DEF IInv, VoidReleases, RowsOf
<1>11. /\ clerk' \in [Clerks -> ClerkType]
       /\ \A d \in Clerks : clerk'[d].pc \notin {"idle", "create"} => clerk'[d].invoice \in Invoices
       /\ ClerkReads'
  BY <1>2, IdleStep, ClerkSteps
<1>12. TypeOK'
  BY <1>2, <1>7, <1>9, <1>11 DEF IInv, TypeOK
<1>13. SubmittedOnce'
  BY <1>2 DEF IInv, SubmittedOnce
<1> QED
  BY <1>7, <1>8, <1>10, <1>11, <1>12, <1>13 DEF IInv

LEMMA WriteEditStep ==
  ASSUME IInv, NEW c \in Clerks, WriteEdit(c)
  PROVE  IInv'
<1> DEFINE i == clerk[c].invoice
<1>1. PICK entries \in SUBSET Entries, total \in Totals :
        /\ LinksFree(item \ RowsOf(i), entries)
        /\ invoice' = [invoice EXCEPT ![i].total = total, ![i].version = @ + 1]
        /\ item' = (item \ RowsOf(i)) \cup Rows(i, entries, invoice[i].version + 1)
  BY DEF WriteEdit
<1>2. /\ i \in Invoices
      /\ late' = IF invoice[i].status = "DRAFT" THEN late ELSE late \cup {i}
      /\ clerk' = [clerk EXCEPT ![c] = Idle]
      /\ UNCHANGED <<payment, answered>>
  BY DEF WriteEdit, IInv, TypeOK
<1> HIDE DEF i
<1> DEFINE inv == [invoice[i] EXCEPT !.total = total, !.version = @ + 1]
           n == invoice[i].version + 1
<1>3. /\ invoice[i] \in InvoiceType /\ total \in Nat /\ n \in Nat
      /\ invoice \in [Invoices -> InvoiceType]
  BY <1>2, BillingConstants DEF BillingConstants, IInv, TypeOK, InvoiceType
<1>4. /\ inv \in InvoiceType /\ inv.status = invoice[i].status
      /\ inv.paid = invoice[i].paid /\ inv.total = total
  BY <1>3 DEF InvoiceType
<1>5. InvoiceStep(i, inv)
  BY <1>1, <1>3 DEF InvoiceStep, InvoiceType
<1> HIDE DEF inv, n
<1>6. i \in late' \/ Balanced(inv)
  <2>1. CASE invoice[i].status # "DRAFT"
    BY <1>2, <2>1
  <2>2. CASE i \in late
    BY <1>2, <2>2
  <2>3. CASE invoice[i].status = "DRAFT" /\ i \notin late
    <3>1. /\ invoice[i].paid \in 0..invoice[i].total
          /\ ~(invoice[i].paid = invoice[i].total /\ invoice[i].paid > 0)
          /\ invoice[i].paid \notin 1..(invoice[i].total - 1)
      BY <1>2, <2>3 DEF IInv, StatusMatchesBalance
    <3>2. inv.paid = 0
      BY <1>3, <1>4, <3>1 DEF InvoiceType
    <3> QED
      BY <1>3, <1>4, <2>3, <3>2 DEF Balanced
  <2> QED
    BY <2>1, <2>2, <2>3
<1>7. /\ invoice' \in [Invoices -> InvoiceType]
      /\ \A j \in Invoices : invoice'[j] = IF j = i THEN inv ELSE invoice[j]
      /\ UnusedUnpaid' /\ StatusMatchesBalance'
  <2>1. late \subseteq late' /\ (inv.status = "NONE" => inv.paid = 0)
    BY <1>2, <1>4 DEF IInv, UnusedUnpaid
  <2> QED
    BY <1>2, <1>4, <1>5, <1>6, <2>1, InvoiceSteps
<1>8. BilledOnce'
  <2> DEFINE rows == item \ RowsOf(i)
  <2>1. \A r, s \in rows : r.entry = s.entry => r = s
    BY DEF IInv, BilledOnce
  <2>2. LinksFree(rows, entries) /\ item' = rows \cup Rows(i, entries, n)
    BY <1>1 DEF n
  <2> HIDE DEF rows
  <2> QED
    BY <1>2, <1>3, <2>1, <2>2, AddedRows
<1>9. /\ item' \subseteq ItemType
      /\ \A r \in item' : r \in item \/ r.invoice = i
  BY <1>1, <1>2, <1>3, RowsType DEF IInv, TypeOK, n
<1>10. VoidReleases'
  <2> SUFFICES ASSUME NEW j \in Invoices \ late', invoice'[j].status = "VOID"
               PROVE  \A r \in item' : r.invoice # j
    BY DEF VoidReleases, RowsOf
  <2>1. j # i /\ j \notin late /\ invoice[j].status = "VOID"
    BY <1>2, <1>4, <1>7
  <2> QED
    BY <1>9, <2>1 DEF IInv, VoidReleases, RowsOf
<1>11. /\ clerk' \in [Clerks -> ClerkType]
       /\ \A d \in Clerks : clerk'[d].pc \notin {"idle", "create"} => clerk'[d].invoice \in Invoices
       /\ ClerkReads'
  BY <1>2, IdleStep, ClerkSteps
<1>12. TypeOK'
  BY <1>2, <1>7, <1>9, <1>11 DEF IInv, TypeOK
<1>13. SubmittedOnce'
  BY <1>2 DEF IInv, SubmittedOnce
<1> QED
  BY <1>7, <1>8, <1>10, <1>11, <1>12, <1>13 DEF IInv

LEMMA WriteStatusStep ==
  ASSUME IInv, NEW c \in Clerks, WriteStatus(c)
  PROVE  IInv'
<1> DEFINE i  == clerk[c].invoice
           to == clerk[c].to
<1>1. /\ clerk[c].pc = "status"
      /\ StillValid(invoice[i], clerk[c].seen, to)
      /\ invoice' = [invoice EXCEPT ![i].status = to]
      /\ item' = Released(i, to)
      /\ clerk' = [clerk EXCEPT ![c] = Idle]
      /\ UNCHANGED <<payment, late, answered>>
  BY DEF WriteStatus
<1>2. /\ i \in Invoices /\ to \in {"ISSUED", "VOID"}
      /\ invoice[i] \in InvoiceType /\ invoice \in [Invoices -> InvoiceType]
  BY <1>1 DEF IInv, TypeOK, ClerkType
<1>3. IF to = "ISSUED" THEN invoice[i].status = "DRAFT"
                       ELSE invoice[i].status \notin {"NONE", "VOID"} /\ invoice[i].paid = 0
  BY <1>1, <1>2 DEF IInv, ClerkReads, StillValid
<1> HIDE DEF i, to
<1> DEFINE inv == [invoice[i] EXCEPT !.status = to]
<1>4. /\ inv \in InvoiceType /\ inv.status = to
      /\ inv.paid = invoice[i].paid /\ inv.total = invoice[i].total
  BY <1>2 DEF InvoiceType, Settled
<1>5. InvoiceStep(i, inv)
  BY <1>1, <1>2 DEF InvoiceStep, InvoiceType
<1> HIDE DEF inv
<1>6. i \in late' \/ Balanced(inv)
  <2> SUFFICES ASSUME i \notin late PROVE Balanced(inv)
    BY <1>1
  <2>1. /\ invoice[i].paid \in 0..invoice[i].total
        /\ invoice[i].status = "PAID" <=> invoice[i].paid = invoice[i].total /\ invoice[i].paid > 0
        /\ invoice[i].status = "PARTIALLY_PAID" <=> invoice[i].paid \in 1..(invoice[i].total - 1)
    BY <1>2 DEF IInv, StatusMatchesBalance
  <2>2. invoice[i].paid = 0
    BY <1>2, <1>3, <2>1 DEF InvoiceType
  <2> QED
    BY <1>2, <1>4, <2>2 DEF Balanced, InvoiceType
<1>7. /\ invoice' \in [Invoices -> InvoiceType]
      /\ \A j \in Invoices : invoice'[j] = IF j = i THEN inv ELSE invoice[j]
      /\ UnusedUnpaid' /\ StatusMatchesBalance'
  BY <1>1, <1>2, <1>4, <1>5, <1>6, InvoiceSteps
<1>8. item' \subseteq item /\ (to = "VOID" => \A r \in item' : r.invoice # i)
  BY <1>1 DEF Released, RowsOf
<1>9. VoidReleases'
  BY <1>1, <1>4, <1>7, <1>8 DEF IInv, VoidReleases, RowsOf
<1>10. /\ clerk' \in [Clerks -> ClerkType]
       /\ \A d \in Clerks : clerk'[d].pc \notin {"idle", "create"} => clerk'[d].invoice \in Invoices
       /\ ClerkReads'
  BY <1>1, IdleStep, ClerkSteps
<1>11. TypeOK'
  BY <1>1, <1>7, <1>8, <1>10 DEF IInv, TypeOK
<1>12. SubmittedOnce' /\ BilledOnce'
  BY <1>1, <1>8 DEF IInv, SubmittedOnce, BilledOnce
<1> QED
  BY <1>7, <1>9, <1>10, <1>11, <1>12 DEF IInv

\* A key that is taken has its payment.
LEMMA TakenKey ==
  ASSUME IInv, NEW i \in Invoices, NEW form \in Forms \cup {NoForm}
  PROVE  ~KeyFree(i, form) =>
           /\ form \in Forms
           /\ \E n \in DOMAIN payment : payment[n].invoice = i /\ payment[n].form = form
BY DEF KeyFree

LEMMA LookupKeyStep ==
  ASSUME IInv, NEW c \in Clerks, LookupKey(c)
  PROVE  IInv'
<1>1. UNCHANGED Tables
  BY DEF LookupKey, Tables
<1>2. /\ clerk \in [Clerks -> ClerkType] /\ clerk[c] \in ClerkType
      /\ clerk[c].invoice \in Invoices /\ clerk[c].form \in Forms \cup {NoForm}
  BY DEF LookupKey, IInv, TypeOK, ClerkType
<1>3. /\ \E k : ClerkStep(c, k)
      /\ answered' \subseteq Invoices \X Forms
      /\ \A a \in answered' :
           \E n \in DOMAIN payment : payment[n].invoice = a[1] /\ payment[n].form = a[2]
  <2>1. CASE ~KeyFree(clerk[c].invoice, clerk[c].form) /\ Answer(c)
    <3>1. \E k : ClerkStep(c, k)
      BY <2>1, IdleStep DEF Answer
    <3>2. PICK n \in DOMAIN payment :
            payment[n].invoice = clerk[c].invoice /\ payment[n].form = clerk[c].form
      BY <1>2, <2>1, TakenKey
    <3>3. answered' \subseteq answered \cup {<<clerk[c].invoice, clerk[c].form>>}
      BY <2>1 DEF Answer
    <3>4. clerk[c].form \in Forms
      BY <1>2, <2>1, TakenKey
    <3> DEFINE new == <<clerk[c].invoice, clerk[c].form>>
    <3>5. new[1] = clerk[c].invoice /\ new[2] = clerk[c].form /\ new \in Invoices \X Forms
      BY <1>2, <3>4
    <3>6. \A a \in answered' : a \in answered \/ a = new
      BY <3>3
    <3> HIDE DEF new
    <3>7. answered' \subseteq Invoices \X Forms
      BY <3>5, <3>6 DEF IInv, TypeOK
    <3>8. \A a \in answered' :
            \E m \in DOMAIN payment : payment[m].invoice = a[1] /\ payment[m].form = a[2]
      BY <3>2, <3>5, <3>6 DEF IInv, SubmittedOnce
    <3> QED
      BY <3>1, <3>7, <3>8
  <2>2. CASE clerk' = [clerk EXCEPT ![c].pc = "pay"] /\ UNCHANGED answered
    <3> DEFINE k == [clerk[c] EXCEPT !.pc = "pay"]
    <3>1. k \in ClerkType /\ k.pc = "pay" /\ k.invoice = clerk[c].invoice
      BY <1>2 DEF ClerkType
    <3>2. clerk' = [clerk EXCEPT ![c] = k]
      BY <1>2, <2>2 DEF ClerkType
    <3> HIDE DEF k
    <3>3. ClerkStep(c, k)
      BY <1>2, <3>1, <3>2 DEF ClerkStep
    <3> QED
      BY <2>2, <3>3 DEF IInv, TypeOK, SubmittedOnce
  <2> QED
    BY <2>1, <2>2 DEF LookupKey
<1>4. /\ clerk' \in [Clerks -> ClerkType]
      /\ \A d \in Clerks : clerk'[d].pc \notin {"idle", "create"} => clerk'[d].invoice \in Invoices
      /\ ClerkReads'
  BY <1>3, ClerkSteps
<1>5. TypeOK'
  BY <1>1, <1>3, <1>4 DEF IInv, TypeOK, Tables
<1>6. SubmittedOnce'
  BY <1>1, <1>3 DEF IInv, SubmittedOnce, Tables
<1>7. UnusedUnpaid' /\ BilledOnce' /\ StatusMatchesBalance' /\ VoidReleases'
  BY <1>1 DEF IInv, Tables, UnusedUnpaid, BilledOnce, StatusMatchesBalance, VoidReleases, RowsOf
<1> QED
  BY <1>4, <1>5, <1>6, <1>7 DEF IInv

LEMMA PayStep ==
  ASSUME IInv, NEW c \in Clerks, Pay(c)
  PROVE  IInv'
<1> DEFINE i    == clerk[c].invoice
           form == clerk[c].form
<1>1. PICK amount \in Accepted(c) :
        /\ payment' = Append(payment, [invoice |-> i, form |-> form, amount |-> amount])
        /\ invoice' = [invoice EXCEPT ![i].paid = invoice[i].paid + amount,
             ![i].status = StatusFor(invoice[i].total, invoice[i].paid + amount, invoice[i].status)]
  BY DEF Pay, Locked
<1>2. /\ clerk[c].pc = "pay" /\ invoice[i].status \in Settled
      /\ amount \in Amounts /\ WithinBalance(invoice[i], amount)
  BY DEF Accepted, Locked
<1>3. /\ KeyFree(i, form) /\ UNCHANGED <<item, late>>
      /\ answered' = answered \cup ({i} \X ({form} \ {NoForm}))
      /\ clerk' = [clerk EXCEPT ![c] = Idle]
  BY DEF Pay, Answer
<1>4. /\ i \in Invoices /\ form \in Forms \cup {NoForm} /\ amount \in Int \ {0}
      /\ invoice[i] \in InvoiceType /\ invoice \in [Invoices -> InvoiceType]
  BY <1>2, BillingConstants DEF BillingConstants, IInv, TypeOK, ClerkType
<1> HIDE DEF i, form
<1> DEFINE paid   == invoice[i].paid + amount
           status == StatusFor(invoice[i].total, paid, invoice[i].status)
           inv    == [invoice[i] EXCEPT !.paid = paid, !.status = status]
<1>5. paid \in Nat /\ (invoice[i].paid \in 0..invoice[i].total => paid \in 0..invoice[i].total)
  BY <1>2, <1>4 DEF WithinBalance, InvoiceType
<1>6. /\ status \in Settled
      /\ paid \in 0..invoice[i].total =>
           /\ status = "PAID" <=> paid = invoice[i].total /\ paid > 0
           /\ status = "PARTIALLY_PAID" <=> paid \in 1..(invoice[i].total - 1)
  <2> HIDE DEF paid
  <2> QED
    BY <1>2, <1>4, <1>5, StatusForType DEF InvoiceType
<1>7. invoice' = [invoice EXCEPT ![i].paid = paid, ![i].status = status]
  BY <1>1
<1> HIDE DEF paid, status
<1>8. /\ inv \in InvoiceType /\ inv.status = status /\ inv.paid = paid
      /\ inv.total = invoice[i].total
  BY <1>4, <1>5, <1>6 DEF InvoiceType
<1>9. InvoiceStep(i, inv)
  BY <1>4, <1>7 DEF InvoiceStep, InvoiceType
<1> HIDE DEF inv
<1>10. i \in late' \/ Balanced(inv)
  BY <1>3, <1>4, <1>5, <1>6, <1>8 DEF IInv, StatusMatchesBalance, Balanced
<1>11. /\ invoice' \in [Invoices -> InvoiceType]
       /\ \A j \in Invoices : invoice'[j] = IF j = i THEN inv ELSE invoice[j]
       /\ UnusedUnpaid' /\ StatusMatchesBalance'
  <2>1. inv.status # "NONE"
    BY <1>6, <1>8 DEF Settled
  <2> QED
    BY <1>3, <1>4, <1>8, <1>9, <1>10, <2>1, InvoiceSteps
<1>12. VoidReleases' /\ BilledOnce'
  <2>1. inv.status # "VOID"
    BY <1>6, <1>8 DEF Settled
  <2> QED
    BY <1>3, <1>11, <2>1 DEF IInv, VoidReleases, BilledOnce, RowsOf
<1>13. /\ clerk' \in [Clerks -> ClerkType]
       /\ \A d \in Clerks : clerk'[d].pc \notin {"idle", "create"} => clerk'[d].invoice \in Invoices
       /\ ClerkReads'
  BY <1>3, IdleStep, ClerkSteps
<1> DEFINE new == [invoice |-> i, form |-> form, amount |-> amount]
           Rec == [invoice : Invoices, form : Forms \cup {NoForm}, amount : Int]
<1>14. /\ payment' \in Seq(Rec) /\ payment \in Seq(Rec)
       /\ DOMAIN payment = 1..Len(payment) /\ Len(payment) \in Nat
       /\ DOMAIN payment' = 1..(Len(payment) + 1)
       /\ \A n \in DOMAIN payment : payment'[n] = payment[n]
       /\ payment'[Len(payment) + 1] = new
  <2>1. new \in Rec /\ payment \in Seq(Rec)
    BY <1>4 DEF IInv, TypeOK
  <2>2. payment' = Append(payment, new)
    BY <1>1
  <2> HIDE DEF new, Rec
  <2> QED
    BY <2>1, <2>2
<1>15. answered' \subseteq Invoices \X Forms
  BY <1>3, <1>4 DEF IInv, TypeOK
<1>16. TypeOK'
  BY <1>3, <1>11, <1>13, <1>14, <1>15 DEF IInv, TypeOK
<1>17. SubmittedOnce'
  <2>1. \A m \in DOMAIN payment : form # NoForm => ~(payment[m].invoice = i /\ payment[m].form = form)
    BY <1>3 DEF KeyFree
  <2>2. new.invoice = i /\ new.form = form
    OBVIOUS
  <2> HIDE DEF new, Rec
  <2>3. ASSUME NEW m \in DOMAIN payment', NEW n \in DOMAIN payment',
               payment'[m].form # NoForm, payment'[m].invoice = payment'[n].invoice,
               payment'[m].form = payment'[n].form
        PROVE  m = n
    <3>1. m \in DOMAIN payment \/ m = Len(payment) + 1
      BY <1>14
    <3>2. n \in DOMAIN payment \/ n = Len(payment) + 1
      BY <1>14
    <3>3. CASE m \in DOMAIN payment /\ n \in DOMAIN payment
      BY <1>14, <2>3, <3>3 DEF IInv, SubmittedOnce
    <3>4. CASE m \in DOMAIN payment /\ n = Len(payment) + 1
      BY <1>14, <2>1, <2>2, <2>3, <3>4
    <3>5. CASE m = Len(payment) + 1 /\ n \in DOMAIN payment
      BY <1>14, <2>1, <2>2, <2>3, <3>5
    <3> QED
      BY <3>1, <3>2, <3>3, <3>4, <3>5
  <2>4. ASSUME NEW a \in answered'
        PROVE  \E n \in DOMAIN payment' : payment'[n].invoice = a[1] /\ payment'[n].form = a[2]
    <3>1. CASE a \in answered
      BY <1>14, <3>1 DEF IInv, SubmittedOnce
    <3>2. CASE a = <<i, form>>
      BY <1>14, <2>2, <3>2
    <3> QED
      BY <1>3, <3>1, <3>2
  <2> QED
    BY <2>3, <2>4 DEF SubmittedOnce
<1> QED
  BY <1>11, <1>12, <1>13, <1>16, <1>17 DEF IInv

----------------------------------------------------------------------------
(* The theorems *)

LEMMA InitInvariant == Init => IInv
<1> SUFFICES ASSUME Init PROVE IInv
  OBVIOUS
<1>1. /\ \A i \in Invoices : invoice[i].status = "NONE" /\ invoice[i].paid = 0 /\ invoice[i].total = 0
      /\ \A c \in Clerks : clerk[c].pc = "idle"
      /\ item = {} /\ payment = <<>> /\ late = {} /\ answered = {}
  BY DEF Init, NoRow, Idle
<1>2. TypeOK
  BY <1>1, SentinelTypes DEF Init, TypeOK
<1>3. StatusMatchesBalance
  BY <1>1 DEF StatusMatchesBalance
<1> QED
  BY <1>1, <1>2, <1>3
     DEF IInv, ClerkReads, UnusedUnpaid, BilledOnce, VoidReleases, RowsOf, SubmittedOnce

LEMMA ReadStepInvariant ==
  ASSUME IInv, NEW c \in Clerks, ReadStep(c)
  PROVE  IInv'
<1>1. PICK k : ClerkStep(c, k)
  BY ReadSteps
<1>2. UNCHANGED <<invoice, item, payment, late, answered>>
  BY ReadSteps DEF Tables
<1>3. /\ clerk' \in [Clerks -> ClerkType]
      /\ \A d \in Clerks : clerk'[d].pc \notin {"idle", "create"} => clerk'[d].invoice \in Invoices
      /\ ClerkReads'
  BY <1>1, ClerkSteps
<1> QED
  BY <1>2, <1>3 DEF IInv, TypeOK, UnusedUnpaid, BilledOnce, StatusMatchesBalance, VoidReleases,
                    RowsOf, SubmittedOnce

\* The invariant is inductive: no read, write or answer of any clerk breaks it
\* (finance.ts:46-167).
THEOREM Invariance == Spec => []IInv
<1>1. IInv /\ [Next]_vars => IInv'
  <2> SUFFICES ASSUME IInv, [Next]_vars PROVE IInv'
    OBVIOUS
  <2>1. CASE UNCHANGED vars
    BY <2>1 DEF vars, IInv, TypeOK, ClerkReads, UnusedUnpaid, BilledOnce, StatusMatchesBalance,
                VoidReleases, RowsOf, SubmittedOnce
  <2>2. ASSUME NEW c \in Clerks, ReadStep(c) PROVE IInv'
    BY <2>2, ReadStepInvariant
  <2>3. ASSUME NEW c \in Clerks, WriteNew(c) PROVE IInv'
    BY <2>3, WriteNewStep
  <2>4. ASSUME NEW c \in Clerks, WriteEdit(c) PROVE IInv'
    BY <2>4, WriteEditStep
  <2>5. ASSUME NEW c \in Clerks, WriteStatus(c) PROVE IInv'
    BY <2>5, WriteStatusStep
  <2>6. ASSUME NEW c \in Clerks, LookupKey(c) PROVE IInv'
    BY <2>6, LookupKeyStep
  <2>7. ASSUME NEW c \in Clerks, Pay(c) PROVE IInv'
    BY <2>7, PayStep
  <2> QED
    BY <2>1, <2>2, <2>3, <2>4, <2>5, <2>6, <2>7 DEF Next, ReadStep
<1> QED
  BY <1>1, InitInvariant, PTL DEF Spec

\* Every table keeps its type: in particular no refund makes amountPaid
\* negative (finance.ts:136-137), however many clerks race.
THEOREM TypeCorrect == Spec => []TypeOK
BY Invariance, PTL DEF IInv

\* No entry is on two invoices, for any number of clerks, invoices and
\* entries: the unique indexes decide, not the count before the insert.
THEOREM EntriesBilledOnce == Spec => []BilledOnce
BY Invariance, PTL DEF IInv

\* An invoice's status says what its balance is, and no payment goes above its
\* total, unless its draft was saved after it left DRAFT.
THEOREM StatusIsBalance == Spec => []StatusMatchesBalance
BY Invariance, PTL DEF IInv

\* A void invoice's entries are free to be billed again.
THEOREM VoidIsReleased == Spec => []VoidReleases
BY Invariance, PTL DEF IInv

\* A payment form is recorded once, and every answer names its payment.
THEOREM FormsPaidOnce == Spec => []SubmittedOnce
BY Invariance, PTL DEF IInv

\* A void invoice stays void and unpaid, whatever the requests that read it
\* before it was voided go on to do.
THEOREM VoidStaysVoid == Spec => VoidIsFinal
<1> DEFINE Kept == \A i \in Invoices : invoice[i].status = "VOID" =>
                     invoice'[i].status = "VOID" /\ invoice'[i].paid = invoice[i].paid
<1>1. IInv /\ [Next]_vars => Kept
  <2> SUFFICES ASSUME IInv, Next PROVE Kept
    BY DEF vars
  <2>1. PICK c \in Clerks :
          \/ ReadStep(c) \/ WriteNew(c) \/ WriteEdit(c) \/ WriteStatus(c) \/ LookupKey(c) \/ Pay(c)
    BY DEF Next, ReadStep
  <2>2. invoice \in [Invoices -> InvoiceType] /\ clerk[c] \in ClerkType
    BY DEF IInv, TypeOK
  <2>3. CASE ReadStep(c)
    BY <2>3, ReadSteps DEF Tables
  <2>4. CASE LookupKey(c)
    BY <2>4 DEF LookupKey
  <2>5. CASE WriteNew(c)
    BY <2>2, <2>5 DEF WriteNew, InvoiceType
  <2>6. CASE WriteEdit(c)
    BY <2>2, <2>6 DEF WriteEdit, InvoiceType
  <2>7. CASE WriteStatus(c)
    <3>1. invoice[clerk[c].invoice].status # "VOID"
      BY <2>2, <2>7 DEF WriteStatus, StillValid, IInv, ClerkReads, ClerkType
    <3> QED
      BY <2>2, <2>7, <3>1 DEF WriteStatus, InvoiceType
  <2>8. CASE Pay(c)
    <3>1. invoice[clerk[c].invoice].status # "VOID"
      BY <2>8 DEF Pay, Accepted, Locked, Settled
    <3> QED
      BY <2>2, <2>8, <3>1 DEF Pay, Locked, InvoiceType
  <2> QED
    BY <2>1, <2>3, <2>4, <2>5, <2>6, <2>7, <2>8
<1> QED
  BY <1>1, Invariance, PTL DEF Spec, VoidIsFinal
----------------------------------------------------------------------------
(* The ledger *)

\* The payments of each invoice are finitely many units of money, and its balance counts them.
LedgerInv ==
  LedgerBalances /\ \A i \in Invoices : IsFiniteSet(Units(i, 1)) /\ IsFiniteSet(Units(i, -1))

\* One payment more adds its amount to the units of its invoice.
LEMMA PaymentUnits ==
  ASSUME NEW i \in Invoices, NEW sign \in {1, -1}, IsFiniteSet(Units(i, sign)),
         NEW k \in Nat, NEW amount \in Int,
         DOMAIN payment = 1..k, DOMAIN payment' = 1..(k + 1), payment'[k + 1].amount = amount,
         \A n \in 1..k : payment'[n] = payment[n]
  PROVE  LET added == IF payment'[k + 1].invoice = i /\ sign * amount > 0 THEN sign * amount ELSE 0 IN
         /\ IsFiniteSet(Units(i, sign)')
         /\ Cardinality(Units(i, sign)') = Cardinality(Units(i, sign)) + added
<1> DEFINE m     == sign * amount
           added == IF payment'[k + 1].invoice = i /\ m > 0 THEN m ELSE 0
           new   == IF payment'[k + 1].invoice = i THEN {k + 1} \X (1..m) ELSE {}
<1>1. m \in Int /\ added \in Nat
  OBVIOUS
<1>2. IsFiniteSet(new) /\ Cardinality(new) = added
  <2>1. IsFiniteSet({k + 1}) /\ Cardinality({k + 1}) = 1
    BY FS_Singleton
  <2> HIDE DEF m
  <2>2. IsFiniteSet(1..m) /\ Cardinality(1..m) = (IF 1 > m THEN 0 ELSE m)
    <3>1. IsFiniteSet(1..m) /\ Cardinality(1..m) = IF 1 > m THEN 0 ELSE m - 1 + 1
      <4> 1 \in Int
        OBVIOUS
      <4> QED
        BY <1>1, FS_Interval
    <3> QED
      BY <1>1, <3>1
  <2>3. IsFiniteSet({k + 1} \X (1..m)) /\ Cardinality({k + 1} \X (1..m)) = 1 * Cardinality(1..m)
    BY <2>1, <2>2, FS_Product
  <2>4. CASE payment'[k + 1].invoice = i
    BY <1>1, <2>2, <2>3, <2>4
  <2>5. CASE payment'[k + 1].invoice # i
    BY <2>5, FS_EmptySet
  <2> QED
    BY <2>4, <2>5
<1>3. Units(i, sign)' = Units(i, sign) \cup new
  <2>1. 1..(k + 1) = (1..k) \cup {k + 1}
    OBVIOUS
  <2>2. ASSUME NEW x
        PROVE  x \in Units(i, sign)' <=> x \in Units(i, sign) \/ x \in new
    BY <2>1 DEF Units
  <2> QED
    BY <2>2
<1>4. Units(i, sign) \cap new = {}
  <2>1. \A x \in Units(i, sign) : x[1] \in 1..k
    BY DEF Units
  <2>2. \A x \in new : x[1] = k + 1
    OBVIOUS
  <2> HIDE DEF new
  <2> QED
    BY <2>1, <2>2
<1> HIDE DEF new, added
<1>5. /\ IsFiniteSet(Units(i, sign) \cup new)
      /\ Cardinality(Units(i, sign) \cup new) =
           Cardinality(Units(i, sign)) + Cardinality(new) - Cardinality({})
  BY <1>2, <1>4, FS_Union
<1>6. Cardinality({}) = 0 /\ Cardinality(Units(i, sign)) \in Nat
  BY FS_EmptySet, FS_CardinalityType
<1>7. Cardinality(Units(i, sign)') = Cardinality(Units(i, sign)) + added
  BY <1>1, <1>2, <1>3, <1>5, <1>6
<1> QED
  BY <1>3, <1>5, <1>7 DEF added

\* Payments are recorded with the balance they make.
LEMMA PayLedger ==
  ASSUME IInv, LedgerInv, NEW c \in Clerks, Pay(c)
  PROVE  LedgerInv'
<1> DEFINE i == clerk[c].invoice
           k == Len(payment)
           Rec == [invoice : Invoices, form : Forms \cup {NoForm}, amount : Int]
<1>1. PICK amount \in Accepted(c) :
        /\ payment' = Append(payment, [invoice |-> i, form |-> clerk[c].form, amount |-> amount])
        /\ invoice' = [invoice EXCEPT ![i].paid = invoice[i].paid + amount,
             ![i].status = StatusFor(invoice[i].total, invoice[i].paid + amount, invoice[i].status)]
  BY DEF Pay, Locked
<1>2. /\ i \in Invoices /\ amount \in Int /\ invoice \in [Invoices -> InvoiceType] /\ payment \in Seq(Rec)
      /\ clerk[c].form \in Forms \cup {NoForm}
  BY BillingConstants DEF Accepted, IInv, TypeOK, ClerkType
<1>3. /\ invoice'[i].paid = invoice[i].paid + amount /\ invoice[i].paid \in Nat
      /\ \A j \in Invoices \ {i} : invoice'[j] = invoice[j]
  BY <1>1, <1>2 DEF InvoiceType
<1> DEFINE new == [invoice |-> i, form |-> clerk[c].form, amount |-> amount]
<1>4. new \in Rec /\ new.invoice = i /\ new.amount = amount
  BY <1>2
<1> HIDE DEF new, i
<1>5. /\ k \in Nat /\ DOMAIN payment = 1..k /\ DOMAIN payment' = 1..(k + 1)
      /\ payment'[k + 1] = new /\ \A n \in 1..k : payment'[n] = payment[n]
  <2> HIDE DEF Rec
  <2> QED
    BY <1>1, <1>2, <1>4 DEF new, i
<1> HIDE DEF k, Rec
<1>6. ASSUME NEW j \in Invoices
      PROVE  /\ IsFiniteSet(Units(j, 1)') /\ IsFiniteSet(Units(j, -1)')
             /\ invoice'[j].paid = Ledger(j)'
  <2> DEFINE paid     == IF i = j /\ 1 * amount > 0 THEN 1 * amount ELSE 0
             refunded == IF i = j /\ (-1) * amount > 0 THEN (-1) * amount ELSE 0
  <2>1. /\ IsFiniteSet(Units(j, 1)) /\ IsFiniteSet(Units(j, -1))
        /\ invoice[j].paid = Cardinality(Units(j, 1)) - Cardinality(Units(j, -1))
    BY DEF LedgerInv, LedgerBalances, Ledger
  <2>2. /\ IsFiniteSet(Units(j, 1)') /\ Cardinality(Units(j, 1)') = Cardinality(Units(j, 1)) + paid
    BY <1>2, <1>4, <1>5, <2>1, PaymentUnits
  <2>3. /\ IsFiniteSet(Units(j, -1)') /\ Cardinality(Units(j, -1)') = Cardinality(Units(j, -1)) + refunded
    BY <1>2, <1>4, <1>5, <2>1, PaymentUnits
  <2>4. Cardinality(Units(j, 1)) \in Nat /\ Cardinality(Units(j, -1)) \in Nat
    BY <2>1, FS_CardinalityType
  <2>5. paid - refunded = (IF i = j THEN amount ELSE 0) /\ paid \in Int /\ refunded \in Int
    BY <1>2
  <2> HIDE DEF paid, refunded
  <2>6. invoice'[j].paid = Cardinality(Units(j, 1)') - Cardinality(Units(j, -1)')
    <3>1. CASE i = j
      BY <1>2, <1>3, <2>1, <2>2, <2>3, <2>4, <2>5, <3>1
    <3>2. CASE i # j
      BY <1>2, <1>3, <2>1, <2>2, <2>3, <2>4, <2>5, <3>2
    <3> QED
      BY <3>1, <3>2
  <2> QED
    BY <2>2, <2>3, <2>6 DEF Ledger
<1> QED
  BY <1>6 DEF LedgerInv, LedgerBalances

\* The balance on an invoice is the sum of its payments less its refunds, for any number of clerks,
\* payments and amounts (finance.ts:131-144): every payment adds to the row it has locked.
THEOREM LedgerIsBalance == Spec => []LedgerBalances
<1>1. Init => LedgerInv
  <2> SUFFICES ASSUME Init PROVE LedgerInv
    OBVIOUS
  <2>1. \A i \in Invoices : Units(i, 1) = {} /\ Units(i, -1) = {} /\ invoice[i].paid = 0
    BY DEF Init, Units, NoRow
  <2>2. IsFiniteSet({}) /\ Cardinality({}) = 0
    BY FS_EmptySet
  <2>3. ASSUME NEW i \in Invoices
        PROVE  IsFiniteSet(Units(i, 1)) /\ IsFiniteSet(Units(i, -1)) /\ invoice[i].paid = Ledger(i)
    <3>1. Ledger(i) = Cardinality({}) - Cardinality({})
      BY <2>1 DEF Ledger
    <3>2. Ledger(i) = 0
      BY <2>2, <3>1
    <3> QED
      BY <2>1, <2>2, <3>2
  <2> QED
    BY <2>3 DEF LedgerInv, LedgerBalances
<1>2. IInv /\ LedgerInv /\ [Next]_vars => LedgerInv'
  <2>1. ASSUME LedgerInv, UNCHANGED payment, \A i \in Invoices : invoice'[i].paid = invoice[i].paid
        PROVE  LedgerInv'
    <3>1. \A i \in Invoices : Units(i, 1)' = Units(i, 1) /\ Units(i, -1)' = Units(i, -1)
      BY <2>1 DEF Units
    <3>2. \A i \in Invoices : Ledger(i)' = Ledger(i)
      BY <3>1 DEF Ledger
    <3> QED
      BY <2>1, <3>1, <3>2 DEF LedgerInv, LedgerBalances
  <2> SUFFICES ASSUME IInv, LedgerInv, Next PROVE LedgerInv'
    BY <2>1 DEF vars
  <2>2. PICK c \in Clerks :
          \/ ReadStep(c) \/ WriteNew(c) \/ WriteEdit(c) \/ WriteStatus(c) \/ LookupKey(c) \/ Pay(c)
    BY DEF Next, ReadStep
  <2>3. invoice \in [Invoices -> InvoiceType]
    BY DEF IInv, TypeOK
  <2>4. CASE ReadStep(c)
    BY <2>1, <2>4, ReadSteps DEF Tables
  <2>5. CASE LookupKey(c)
    BY <2>1, <2>5 DEF LookupKey
  <2>6. CASE WriteNew(c)
    BY <2>1, <2>3, <2>6 DEF WriteNew, InvoiceType
  <2>7. CASE WriteEdit(c)
    BY <2>1, <2>3, <2>7 DEF WriteEdit, InvoiceType
  <2>8. CASE WriteStatus(c)
    BY <2>1, <2>3, <2>8 DEF WriteStatus, InvoiceType
  <2>9. CASE Pay(c)
    BY <2>9, PayLedger
  <2> QED
    BY <2>2, <2>4, <2>5, <2>6, <2>7, <2>8, <2>9
<1>3. LedgerInv => LedgerBalances
  BY DEF LedgerInv
<1> QED
  BY <1>1, <1>2, <1>3, Invariance, PTL DEF Spec
=============================================================================
