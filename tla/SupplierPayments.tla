-------------------------- MODULE SupplierPayments --------------------------
(***************************************************************************)
(* Supplier invoices, their payments and the credit notes applied to them: *)
(* PaymentsService, the rules of payment-derivation.ts, and the edits and  *)
(* deletions of InvoicesService that meet them.                            *)
(*                                                                         *)
(* The paid amount and the status of an invoice are a cache of the rows of *)
(* payments and credit_note_allocations.  Every operation that writes rows *)
(* is a READ COMMITTED transaction: it locks the invoices it touches one   *)
(* by one (SELECT ... FOR UPDATE), checks, inserts or deletes, and derives *)
(* the cache again before it commits.                                      *)
(*                                                                         *)
(* Amounts are whole cents.  An invoice with a negative total is a credit  *)
(* note.  Invoices are numbered in the order of their identifiers, which   *)
(* is the order locks are taken in.                                        *)
(***************************************************************************)
EXTENDS Integers, FiniteSets, FiniteSetsExt

CONSTANTS
  Users,      \* concurrent requests
  Invoices,   \* numbers of the invoices and credit notes
  Documents,  \* what may be entered: supplier, currency, total
  Given,      \* the document each invoice is entered as
  Legacy,     \* closed by the r3a migration, before anything else happens
  Payable,    \* bound: the invoices single payments are sent for
  Editable,   \* bound: the invoices whose document is edited
  Removable,  \* bound: the invoices that get attachments and are deleted
  Amounts,    \* amounts of single payments
  Batches,    \* batches a client may send
  MaxRows     \* bound: transactions that insert rows

ASSUME InvoicesAssumption == Invoices \subseteq Nat /\ IsFiniteSet(Invoices)
ASSUME DocumentsAssumption ==
  Documents \subseteq [supplier : STRING, ccy : STRING, total : Int]
ASSUME GivenAssumption == Given \in [Invoices -> Documents]
ASSUME AmountsAssumption == Amounts \subseteq Nat \ {0}
ASSUME BatchesAssumption ==
  \A b \in Batches :
    /\ DOMAIN b.cash \subseteq Invoices /\ b.cash \in [DOMAIN b.cash -> Int]
    /\ b.credits \subseteq [note : Invoices, invoice : Invoices, amount : Int]
    /\ IsFiniteSet(b.credits)
ASSUME SubsetsAssumption ==
  /\ Legacy \subseteq Invoices /\ Payable \subseteq Invoices
  /\ Editable \subseteq Invoices /\ Removable \subseteq Invoices

VARIABLES
  doc,         \* supplier, currency and total of each invoice
  status,      \* invoices.status; "absent" before it is entered, "deleted" after
  paid,        \* invoices.paid_amount
  attached,    \* whether the invoice has attachments
  payments,    \* rows of payments
  allocations, \* rows of credit_note_allocations
  serial,      \* transactions that inserted rows so far: their rows' identity
  pc,          \* where each request is
  req,         \* what it was given or read
  wanted,      \* the invoices it has still to lock
  held         \* the invoices it holds locked

paperVars   == <<doc, status, paid>>
rowVars     == <<payments, allocations, serial>>
requestVars == <<pc, req, wanted, held>>
vars == <<paperVars, attached, rowVars, requestVars>>

----------------------------------------------------------------------------
(* What is derived from the rows *)

Exists(i) == status[i] \notin {"absent", "deleted"}
Abs(n) == IF n < 0 THEN -n ELSE n

PaymentsOf(i, P) == {p \in P : p.invoice = i}
AmountOf(rows) == MapThenSumSet(LAMBDA r : r.amount, rows)

\* actualPaid: payments and applied credit, less the credit applied from it;
\* rows in another currency do not count
SettledIn(i, P, A) ==
  LET own(rows) == {r \in rows : r.ccy = doc[i].ccy} IN
  AmountOf(own(PaymentsOf(i, P)))
    + AmountOf(own({a \in A : a.invoice = i}))
    - AmountOf(own({a \in A : a.note = i}))
Settled(i) == SettledIn(i, payments, allocations)

\* derivePaymentState: by magnitude, so that a used-up note counts as paid
PaymentState(total, amount) ==
  CASE amount = 0 -> "unpaid"
    [] amount # 0 /\ Abs(amount) >= Abs(total) -> "paid"
    [] OTHER -> "partial"

\* recompute, for each invoice of S, from the rows as the transaction sees them
NoteNotDerived(S, P, A) == \* mutant: the note's paid amount is left as it was
  /\ paid' = [i \in Invoices |->
       IF i \in S \ Legacy /\ Exists(i) /\ doc[i].total > 0
       THEN SettledIn(i, P, A) ELSE paid[i]]
  /\ status' = [i \in Invoices |->
       IF i \in S \ Legacy /\ Exists(i)
       THEN PaymentState(doc[i].total, SettledIn(i, P, A)) ELSE status[i]]
Recompute(S, P, A) ==
  /\ paid' = [i \in Invoices |->
       IF i \in S \ Legacy /\ Exists(i) THEN SettledIn(i, P, A) ELSE paid[i]]
  /\ status' = [i \in Invoices |->
       IF i \in S \ Legacy /\ Exists(i)
       THEN PaymentState(doc[i].total, SettledIn(i, P, A)) ELSE status[i]]

----------------------------------------------------------------------------
(* What is accepted *)

\* create: a positive amount that keeps within the total, by magnitudes; an
\* invoice closed by the migration and a credit note are not refused
AnyPayment(i, amount) == Exists(i) \* mutant: assertNoOverpayment left out
PaymentAccepted(i, amount) ==
  /\ Exists(i)
  /\ Abs(Settled(i)) + amount <= Abs(doc[i].total)

\* assertCreditBatch: may this supplier's batch touch the invoice at all
Open(i, supplier) ==
  /\ Exists(i)
  /\ doc[i].supplier = supplier
  /\ status[i] # "cancelled"
  /\ i \notin Legacy

Used(b, n) == AmountOf({c \in b.credits : c.note = n})
Applied(b, i) == AmountOf({c \in b.credits : c.invoice = i})
Lines(b) == DOMAIN b.cash
NotesOf(b) == {c.note : c \in b.credits}
Touched(b) == Lines(b) \cup NotesOf(b) \cup {c.invoice : c \in b.credits}

LineAccepted(b, i) ==
  /\ Open(i, b.supplier) /\ doc[i].total > 0
  /\ b.cash[i] >= 0 /\ (b.cash[i] > 0 \/ Applied(b, i) > 0)
  /\ Settled(i) + b.cash[i] + Applied(b, i) <= doc[i].total
CreditAccepted(b, c) ==
  /\ Open(c.note, b.supplier) /\ doc[c.note].total < 0
  /\ c.invoice \in Lines(b)
  /\ doc[c.note].ccy = doc[c.invoice].ccy
  /\ c.amount > 0
NoteLasts(b, n) == Used(b, n) <= Abs(doc[n].total) - Abs(Settled(n))
BatchAccepted(b) ==
  /\ Lines(b) # {}
  /\ \A i \in Lines(b) : LineAccepted(b, i)
  /\ \A c \in b.credits : CreditAccepted(b, c)
  /\ \A n \in NotesOf(b) : NoteLasts(b, n)

Accepted(r) ==
  \/ r.op = "pay" /\ PaymentAccepted(r.invoice, r.amount)
  \/ r.op = "batch" /\ BatchAccepted(r.batch)
  \/ r.op \in {"unpay", "unapply"}

----------------------------------------------------------------------------
(* Transactions *)

NoRequest == [op |-> "none"]
Ops == {"pay", "batch", "unpay", "unapply"}

LockIgnored(u, i) == TRUE \* mutant: no pessimistic_write
LockFree(u, i) == \A v \in Users \ {u} : i \notin held[v]

\* What a statement outside a transaction waits for
NeverWaits(i) == TRUE \* mutant: the rows are read without a lock
RowFree(i) == \A v \in Users : i \notin held[v]

\* Both lists of identifiers are sorted before the rows are locked
NoteFirst(u) == \* mutant: an application's rows locked as they come
  IF req[u].op = "unapply" THEN Max(wanted[u]) ELSE Min(wanted[u])
NextLock(u) == Min(wanted[u])

Start(u, r, S) ==
  /\ pc[u] = "idle"
  /\ pc' = [pc EXCEPT ![u] = "lock"]
  /\ req' = [req EXCEPT ![u] = r]
  /\ wanted' = [wanted EXCEPT ![u] = S]
  /\ UNCHANGED held
End(u) ==
  /\ pc' = [pc EXCEPT ![u] = "idle"]
  /\ req' = [req EXCEPT ![u] = NoRequest]
  /\ wanted' = [wanted EXCEPT ![u] = {}]
  /\ held' = [held EXCEPT ![u] = {}]

\* Bound of the model
Room == serial + Cardinality({u \in Users : req[u].op \in {"pay", "batch"}}) < MaxRows

BeginPayment(u) ==
  \E i \in Payable, amount \in Amounts :
    /\ Room
    /\ Start(u, [op |-> "pay", invoice |-> i, amount |-> amount], {i})
    /\ UNCHANGED <<paperVars, attached, rowVars>>

BeginBatch(u) ==
  \E b \in Batches :
    /\ Room
    /\ Start(u, [op |-> "batch", batch |-> b], Touched(b))
    /\ UNCHANGED <<paperVars, attached, rowVars>>

\* remove and removeAllocation read the row before they lock anything
BeginRemovePayment(u) ==
  \E p \in payments :
    /\ Start(u, [op |-> "unpay", row |-> p], {p.invoice})
    /\ UNCHANGED <<paperVars, attached, rowVars>>

BeginRemoveAllocation(u) ==
  \E a \in allocations :
    /\ Start(u, [op |-> "unapply", row |-> a], {a.note, a.invoice})
    /\ UNCHANGED <<paperVars, attached, rowVars>>

Lock(u) ==
  /\ pc[u] = "lock" /\ wanted[u] # {}
  /\ LockFree(u, NextLock(u))
  /\ held' = [held EXCEPT ![u] = @ \cup {NextLock(u)}]
  /\ wanted' = [wanted EXCEPT ![u] = @ \ {NextLock(u)}]
  /\ UNCHANGED <<paperVars, attached, rowVars, pc, req>>

\* The rows are read and everything is checked before the first write
Check(u) ==
  /\ pc[u] = "lock" /\ wanted[u] = {}
  /\ Accepted(req[u])
  /\ pc' = [pc EXCEPT ![u] = "write"]
  /\ UNCHANGED <<paperVars, attached, rowVars, req, wanted, held>>

Refuse(u) ==
  /\ pc[u] = "lock" /\ wanted[u] = {}
  /\ ~Accepted(req[u])
  /\ End(u)
  /\ UNCHANGED <<paperVars, attached, rowVars>>

Writes(u, op) == pc[u] = "write" /\ req[u].op = op

CommitPayment(u) ==
  LET i == req[u].invoice
      P == payments \cup {[tx |-> serial, invoice |-> i,
                           amount |-> req[u].amount, ccy |-> doc[i].ccy]} IN
  /\ Writes(u, "pay")
  /\ payments' = P
  /\ serial' = serial + 1
  /\ Recompute({i}, P, allocations)
  /\ End(u)
  /\ UNCHANGED <<doc, attached, allocations>>

CashLines(b) == {i \in Lines(b) : b.cash[i] > 0}

\* Cash lines become payments, credits become allocations, in one transaction
CommitBatch(u) ==
  LET b == req[u].batch
      P == payments \cup
             {[tx |-> serial, invoice |-> i, amount |-> b.cash[i], ccy |-> doc[i].ccy] :
                i \in CashLines(b)}
      A == allocations \cup
             {[tx |-> serial, note |-> c.note, invoice |-> c.invoice,
               amount |-> c.amount, ccy |-> doc[c.invoice].ccy] : c \in b.credits} IN
  /\ Writes(u, "batch")
  /\ payments' = P /\ allocations' = A
  /\ serial' = serial + 1
  /\ Recompute(Touched(b), P, A)
  /\ End(u)
  /\ UNCHANGED <<doc, attached>>

CommitRemovePayment(u) ==
  /\ Writes(u, "unpay")
  /\ payments' = payments \ {req[u].row}
  /\ Recompute({req[u].row.invoice}, payments', allocations)
  /\ End(u)
  /\ UNCHANGED <<doc, attached, allocations, serial>>

CommitRemoveAllocation(u) ==
  LET a == req[u].row IN
  /\ Writes(u, "unapply")
  /\ allocations' = allocations \ {a}
  /\ Recompute({a.note, a.invoice}, payments, allocations')
  /\ End(u)
  /\ UNCHANGED <<doc, attached, payments, serial>>

\* The connection is lost: what the transaction did is rolled back
ConnectionLost(u) ==
  /\ pc[u] # "idle"
  /\ End(u)
  /\ UNCHANGED <<paperVars, attached, rowVars>>

----------------------------------------------------------------------------
(* Invoices *)

EnterInvoice(u) ==
  \E i \in Invoices :
    /\ pc[u] = "idle" /\ status[i] = "absent"
    /\ doc' = [doc EXCEPT ![i] = Given[i]]
    /\ status' = [status EXCEPT ![i] = "unpaid"]
    /\ UNCHANGED <<paid, attached, rowVars, requestVars>>

\* InvoicesService.update: one UPDATE, which waits for the row; the paid amount
\* and the status are stripped from what the client sent, and not derived again
EditInvoice(u) ==
  \E i \in Editable, d \in Documents :
    /\ pc[u] = "idle" /\ Exists(i)
    /\ RowFree(i)
    /\ doc' = [doc EXCEPT ![i] = d]
    /\ UNCHANGED <<status, paid, attached, rowVars, requestVars>>

\* AttachmentsService.create: the foreign key waits for the invoice's row
AttachFile(u) ==
  \E i \in Removable :
    /\ pc[u] = "idle" /\ Exists(i)
    /\ RowFree(i)
    /\ attached' = [attached EXCEPT ![i] = TRUE]
    /\ UNCHANGED <<paperVars, rowVars, requestVars>>

\* InvoicesService.remove: three statements, no transaction around them
BeginRemoveInvoice(u) ==
  \E i \in Removable :
    /\ pc[u] = "idle" /\ Exists(i)
    /\ \A a \in allocations : i \notin {a.invoice, a.note}
    /\ pc' = [pc EXCEPT ![u] = "counted"]
    /\ req' = [req EXCEPT ![u] = [op |-> "delete", invoice |-> i]]
    /\ UNCHANGED <<paperVars, attached, rowVars, wanted, held>>

DeleteAttachments(u) ==
  /\ pc[u] = "counted"
  /\ attached' = [attached EXCEPT ![req[u].invoice] = FALSE]
  /\ pc' = [pc EXCEPT ![u] = "detached"]
  /\ UNCHANGED <<paperVars, rowVars, req, wanted, held>>

\* The foreign keys of payments, allocations and attachments
NoForeignKeys(i) == attached[i] \* mutant: what was counted is relied on
Referenced(i) ==
  \/ \E p \in payments : p.invoice = i
  \/ \E a \in allocations : i \in {a.invoice, a.note}
  \/ attached[i]

DeleteInvoice(u) ==
  LET i == req[u].invoice IN
  /\ pc[u] = "detached"
  /\ RowFree(i)
  /\ status' = IF Referenced(i) THEN status ELSE [status EXCEPT ![i] = "deleted"]
  /\ End(u)
  /\ UNCHANGED <<doc, paid, attached, rowVars>>

----------------------------------------------------------------------------
Init ==
  /\ doc = Given
  /\ status = [i \in Invoices |-> IF i \in Legacy THEN "paid" ELSE "absent"]
  /\ paid = [i \in Invoices |-> IF i \in Legacy THEN Given[i].total ELSE 0]
  /\ attached = [i \in Invoices |-> FALSE]
  /\ payments = {} /\ allocations = {} /\ serial = 0
  /\ pc = [u \in Users |-> "idle"]
  /\ req = [u \in Users |-> NoRequest]
  /\ wanted = [u \in Users |-> {}]
  /\ held = [u \in Users |-> {}]

Begin(u) ==
  \/ BeginPayment(u) \/ BeginBatch(u)
  \/ BeginRemovePayment(u) \/ BeginRemoveAllocation(u)
  \/ EnterInvoice(u) \/ EditInvoice(u) \/ AttachFile(u) \/ BeginRemoveInvoice(u)
Continue(u) ==
  \/ Lock(u) \/ Check(u) \/ Refuse(u)
  \/ CommitPayment(u) \/ CommitBatch(u)
  \/ CommitRemovePayment(u) \/ CommitRemoveAllocation(u)
  \/ DeleteAttachments(u) \/ DeleteInvoice(u)
  \/ ConnectionLost(u)

Next == \E u \in Users : Begin(u) \/ Continue(u)
Spec == Init /\ [][Next]_vars

\* A request under way is continued; who waits for a row gets it in turn
Fairness ==
  \A u \in Users :
    /\ SF_vars(Lock(u)) /\ SF_vars(DeleteInvoice(u))
    /\ WF_vars(Check(u)) /\ WF_vars(Refuse(u)) /\ WF_vars(DeleteAttachments(u))
    /\ WF_vars(CommitPayment(u)) /\ WF_vars(CommitBatch(u))
    /\ WF_vars(CommitRemovePayment(u)) /\ WF_vars(CommitRemoveAllocation(u))
FairSpec == Spec /\ Fairness

----------------------------------------------------------------------------
(* Properties *)

Payment == [tx : Nat, invoice : Invoices, amount : Nat \ {0}, ccy : STRING]
Allocation == [tx : Nat, note : Invoices, invoice : Invoices,
               amount : Nat \ {0}, ccy : STRING]
Request ==
  {NoRequest}
  \cup [op : {"pay"}, invoice : Invoices, amount : Amounts]
  \cup [op : {"batch"}, batch : Batches]
  \cup [op : {"unpay"}, row : Payment]
  \cup [op : {"unapply"}, row : Allocation]
  \cup [op : {"delete"}, invoice : Invoices]

\* Every variable has its type
TypeOK ==
  /\ doc \in [Invoices -> Documents]
  /\ status \in [Invoices -> {"absent", "deleted", "unpaid", "partial", "paid"}]
  /\ paid \in [Invoices -> Int]
  /\ attached \in [Invoices -> BOOLEAN]
  /\ \A p \in payments : p \in Payment
  /\ \A a \in allocations : a \in Allocation
  /\ serial \in Nat
  /\ pc \in [Users -> {"idle", "lock", "write", "counted", "detached"}]
  /\ \A u \in Users : req[u] \in Request
  /\ wanted \in [Users -> SUBSET Invoices]
  /\ held \in [Users -> SUBSET Invoices]

\* What was checked under the locks is still so when the rows are written:
\* neither another payment nor an edit of the invoice comes between
ChecksHold == \A u \in Users : pc[u] = "write" => Accepted(req[u])

\* Between commits the cache is what the rows give, for every invoice that
\* is neither closed by the migration nor edited (the audit's rules
\* paid_amount_mismatch and status_inconsistent raise nothing)
CacheIs(i) ==
  Exists(i) => paid[i] = Settled(i) /\ status[i] = PaymentState(doc[i].total, Settled(i))
CacheMatchesRows == \A i \in Invoices \ (Legacy \cup Editable) : CacheIs(i)

\* A deleted invoice leaves no payment and no application behind, although the
\* deletion counted them in an earlier statement (audit rule orphan_payment)
NoOrphans ==
  /\ \A p \in payments : Exists(p.invoice)
  /\ \A a \in allocations : Exists(a.note) /\ Exists(a.invoice)

\* Locks are held by one request and asked for in ascending order, so that no
\* wait cycle can arise
LocksAscend ==
  \A u \in Users :
    /\ \A v \in Users \ {u} : held[u] \cap held[v] = {}
    /\ \A i \in held[u], j \in wanted[u] : i < j

\* An application joins a note and an invoice of one supplier and one currency,
\* neither of them closed, whatever is edited meanwhile
CreditsStayWithSupplier ==
  [][\A a \in allocations' \ allocations :
       LET n == doc[a.note]  i == doc[a.invoice] IN
       /\ n.supplier = i.supplier /\ n.ccy = i.ccy /\ a.ccy = i.ccy
       /\ n.total < 0 /\ i.total > 0
       /\ a.note \notin Legacy /\ a.invoice \notin Legacy]_vars

\* Every request comes to an end: no lock is waited for in vain
RequestsFinish == \A u \in Users : pc[u] # "idle" ~> pc[u] = "idle"

\* Refinement: what the paid amounts show is a book of whole settlements
Book == INSTANCE SettlementBook WITH
  Papers <- Invoices \ Legacy,
  Total <- [i \in Invoices \ Legacy |-> Given[i].total],
  settled <- [i \in Invoices \ Legacy |-> paid[i]]
ImplementsBook == Book!BookSpec

----------------------------------------------------------------------------
(* What the source says and the code does not keep *)

\* "applied from the note more than its remaining balance" is refused
NotesAreNotOverApplied ==
  \A n \in Invoices :
    Exists(n) => AmountOf({a \in allocations : a.note = n}) <= Abs(doc[n].total)
=============================================================================
