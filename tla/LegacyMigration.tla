---------------------------- MODULE LegacyMigration ----------------------------
(***************************************************************************)
(* The migration that closes the invoices paid before the system existed   *)
(* (R3aRunnerService over r3a-legacy-2026-08.ts), run and rolled back by   *)
(* an administrator while payments and edits of invoices go on.            *)
(*                                                                         *)
(* The run is one READ COMMITTED transaction.  Its ALTER TABLE locks the   *)
(* invoices against everybody (ACCESS EXCLUSIVE) from there to the end;    *)
(* what it reads before that it reads statement by statement.              *)
(***************************************************************************)
EXTENDS Integers, FiniteSets, FiniteSetsExt

CONSTANTS
  Clients,   \* requests that pay, undo and edit
  Archive,   \* the invoices
  Manifest,  \* the document of every invoice to be closed, as it was approved
  Basis,     \* what each of them is closed as
  Edits,     \* the documents [ccy, total] each invoice may be edited to
  Transfers, \* the payments clients send, each once: [no, invoice, amount]
  Opened     \* the invoices as they stand when the migration is first run

RowFields == {"ccy", "total", "paid", "status", "origin", "basis", "batch"}
ASSUME ArchiveAssumption ==
  /\ Opened = [i \in Archive |-> Opened[i]]
  /\ \A i \in Archive :
       DOMAIN Opened[i] = RowFields /\ Opened[i].basis = "none" /\ Opened[i].batch = FALSE
  /\ \A i \in DOMAIN Manifest : Basis[i] \in {"pre_system_settled", "credit_note"}

VARIABLES
  invoices,  \* rows: [ccy, total, paid, status, origin, basis, batch]
  payments,  \* rows, of Transfers
  batch,     \* whether the row of import_batches is there
  migration, \* the administrator's run
  clients    \* what each client is in the middle of

migrationVars == <<invoices, payments, batch, migration, clients>>

InManifest == DOMAIN Manifest
Document(i) == [ccy |-> invoices[i].ccy, total |-> invoices[i].total]
SumOf(F, S) == MapThenSumSet(LAMBDA x : F[x], S)
AmountPaid(P) == MapThenSumSet(LAMBDA p : p.amount, P)
PaymentsOn(i) == {p \in payments : p.invoice = i}
Abs(n) == IF n < 0 THEN -n ELSE n

----------------------------------------------------------------------------
(* What the run looks at *)

\* fingerprint: count, totals and paid amounts by status and currency
Fingerprint ==
  LET of(k) == {i \in Archive : invoices[i].status = k[1] /\ invoices[i].ccy = k[2]} IN
  [k \in {"unpaid", "partial", "paid"} \X {invoices[i].ccy : i \in Archive} |->
     [n |-> Cardinality(of(k)),
      total |-> SumOf([i \in Archive |-> invoices[i].total], of(k)),
      paid |-> SumOf([i \in Archive |-> invoices[i].paid], of(k))]]

\* The paid amounts the audit had found without payments, by currency
SignatureOf(rows) ==
  [c \in {Manifest[i].ccy : i \in InManifest} |->
     SumOf([i \in InManifest |-> Abs(rows[i].paid)], {i \in InManifest : rows[i].ccy = c})]

\* withPayments, fieldMismatches, signatureMatch
NoPaymentGate == \* mutant: the gate on actual payments left out
  /\ \A i \in InManifest : Document(i) = Manifest[i]
  /\ SignatureOf(invoices) = SignatureOf(Opened)
Gates ==
  /\ \A i \in InManifest : PaymentsOn(i) = {} /\ Document(i) = Manifest[i]
  /\ SignatureOf(invoices) = SignatureOf(Opened)

\* TAG_UPDATE: the rows of the manifest that are still operational
Tagged ==
  [i \in Archive |->
     IF i \in InManifest /\ invoices[i].origin = "operational"
     THEN [invoices[i] EXCEPT !.origin = "migrated", !.basis = Basis[i], !.batch = TRUE]
     ELSE invoices[i]]

\* The checks after the tagging, and the fingerprint taken before it
Valid(before) ==
  /\ {i \in Archive : Tagged[i].batch} = InManifest
  /\ \A i \in InManifest : Tagged[i].basis = Basis[i] /\ Document(i) = Manifest[i]
  /\ \A i \in Archive \ InManifest : Tagged[i].origin # "migrated"
  /\ \A i \in Archive : Tagged[i].basis = "pre_system_settled" => Tagged[i].batch /\ PaymentsOn(i) = {}
  /\ Fingerprint = before.money
  /\ Cardinality(payments) = before.payments

----------------------------------------------------------------------------
(* The run *)

Off == [step |-> "off"]
NoRequest == [step |-> "idle"]

\* Who may touch an invoice, and when the ALTER TABLE gets its lock
Accessible == migration.step \notin {"altered", "gated"}
NobodyInside == \A c \in Clients : clients[c] = NoRequest

Moves(m) == migration' = m /\ UNCHANGED <<invoices, payments, batch, clients>>

BeginRun(dry) ==
  /\ migration = Off
  /\ Moves([step |-> "begun", dry |-> dry, money |-> Fingerprint])
TakeSnapshot ==
  /\ migration.step = "begun"
  /\ Moves([step |-> "snapshot", dry |-> migration.dry, money |-> migration.money,
            payments |-> Cardinality(payments)])
AlterTables ==
  /\ migration.step = "snapshot" /\ NobodyInside
  /\ Moves([migration EXCEPT !.step = "altered"])
PassGates ==
  /\ migration.step = "altered" /\ Gates
  /\ Moves([migration EXCEPT !.step = "gated"])
\* The batch is written unless it is there (ON CONFLICT DO NOTHING)
Commit ==
  /\ migration.step = "gated" /\ Valid(migration) /\ ~migration.dry
  /\ invoices' = Tagged /\ batch' = TRUE
  /\ migration' = Off
  /\ UNCHANGED <<payments, clients>>
\* A gate, a check, a dry run or a lost connection: all of it is rolled back
Abort == migration # Off /\ Moves(Off)

\* rollback: the new columns go back to their defaults, the batch goes; the
\* UPDATE waits for the rows that clients hold
Rollback ==
  /\ migration = Off /\ batch
  /\ \A c \in Clients : clients[c] # NoRequest => ~invoices[clients[c].invoice].batch
  /\ invoices' = [i \in Archive |->
       IF invoices[i].batch
       THEN [invoices[i] EXCEPT !.origin = "operational", !.basis = "none", !.batch = FALSE]
       ELSE invoices[i]]
  /\ batch' = FALSE
  /\ UNCHANGED <<payments, migration, clients>>

----------------------------------------------------------------------------
(* The clients *)

\* derivePaymentState, recompute: a closed invoice is not derived again
DerivedFor(i, P) ==
  LET paid == AmountPaid({p \in P : p.invoice = i}) IN
  [invoices[i] EXCEPT
     !.paid = paid,
     !.status = CASE paid = 0 -> "unpaid"
                  [] paid # 0 /\ paid >= Abs(invoices[i].total) -> "paid"
                  [] OTHER -> "partial"]
RecomputeOpen(i, P) ==
  IF invoices[i].basis \in {"pre_system_settled", "credit_note"}
  THEN invoices ELSE [invoices EXCEPT ![i] = DerivedFor(i, P)]

Unheld(i) == \A c \in Clients : clients[c] # NoRequest => clients[c].invoice # i
BeginPayment(c, p) ==
  /\ clients[c] = NoRequest /\ Accessible /\ Unheld(p.invoice) /\ p \notin payments
  /\ AmountPaid(PaymentsOn(p.invoice)) + p.amount <= Abs(invoices[p.invoice].total)
  /\ clients' = [clients EXCEPT ![c] = [step |-> "pay", invoice |-> p.invoice, row |-> p]]
  /\ UNCHANGED <<invoices, payments, batch, migration>>
CommitPayment(c) ==
  LET P == payments \cup {clients[c].row} IN
  /\ clients[c].step = "pay"
  /\ payments' = P
  /\ invoices' = RecomputeOpen(clients[c].invoice, P)
  /\ clients' = [clients EXCEPT ![c] = NoRequest]
  /\ UNCHANGED <<batch, migration>>
UndoPayment(c, p) ==
  /\ clients[c] = NoRequest /\ Accessible /\ Unheld(p.invoice) /\ p \in payments
  /\ payments' = payments \ {p}
  /\ invoices' = RecomputeOpen(p.invoice, payments')
  /\ UNCHANGED <<batch, migration, clients>>
\* update: one UPDATE of the document (its own races are in SupplierPayments)
EditInvoice(c, i, d) ==
  /\ clients[c] = NoRequest /\ Accessible /\ Unheld(i)
  /\ invoices' = [invoices EXCEPT ![i].ccy = d.ccy, ![i].total = d.total]
  /\ UNCHANGED <<payments, batch, migration, clients>>

----------------------------------------------------------------------------
MigrationInit ==
  /\ invoices = Opened
  /\ payments = {} /\ batch = FALSE
  /\ migration = Off
  /\ clients = [c \in Clients |-> NoRequest]

MigrationNext ==
  \/ \E dry \in BOOLEAN : BeginRun(dry)
  \/ TakeSnapshot \/ AlterTables \/ PassGates \/ Commit \/ Abort \/ Rollback
  \/ \E c \in Clients :
       \/ \E p \in Transfers : BeginPayment(c, p) \/ UndoPayment(c, p)
       \/ \E i \in Archive : \E d \in Edits[i] : EditInvoice(c, i, d)
       \/ CommitPayment(c)

MigrationSpec == MigrationInit /\ [][MigrationNext]_migrationVars

----------------------------------------------------------------------------
\* What is closed as settled before the system is what was approved: all of the
\* manifest at once and nothing else, with the documents as approved, without one
\* payment, and not a cent or a status moved (the gates, the checks and the
\* fingerprint of run, between payments and edits that go on); and as long as it is
\* closed neither its paid amount nor its status changes (isLegacySettled).
LegacySettlementsStand ==
  [][/\ (\E i \in Archive : invoices[i].basis = "none" /\ invoices'[i].basis # "none") =>
          /\ {i \in Archive : invoices'[i].basis # "none"} = InManifest
          /\ \A i \in InManifest :
               /\ Document(i)' = Manifest[i] /\ PaymentsOn(i)' = {}
               /\ invoices'[i].basis = Basis[i]
          /\ Fingerprint' = Fingerprint
     /\ \A i \in Archive :
          (invoices[i].basis # "none" /\ invoices'[i].basis # "none") =>
            /\ invoices'[i].paid = invoices[i].paid
            /\ invoices'[i].status = invoices[i].status]_migrationVars
=============================================================================
