---------------------------- MODULE InvoiceReports ----------------------------
(***************************************************************************)
(* What is reported of the supplier invoices: the integrity audit          *)
(* (AuditService), the statement and the totals of a supplier, the totals  *)
(* of a vessel and the lists of what is still to be paid.  Each of them    *)
(* computes again from the rows of SupplierPayments, in its own way.       *)
(*                                                                         *)
(* The audit's tolerance of one cent is below the unit of an amount here.  *)
(***************************************************************************)
EXTENDS SupplierPayments

CONSTANTS
  Approved, \* invoices whose approval_status is "paid", a step of the office's own
  Aboard    \* invoices with a vessel

Entered == {i \in Invoices : Exists(i)}
Total(i) == doc[i].total
IsNote(i) == Total(i) < 0
Suppliers == {doc[i].supplier : i \in Entered}
Currencies == {doc[i].ccy : i \in Entered} \cup {p.ccy : p \in payments}

\* What the values of F come to
SumOver(F) == MapThenSumSet(LAMBDA x : F[x], DOMAIN F)

----------------------------------------------------------------------------
(* The audit *)

OwnPayments(i) == {p \in PaymentsOf(i, payments) : p.ccy = doc[i].ccy}
ForeignPayments(i) == PaymentsOf(i, payments) \ OwnPayments(i)
CreditOn(i) ==
  LET own == {a \in allocations : a.ccy = doc[i].ccy /\ i \in {a.invoice, a.note}} IN
  SumOver([a \in own |-> IF a.invoice = i THEN a.amount ELSE -a.amount])
HasEvidence(i) == PaymentsOf(i, payments) # {} \/ CreditOn(i) # 0
CashOnly(i) == AmountOf(OwnPayments(i)) \* mutant: the credit notes forgotten
Actual(i) == AmountOf(OwnPayments(i)) + CreditOn(i)
Remaining(i) == Total(i) - Actual(i)

\* By magnitude, as derivePaymentState does
DerivedStatus(i) ==
  CASE Actual(i) = 0 -> "unpaid"
    [] Actual(i) # 0 /\ Abs(Actual(i)) >= Abs(Total(i)) -> "paid"
    [] OTHER -> "partial"

Finding(rule, i, ccy, exposure, payment) ==
  [rule |-> rule, invoice |-> i, ccy |-> ccy, exposure |-> exposure, payment |-> payment]

\* The rules on an invoice; those about evidence leave out what the migration closed
InvoiceFindings(i) ==
  LET operational == i \notin Legacy
      Raise(rule, holds, exposure) ==
        IF holds THEN {Finding(rule, i, doc[i].ccy, exposure, {})} ELSE {} IN
  UNION {
    Raise("legacy_settled", ~operational /\ ~IsNote(i), 0),
    Raise("legacy_credit_note", ~operational /\ IsNote(i), 0),
    Raise("paid_without_payments",
          operational /\ status[i] = "paid" /\ ~HasEvidence(i), Abs(paid[i])),
    Raise("approval_paid_no_evidence",
          operational /\ i \in Approved /\ Actual(i) < Total(i), Remaining(i)),
    Raise("overpaid", ~IsNote(i) /\ paid[i] > Total(i), paid[i] - Total(i)),
    Raise("negative_remaining", ~IsNote(i) /\ Remaining(i) < 0, Abs(Remaining(i))),
    Raise("negative_paid_amount", ~IsNote(i) /\ paid[i] < 0, Abs(paid[i])),
    Raise("paid_amount_mismatch",
          operational /\ paid[i] # Actual(i), Abs(paid[i] - Actual(i))),
    Raise("status_inconsistent",
          status[i] \notin {"cancelled", DerivedStatus(i)}
            /\ ~(status[i] = "paid" /\ ~HasEvidence(i)), 0),
    Raise("fully_paid_not_marked",
          Total(i) > 0 /\ Actual(i) >= Total(i) /\ status[i] \notin {"paid", "cancelled"}, 0),
    Raise("invoice_without_vessel", i \notin Aboard, 0)}

\* Payments in another currency, and payments like one before them (references and
\* dates, which say how sure that is, are left out)
PaymentFindings(i) ==
  {Finding("payment_currency_mismatch", i, p.ccy, p.amount, {p}) : p \in ForeignPayments(i)}
  \cup {Finding("duplicate_payment", i, p.ccy, p.amount, {p}) :
          p \in {x \in PaymentsOf(i, payments) :
                   \E y \in PaymentsOf(i, payments) :
                     y.tx < x.tx /\ y.amount = x.amount /\ y.ccy = x.ccy}}
\* A payment whose invoice is not there; no payment is of nothing or less
OrphanFindings ==
  {Finding("orphan_payment", 0, p.ccy, p.amount, {p}) :
     p \in {x \in payments : ~Exists(x.invoice)}}

Findings ==
  OrphanFindings \cup UNION {InvoiceFindings(i) \cup PaymentFindings(i) : i \in Entered}

\* supplier_currency_mixing, raised to "high" by a payment in a wrong currency
CurrenciesOf(s) == {doc[i].ccy : i \in {j \in Entered : doc[j].supplier = s}}
Mixed == {s \in Suppliers : Cardinality(CurrenciesOf(s)) > 1}
Escalated == {s \in Mixed : \E i \in Entered : doc[i].supplier = s /\ ForeignPayments(i) # {}}

\* expByCurrency adds every rule; expDeduped takes an invoice's greatest exposure
RawExposure(c) == SumOver([f \in {g \in Findings : g.ccy = c} |-> f.exposure])
Subject(f) == IF f.invoice # 0 THEN <<f.invoice>> ELSE <<f.invoice, f.payment>>
Greatest(s, c) == Max({f.exposure : f \in {g \in Findings : Subject(g) = s /\ g.ccy = c}})
NetExposure(c) ==
  SumOver([s \in {Subject(f) : f \in {g \in Findings : g.ccy = c}} |-> Greatest(s, c)])

----------------------------------------------------------------------------
(* The statement of a supplier *)

Entry(kind, ccy, debit, credit, i) ==
  [kind |-> kind, ccy |-> ccy, debit |-> debit, credit |-> credit, invoice |-> i]

\* What is shown as paid without a payment closes the invoice on the statement
WithoutPayment(i) == paid[i] - AmountOf(PaymentsOf(i, payments))
EntriesOf(i) ==
  {IF IsNote(i) THEN Entry("credit_note", doc[i].ccy, 0, Abs(Total(i)), i)
   ELSE Entry("invoice", doc[i].ccy, Total(i), 0, i)}
  \cup (IF WithoutPayment(i) > 0
        THEN {Entry(IF i \in Legacy THEN "legacy_settlement" ELSE "unevidenced_settlement",
                    doc[i].ccy, 0, WithoutPayment(i), i)}
        ELSE {})

\* getSupplierStatement: a ledger for each currency; a payment is in its own
LedgerOf(s, c) ==
  LET own == {i \in Entered : doc[i].supplier = s}
      entries == {e \in UNION {EntriesOf(i) : i \in own} : e.ccy = c}
      Credits(kinds) == SumOver([e \in {x \in entries : x.kind \in kinds} |-> e.credit])
      cash == AmountOf({p \in payments : p.invoice \in own /\ p.ccy = c}) IN
  [invoicesTotal |-> SumOver([e \in entries |-> e.debit]),
   creditsTotal |-> Credits({"credit_note"}),
   paymentsTotal |-> cash + Credits({"legacy_settlement", "unevidenced_settlement"}),
   closingBalance |-> SumOver([e \in entries |-> e.debit - e.credit]) - cash]

----------------------------------------------------------------------------
(* Totals of a supplier (totalsByCurrency) and of a vessel (getStats) *)

ViaPms(i) == AmountOf(OwnPayments(i))
SupplierTotals(s, c) ==
  LET own == {i \in Entered : doc[i].supplier = s /\ doc[i].ccy = c}
      Rest(S) == SumOver([i \in S |-> paid[i] - ViaPms(i)]) IN
  [invoiced |-> SumOver([i \in own |-> Total(i)]), paid |-> SumOver([i \in own |-> paid[i]]),
   paidViaPms |-> SumOver([i \in own |-> ViaPms(i)]),
   settledPreSystem |-> Rest({i \in own \cap Legacy : ~IsNote(i)}),
   creditNoteOffset |-> Rest({i \in own \cap Legacy : IsNote(i)}),
   unevidencedResidual |-> Rest(own \ Legacy)]

VesselTotals(c) ==
  LET own == {i \in Entered \cap Aboard : doc[i].ccy = c}
      Paid(S) == SumOver([i \in S |-> paid[i]])
      viaPms == SumOver([i \in own |-> ViaPms(i)])
      applied == SumOver([i \in own |-> CreditOn(i)]) IN
  [invoiced |-> SumOver([i \in own |-> Total(i)]), paid |-> Paid(own),
   paidViaPms |-> viaPms, creditApplied |-> applied,
   unevidencedResidual |-> Paid(own) - viaPms - Paid(own \cap Legacy) - applied]

\* findUnpaidBySupplier
Unpaid(s) == {i \in Entered : doc[i].supplier = s /\ status[i] \in {"unpaid", "partial"}}

----------------------------------------------------------------------------
Raised(i) == {f.rule : f \in {g \in Findings : g.invoice = i}}
Sound(i) == paid[i] = Settled(i) /\ status[i] = PaymentState(Total(i), Settled(i))

\* No edit has parted a credit note from the invoice it was applied to
Together ==
  \A a \in allocations : /\ doc[a.note].supplier = doc[a.invoice].supplier
                         /\ doc[a.note].ccy = doc[a.invoice].ccy

\* The reports follow the rows, whatever was edited: the audit finds an operational
\* invoice whose paid amount or status is not what its rows give, and raises nothing
\* of the kind on one that is sound, credit notes included; its net exposure is not
\* more than the raw one and not less than what the caches are off; where they are
\* not off, neither the totals of a vessel nor those of a supplier show anything as
\* paid without evidence, whatever credit was applied, unless an edit has since
\* parted the note from the invoice; and a sound invoice is listed as unpaid until it
\* is covered, or nothing is paid of it.
ReportsFollowTheRows ==
  /\ \A i \in Entered \ Legacy :
       /\ Sound(i) <=> Raised(i) \cap {"paid_amount_mismatch", "status_inconsistent",
                                       "paid_without_payments"} = {}
       /\ Sound(i) =>
            (i \in Unpaid(doc[i].supplier) <=>
               Settled(i) = 0 \/ Abs(Settled(i)) < Abs(Total(i)))
  /\ \A c \in Currencies :
       LET own == {i \in Entered \ Legacy : doc[i].ccy = c}
           off == SumOver([i \in own |-> Abs(paid[i] - Settled(i))]) IN
       /\ off <= NetExposure(c) /\ NetExposure(c) <= RawExposure(c)
       /\ (off = 0 /\ \A i \in Legacy : PaymentsOf(i, payments) = {}) =>
            VesselTotals(c).unevidencedResidual = 0
       /\ (off = 0 /\ Together) =>
            \A s \in Suppliers : SupplierTotals(s, c).unevidencedResidual = 0

\* "After the decoupling this difference will not arise at all for new operational
\* invoices; what remains is the historical settlements": no entry of a statement
\* closes a sound operational invoice without evidence (invoices.service.ts:241-244).
NothingNewIsClosedWithoutEvidence ==
  \A i \in Entered \ Legacy : Sound(i) =>
    \A e \in EntriesOf(i) : e.kind # "unevidenced_settlement"
=============================================================================
