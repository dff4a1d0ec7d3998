--------------------------- MODULE DocumentBridge ---------------------------
(***************************************************************************)
(* From documents to drafts: the accruals, settlements and releases of     *)
(* AccountingBridgeService, the receipts that make a supplier's invoice    *)
(* eligible (ReceiptsService), and the payments that come and go meanwhile.*)
(*                                                                         *)
(* Each request reads with several statements, without a lock and outside  *)
(* a transaction, and ends in createDraft.  Only the unique index on the   *)
(* source of an entry stands between two requests for one document.        *)
(*                                                                         *)
(* The ledger is seen as LedgerBook promises it: a draft is posted or      *)
(* voided, a posted entry is reversed at most once.  Void entries count    *)
(* nowhere and are forgotten.  The payments are seen as SettlementBook     *)
(* promises them: those of an invoice never exceed its total.              *)
(*                                                                         *)
(* Amounts are whole cents of the invoice's currency; rates are only told  *)
(* apart.                                                                  *)
(***************************************************************************)
EXTENDS Integers, FiniteSets, FiniteSetsExt

CONSTANTS
  Users,         \* concurrent requests
  Invoices,      \* supplier invoices in the scope of the ledger
  InvoiceTotal,  \* their totals
  Number,        \* their numbers, which two suppliers may share
  Payments,      \* payments that may be recorded: [id, invoice, amount]
  ApprovedRates, \* approved rates of the dates a request may name
  Hires,         \* hire invoices: [id, total, from, to], both days included
  ReleasePeriods,\* periods revenue is released for: [from, to]
  None,          \* no source
  MaxEntries     \* bound: entries written

\* The primary key of the payments
ASSUME PaymentsHaveIds == \A p, q \in Payments : p.id = q.id => p = q

VARIABLES
  received, \* invoices with a row in goods_service_receipts
  missing,  \* invoices whose approval_status is delivery_missing
  made,     \* rows of payments
  gone,     \* payments deleted again
  entries,  \* rows of journal_entries, the void ones left out
  written,  \* entries written so far: their identity
  bridge    \* what each request has read: its step and the draft it builds

docVars == <<received, missing, made, gone>>
entryVars == <<entries, written>>
bridgeVars == <<docVars, entryVars, bridge>>

----------------------------------------------------------------------------
(* Amounts *)

AmountOf(S) == MapThenSumSet(LAMBDA r : r.amount, S)

\* splitHireRevenue: the part of a hire earned in a period, by days
Span(from, to) == to - from + 1
Later(a, b) == IF a > b THEN a ELSE b
Earlier(a, b) == IF a < b THEN a ELSE b
DaysInside(h, p) ==
  LET start == Later(h.from, p.from)  end == Earlier(h.to, p.to) IN
  IF start > end THEN 0 ELSE Span(start, end)
Earned(h, p) ==
  (2 * h.total * DaysInside(h, p) + Span(h.from, h.to)) \div (2 * Span(h.from, h.to))

----------------------------------------------------------------------------
(* Entries *)

Source(type, id) == <<type, id>>
EntriesOf(event, src) == {e \in entries : e.event = event /\ e.src = src}
Accruals(i) == EntriesOf("invoice_accrual", Source("invoice", i))
Settlements(p) == EntriesOf("payment_settlement", Source("payment", p.id))

Draft(event, src, amount, rate, basis) ==
  [event |-> event, src |-> src, amount |-> amount, rate |-> rate, basis |-> basis]

Room == written + Cardinality({u \in Users : bridge[u].step # "idle"}) < MaxEntries
AtRest == [step |-> "idle"]
Step(u, r) == bridge' = [bridge EXCEPT ![u] = r]
SubmitDraft(u, draft) == Step(u, [step |-> "draft", draft |-> draft])

\* createDraft: refused by the unique index if a live entry has the source
TakenTwice(draft) == FALSE \* mutant: no unique index
Taken(draft) == draft.src # None /\ EntriesOf(draft.event, draft.src) # {}
WriteDraft(u) ==
  /\ bridge[u].step = "draft"
  /\ LET d == bridge[u].draft IN
     IF Taken(d) THEN UNCHANGED entryVars
     ELSE /\ entries' = entries \cup
               {[id |-> written, status |-> "draft", event |-> d.event, src |-> d.src,
                 amount |-> d.amount, rate |-> d.rate, basis |-> d.basis]}
          /\ written' = written + 1
  /\ Step(u, AtRest)
  /\ UNCHANGED docVars

PostEntry(u) ==
  \E e \in entries :
    /\ bridge[u].step = "idle" /\ e.status = "draft"
    /\ entries' = (entries \ {e}) \cup {[e EXCEPT !.status = "posted"]}
    /\ UNCHANGED <<docVars, written, bridge>>

VoidEntry(u) ==
  \E e \in entries :
    /\ bridge[u].step = "idle" /\ e.status = "draft"
    /\ entries' = entries \ {e}
    /\ UNCHANGED <<docVars, written, bridge>>

\* A reversal has the source of what it reverses
ReverseEntry(u) ==
  \E e \in entries :
    /\ bridge[u].step = "idle" /\ Room
    /\ e.status = "posted" /\ e.event # "reversal"
    /\ e.src # None => EntriesOf("reversal", e.src) = {}
    /\ entries' = (entries \ {e}) \cup
         {[e EXCEPT !.status = "reversed"],
          [e EXCEPT !.id = written, !.event = "reversal", !.amount = -@]}
    /\ written' = written + 1
    /\ UNCHANGED <<docVars, bridge>>

----------------------------------------------------------------------------
(* Documents *)

Receive(u) ==
  \E i \in Invoices \ received :
    /\ bridge[u].step = "idle"
    /\ received' = received \cup {i}
    /\ UNCHANGED <<missing, made, gone, entryVars, bridge>>

Approve(u) ==
  \E i \in Invoices :
    /\ bridge[u].step = "idle"
    /\ missing' = IF i \in missing THEN missing \ {i} ELSE missing \cup {i}
    /\ UNCHANGED <<received, made, gone, entryVars, bridge>>

PaidOf(i) == {p \in made : p.invoice = i}
RecordPayment(u) ==
  \E p \in Payments \ (made \cup gone) :
    /\ bridge[u].step = "idle"
    /\ AmountOf(PaidOf(p.invoice)) + p.amount <= InvoiceTotal[p.invoice]
    /\ made' = made \cup {p}
    /\ UNCHANGED <<received, missing, gone, entryVars, bridge>>

\* The ledger is not asked
RemovePayment(u) ==
  \E p \in made :
    /\ bridge[u].step = "idle"
    /\ made' = made \ {p} /\ gone' = gone \cup {p}
    /\ UNCHANGED <<received, missing, entryVars, bridge>>

----------------------------------------------------------------------------
(* A supplier's invoice: the accrual *)

Categories == {"GOODS", "PERIOD_SERVICE"}
\* evaluateAccrualEligibility.  The end of the period and the day it is judged
\* on are in the request
Accruable(i, category, elapsed) ==
  \/ i \in received
  \/ i \notin missing /\ category = "PERIOD_SERVICE" /\ elapsed

BeginAccrual(u) ==
  \E i \in Invoices, category \in Categories, elapsed \in BOOLEAN, rate \in ApprovedRates :
    /\ bridge[u].step = "idle" /\ Room
    /\ Accruals(i) = {}
    /\ Accruable(i, category, elapsed)
    /\ SubmitDraft(u, Draft("invoice_accrual", Source("invoice", i), InvoiceTotal[i], rate,
                            category))
    /\ UNCHANGED <<docVars, entryVars>>

(* A payment: the settlement *)

\* The accrual must be posted; its rate closes the liability
AnyAccrual(i) == Accruals(i) \* mutant: a draft accrual will do
PostedAccruals(i) == {e \in Accruals(i) : e.status = "posted"}
BeginSettlement(u) ==
  \E p \in made :
    /\ bridge[u].step = "idle" /\ Room
    /\ Settlements(p) = {}
    /\ \E a \in PostedAccruals(p.invoice) :
         Step(u, [step |-> "settle", payment |-> p, rate |-> a.rate])
    /\ UNCHANGED <<docVars, entryVars>>

\* What is settled is summed by the number on the invoice
SettledUnder(number) ==
  AmountOf({e \in entries :
    /\ e.event = "payment_settlement" /\ e.status \in {"draft", "posted"}
    /\ \E p \in Payments : e.src = Source("payment", p.id) /\ Number[p.invoice] = number})
Settleable(p) == p.amount <= InvoiceTotal[p.invoice] - SettledUnder(Number[p.invoice])
ReadSettled(u) ==
  /\ bridge[u].step = "settle"
  /\ LET p == bridge[u].payment IN
     \E rate \in ApprovedRates :
       IF Settleable(p)
       THEN SubmitDraft(u, Draft("payment_settlement", Source("payment", p.id), p.amount,
                                 bridge[u].rate, rate))
       ELSE Step(u, AtRest)
  /\ UNCHANGED <<docVars, entryVars>>

(* A hire invoice: deferred, then released as it is earned *)

BeginHireAccrual(u) ==
  \E h \in Hires, rate \in ApprovedRates :
    /\ bridge[u].step = "idle" /\ Room
    /\ EntriesOf("invoice_accrual", Source("hire_invoice", h.id)) = {}
    /\ SubmitDraft(u, Draft("invoice_accrual", Source("hire_invoice", h.id), h.total, rate,
                            None))
    /\ UNCHANGED <<docVars, entryVars>>

\* The hires joined with a posted entry of theirs: a reversal is one too
Recorded == {h \in Hires : \E e \in entries :
               e.src = Source("hire_invoice", h.id) /\ e.status = "posted"}
ReleasedIn(p) == {h \in Recorded : Earned(h, p) > 0}
BeginRelease(u) ==
  \E p \in ReleasePeriods :
    /\ bridge[u].step = "idle" /\ Room
    /\ ReleasedIn(p) # {}
    /\ SubmitDraft(u, Draft("adjustment", None,
                            MapThenSumSet(LAMBDA h : Earned(h, p), ReleasedIn(p)), 2,
                            ReleasedIn(p)))
    /\ UNCHANGED <<docVars, entryVars>>

\* The connection is lost: no transaction was open
Abandon(u) ==
  /\ bridge[u].step # "idle"
  /\ Step(u, AtRest)
  /\ UNCHANGED <<docVars, entryVars>>

----------------------------------------------------------------------------
BridgeInit ==
  /\ received = {} /\ missing = {} /\ made = {} /\ gone = {}
  /\ entries = {} /\ written = 0
  /\ bridge = [u \in Users |-> AtRest]

BridgeNext ==
  \E u \in Users :
    \/ Receive(u) \/ Approve(u) \/ RecordPayment(u) \/ RemovePayment(u)
    \/ BeginAccrual(u) \/ BeginSettlement(u) \/ ReadSettled(u)
    \/ BeginHireAccrual(u) \/ BeginRelease(u)
    \/ WriteDraft(u) \/ PostEntry(u) \/ VoidEntry(u) \/ ReverseEntry(u) \/ Abandon(u)
BridgeSpec == BridgeInit /\ [][BridgeNext]_bridgeVars

----------------------------------------------------------------------------
(* Properties *)

\* A document has one live entry per event, although two requests may both have
\* found none, and a voided or reversed one may come between
OneEntryPerDocument ==
  \A e, f \in entries :
    e.src # None /\ e.src = f.src /\ e.event = f.event => e = f

\* A settlement follows an accrual that entered the ledger, and closes the
\* liability at the rate it was entered with, whatever is voided, accrued again
\* or reversed between its reads and its draft
SettlementsFollowAccruals ==
  \A p \in Payments : \A s \in Settlements(p) :
    \E a \in Accruals(p.invoice) : a.status \in {"posted", "reversed"} /\ a.rate = s.rate

=============================================================================
