---------------------------- MODULE PostingProofs ----------------------------
(***************************************************************************)
(* What stands of the entries the ledger drafts by itself and of the       *)
(* reports read from it, for any requests and bounds: from documents, one  *)
(* live entry for a document and event and no settlement without the       *)
(* accrual it closes; of a vessel's depreciation, one charge for a month;  *)
(* and of the reports, that what they show adds up.  Amounts matter to the *)
(* reports only: their part rests on the laws of finite sums.              *)
(***************************************************************************)
EXTENDS DocumentBridge, Depreciation, LedgerReports, SumLaws

----------------------------------------------------------------------------
(* Documents: the invariant *)

EntryFields == {"id", "status", "event", "src", "amount", "rate", "basis"}
Shape ==
  /\ DOMAIN bridge = Users
  /\ \A e \in entries : DOMAIN e = EntryFields
  /\ made \subseteq Payments

\* An accrual of invoice i entered the ledger at this rate; it may be reversed since
Backed(i, rate) ==
  \E a \in Accruals(i) : a.status \in {"posted", "reversed"} /\ a.rate = rate

\* What a request holds between its readings and its draft is still backed: an
\* entry that was posted can be reversed and not voided
ReadsAreBacked ==
  \A u \in Users :
    /\ bridge[u].step = "settle" =>
         bridge[u].payment \in Payments /\ Backed(bridge[u].payment.invoice, bridge[u].rate)
    /\ bridge[u].step = "draft" /\ bridge[u].draft.event = "payment_settlement" =>
         \E p \in Payments :
           /\ bridge[u].draft.src = Source("payment", p.id)
           /\ Backed(p.invoice, bridge[u].draft.rate)

BridgeInv == Shape /\ ReadsAreBacked /\ SettlementsFollowAccruals

----------------------------------------------------------------------------
(* Steps that leave the entries alone *)

DocumentStep(u) ==
  \/ Receive(u) \/ Approve(u) \/ RecordPayment(u) \/ RemovePayment(u)
ReadingStep(u) ==
  \/ BeginAccrual(u) \/ BeginSettlement(u) \/ ReadSettled(u)
  \/ BeginHireAccrual(u) \/ BeginRelease(u) \/ Abandon(u)

LEMMA Reads ==
  ASSUME NEW u \in Users, ReadingStep(u)
  PROVE  UNCHANGED <<docVars, entryVars>>
BY DEF ReadingStep, BeginAccrual, BeginSettlement, ReadSettled, BeginHireAccrual,
       BeginRelease, Abandon

LEMMA Documents ==
  ASSUME NEW u \in Users, DocumentStep(u)
  PROVE  UNCHANGED <<entryVars, bridge>>
BY DEF DocumentStep, Receive, Approve, RecordPayment, RemovePayment, entryVars

\* The shape of entries and requests survives every step
LEMMA ShapeStep == Shape /\ [BridgeNext]_bridgeVars => Shape'
<1> SUFFICES ASSUME Shape, [BridgeNext]_bridgeVars PROVE Shape'
  OBVIOUS
<1>1. CASE UNCHANGED bridgeVars
  BY <1>1 DEF Shape, bridgeVars, docVars, entryVars
<1>2. ASSUME NEW u \in Users, DocumentStep(u) PROVE Shape'
  BY <1>2 DEF Shape, DocumentStep, Receive, Approve, RecordPayment, RemovePayment, entryVars
<1>3. ASSUME NEW u \in Users, ReadingStep(u) PROVE Shape'
  BY <1>3, Reads DEF Shape, ReadingStep, BeginAccrual, BeginSettlement, ReadSettled,
       BeginHireAccrual, BeginRelease, Abandon, SubmitDraft, Step, docVars, entryVars
<1>4. ASSUME NEW u \in Users, WriteDraft(u) PROVE Shape'
  BY <1>4 DEF Shape, WriteDraft, Step, docVars, entryVars, EntryFields
<1>5. ASSUME NEW u \in Users, PostEntry(u) PROVE Shape'
  BY <1>5 DEF Shape, PostEntry, docVars
<1>6. ASSUME NEW u \in Users, VoidEntry(u) PROVE Shape'
  BY <1>6 DEF Shape, VoidEntry, docVars
<1>7. ASSUME NEW u \in Users, ReverseEntry(u) PROVE Shape'
  BY <1>7 DEF Shape, ReverseEntry, docVars
<1> QED
  BY <1>1, <1>2, <1>3, <1>4, <1>5, <1>6, <1>7 DEF BridgeNext, DocumentStep, ReadingStep

\* A document has one live entry per event for any number of requests, although each
\* of them looked for one without a lock (createDraft, the unique index of p11a)
THEOREM OneEntry == BridgeSpec => []OneEntryPerDocument
<1>1. BridgeInit => Shape /\ OneEntryPerDocument
  BY DEF BridgeInit, Shape, OneEntryPerDocument
<1>2. Shape /\ OneEntryPerDocument /\ [BridgeNext]_bridgeVars => Shape' /\ OneEntryPerDocument'
  <2> SUFFICES ASSUME Shape, OneEntryPerDocument, [BridgeNext]_bridgeVars
               PROVE  OneEntryPerDocument'
    BY ShapeStep
  <2>1. CASE UNCHANGED bridgeVars
    BY <2>1 DEF OneEntryPerDocument, bridgeVars, entryVars
  <2>2. ASSUME NEW u \in Users, DocumentStep(u) \/ ReadingStep(u) PROVE OneEntryPerDocument'
    BY <2>2, Reads, Documents DEF OneEntryPerDocument, entryVars
  <2>3. ASSUME NEW u \in Users, WriteDraft(u) PROVE OneEntryPerDocument'
    BY <2>3 DEF OneEntryPerDocument, WriteDraft, Taken, EntriesOf, entryVars
  <2>4. ASSUME NEW u \in Users, PostEntry(u) PROVE OneEntryPerDocument'
    BY <2>4 DEF OneEntryPerDocument, PostEntry, Shape, EntryFields
  <2>5. ASSUME NEW u \in Users, VoidEntry(u) PROVE OneEntryPerDocument'
    BY <2>5 DEF OneEntryPerDocument, VoidEntry
  <2>6. ASSUME NEW u \in Users, ReverseEntry(u) PROVE OneEntryPerDocument'
    <3>1. PICK e \in entries :
            /\ e.event # "reversal"
            /\ e.src # None => EntriesOf("reversal", e.src) = {}
            /\ entries' = (entries \ {e}) \cup
                 {[e EXCEPT !.status = "reversed"],
                  [e EXCEPT !.id = written, !.event = "reversal", !.amount = -@]}
      BY <2>6 DEF ReverseEntry
    <3>2. PICK old : old = [e EXCEPT !.status = "reversed"]
      OBVIOUS
    <3>3. PICK new : new = [e EXCEPT !.id = written, !.event = "reversal", !.amount = -@]
      OBVIOUS
    <3>4. old.event = e.event /\ old.src = e.src /\ new.event = "reversal" /\ new.src = e.src
      BY <3>2, <3>3 DEF Shape, EntryFields
    <3>5. entries' = (entries \ {e}) \cup {old, new}
      BY <3>1, <3>2, <3>3
    <3>6. ASSUME NEW g \in entries \ {e}, g.src # None, g.src = e.src
          PROVE  g.event # e.event /\ g.event # "reversal"
      BY <3>1, <3>6 DEF OneEntryPerDocument, EntriesOf
    <3>7. ASSUME NEW f \in entries', NEW g \in entries', f.src # None, f.src = g.src,
                 f.event = g.event
          PROVE  f = g
      <4>1. CASE f \in entries \ {e} /\ g \in entries \ {e}
        BY <3>7, <4>1 DEF OneEntryPerDocument
      <4>2. CASE f \in {old, new} /\ g \in {old, new}
        BY <3>1, <3>4, <3>7, <4>2
      <4>3. CASE f \in entries \ {e} /\ g \in {old, new}
        BY <3>4, <3>6, <3>7, <4>3
      <4>4. CASE f \in {old, new} /\ g \in entries \ {e}
        BY <3>4, <3>6, <3>7, <4>4
      <4> QED
        BY <3>5, <4>1, <4>2, <4>3, <4>4
    <3> QED
      BY <3>7 DEF OneEntryPerDocument
  <2> QED
    BY <2>1, <2>2, <2>3, <2>4, <2>5, <2>6 DEF BridgeNext, DocumentStep, ReadingStep
<1> QED
  BY <1>1, <1>2, PTL DEF BridgeSpec

----------------------------------------------------------------------------
(* Settlements *)

\* An accrual that entered the ledger is never lost: it is posted or reversed for good
LEMMA BackedStays ==
  ASSUME Shape, [BridgeNext]_bridgeVars, NEW i, NEW rate, Backed(i, rate)
  PROVE  Backed(i, rate)'
<1>1. CASE UNCHANGED entryVars
  BY <1>1 DEF Backed, Accruals, EntriesOf, entryVars
<1>2. ASSUME NEW u \in Users, WriteDraft(u) PROVE Backed(i, rate)'
  BY <1>2 DEF Backed, Accruals, EntriesOf, WriteDraft, entryVars
<1>3. ASSUME NEW u \in Users, PostEntry(u) PROVE Backed(i, rate)'
  BY <1>3 DEF Backed, Accruals, EntriesOf, PostEntry
<1>4. ASSUME NEW u \in Users, VoidEntry(u) PROVE Backed(i, rate)'
  BY <1>4 DEF Backed, Accruals, EntriesOf, VoidEntry
<1>5. ASSUME NEW u \in Users, ReverseEntry(u) PROVE Backed(i, rate)'
  <2>1. PICK a \in Accruals(i) : a.status \in {"posted", "reversed"} /\ a.rate = rate
    BY DEF Backed
  <2>2. PICK e \in entries :
          entries' = (entries \ {e}) \cup
            {[e EXCEPT !.status = "reversed"],
             [e EXCEPT !.id = written, !.event = "reversal", !.amount = -@]}
    BY <1>5 DEF ReverseEntry
  <2>3. CASE a # e
    BY <2>1, <2>2, <2>3 DEF Backed, Accruals, EntriesOf
  <2>4. CASE a = e
    <3> DEFINE b == [e EXCEPT !.status = "reversed"]
    <3>1. b \in entries' /\ b.status = "reversed" /\ b.rate = rate /\ b.event = e.event
            /\ b.src = e.src
      BY <2>1, <2>2, <2>4 DEF Shape, EntryFields
    <3> QED
      BY <2>1, <2>4, <3>1 DEF Backed, Accruals, EntriesOf
  <2> QED
    BY <2>3, <2>4
<1> QED
  BY <1>1, <1>2, <1>3, <1>4, <1>5, Reads, Documents
     DEF BridgeNext, DocumentStep, ReadingStep, bridgeVars, entryVars

LEMMA ReadsBackedStep ==
  ASSUME Shape, ReadsAreBacked, [BridgeNext]_bridgeVars
  PROVE  ReadsAreBacked'
<1>1. CASE UNCHANGED bridge
  BY <1>1, BackedStays DEF ReadsAreBacked
<1>2. ASSUME NEW u \in Users, BeginSettlement(u) PROVE ReadsAreBacked'
  <2>1. PICK p \in made : \E a \in PostedAccruals(p.invoice) :
          bridge' = [bridge EXCEPT ![u] = [step |-> "settle", payment |-> p, rate |-> a.rate]]
    BY <1>2 DEF BeginSettlement, Step
  <2>4. PICK a \in PostedAccruals(p.invoice) :
          bridge' = [bridge EXCEPT ![u] = [step |-> "settle", payment |-> p, rate |-> a.rate]]
    BY <2>1
  <2>2. Backed(p.invoice, a.rate) /\ p \in Payments
    BY DEF Backed, PostedAccruals, Shape
  <2>3. Backed(p.invoice, a.rate)'
    BY <2>2, BackedStays
  <2> QED
    BY <2>4, <2>2, <2>3, BackedStays DEF ReadsAreBacked, Shape
<1>3. ASSUME NEW u \in Users, ReadSettled(u) PROVE ReadsAreBacked'
  <2>1. CASE bridge' = [bridge EXCEPT ![u] = AtRest]
    BY <2>1, BackedStays DEF ReadsAreBacked, Shape, AtRest
  <2>2. ASSUME NEW rate,
               bridge' = [bridge EXCEPT ![u] = [step |-> "draft", draft |->
                 Draft("payment_settlement", Source("payment", bridge[u].payment.id),
                       bridge[u].payment.amount, bridge[u].rate, rate)]]
        PROVE  ReadsAreBacked'
    <3>1. bridge[u].payment \in Payments /\ Backed(bridge[u].payment.invoice, bridge[u].rate)
      BY <1>3 DEF ReadSettled, ReadsAreBacked
    <3>2. PICK p, r : p = bridge[u].payment /\ r = bridge[u].rate
      OBVIOUS
    <3>3. Backed(p.invoice, r)' /\ p \in Payments
      BY <3>1, <3>2, BackedStays
    <3> QED
      BY <2>2, <3>2, <3>3, BackedStays DEF ReadsAreBacked, Shape, Draft
  <2> QED
    BY <1>3, <2>1, <2>2 DEF ReadSettled, SubmitDraft, Step
<1>4. ASSUME NEW u \in Users, NEW d,
             bridge' = [bridge EXCEPT ![u] = [step |-> "draft", draft |-> d]],
             d.event # "payment_settlement"
      PROVE  ReadsAreBacked'
  BY <1>4, BackedStays DEF ReadsAreBacked, Shape
<1>5. ASSUME NEW u \in Users, bridge' = [bridge EXCEPT ![u] = AtRest] PROVE ReadsAreBacked'
  BY <1>5, BackedStays DEF ReadsAreBacked, Shape, AtRest
<1>6. ASSUME NEW u \in Users, BeginAccrual(u) \/ BeginHireAccrual(u) \/ BeginRelease(u)
      PROVE  ReadsAreBacked'
  <2>1. ASSUME NEW event \in {"invoice_accrual", "adjustment"}, NEW src, NEW amount, NEW rate,
               NEW basis, SubmitDraft(u, Draft(event, src, amount, rate, basis))
        PROVE  ReadsAreBacked'
    <3>1. PICK d : d = Draft(event, src, amount, rate, basis)
      OBVIOUS
    <3>2. d.event # "payment_settlement"
      BY <3>1 DEF Draft
    <3> QED
      BY <2>1, <3>1, <3>2, <1>4 DEF SubmitDraft, Step
  <2> QED
    BY <1>6, <2>1 DEF BeginAccrual, BeginHireAccrual, BeginRelease
<1> QED
  BY <1>1, <1>2, <1>3, <1>5, <1>6, Documents
     DEF BridgeNext, DocumentStep, bridgeVars, WriteDraft, Abandon, Step,
         PostEntry, VoidEntry, ReverseEntry

LEMMA SettlementsStep ==
  ASSUME BridgeInv, [BridgeNext]_bridgeVars
  PROVE  SettlementsFollowAccruals'
<1> USE DEF BridgeInv
<1> SUFFICES ASSUME NEW p \in Payments, NEW s \in Settlements(p)' PROVE Backed(p.invoice, s.rate)'
  BY DEF SettlementsFollowAccruals, Backed
<1>1. ASSUME NEW t \in Settlements(p), t.rate = s.rate PROVE Backed(p.invoice, s.rate)'
  <2>1. Backed(p.invoice, s.rate)
    BY <1>1 DEF SettlementsFollowAccruals, Backed
  <2> QED
    BY <2>1, BackedStays
<1>2. CASE UNCHANGED entryVars
  BY <1>1, <1>2 DEF Settlements, EntriesOf, entryVars
<1>3. ASSUME NEW u \in Users, WriteDraft(u), s \notin Settlements(p)
      PROVE  Backed(p.invoice, s.rate)'
  <2>1. /\ bridge[u].step = "draft"
        /\ s.event = bridge[u].draft.event /\ s.src = bridge[u].draft.src
        /\ s.rate = bridge[u].draft.rate
    BY <1>3 DEF WriteDraft, Settlements, EntriesOf, entryVars
  <2>2. s.event = "payment_settlement" /\ s.src = Source("payment", p.id)
    BY DEF Settlements, EntriesOf
  <2>3. PICK q \in Payments : bridge[u].draft.src = Source("payment", q.id)
                              /\ Backed(q.invoice, bridge[u].draft.rate)
    BY <2>1, <2>2 DEF ReadsAreBacked
  <2>4. q = p
    <3>1. <<"payment", p.id>> = <<"payment", q.id>>
      BY <2>1, <2>2, <2>3 DEF Source
    <3> QED
      BY <3>1, PaymentsHaveIds
  <2> QED
    BY <2>1, <2>3, <2>4, BackedStays
<1>4. ASSUME NEW u \in Users, PostEntry(u) \/ VoidEntry(u) \/ ReverseEntry(u)
      PROVE  \E t \in Settlements(p) : t.rate = s.rate
  <2>1. s \in entries' /\ s.event = "payment_settlement" /\ s.src = Source("payment", p.id)
    BY DEF Settlements, EntriesOf
  <2>2. CASE s \in entries
    BY <2>1, <2>2 DEF Settlements, EntriesOf
  <2>3. ASSUME s \notin entries
        PROVE  \E e \in entries : e.event = s.event /\ e.src = s.src /\ e.rate = s.rate
    <3>1. CASE PostEntry(u)
      BY <2>1, <2>3, <3>1 DEF PostEntry, Shape, EntryFields
    <3>2. CASE VoidEntry(u)
      BY <2>1, <2>3, <3>2 DEF VoidEntry
    <3>3. CASE ReverseEntry(u)
      <4>1. PICK e \in entries :
              entries' = (entries \ {e}) \cup
                {[e EXCEPT !.status = "reversed"],
                 [e EXCEPT !.id = written, !.event = "reversal", !.amount = -@]}
        BY <3>3 DEF ReverseEntry
      <4>2. [e EXCEPT !.id = written, !.event = "reversal", !.amount = -@].event = "reversal"
        BY DEF Shape, EntryFields
      <4>3. s = [e EXCEPT !.status = "reversed"]
        BY <2>1, <2>3, <4>1, <4>2
      <4> QED
        BY <4>3 DEF Shape, EntryFields
    <3> QED
      BY <1>4, <3>1, <3>2, <3>3
  <2> QED
    BY <2>1, <2>2, <2>3 DEF Settlements, EntriesOf
<1> QED
  BY <1>1, <1>2, <1>3, <1>4, Reads, Documents
     DEF BridgeNext, DocumentStep, ReadingStep, bridgeVars

\* However requests meet, a settlement in the ledger closes the liability at the rate
\* of an accrual that was posted before it, for any payments told apart by their
\* identifiers (postSupplierPayment)
THEOREM SettlementsFollow ==
  BridgeSpec => []SettlementsFollowAccruals
<1>1. BridgeInit => BridgeInv
  BY DEF BridgeInit, BridgeInv, Shape, ReadsAreBacked, AtRest, SettlementsFollowAccruals,
         Settlements, EntriesOf
<1>2. BridgeInv /\ [BridgeNext]_bridgeVars => BridgeInv'
  BY ShapeStep, ReadsBackedStep, SettlementsStep DEF BridgeInv
<1> QED
  BY <1>1, <1>2, PTL DEF BridgeSpec, BridgeInv

----------------------------------------------------------------------------
(* Depreciation.  The requests look and write in separate steps, so the       *)
(* argument rests on the unique index at the writing, and on what the ledger  *)
(* does to a charge afterwards: its vessel and month stay.                    *)

ChargeFields == {"id", "vessel", "month", "amount", "status"}
ChargesAreRows == \A c \in charges : DOMAIN c = ChargeFields
DepreciationInv == ChargesAreRows /\ ChargedOnce

\* A step that writes charges writes one more where there was none, gives one
\* another status, or voids one
Added ==
  \E c : /\ DOMAIN c = ChargeFields /\ ChargesFor(c.vessel, c.month) = {}
         /\ charges' = charges \cup {c}
Restated ==
  \E c \in charges, s \in {"posted", "reversed"} :
    charges' = (charges \ {c}) \cup {[c EXCEPT !.status = s]}
Voided == \E c \in charges : charges' = charges \ {c}

LEMMA Written ==
  ASSUME [DepreciationNext]_depreciationVars
  PROVE  UNCHANGED charges \/ Added \/ Restated \/ Voided
<1>1. CASE UNCHANGED depreciationVars \/ NextMonth
  BY <1>1 DEF depreciationVars, NextMonth
<1>2. ASSUME NEW r \in Runs, WriteCharge(r) PROVE UNCHANGED charges \/ Added
  <2>1. PICK v, m, c :
          /\ ChargesFor(v, m) = {} => DOMAIN c = ChargeFields /\ c.vessel = v /\ c.month = m
          /\ IF ChargesFor(v, m) = {} THEN charges' = charges \cup {c} ELSE UNCHANGED charges
    <3>1. PICK v, m, c :
            /\ c = [id |-> charged, vessel |-> v, month |-> m,
                    amount |-> run[r].job.plan.amount, status |-> "draft"]
            /\ IF ChargesFor(v, m) = {} THEN charges' = charges \cup {c} ELSE UNCHANGED charges
      BY <1>2 DEF WriteCharge, IndexAdmits
    <3>2. DOMAIN c = ChargeFields /\ c.vessel = v /\ c.month = m
      BY <3>1 DEF ChargeFields
    <3> QED
      BY <3>1, <3>2
  <2> QED
    BY <2>1 DEF Added
<1>3. ASSUME NEW r \in Runs, PostCharge(r) \/ ReverseCharge(r) PROVE Restated
  BY <1>3 DEF PostCharge, ReverseCharge, Restated
<1>4. ASSUME NEW r \in Runs, VoidCharge(r) PROVE Voided
  BY <1>4 DEF VoidCharge, Voided
<1>5. ASSUME NEW r \in Runs,
             \/ SetSchedule(r) \/ DeactivateSchedule(r) \/ BeginCatchUp(r)
             \/ BeginDepreciation(r) \/ ReadBalance(r) \/ NextCharge(r)
             \/ FinishVessel(r) \/ Die(r)
      PROVE  UNCHANGED charges
  BY <1>5 DEF SetSchedule, DeactivateSchedule, BeginCatchUp, BeginDepreciation,
       ReadBalance, NextCharge, FinishVessel, Die
<1> QED
  BY <1>1, <1>2, <1>3, <1>4, <1>5 DEF DepreciationNext, Work

LEMMA Invariant == DepreciationSpec => []DepreciationInv
<1>1. DepreciationInit => DepreciationInv
  BY DEF DepreciationInit, DepreciationInv, ChargesAreRows, ChargedOnce
<1>2. DepreciationInv /\ [DepreciationNext]_depreciationVars => DepreciationInv'
  <2> SUFFICES ASSUME DepreciationInv, [DepreciationNext]_depreciationVars PROVE DepreciationInv'
    OBVIOUS
  <2>1. CASE UNCHANGED charges
    BY <2>1 DEF DepreciationInv, ChargesAreRows, ChargedOnce
  <2>2. CASE Added
    BY <2>2 DEF Added, DepreciationInv, ChargesAreRows, ChargedOnce, ChargesFor
  <2>3. CASE Restated
    <3>1. PICK c \in charges :
            \E e : /\ charges' = (charges \ {c}) \cup {e}
                   /\ DOMAIN e = ChargeFields /\ e.vessel = c.vessel /\ e.month = c.month
      <4>1. PICK c \in charges, s \in {"posted", "reversed"} :
              charges' = (charges \ {c}) \cup {[c EXCEPT !.status = s]}
        BY <2>3 DEF Restated
      <4>2. PICK e : e = [c EXCEPT !.status = s]
        OBVIOUS
      <4>3. DOMAIN e = ChargeFields /\ e.vessel = c.vessel /\ e.month = c.month
        BY <4>2 DEF DepreciationInv, ChargesAreRows, ChargeFields
      <4> QED
        BY <4>1, <4>2, <4>3
    <3> QED
      BY <3>1 DEF DepreciationInv, ChargesAreRows, ChargedOnce
  <2>4. CASE Voided
    BY <2>4 DEF Voided, DepreciationInv, ChargesAreRows, ChargedOnce
  <2> QED
    BY <2>1, <2>2, <2>3, <2>4, Written
<1> QED
  BY <1>1, <1>2, PTL DEF DepreciationSpec

\* A vessel's month is charged once, by whichever of the catch-ups and the manual
\* postings that meet, and however often it is voided and charged again
THEOREM OneCharge == DepreciationSpec => []ChargedOnce
BY Invariant, PTL DEF DepreciationInv

----------------------------------------------------------------------------
(* Reports: the rows a query joins *)

EntryColumns == {"date", "lines", "status"}
BookIsSound ==
  /\ \E S : book \in Seq(S)
  /\ \A n \in DOMAIN book :
       DOMAIN book[n] = EntryColumns /\ book[n].date \in Int /\ IsBalanced(book[n].lines)

LEMMA SumOverIsSum ==
  ASSUME NEW S, NEW F, DOMAIN F = S
  PROVE  SumOver(F) = Sum(F, S)
BY Zenon DEF SumOver, Sum

\* A row is a line of an entry: finitely many, told apart by entry and line
AreRows(rows) ==
  /\ IsFiniteSet(rows)
  /\ \A r \in rows :
       /\ r.no \in Nat /\ r.at \in Nat /\ r.date \in Int
       /\ r.line.account \in DOMAIN Chart
       /\ NetOf(r.line) \in Int
  /\ \A r, s \in rows : r.no = s.no /\ r.at = s.at => r = s

RowsOfEntry(n) ==
  {[no |-> n, at |-> k, date |-> book[n].date, line |-> book[n].lines[k]] :
     k \in DOMAIN book[n].lines}

LEMMA EntryRows ==
  ASSUME BookIsSound, NEW n \in DOMAIN book
  PROVE  /\ IsFiniteSet(RowsOfEntry(n))
         /\ \A r \in RowsOfEntry(n) :
              /\ r.no = n /\ n \in Nat
              /\ r.at \in DOMAIN book[n].lines /\ r.at \in Nat
              /\ r = [no |-> n, at |-> r.at, date |-> book[n].date, line |-> book[n].lines[r.at]]
              /\ r.date \in Int /\ r.line = book[n].lines[r.at]
              /\ r.line.account \in DOMAIN Chart /\ NetOf(r.line) \in Int
<1>1. PICK L, D : L = book[n].lines /\ D = DOMAIN L
  OBVIOUS
<1>2. PICK f : f = [k \in D |-> [no |-> n, at |-> k, date |-> book[n].date, line |-> L[k]]]
  OBVIOUS
<1>3. IsBalanced(L) /\ book[n].date \in Int /\ n \in Nat
  BY <1>1 DEF BookIsSound
<1>4. IsFiniteSet(D) /\ D \subseteq Nat
  BY <1>1, <1>3, FS_Interval DEF IsBalanced
<1>5. f \in Surjection(D, RowsOfEntry(n))
  BY <1>1, <1>2 DEF RowsOfEntry, Surjection
<1>6. IsFiniteSet(RowsOfEntry(n))
  BY <1>4, <1>5, FS_Surjection
<1>7. \A k \in D : L[k].account \in DOMAIN Chart /\ NetOf(L[k]) \in Int
  BY <1>1, <1>3 DEF IsBalanced, NetOf
<1> QED
  BY <1>1, <1>3, <1>4, <1>6, <1>7 DEF RowsOfEntry

LEMMA BookIsFinite ==
  ASSUME BookIsSound
  PROVE  IsFiniteSet(DOMAIN book)
<1>1. PICK S : book \in Seq(S)
  BY DEF BookIsSound
<1>2. PICK n \in Nat : DOMAIN book = 1..n
  BY <1>1
<1> QED
  BY <1>2, FS_Interval

LEMMA RowsAreRows ==
  ASSUME BookIsSound, NEW T \in SUBSET DOMAIN book
  PROVE  /\ AreRows(RowsOf(T))
         /\ RowsOf(T) = UNION {RowsOfEntry(n) : n \in T}
<1>1. PICK U, R : U = {RowsOfEntry(n) : n \in T} /\ R = RowsOf(T)
  OBVIOUS
<1>2. R = UNION U
  BY <1>1, Zenon DEF RowsOf, RowsOfEntry
<1>3. IsFiniteSet(T)
  BY BookIsFinite, FS_Subset
<1>4. IsFiniteSet(U)
  <2>1. PICK f : f = [n \in T |-> RowsOfEntry(n)]
    OBVIOUS
  <2>2. f \in Surjection(T, U)
    BY <1>1, <2>1 DEF Surjection
  <2> QED
    BY <1>3, <2>2, FS_Surjection
<1>5. \A V \in U : IsFiniteSet(V)
  BY <1>1, EntryRows
<1>6. IsFiniteSet(R)
  BY <1>2, <1>4, <1>5, FS_UNION
<1>7. \A r \in R : r.no \in T /\ r \in RowsOfEntry(r.no)
  BY <1>1, <1>2, EntryRows
<1>8. AreRows(R)
  BY <1>6, <1>7, EntryRows DEF AreRows
<1> QED
  BY <1>1, <1>2, <1>8

\* What a line moves
Moves(rows) == [r \in rows |-> NetOf(r.line)]

\* The rows of whole entries come to nothing
LEMMA RowsBalance ==
  ASSUME BookIsSound, NEW T \in SUBSET DOMAIN book
  PROVE  Sum(Moves(RowsOf(T)), RowsOf(T)) = 0
<1>1. PICK R, F, key, part, G :
        /\ R = RowsOf(T)
        /\ F = Moves(R)
        /\ key = [r \in R |-> r.no]
        /\ part = [n \in T |-> {r \in R : r.no = n}]
        /\ G = [n \in T |-> Sum(F, part[n])]
  OBVIOUS
<1>2. AreRows(R) /\ R = UNION {RowsOfEntry(n) : n \in T}
  BY <1>1, RowsAreRows
<1>3. IsFiniteSet(R) /\ IsFiniteSet(T)
      /\ \A r \in R : F[r] = NetOf(r.line) /\ F[r] \in Int /\ key[r] \in T
  <2>1. IsFiniteSet(T)
    BY BookIsFinite, FS_Subset
  <2>2. \A r \in R : r.no \in T
    BY <1>2, EntryRows
  <2> QED
    BY <1>1, <1>2, <2>1, <2>2 DEF AreRows, Moves
<1>4. ASSUME NEW n \in T PROVE G[n] = 0
  <2>1. PICK L, D, N, b :
          /\ L = book[n].lines
          /\ D = DOMAIN L
          /\ N = [k \in D |-> NetOf(L[k])]
          /\ b = [k \in D |-> [no |-> n, at |-> k, date |-> book[n].date, line |-> L[k]]]
    OBVIOUS
  <2>2. part[n] = RowsOfEntry(n)
    BY <1>1, <1>2, EntryRows
  <2>3. b \in Bijection(D, part[n])
    <3>1. b \in [D -> part[n]] /\ \A j, k \in D : b[j] = b[k] => j = k
      BY <2>1, <2>2 DEF RowsOfEntry
    <3>2. \A r \in part[n] : \E k \in D : b[k] = r
      BY <2>1, <2>2 DEF RowsOfEntry
    <3>3. b \in Injection(D, part[n])
      BY <3>1 DEF Injection, IsInjective
    <3>4. b \in Surjection(D, part[n])
      BY <3>1, <3>2 DEF Surjection
    <3> QED
      BY <3>3, <3>4 DEF Bijection
  <2>4. IsBalanced(L)
    BY <2>1 DEF BookIsSound
  <2>5. IsFiniteSet(D) /\ \A k \in D : N[k] \in Int
    <3>1. PICK m \in Nat : D = 1..m
      BY <2>1, <2>4 DEF IsBalanced
    <3>2. \A k \in D : N[k] \in Int
      BY <2>1, <2>4 DEF IsBalanced, NetOf
    <3> QED
      BY <3>1, <3>2, FS_Interval
  <2>6. \A k \in D : b[k] \in R /\ N[k] = F[b[k]]
    BY <1>1, <1>3, <2>1, <2>2, <2>3 DEF RowsOfEntry
  <2>7. Sum(N, D) = Sum(F, part[n])
    BY <2>3, <2>5, <2>6, SumImage
  <2>8. Sum(N, D) = SumOver(N) /\ SumOver(N) = 0
    BY <2>1, <2>4, SumOverIsSum DEF IsBalanced
  <2> QED
    BY <1>1, <2>7, <2>8
<1>5. Sum(G, T) = Sum(F, R)
  <2>1. /\ \A n \in T : part[n] = {r \in R : key[r] = n}
        /\ \A n \in T : G[n] = Sum(F, part[n])
    BY <1>1
  <2> QED
    BY <1>3, <2>1, SumByKey
<1>6. Sum(G, T) = 0
  BY <1>3, <1>4, SumZero
<1> QED
  BY <1>1, <1>5, <1>6

\* The balances of the accounts come to what the rows come to
LEMMA BalancesAddUp ==
  ASSUME NEW rows, AreRows(rows)
  PROVE  /\ DOMAIN Balances(rows) = DOMAIN Chart
         /\ \A a \in DOMAIN Chart : Balances(rows)[a] \in Int
         /\ Sum(Balances(rows), DOMAIN Chart) = Sum(Moves(rows), rows)
         /\ \A a \in DOMAIN Chart :
              a \notin {r.line.account : r \in rows} => Balances(rows)[a] = 0
<1>1. PICK F, K, key, part, G :
        /\ F = Moves(rows)
        /\ K = DOMAIN Chart
        /\ key = [r \in rows |-> r.line.account]
        /\ part = [a \in K |-> {r \in rows : r.line.account = a}]
        /\ G = Balances(rows)
  OBVIOUS
<1>2. /\ IsFiniteSet(rows) /\ IsFiniteSet(K)
      /\ \A r \in rows : F[r] = NetOf(r.line) /\ F[r] \in Int /\ key[r] \in K
  BY <1>1, ChartAssumption DEF AreRows, Moves
<1>3. ASSUME NEW a \in K
      PROVE  /\ G[a] = Sum(F, part[a]) /\ G[a] \in Int
             /\ part[a] = {} => G[a] = 0
  <2>1. PICK P : P = [r \in part[a] |-> NetOf(r.line)]
    OBVIOUS
  <2>2. G[a] = SumOver(P)
    BY <1>1, <2>1 DEF Balances
  <2>3. IsFiniteSet(part[a]) /\ \A r \in part[a] : r \in rows /\ P[r] = F[r]
    BY <1>1, <1>2, <2>1, FS_Subset
  <2>4. SumOver(P) = Sum(P, part[a]) /\ Sum(P, part[a]) = Sum(F, part[a])
    BY <2>1, <2>3, SumOverIsSum, SumEqual
  <2>5. Sum(F, part[a]) \in Int
    BY <1>2, <2>3, SumInt
  <2> QED
    BY <2>2, <2>4, <2>5, SumEmpty
<1>4. Sum(G, K) = Sum(F, rows)
  <2>1. \A a \in K : part[a] = {r \in rows : key[r] = a}
    BY <1>1
  <2> QED
    BY <1>2, <1>3, <2>1, SumByKey
<1>5. DOMAIN G = K
  BY <1>1 DEF Balances
<1>6. \A a \in K : a \notin {r.line.account : r \in rows} => part[a] = {}
  BY <1>1
<1> QED
  BY <1>1, <1>3, <1>4, <1>5, <1>6

\* The balance sheet adds up all balances: every account is on one side of it, every
\* expense in one section
LEMMA SheetTakesAll ==
  ASSUME NEW B, DOMAIN B = DOMAIN Chart, \A a \in DOMAIN Chart : B[a] \in Int
  PROVE  Difference(B, NetResult(B)) = Sum(B, DOMAIN Chart)
<1>1. PICK K, A, L, E, R, X :
        /\ K = DOMAIN Chart
        /\ A = OfType("asset") /\ L = OfType("liability") /\ E = OfType("equity")
        /\ R = OfType("revenue") /\ X = OfType("expense")
  OBVIOUS
<1>2. PICK V, M, F, U :
        /\ V = {a \in X : Chart[a].group = "VESSEL_OPEX"}
        /\ M = {a \in X : Chart[a].group = "ADMIN"}
        /\ F = {a \in X : Chart[a].group = "FINANCE"}
        /\ U = {a \in X : Chart[a].group \notin KnownGroups}
  OBVIOUS
<1>3. ASSUME NEW S \in SUBSET K
      PROVE  /\ IsFiniteSet(S)
             /\ TotalOf(B, S) = Sum(B, S) /\ Sum(B, S) \in Int
             /\ \A T \in SUBSET K : S \cap T = {} => Sum(B, S \cup T) = Sum(B, S) + Sum(B, T)
  <2>1. PICK P : P = [a \in S |-> B[a]]
    OBVIOUS
  <2>2. IsFiniteSet(S) /\ \A T \in SUBSET K : IsFiniteSet(T)
    BY <1>1, ChartAssumption, FS_Subset
  <2>3. TotalOf(B, S) = Sum(P, S)
    BY <2>1, SumOverIsSum DEF TotalOf
  <2>4. Sum(P, S) = Sum(B, S)
    BY <2>1, <2>2, SumEqual
  <2>5. \A a \in S : B[a] \in Int
    BY <1>1
  <2>6. ASSUME NEW T \in SUBSET K, S \cap T = {}
        PROVE  Sum(B, S \cup T) = Sum(B, S) + Sum(B, T)
    <3>1. \A a \in S \cup T : B[a] \in Int
      BY <1>1
    <3> QED
      BY <2>2, <2>6, <3>1, SumUnion
  <2> QED
    BY <2>2, <2>3, <2>4, <2>5, <2>6, SumInt
<1>4. /\ A \in SUBSET K /\ L \in SUBSET K /\ E \in SUBSET K /\ R \in SUBSET K /\ X \in SUBSET K
      /\ V \in SUBSET K /\ M \in SUBSET K /\ F \in SUBSET K /\ U \in SUBSET K
  BY <1>1, <1>2 DEF OfType
<1>5. /\ K = A \cup (L \cup (E \cup (R \cup X)))
      /\ A \cap (L \cup (E \cup (R \cup X))) = {} /\ L \cap (E \cup (R \cup X)) = {}
      /\ E \cap (R \cup X) = {} /\ R \cap X = {}
  BY <1>1, ChartAssumption DEF OfType
<1>6. /\ X = V \cup (M \cup (F \cup U))
      /\ V \cap (M \cup (F \cup U)) = {} /\ M \cap (F \cup U) = {} /\ F \cap U = {}
  BY <1>2 DEF KnownGroups
<1>7. Sum(B, K) = Sum(B, A) + (Sum(B, L) + (Sum(B, E) + (Sum(B, R) + Sum(B, X))))
  <2>1. Sum(B, R \cup X) = Sum(B, R) + Sum(B, X) /\ R \cup X \in SUBSET K
    BY <1>3, <1>4, <1>5
  <2>2. Sum(B, E \cup (R \cup X)) = Sum(B, E) + Sum(B, R \cup X)
        /\ E \cup (R \cup X) \in SUBSET K
    BY <1>3, <1>4, <1>5, <2>1
  <2>3. Sum(B, L \cup (E \cup (R \cup X))) = Sum(B, L) + Sum(B, E \cup (R \cup X))
        /\ L \cup (E \cup (R \cup X)) \in SUBSET K
    BY <1>3, <1>4, <1>5, <2>2
  <2>4. Sum(B, K) = Sum(B, A) + Sum(B, L \cup (E \cup (R \cup X)))
    BY <1>3, <1>4, <1>5, <2>3
  <2> QED
    BY <2>1, <2>2, <2>3, <2>4
<1>8. Sum(B, X) = Sum(B, V) + (Sum(B, M) + (Sum(B, F) + Sum(B, U)))
  <2>1. Sum(B, F \cup U) = Sum(B, F) + Sum(B, U) /\ F \cup U \in SUBSET K
    BY <1>3, <1>4, <1>6
  <2>2. Sum(B, M \cup (F \cup U)) = Sum(B, M) + Sum(B, F \cup U)
        /\ M \cup (F \cup U) \in SUBSET K
    BY <1>3, <1>4, <1>6, <2>1
  <2>3. Sum(B, X) = Sum(B, V) + Sum(B, M \cup (F \cup U))
    BY <1>3, <1>4, <1>6, <2>2
  <2> QED
    BY <2>1, <2>2, <2>3
<1>9. NetResult(B) = - Sum(B, R) - (Sum(B, V) + Sum(B, M) + Sum(B, F) + Sum(B, U))
  BY <1>1, <1>2, <1>3, <1>4 DEF NetResult, Section, Unclassified
<1>10. Difference(B, NetResult(B)) = Sum(B, A) + Sum(B, L) + Sum(B, E) - NetResult(B)
  BY <1>1, <1>3, <1>4 DEF Difference
<1>11. /\ Sum(B, A) \in Int /\ Sum(B, L) \in Int /\ Sum(B, E) \in Int /\ Sum(B, R) \in Int
       /\ Sum(B, V) \in Int /\ Sum(B, M) \in Int /\ Sum(B, F) \in Int /\ Sum(B, U) \in Int
  BY <1>3, <1>4
<1> QED
  BY <1>1, <1>7, <1>8, <1>9, <1>10, <1>11

\* So the balances of whole entries come to nothing, and so does the sheet
LEMMA EntriesBalance ==
  ASSUME BookIsSound, NEW T \in SUBSET DOMAIN book, NEW B, B = Balances(RowsOf(T))
  PROVE  /\ DOMAIN B = DOMAIN Chart /\ \A a \in DOMAIN Chart : B[a] \in Int
         /\ Sum(B, DOMAIN Chart) = 0
         /\ Difference(B, NetResult(B)) = 0
BY RowsAreRows, RowsBalance, BalancesAddUp, SheetTakesAll

----------------------------------------------------------------------------
(* The order of a query *)

\* The keys of rows are told apart, and one is before the other
LEMMA KeysInOrder ==
  ASSUME NEW rows, AreRows(rows), NEW flag \in BOOLEAN
  PROVE  /\ \A r \in rows : ~Lower(Key(r, flag), Key(r, flag))
         /\ \A r, s \in rows :
              r # s => Lower(Key(r, flag), Key(s, flag)) \/ Lower(Key(s, flag), Key(r, flag))
         /\ \A r, s, t \in rows :
              Lower(Key(r, flag), Key(s, flag)) /\ Lower(Key(s, flag), Key(t, flag))
                => Lower(Key(r, flag), Key(t, flag))
<1>1. ASSUME NEW x \in Int \X Int \X Int \X Int, NEW y \in Int \X Int \X Int \X Int
      PROVE  Lower(x, y) <=> \/ x[1] < y[1]
                             \/ x[1] = y[1] /\ x[2] < y[2]
                             \/ x[1] = y[1] /\ x[2] = y[2] /\ x[3] < y[3]
                             \/ x[1] = y[1] /\ x[2] = y[2] /\ x[3] = y[3] /\ x[4] < y[4]
  <2>1. 1..4 = {1, 2, 3, 4} /\ 1..(1 - 1) = {} /\ 1..(2 - 1) = {1} /\ 1..(3 - 1) = {1, 2}
        /\ 1..(4 - 1) = {1, 2, 3}
    OBVIOUS
  <2> QED
    BY <2>1, Zenon DEF Lower
<1>2. \A r \in rows : Key(r, flag) \in Int \X Int \X Int \X Int
  BY ChartAssumption DEF AreRows, Key
<1>3. \A r, s \in rows : Key(r, flag)[3] = Key(s, flag)[3] /\ Key(r, flag)[4] = Key(s, flag)[4]
                          => r = s
  BY DEF AreRows, Key
<1>4. PICK key : key = [r \in rows |-> Key(r, flag)]
  OBVIOUS
<1>5. /\ \A r \in rows : key[r] = Key(r, flag)
      /\ \A r \in rows : key[r][1] \in Int /\ key[r][2] \in Int /\ key[r][3] \in Int
                         /\ key[r][4] \in Int
  BY <1>2, <1>4
<1>6. \A r, s \in rows : Lower(key[r], key[s]) <=>
        \/ key[r][1] < key[s][1]
        \/ key[r][1] = key[s][1] /\ key[r][2] < key[s][2]
        \/ key[r][1] = key[s][1] /\ key[r][2] = key[s][2] /\ key[r][3] < key[s][3]
        \/ key[r][1] = key[s][1] /\ key[r][2] = key[s][2] /\ key[r][3] = key[s][3]
             /\ key[r][4] < key[s][4]
  BY <1>1, <1>2, <1>5
<1>7. \A r \in rows : ~Lower(key[r], key[r])
  BY <1>5, <1>6
<1>8. \A r, s \in rows : r # s => Lower(key[r], key[s]) \/ Lower(key[s], key[r])
  BY <1>3, <1>5, <1>6
<1>9. \A r, s, t \in rows :
        Lower(key[r], key[s]) /\ Lower(key[s], key[t]) => Lower(key[r], key[t])
  BY <1>5, <1>6
<1> QED
  BY <1>5, <1>7, <1>8, <1>9

\* A report below the cap lists every row once
LEMMA CappedListsAll ==
  ASSUME NEW rows, AreRows(rows), NEW flag \in BOOLEAN, ~Truncated(rows)
  PROVE  /\ Cardinality(rows) \in Nat
         /\ DOMAIN Capped(rows, flag) = 1..Cardinality(rows)
         /\ Capped(rows, flag) \in Bijection(1..Cardinality(rows), rows)
<1>1. PICK n, A, rank, C :
        /\ n = Cardinality(rows)
        /\ A = [r \in rows |-> Ahead(r, rows, flag)]
        /\ rank = [r \in rows |-> Cardinality(A[r])]
        /\ C = Capped(rows, flag)
  OBVIOUS
<1>2. IsFiniteSet(rows) /\ n \in Nat
  BY <1>1, FS_CardinalityType DEF AreRows
<1>3. ASSUME NEW r \in rows
      PROVE  rank[r] \in 0..(n - 1)
  <2>1. A[r] \subseteq rows /\ r \notin A[r]
    BY <1>1, KeysInOrder DEF Ahead
  <2>2. IsFiniteSet(A[r]) /\ Cardinality(A[r]) \in Nat /\ Cardinality(A[r]) < n
    <3>1. IsFiniteSet(A[r]) /\ Cardinality(A[r]) \in Nat
      BY <1>2, <2>1, FS_Subset, FS_CardinalityType
    <3>2. A[r] # rows
      BY <2>1
    <3> QED
      BY <1>1, <1>2, <2>1, <3>1, <3>2, FS_Subset
  <2> QED
    BY <1>1, <1>2, <2>2
<1>4. ASSUME NEW r \in rows, NEW s \in rows, Lower(Key(r, flag), Key(s, flag))
      PROVE  rank[r] < rank[s]
  <2>1. A[r] \subseteq A[s] /\ r \in A[s] /\ r \notin A[r] /\ A[s] \subseteq rows
    BY <1>1, <1>4, KeysInOrder DEF Ahead
  <2>2. IsFiniteSet(A[s])
    BY <1>2, <2>1, FS_Subset
  <2>3. Cardinality(A[r]) < Cardinality(A[s])
    <3>1. A[r] # A[s]
      BY <2>1
    <3>2. Cardinality(A[r]) \in Nat /\ Cardinality(A[s]) \in Nat
      BY <2>1, <2>2, FS_Subset, FS_CardinalityType
    <3> QED
      BY <2>1, <2>2, <3>1, <3>2, FS_Subset
  <2> QED
    BY <1>1, <2>3
<1>5. rank \in Injection(rows, 0..(n - 1))
  <2>1. \A r, s \in rows : rank[r] = rank[s] => r = s
    BY <1>3, <1>4, KeysInOrder
  <2>2. rank \in [rows -> 0..(n - 1)]
    BY <1>1, <1>3
  <2> QED
    BY <2>1, <2>2 DEF Injection, IsInjective
<1>6. rank \in Surjection(rows, 0..(n - 1))
  <2>1. IsFiniteSet(0..(n - 1)) /\ Cardinality(0..(n - 1)) = n
    BY <1>2, FS_Interval
  <2> QED
    BY <1>1, <1>5, <2>1, FS_Injection
<1>7. DOMAIN C = 1..n
  <2>1. n <= RowCap
    BY <1>1, <1>2, ReportsAssumption DEF Truncated
  <2>2. {k \in 1..n : k <= RowCap} = 1..n
    BY <1>2, <2>1, ReportsAssumption
  <2> QED
    BY <1>1, <2>2 DEF Capped
<1>8. ASSUME NEW k \in 1..n
      PROVE  C[k] \in rows /\ rank[C[k]] = k - 1
  <2>1. k - 1 \in 0..(n - 1)
    BY <1>2
  <2>2. PICK r \in rows : rank[r] = k - 1
    BY <1>6, <2>1 DEF Surjection
  <2>3. \E x \in rows : Cardinality(Ahead(x, rows, flag)) = k - 1
    BY <1>1, <2>2
  <2>4. C[k] = CHOOSE x \in rows : Cardinality(Ahead(x, rows, flag)) = k - 1
    BY <1>1, <1>7 DEF Capped
  <2>5. C[k] \in rows /\ Cardinality(Ahead(C[k], rows, flag)) = k - 1
    BY <2>3, <2>4
  <2> QED
    BY <1>1, <2>5
<1>9. C \in [1..n -> rows]
  <2>1. C = [k \in 1..n |-> C[k]]
    BY <1>1, <1>7 DEF Capped
  <2> QED
    BY <1>8, <2>1
<1>10. C \in Injection(1..n, rows)
  <2>1. \A j, k \in 1..n : C[j] = C[k] => j = k
    BY <1>2, <1>8
  <2> QED
    BY <1>9, <2>1 DEF Injection, IsInjective
<1>11. C \in Surjection(1..n, rows)
  <2>1. Cardinality(1..n) = n
    BY <1>2, FS_Interval
  <2> QED
    BY <1>1, <1>2, <1>10, <2>1, FS_Injection
<1> QED
  BY <1>1, <1>2, <1>7, <1>10, <1>11 DEF Bijection

----------------------------------------------------------------------------
(* Parties *)

\* The balances of the parties come to what the lines come to, nobody's with them,
\* and so do those that are not settled
LEMMA PartiesTakeAll ==
  ASSUME NEW n \in Nat, NEW rows, DOMAIN rows = 1..n,
         \A k \in 1..n : NetOf(rows[k].line) \in Int, NEW by,
         NEW F, \A k \in 1..n : F[k] = Sign(by) * NetOf(rows[k].line),
         NEW detail, detail = Detail(rows, by),
         NEW open, open = [p \in Summary(detail) |-> detail[p]]
  PROVE  GrandTotal(detail) = Sum(F, 1..n) /\ SumOver(open) = Sum(F, 1..n)
<1>1. PICK D, P, key, part :
        /\ D = 1..n
        /\ P = Parties(rows, by)
        /\ key = [k \in D |-> Party(rows[k].line, by)]
        /\ part = [p \in P |-> Of(rows, by, p)]
  OBVIOUS
<1>2. IsFiniteSet(D) /\ D \subseteq 0..n /\ D \subseteq Nat
  BY <1>1, FS_Interval
<1>3. IsFiniteSet(P) /\ \A k \in D : key[k] \in P
  <2>1. \A k \in D : key[k] \in P
    BY <1>1 DEF Parties
  <2>2. \A p \in P : \E k \in D : key[k] = p
    BY <1>1 DEF Parties
  <2>3. key \in Surjection(D, P)
    BY <1>1, <2>1, <2>2 DEF Surjection
  <2>4. IsFiniteSet(P)
    BY <1>2, <2>3, FS_Surjection
  <2> QED
    BY <2>1, <2>4
<1>4. \A k \in D : F[k] \in Int
  BY <1>1 DEF Sign
<1>5. DOMAIN detail = P
  BY <1>1 DEF Detail
<1>6. ASSUME NEW p \in P
      PROVE  /\ part[p] = {k \in D : key[k] = p}
             /\ detail[p] = Sum(F, part[p])
             /\ detail[p] \in Int
  <2>1. part[p] = {k \in D : key[k] = p} /\ part[p] # {} /\ part[p] \subseteq D
    BY <1>1 DEF Of, Parties
  <2>2. PICK m, Q, G : /\ m = Max(Of(rows, by, p))
                       /\ Q = {i \in Of(rows, by, Party(rows[m].line, by)) : i <= m}
                       /\ G = [j \in Q |-> Sign(by) * NetOf(rows[j].line)]
    OBVIOUS
  <2>3. m \in part[p] /\ \A k \in part[p] : k <= m
    <3>1. m = Max(part[p]) /\ part[p] \subseteq 0..n
      BY <1>1, <1>2, <2>1, <2>2
    <3>2. Max(part[p]) \in part[p] /\ \A k \in part[p] : Max(part[p]) >= k
      BY <2>1, <3>1, MaxIsGreatest
    <3> QED
      BY <1>2, <2>1, <3>1, <3>2
  <2>4. Q = part[p]
    BY <1>1, <2>1, <2>2, <2>3 DEF Of
  <2>5. detail[p] = SumOver(G)
    BY <1>1, <1>5, <2>2, Zenon DEF Detail, Running
  <2>6. IsFiniteSet(part[p]) /\ (\A j \in part[p] : G[j] = F[j]) /\ DOMAIN G = part[p]
    BY <1>1, <1>2, <2>1, <2>2, <2>4, FS_Subset
  <2>7. SumOver(G) = Sum(G, part[p]) /\ Sum(G, part[p]) = Sum(F, part[p])
    BY <2>6, SumOverIsSum, SumEqual
  <2>8. Sum(F, part[p]) \in Int
    BY <1>4, <2>1, <2>6, SumInt
  <2> QED
    BY <2>1, <2>5, <2>7, <2>8
<1>7. Sum(detail, P) = Sum(F, D)
  <2>1. /\ \A p \in P : part[p] = {k \in D : key[k] = p}
        /\ \A p \in P : detail[p] = Sum(F, part[p])
    BY <1>6
  <2>2. PICK B, E, C : B = detail /\ E = F /\ C = D
    OBVIOUS
  <2>3. IsFiniteSet(C) /\ IsFiniteSet(P)
    BY <1>2, <1>3, <2>2
  <2>4. \A k \in C : E[k] \in Int /\ key[k] \in P
    BY <1>3, <1>4, <2>2
  <2>5. /\ \A p \in P : part[p] = {k \in C : key[k] = p}
        /\ \A p \in P : B[p] = Sum(E, part[p])
    BY <2>1, <2>2
  <2>6. Sum(B, P) = Sum(E, C)
    BY <2>3, <2>4, <2>5, SumByKey
  <2> QED
    BY <2>2, <2>6
<1>8. ASSUME NEW S \in SUBSET P, NEW G, G = [p \in S |-> detail[p]]
      PROVE  SumOver(G) = Sum(detail, S)
  <2>1. IsFiniteSet(S)
    BY <1>3, FS_Subset
  <2>2. SumOver(G) = Sum(G, S) /\ Sum(G, S) = Sum(detail, S)
    BY <1>8, <2>1, SumOverIsSum, SumEqual
  <2> QED
    BY <2>2
<1>9. GrandTotal(detail) = Sum(detail, P)
  <2>1. PICK S, T : S = P \ {Nobody} /\ T = P \cap {Nobody}
    OBVIOUS
  <2>2. S \in SUBSET P /\ T \in SUBSET P /\ S \cup T = P /\ S \cap T = {}
    BY <2>1
  <2>3. IsFiniteSet(S) /\ IsFiniteSet(T) /\ \A p \in S \cup T : detail[p] \in Int
    BY <1>3, <1>6, <2>2, FS_Subset
  <2>4. Sum(detail, P) = Sum(detail, S) + Sum(detail, T)
    BY <2>2, <2>3, SumUnion
  <2>5. GrandTotal(detail) = SumOver([p \in S |-> detail[p]]) + SumOver([p \in T |-> detail[p]])
    BY <1>5, <2>1 DEF GrandTotal
  <2> QED
    BY <1>8, <2>2, <2>4, <2>5
<1>10. SumOver(open) = Sum(detail, P)
  <2>1. PICK S : S = Summary(detail)
    OBVIOUS
  <2>2. S \in SUBSET P /\ \A p \in P \ S : detail[p] = 0
    BY <1>5, <2>1 DEF Summary
  <2>3. Sum(detail, P) = Sum(detail, S)
    BY <1>3, <1>6, <2>2, SumPart
  <2> QED
    BY <1>8, <2>1, <2>2, <2>3
<1> QED
  BY <1>1, <1>7, <1>9, <1>10

----------------------------------------------------------------------------
(* Reports: the invariant *)

\* What a report has read is of whole entries, or, below the cap, every line of the
\* accounts it is about; and what it shows adds up
HasRead(r) ==
  /\ "step" \in DOMAIN r
  /\ r.step = "period" =>
       /\ DOMAIN r.opening = DOMAIN Chart
       /\ \A a \in DOMAIN Chart : r.opening[a] \in Int
       /\ Sum(r.opening, DOMAIN Chart) = 0
  /\ r.step = "splits" /\ ~r.truncated =>
       \E n, F :
         /\ n \in Nat
         /\ DOMAIN r.rows = 1..n
         /\ \A k \in 1..n : NetOf(r.rows[k].line) \in Int
         /\ F = [k \in 1..n |-> Sign(r.by) * NetOf(r.rows[k].line)]
         /\ r.balance = Sum(F, 1..n)
Shows(r) ==
  /\ r.step = "statements" => r.difference = 0
  /\ r.step = "ledger report" /\ ~r.truncated => SumOver(r.closing) = 0
  /\ r.step = "parties" /\ ~r.truncated =>
       /\ r.total = r.balance
       /\ SumOver([p \in r.listed |-> r.detail[p]]) = r.balance
ReportsInv ==
  /\ BookIsSound
  /\ DOMAIN reader = Reporters
  /\ \A u \in Reporters : HasRead(reader[u]) /\ Shows(reader[u])

LEMMA ReportsStart == ReportsInit => ReportsInv
<1> SUFFICES ASSUME ReportsInit PROVE ReportsInv
  OBVIOUS
<1>1. book \in Seq({}) /\ DOMAIN book = {}
  BY DEF ReportsInit
<1>2. DOMAIN reader = Reporters /\ \A u \in Reporters : reader[u] = [step |-> "idle"]
  BY DEF ReportsInit
<1>3. ASSUME NEW u \in Reporters PROVE HasRead(reader[u]) /\ Shows(reader[u])
  <2>1. PICK r : r = reader[u]
    OBVIOUS
  <2>2. "step" \in DOMAIN r /\ r.step = "idle"
    BY <1>2, <2>1
  <2>3. HasRead(r) /\ Shows(r)
    BY <2>2 DEF HasRead, Shows
  <2> QED
    BY <2>1, <2>3, Zenon
<1>4. BookIsSound
  BY <1>1 DEF BookIsSound
<1> QED
  BY <1>2, <1>3, <1>4 DEF ReportsInv

\* A report that shows what follows from what it read keeps the invariant
LEMMA ShowStep ==
  ASSUME ReportsInv, NEW u \in Reporters, NEW r, Show(u, r), HasRead(r), Shows(r)
  PROVE  ReportsInv'
<1>1. /\ UNCHANGED book /\ DOMAIN reader' = Reporters /\ reader'[u] = r
      /\ \A v \in Reporters \ {u} : reader'[v] = reader[v]
  BY DEF Show, ReportsInv
<1>2. BookIsSound'
  BY <1>1 DEF ReportsInv, BookIsSound, IsBalanced
<1>3. ASSUME NEW v \in Reporters
      PROVE  HasRead(reader'[v]) /\ Shows(reader'[v])
  <2>1. CASE v = u
    BY <1>1, <2>1, Zenon
  <2>2. CASE v # u
    <3>1. reader'[v] = reader[v]
      BY <1>1, <2>2
    <3> QED
      BY <3>1, Zenon DEF ReportsInv
  <2> QED
    BY <2>1, <2>2
<1>4. \A v \in Reporters : HasRead(reader[v])' /\ Shows(reader[v])'
  BY <1>3, Zenon DEF HasRead, Shows
<1> QED
  BY <1>1, <1>2, <1>4, Zenon DEF ReportsInv

\* A step of the ledger leaves the reports as they are
LEMMA LedgerStep ==
  ASSUME ReportsInv, UNCHANGED reader, BookIsSound'
  PROVE  ReportsInv'
<1>1. DOMAIN reader' = Reporters /\ \A u \in Reporters : reader'[u] = reader[u]
  BY DEF ReportsInv
<1>2. \A u \in Reporters : HasRead(reader'[u]) /\ Shows(reader'[u])
  BY <1>1, Zenon DEF ReportsInv
<1>3. \A u \in Reporters : HasRead(reader[u])' /\ Shows(reader[u])'
  BY <1>2, Zenon DEF HasRead, Shows
<1> QED
  BY <1>1, <1>3, Zenon DEF ReportsInv

\* What is shown, in the words of the property
LEMMA WhatIsShown == ReportsInv => ReportsAddUp
BY Zenon DEF ReportsInv, Shows, ReportsAddUp, ReportsBalance, PartiesAddUp

----------------------------------------------------------------------------
(* Reports: the ledger goes on *)

\* Mirrored lines balance
LEMMA MirroredLines ==
  ASSUME NEW lines, IsBalanced(lines)
  PROVE  IsBalanced([k \in DOMAIN lines |-> Mirror(lines[k])])
<1>1. PICK M, D, F, G, m : /\ M = [k \in DOMAIN lines |-> Mirror(lines[k])]
                           /\ D = DOMAIN lines /\ m = Len(lines)
                           /\ F = [k \in D |-> NetOf(lines[k])]
                           /\ G = [k \in D |-> NetOf(M[k])]
  OBVIOUS
<1>2. D = 1..m /\ m \in Nat /\ IsFiniteSet(D) /\ Sum(F, D) = 0
  BY <1>1, FS_Interval, SumOverIsSum DEF IsBalanced
<1>3. ASSUME NEW k \in D
      PROVE  /\ DOMAIN M[k] = {"account", "debit", "credit", "supplier", "customer"}
             /\ M[k].account = lines[k].account
             /\ M[k].debit = lines[k].credit /\ M[k].credit = lines[k].debit
  BY <1>1 DEF IsBalanced, Mirror
<1>4. /\ \A k \in D : /\ M[k].account \in DOMAIN Chart
                       /\ M[k].debit \in Int /\ M[k].credit \in Int
      /\ \A k \in D : F[k] \in Int /\ G[k] = -F[k]
  BY <1>1, <1>3 DEF IsBalanced, NetOf
<1>5. Sum(G, D) = 0
  <2>1. Sum(G, D) = -Sum(F, D)
    BY <1>2, <1>4, SumNegative
  <2> QED
    BY <1>2, <2>1
<1>6. SumOver(G) = 0
  BY <1>1, <1>5, SumOverIsSum
<1>7. DOMAIN M = 1..m /\ Len(M) = m
  BY <1>1, <1>2
<1> QED
  BY <1>1, <1>2, <1>3, <1>4, <1>6, <1>7 DEF IsBalanced

\* A book of entries that were in it and sound new ones is sound
LEMMA BookGrows ==
  ASSUME ReportsInv, NEW S, book' \in Seq(S), NEW X,
         \A x \in X : DOMAIN x = EntryColumns /\ x.date \in Int /\ IsBalanced(x.lines),
         \A n \in DOMAIN book' : (n \in DOMAIN book /\ book'[n] = book[n]) \/ book'[n] \in X
  PROVE  BookIsSound'
<1>1. \A n \in DOMAIN book : DOMAIN book[n] = EntryColumns /\ book[n].date \in Int
                              /\ IsBalanced(book[n].lines)
  BY Zenon DEF ReportsInv, BookIsSound
<1>2. ASSUME NEW n \in DOMAIN book'
      PROVE  DOMAIN book'[n] = EntryColumns /\ book'[n].date \in Int
             /\ IsBalanced(book'[n].lines)
  <2>1. CASE n \in DOMAIN book /\ book'[n] = book[n]
    BY <1>1, <2>1, Zenon
  <2>2. CASE book'[n] \in X
    BY <2>2, Zenon
  <2> QED
    BY <2>1, <2>2
<1>3. \A n \in DOMAIN book' : IsBalanced(book[n].lines)'
  BY <1>2, Zenon DEF IsBalanced
<1>4. EntryColumns' = EntryColumns
  BY DEF EntryColumns
<1>5. \E T : book' \in Seq(T)
  OBVIOUS
<1> QED
  BY <1>2, <1>3, <1>4, <1>5, Zenon DEF BookIsSound

LEMMA DraftBookingStep ==
  ASSUME ReportsInv, NEW e \in Bookings, DraftBooking(e)
  PROVE  ReportsInv'
<1>1. PICK S, x : /\ book \in Seq(S)
                  /\ x = [date |-> e.date, lines |-> e.lines, status |-> "draft"]
  BY DEF ReportsInv, BookIsSound
<1>2. /\ book' \in Seq(S \cup {x})
      /\ \A n \in DOMAIN book' : (n \in DOMAIN book /\ book'[n] = book[n]) \/ book'[n] = x
  BY <1>1 DEF DraftBooking
<1>3. DOMAIN x = EntryColumns /\ x.date \in Int /\ IsBalanced(x.lines)
  BY <1>1, BookingsAssumption DEF EntryColumns
<1>4. BookIsSound'
  <2>1. \A y \in {x} : DOMAIN y = EntryColumns /\ y.date \in Int /\ IsBalanced(y.lines)
    BY <1>3, Zenon
  <2>2. \A m \in DOMAIN book' : (m \in DOMAIN book /\ book'[m] = book[m]) \/ book'[m] \in {x}
    BY <1>2
  <2>3. PICK T, X : T = S \cup {x} /\ X = {x}
    OBVIOUS
  <2>4. /\ book' \in Seq(T)
        /\ \A y \in X : DOMAIN y = EntryColumns /\ y.date \in Int /\ IsBalanced(y.lines)
        /\ \A m \in DOMAIN book' : (m \in DOMAIN book /\ book'[m] = book[m]) \/ book'[m] \in X
    BY <1>2, <2>1, <2>2, <2>3, Zenon
  <2> QED
    BY <2>4, BookGrows
<1> QED
  BY <1>4, LedgerStep DEF DraftBooking

LEMMA PostBookingStep ==
  ASSUME ReportsInv, NEW n \in DOMAIN book, PostBooking(n)
  PROVE  ReportsInv'
<1>1. PICK S, x : book \in Seq(S) /\ x = [book[n] EXCEPT !.status = "posted"]
  BY DEF ReportsInv, BookIsSound
<1>2. /\ book' \in Seq(S \cup {x})
      /\ \A m \in DOMAIN book' : (m \in DOMAIN book /\ book'[m] = book[m]) \/ book'[m] = x
  BY <1>1 DEF PostBooking
<1>3. DOMAIN x = EntryColumns /\ x.date \in Int /\ IsBalanced(x.lines)
  <2>1. DOMAIN book[n] = EntryColumns /\ book[n].date \in Int /\ IsBalanced(book[n].lines)
    BY DEF ReportsInv, BookIsSound
  <2>2. DOMAIN x = EntryColumns /\ x.date = book[n].date /\ x.lines = book[n].lines
    BY <1>1, <2>1 DEF EntryColumns
  <2> QED
    BY <2>1, <2>2
<1>4. BookIsSound'
  <2>1. \A y \in {x} : DOMAIN y = EntryColumns /\ y.date \in Int /\ IsBalanced(y.lines)
    BY <1>3, Zenon
  <2>2. \A m \in DOMAIN book' : (m \in DOMAIN book /\ book'[m] = book[m]) \/ book'[m] \in {x}
    BY <1>2
  <2>3. PICK T, X : T = S \cup {x} /\ X = {x}
    OBVIOUS
  <2>4. /\ book' \in Seq(T)
        /\ \A y \in X : DOMAIN y = EntryColumns /\ y.date \in Int /\ IsBalanced(y.lines)
        /\ \A m \in DOMAIN book' : (m \in DOMAIN book /\ book'[m] = book[m]) \/ book'[m] \in X
    BY <1>2, <2>1, <2>2, <2>3, Zenon
  <2> QED
    BY <2>4, BookGrows
<1> QED
  BY <1>4, LedgerStep DEF PostBooking

LEMMA ReverseBookingStep ==
  ASSUME ReportsInv, NEW n \in DOMAIN book, NEW e \in Bookings, ReverseBooking(n, e.date)
  PROVE  ReportsInv'
<1>1. PICK S, x, M, y : /\ book \in Seq(S)
                        /\ x = [book[n] EXCEPT !.status = "reversed"]
                        /\ M = [k \in DOMAIN book[n].lines |-> Mirror(book[n].lines[k])]
                        /\ y = [date |-> e.date, lines |-> M, status |-> "posted"]
  BY DEF ReportsInv, BookIsSound
<1>2. PICK B : /\ B = [book EXCEPT ![n].status = "reversed"]
               /\ B \in Seq(S \cup {x})
               /\ \A m \in DOMAIN B : (m \in DOMAIN book /\ B[m] = book[m]) \/ B[m] = x
  <2>1. PICK B : B = [book EXCEPT ![n].status = "reversed"]
    OBVIOUS
  <2>2. B = [book EXCEPT ![n] = x]
    BY <1>1, <2>1
  <2>3. B \in Seq(S \cup {x})
    BY <1>1, <2>2
  <2>4. \A m \in DOMAIN B : (m \in DOMAIN book /\ B[m] = book[m]) \/ B[m] = x
    BY <2>2
  <2> QED
    BY <2>1, <2>3, <2>4
<1>3. /\ book' \in Seq(S \cup {x, y})
      /\ \A m \in DOMAIN book' : (m \in DOMAIN B /\ book'[m] = B[m]) \/ book'[m] = y
  <2>1. book' = Append(B, y)
    BY <1>1, <1>2 DEF ReverseBooking
  <2> QED
    BY <1>2, <2>1
<1>4. DOMAIN x = EntryColumns /\ x.date \in Int /\ IsBalanced(x.lines)
  <2>1. DOMAIN book[n] = EntryColumns /\ book[n].date \in Int /\ IsBalanced(book[n].lines)
    BY DEF ReportsInv, BookIsSound
  <2>2. DOMAIN x = EntryColumns /\ x.date = book[n].date /\ x.lines = book[n].lines
    BY <1>1, <2>1 DEF EntryColumns
  <2> QED
    BY <2>1, <2>2
<1>5. DOMAIN y = EntryColumns /\ y.date \in Int /\ IsBalanced(y.lines)
  <2>1. IsBalanced(M)
    BY <1>1, MirroredLines DEF ReportsInv, BookIsSound
  <2> QED
    BY <1>1, <2>1, BookingsAssumption DEF EntryColumns
<1>6. \A m \in DOMAIN book' :
        (m \in DOMAIN book /\ book'[m] = book[m]) \/ book'[m] = x \/ book'[m] = y
  BY <1>2, <1>3
<1>7. BookIsSound'
  <2>1. \A z \in {x, y} : DOMAIN z = EntryColumns /\ z.date \in Int /\ IsBalanced(z.lines)
    BY <1>4, <1>5, Zenon
  <2>2. \A m \in DOMAIN book' :
          (m \in DOMAIN book /\ book'[m] = book[m]) \/ book'[m] \in {x, y}
    BY <1>6
  <2>3. PICK T, X : T = S \cup {x, y} /\ X = {x, y}
    OBVIOUS
  <2>4. /\ book' \in Seq(T)
        /\ \A z \in X : DOMAIN z = EntryColumns /\ z.date \in Int /\ IsBalanced(z.lines)
        /\ \A m \in DOMAIN book' : (m \in DOMAIN book /\ book'[m] = book[m]) \/ book'[m] \in X
    BY <1>3, <2>1, <2>2, <2>3, Zenon
  <2> QED
    BY <2>4, BookGrows
<1> QED
  BY <1>7, LedgerStep DEF ReverseBooking

----------------------------------------------------------------------------
(* Reports: the queries *)

\* Each query joins the lines of whole entries
LEMMA QueriesTakeEntries ==
  ASSUME NEW d, NEW p
  PROVE  /\ \E T \in SUBSET DOMAIN book : RowsTo(d) = RowsOf(T)
         /\ \E T \in SUBSET DOMAIN book : RowsIn(p) = RowsOf(T)
         /\ \E T \in SUBSET DOMAIN book : RowsBefore(d) = RowsOf(T)
BY DEF RowsTo, RowsIn, RowsBefore, Journal

LEMMA StatementsStep ==
  ASSUME ReportsInv, NEW u \in Reporters, NEW p, BeginStatements(u, p) \/ FinishStatements(u)
  PROVE  ReportsInv'
<1>1. CASE BeginStatements(u, p)
  <2>1. PICK r : r = [step |-> "cumulative", period |-> p, income |-> Balances(RowsIn(p))]
    OBVIOUS
  <2>2. HasRead(r) /\ Shows(r)
    BY <2>1 DEF HasRead, Shows
  <2>3. Show(u, r)
    BY <1>1, <2>1 DEF BeginStatements
  <2> QED
    BY <2>2, <2>3, ShowStep
<1>2. CASE FinishStatements(u)
  <2>1. PICK B, r : /\ B = Balances(RowsTo(reader[u].period.to))
                    /\ r = [step |-> "statements", income |-> NetResult(reader[u].income),
                            difference |-> Difference(B, NetResult(B))]
                    /\ Show(u, r)
    BY <1>2, Zenon DEF FinishStatements, ResultShown
  <2>2. Difference(B, NetResult(B)) = 0
    BY <2>1, QueriesTakeEntries, EntriesBalance, Zenon DEF ReportsInv
  <2>3. HasRead(r) /\ Shows(r)
    BY <2>1, <2>2 DEF HasRead, Shows
  <2> QED
    BY <2>1, <2>3, ShowStep
<1> QED
  BY <1>1, <1>2

LEMMA BeginPartiesStep ==
  ASSUME ReportsInv, NEW u \in Reporters, NEW by, NEW d, BeginParties(u, by, d)
  PROVE  ReportsInv'
<1>1. PICK r : r = [step |-> "lines", by |-> by, to |-> d, codes |-> Codes(by)]
  OBVIOUS
<1>2. HasRead(r) /\ Shows(r)
  BY <1>1 DEF HasRead, Shows
<1>3. Show(u, r)
  BY <1>1 DEF BeginParties
<1> QED
  BY <1>2, <1>3, ShowStep

LEMMA ReadPartiesStep ==
  ASSUME ReportsInv, NEW u \in Reporters, ReadParties(u)
  PROVE  ReportsInv'
<1>1. PICK rows, by, C, G, r :
        /\ rows = {x \in RowsTo(reader[u].to) : x.line.account \in reader[u].codes}
        /\ by = reader[u].by
        /\ C = Capped(rows, FALSE)
        /\ G = [x \in rows |-> Sign(by) * NetOf(x.line)]
        /\ r = [step |-> "splits", by |-> by, rows |-> C, truncated |-> Truncated(rows),
                balance |-> SumOver(G)]
        /\ Show(u, r)
  BY Zenon DEF ReadParties
<1>2. AreRows(rows)
  <2>1. AreRows(RowsTo(reader[u].to))
    <3>1. PICK T \in SUBSET DOMAIN book : RowsTo(reader[u].to) = RowsOf(T)
      BY QueriesTakeEntries
    <3>2. AreRows(RowsOf(T))
      BY RowsAreRows DEF ReportsInv
    <3> QED
      BY <3>1, <3>2, Zenon
  <2>2. rows \subseteq RowsTo(reader[u].to)
    BY <1>1
  <2>3. IsFiniteSet(rows)
    BY <2>1, <2>2, FS_Subset DEF AreRows
  <2> QED
    BY <2>1, <2>2, <2>3, Zenon DEF AreRows
<1>3. ASSUME ~Truncated(rows)
      PROVE  \E n, F :
               /\ n \in Nat
               /\ DOMAIN C = 1..n
               /\ \A k \in 1..n : NetOf(C[k].line) \in Int
               /\ F = [k \in 1..n |-> Sign(by) * NetOf(C[k].line)]
               /\ SumOver(G) = Sum(F, 1..n)
  <2>1. PICK n, D, F : /\ n = Cardinality(rows) /\ D = 1..n
                       /\ F = [k \in 1..n |-> Sign(by) * NetOf(C[k].line)]
    OBVIOUS
  <2>2. n \in Nat /\ DOMAIN C = D /\ C \in Bijection(D, rows) /\ IsFiniteSet(D)
    <3>1. n \in Nat /\ DOMAIN C = D /\ C \in Bijection(D, rows)
      BY <1>1, <1>2, <1>3, <2>1, CappedListsAll, Zenon
    <3> QED
      BY <2>1, <3>1, FS_Interval
  <2>3. \A k \in D : C[k] \in rows
    BY <2>2 DEF Bijection, Injection
  <2>4. \A k \in D : NetOf(C[k].line) \in Int
    BY <1>2, <2>3 DEF AreRows
  <2>5. \A k \in D : F[k] \in Int /\ F[k] = G[C[k]]
    <3>1. Sign(by) \in Int
      BY DEF Sign
    <3>2. \A k \in D : F[k] = Sign(by) * NetOf(C[k].line) /\ G[C[k]] = Sign(by) * NetOf(C[k].line)
      BY <1>1, <2>1, <2>3
    <3> QED
      BY <2>4, <3>1, <3>2
  <2>6. Sum(F, D) = Sum(G, rows)
    BY <2>2, <2>5, SumImage
  <2>7. SumOver(G) = Sum(G, rows)
    BY <1>1, SumOverIsSum
  <2> QED
    BY <2>1, <2>2, <2>4, <2>6, <2>7
<1>4. HasRead(r)
  <2>1. /\ "step" \in DOMAIN r /\ r.step = "splits" /\ r.by = by /\ r.rows = C
        /\ r.truncated = Truncated(rows) /\ r.balance = SumOver(G)
    BY <1>1
  <2>2. r.step # "period"
    BY <2>1
  <2> QED
    BY <1>3, <2>1, <2>2, Zenon DEF HasRead
<1>5. Shows(r)
  BY <1>1 DEF Shows
<1> QED
  BY <1>1, <1>4, <1>5, ShowStep

LEMMA FinishPartiesStep ==
  ASSUME ReportsInv, NEW u \in Reporters, FinishParties(u)
  PROVE  ReportsInv'
<1>1. PICK rows, by, detail, X, r :
        /\ rows = reader[u].rows /\ by = reader[u].by
        /\ detail = Detail(rows, by)
        /\ r = [step |-> "parties", detail |-> detail, total |-> GrandTotal(detail),
                listed |-> Summary(detail), truncated |-> reader[u].truncated,
                balance |-> reader[u].balance, across |-> X]
        /\ Show(u, r)
  BY DEF FinishParties
<1>2. ASSUME ~reader[u].truncated
      PROVE  /\ GrandTotal(detail) = reader[u].balance
             /\ SumOver([p \in Summary(detail) |-> detail[p]]) = reader[u].balance
  <2>1. PICK n, F : /\ n \in Nat /\ DOMAIN rows = 1..n
                    /\ \A k \in 1..n : NetOf(rows[k].line) \in Int
                    /\ F = [k \in 1..n |-> Sign(by) * NetOf(rows[k].line)]
                    /\ reader[u].balance = Sum(F, 1..n)
    <3>1. HasRead(reader[u]) /\ reader[u].step = "splits"
      BY DEF ReportsInv, FinishParties
    <3> QED
      BY <1>1, <1>2, <3>1 DEF HasRead
  <2>2. \A k \in 1..n : F[k] = Sign(by) * NetOf(rows[k].line)
    BY <2>1
  <2>3. PICK open : open = [p \in Summary(detail) |-> detail[p]]
    OBVIOUS
  <2>4. GrandTotal(detail) = Sum(F, 1..n) /\ SumOver(open) = Sum(F, 1..n)
    <3>1. detail = Detail(rows, by)
      BY <1>1
    <3>2. n \in Nat /\ DOMAIN rows = 1..n /\ \A k \in 1..n : NetOf(rows[k].line) \in Int
      BY <2>1
    <3> QED
      BY <2>2, <2>3, <3>1, <3>2, PartiesTakeAll
  <2> QED
    BY <2>1, <2>3, <2>4, Zenon
<1>3. HasRead(r)
  BY <1>1 DEF HasRead
<1>4. Shows(r)
  <2>1. /\ r.step = "parties" /\ r.detail = detail /\ r.total = GrandTotal(detail)
        /\ r.listed = Summary(detail) /\ r.truncated = reader[u].truncated
        /\ r.balance = reader[u].balance
    BY <1>1
  <2>2. r.step # "statements" /\ r.step # "ledger report"
    BY <2>1
  <2> QED
    BY <1>2, <2>1, <2>2, Zenon DEF Shows
<1> QED
  BY <1>1, <1>3, <1>4, ShowStep

LEMMA BeginLedgerStep ==
  ASSUME ReportsInv, NEW u \in Reporters, NEW p, BeginLedger(u, p)
  PROVE  ReportsInv'
<1>1. PICK B, r : /\ B = Balances(RowsBefore(p.from))
                  /\ r = [step |-> "period", period |-> p, opening |-> B]
                  /\ Show(u, r)
  BY DEF BeginLedger
<1>2. /\ DOMAIN B = DOMAIN Chart /\ \A a \in DOMAIN Chart : B[a] \in Int
      /\ Sum(B, DOMAIN Chart) = 0
  BY <1>1, QueriesTakeEntries, EntriesBalance, Zenon DEF ReportsInv
<1>3. HasRead(r) /\ Shows(r)
  BY <1>1, <1>2 DEF HasRead, Shows
<1> QED
  BY <1>1, <1>3, ShowStep

LEMMA FinishLedgerStep ==
  ASSUME ReportsInv, NEW u \in Reporters, FinishLedger(u)
  PROVE  ReportsInv'
<1>1. PICK rows, C :
        /\ rows = RowsIn(reader[u].period)
        /\ C = Capped(rows, TRUE)
        /\ LET kept == {C[k] : k \in DOMAIN C}  opening == reader[u].opening
               moved == [a \in {x.line.account : x \in kept} |-> Balances(kept)[a]] IN
           Show(u, [step |-> "ledger report", truncated |-> Truncated(rows),
                   closing |-> [a \in ListedAccounts(opening, moved) |->
                     opening[a] + IF a \in DOMAIN moved THEN moved[a] ELSE 0]])
  BY Zenon DEF FinishLedger
<1>2. PICK kept, O :
        /\ kept = {C[k] : k \in DOMAIN C} /\ O = reader[u].opening
        /\ LET moved == [a \in {x.line.account : x \in kept} |-> Balances(kept)[a]] IN
           Show(u, [step |-> "ledger report", truncated |-> Truncated(rows),
                   closing |-> [a \in ListedAccounts(O, moved) |->
                     O[a] + IF a \in DOMAIN moved THEN moved[a] ELSE 0]])
  BY <1>1, Zenon
<1>3. PICK A, moved :
        /\ A = {x.line.account : x \in kept}
        /\ moved = [a \in A |-> Balances(kept)[a]]
        /\ Show(u, [step |-> "ledger report", truncated |-> Truncated(rows),
                   closing |-> [a \in ListedAccounts(O, moved) |->
                     O[a] + IF a \in DOMAIN moved THEN moved[a] ELSE 0]])
  BY <1>2, Zenon
<1>4. PICK L, closing, r :
        /\ L = ListedAccounts(O, moved)
        /\ closing = [a \in L |-> O[a] + IF a \in DOMAIN moved THEN moved[a] ELSE 0]
        /\ r = [step |-> "ledger report", truncated |-> Truncated(rows), closing |-> closing]
        /\ Show(u, r)
  BY <1>3, Zenon
<1>5. ASSUME ~Truncated(rows)
      PROVE  SumOver(closing) = 0
  <2>1. PICK K, B, H : /\ K = DOMAIN Chart /\ B = Balances(rows)
                       /\ H = [a \in K |-> O[a] + B[a]]
    OBVIOUS
  <2>2. PICK T \in SUBSET DOMAIN book : rows = RowsOf(T)
    BY <1>1, QueriesTakeEntries
  <2>3. AreRows(rows)
    BY <2>2, RowsAreRows DEF ReportsInv
  <2>4. kept = rows
    <3>1. C \in Bijection(1..Cardinality(rows), rows) /\ DOMAIN C = 1..Cardinality(rows)
      BY <1>1, <1>5, <2>3, CappedListsAll
    <3>2. \A k \in DOMAIN C : C[k] \in rows
      BY <3>1 DEF Bijection, Injection
    <3>3. \A x \in rows : \E k \in DOMAIN C : C[k] = x
      BY <3>1 DEF Bijection, Surjection
    <3> QED
      BY <1>2, <3>2, <3>3
  <2>5. /\ IsFiniteSet(K) /\ \A a \in K : B[a] \in Int
        /\ Sum(B, K) = 0
        /\ \A a \in K : a \notin A => B[a] = 0
    BY <1>3, <2>1, <2>2, <2>3, <2>4, ChartAssumption, EntriesBalance, BalancesAddUp
    DEF ReportsInv
  <2>6. DOMAIN O = K /\ (\A a \in K : O[a] \in Int) /\ Sum(O, K) = 0
    BY <1>2, <2>1, Zenon DEF ReportsInv, HasRead, FinishLedger
  <2>7. A \subseteq K
    <3>1. \A x \in kept : x.line.account \in K
      BY <2>1, <2>3, <2>4 DEF AreRows
    <3> QED
      BY <1>3, <3>1
  <2>8. L \in SUBSET K /\ \A a \in K \ L : H[a] = 0
    <3>1. L = A \cup {a \in K : O[a] # 0}
      BY <1>3, <1>4, <2>6 DEF ListedAccounts
    <3>2. \A a \in K \ L : O[a] = 0 /\ B[a] = 0
      BY <2>5, <3>1
    <3> QED
      BY <2>1, <2>7, <3>1, <3>2
  <2>9. \A a \in L : closing[a] = H[a]
    <3>1. DOMAIN moved = A /\ \A a \in A : moved[a] = B[a]
      BY <1>3, <2>1, <2>4
    <3>2. \A a \in L : closing[a] = O[a] + (IF a \in A THEN B[a] ELSE 0)
      BY <1>4, <3>1
    <3> QED
      BY <2>1, <2>5, <2>8, <3>2
  <2>10. Sum(H, K) = Sum(O, K) + Sum(B, K)
    <3>1. \A a \in K : O[a] \in Int /\ B[a] \in Int /\ H[a] = O[a] + B[a]
      BY <2>1, <2>5, <2>6
    <3> QED
      BY <2>5, <3>1, SumOfSums
  <2>11. Sum(H, K) = Sum(H, L)
    <3>1. \A a \in K : H[a] \in Int
      BY <2>1, <2>5, <2>6
    <3> QED
      BY <2>5, <2>8, <3>1, SumPart
  <2>12. SumOver(closing) = Sum(closing, L) /\ Sum(closing, L) = Sum(H, L)
    <3>1. IsFiniteSet(L) /\ DOMAIN closing = L
      BY <1>4, <2>5, <2>8, FS_Subset
    <3> QED
      BY <2>9, <3>1, SumOverIsSum, SumEqual
  <2> QED
    BY <2>5, <2>6, <2>10, <2>11, <2>12
<1>6. HasRead(r)
  BY <1>4 DEF HasRead
<1>7. Shows(r)
  <2>1. r.step = "ledger report" /\ r.truncated = Truncated(rows) /\ r.closing = closing
    BY <1>4
  <2>2. r.step # "statements" /\ r.step # "parties"
    BY <2>1
  <2> QED
    BY <1>5, <2>1, <2>2, Zenon DEF Shows
<1> QED
  BY <1>4, <1>6, <1>7, ShowStep

\* Every step keeps the invariant
LEMMA ReportsStep ==
  ASSUME ReportsInv, [ReportsNext]_reportVars
  PROVE  ReportsInv'
<1>1. ASSUME NEW e \in Bookings, DraftBooking(e) PROVE ReportsInv'
  BY <1>1, DraftBookingStep
<1>2. ASSUME NEW n \in DOMAIN book, PostBooking(n) PROVE ReportsInv'
  BY <1>2, PostBookingStep
<1>3. ASSUME NEW n \in DOMAIN book, NEW e \in Bookings, ReverseBooking(n, e.date)
      PROVE  ReportsInv'
  BY <1>3, ReverseBookingStep
<1>4. ASSUME UNCHANGED <<book, reader>> PROVE ReportsInv'
  <2>1. BookIsSound'
    BY <1>4 DEF ReportsInv, BookIsSound, IsBalanced
  <2> QED
    BY <1>4, <2>1, LedgerStep
<1>5. ASSUME NEW u \in Reporters, NEW p, BeginStatements(u, p) \/ FinishStatements(u)
      PROVE  ReportsInv'
  BY <1>5, StatementsStep
<1>6. ASSUME NEW u \in Reporters, NEW by, NEW d, BeginParties(u, by, d) PROVE ReportsInv'
  BY <1>6, BeginPartiesStep
<1>7. ASSUME NEW u \in Reporters, ReadParties(u) PROVE ReportsInv'
  BY <1>7, ReadPartiesStep
<1>8. ASSUME NEW u \in Reporters, FinishParties(u) PROVE ReportsInv'
  BY <1>8, FinishPartiesStep
<1>9. ASSUME NEW u \in Reporters, NEW p, BeginLedger(u, p) PROVE ReportsInv'
  BY <1>9, BeginLedgerStep
<1>10. ASSUME NEW u \in Reporters, FinishLedger(u) PROVE ReportsInv'
  BY <1>10, FinishLedgerStep
<1>11. CASE UNCHANGED reportVars
  BY <1>4, <1>11 DEF reportVars
<1>12. ASSUME NEW a, Deactivate(a) PROVE ReportsInv'
  BY <1>4, <1>12 DEF Deactivate
<1> QED
  BY <1>1, <1>2, <1>3, <1>5, <1>6, <1>7, <1>8, <1>9, <1>10, <1>11, <1>12, Zenon
  DEF ReportsNext

\* What the reports show adds up: the balance sheet balances, the closing balances of a
\* complete general ledger cancel out, and the balances of the parties come to those of
\* their accounts, whatever is posted, reversed or deactivated between two queries
\* (buildBalanceSheet, buildGeneralLedger, buildPartyBalanceDetail).
THEOREM ReportsStand == ReportsSpec => []ReportsAddUp
<1>1. ReportsInit => ReportsInv
  BY ReportsStart
<1>2. ReportsInv /\ [ReportsNext]_reportVars => ReportsInv'
  BY ReportsStep
<1> QED
  BY <1>1, <1>2, WhatIsShown, PTL DEF ReportsSpec
=============================================================================
