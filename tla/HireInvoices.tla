---------------------------- MODULE HireInvoices ----------------------------
(***************************************************************************)
(* Hire invoices, the money received for them and the commission brokers   *)
(* earn on them: HireInvoicesController, the payment ledger it shares with *)
(* the management invoices (payment-ledger.ts), and BrokersService.        *)
(*                                                                         *)
(* Receiving money is one transaction under the lock of the invoice.       *)
(* Saving an invoice is not: the invoice, its items and each commission    *)
(* are written by statements of their own. Any of them may fail or be cut  *)
(* off: what was written before stays, and a synchronisation that fails is *)
(* reported without undoing the save.                                      *)
(*                                                                         *)
(* A commission is counted in hundredths of the unit of the invoice, so    *)
(* that its rounding does not show and the cent of tolerance is zero.      *)
(***************************************************************************)
EXTENDS Integers, Sequences, FiniteSets, FiniteSetsExt

CONSTANTS
  Clerks,    \* concurrent requests
  Papers,    \* identifiers of hire invoices and of the notes on them
  Documents, \* what may be entered: [type, of, ruled, total, items, ccy]
  Rate,      \* per cent each broker earns on an invoice its rule covers
  Amounts,   \* amounts received and amounts paid to brokers
  Nothing,   \* no document, no invoice
  MaxSaves,  \* bound: invoices entered or edited
  MaxHireRows \* bound: rows of money and of commission

\* No document is the absent one; totals, items and rates are numbers
ASSUME HireAssumption ==
  /\ Nothing \notin Documents
  /\ \A d \in Documents :
       /\ d.total \in Int
       /\ d.items # Nothing => d.items \in Seq([kind : STRING, amount : Int])
  /\ \A b \in DOMAIN Rate : Rate[b] \in Int

VARIABLES
  doc,     \* rows of hire_invoices, Nothing where there is none
  lines,   \* rows of hire_invoice_items
  cache,   \* paid_amount and status of each invoice
  money,   \* rows of hire_payments
  ledger,  \* rows of broker_ledger
  serial,  \* rows written so far: their identity
  saves,   \* invoices entered or edited so far
  clerk,   \* what each request has still to do
  behind   \* history: invoices saved since a synchronisation of theirs came to its end

hireVars == <<doc, lines, cache, money, ledger, serial, saves, clerk, behind>>

----------------------------------------------------------------------------
Brokers == DOMAIN Rate
AmountIn(rows) == MapThenSumSet(LAMBDA r : r.amount, rows)
Exists(i) == doc[i] # Nothing
IsNote(d) == d.type # "invoice"
MoneyOf(i) == {m \in money : m.invoice = i}
LinesOf(i) == {l \in lines : l.invoice = i}
Dues(i) == {e \in ledger : e.kind = "due" /\ e.invoice = i}
PaidOn(i, b) == {e \in ledger : e.kind = "payment" /\ e.invoice = i /\ e.broker = b}

\* recompute: from the rows, in the currency of the invoice; a note is left alone
Counted(i, rows) == AmountIn({m \in rows : m.invoice = i /\ m.ccy = doc[i].ccy})
Derived(i, rows) ==
  [paid |-> Counted(i, rows),
   status |-> CASE Counted(i, rows) = 0 -> "unpaid"
                [] Counted(i, rows) # 0 /\ Counted(i, rows) >= doc[i].total -> "paid"
                [] OTHER -> "partial"]
Recompute(i, rows) ==
  cache' = IF Exists(i) /\ ~IsNote(doc[i])
           THEN [cache EXCEPT ![i] = Derived(i, rows)] ELSE cache

\* rulesFor: no rule covers a note
Covering(d) == IF IsNote(d) THEN {} ELSE {b \in Brokers : d.ruled}

\* baseOf: the hire items, or the total of an invoice without items
Base(i, d) ==
  IF LinesOf(i) = {} THEN d.total
  ELSE AmountIn({l \in LinesOf(i) : l.kind = "hire"})

Due(i, b, id, base, ccy) ==
  [id |-> id, kind |-> "due", invoice |-> i, broker |-> b,
   amount |-> base * Rate[b], base |-> base, ccy |-> ccy]

----------------------------------------------------------------------------
HireInit ==
  /\ doc = [i \in Papers |-> Nothing] /\ lines = {}
  /\ cache = [i \in Papers |-> [paid |-> 0, status |-> "unpaid"]]
  /\ money = {} /\ ledger = {} /\ serial = 0 /\ saves = 0
  /\ clerk = [u \in Clerks |-> [step |-> "idle"]] /\ behind = {}

At(u, step) == clerk[u].step = step
Do(u, r) == clerk' = [clerk EXCEPT ![u] = r]
Finish(u) == Do(u, [step |-> "idle"])
RowsLeft == serial < MaxHireRows

\* create and update: a note is issued, whatever its payments
Enters(u, i, d) ==
  /\ At(u, "idle") /\ saves < MaxSaves
  /\ d.of # Nothing => Exists(d.of) /\ d.of # i
  /\ doc' = [doc EXCEPT ![i] = d]
  /\ cache' = IF IsNote(d) THEN [cache EXCEPT ![i].status = "issued"] ELSE cache
  /\ saves' = saves + 1 /\ behind' = behind \cup {i}
CreateInvoice(u, i, d) ==
  /\ ~Exists(i) /\ Enters(u, i, d)
  /\ Do(u, [step |-> IF d.items = Nothing THEN "sync" ELSE "items",
            invoice |-> i, items |-> d.items])
  /\ UNCHANGED <<lines, money, ledger, serial>>
UpdateInvoice(u, i, d) ==
  /\ Exists(i) /\ Enters(u, i, d)
  /\ Do(u, [step |-> IF d.items = Nothing THEN "sync" ELSE "clear",
            invoice |-> i, items |-> d.items])
  /\ UNCHANGED <<lines, money, ledger, serial>>

\* update: the old items go before the new ones come
ClearItems(u) ==
  /\ At(u, "clear")
  /\ lines' = lines \ LinesOf(clerk[u].invoice)
  /\ Do(u, [step |-> "items", invoice |-> clerk[u].invoice, items |-> clerk[u].items])
  /\ UNCHANGED <<doc, cache, money, ledger, serial, saves, behind>>

\* the items of an invoice deleted meanwhile are refused: the request fails
SaveItems(u) ==
  /\ At(u, "items")
  /\ IF Exists(clerk[u].invoice)
     THEN /\ lines' = lines \cup
               {[id |-> <<u, saves, n>>, invoice |-> clerk[u].invoice,
                 kind |-> clerk[u].items[n].kind, amount |-> clerk[u].items[n].amount] :
                n \in DOMAIN clerk[u].items}
          /\ Do(u, [step |-> "sync", invoice |-> clerk[u].invoice])
     ELSE /\ Finish(u) /\ UNCHANGED lines
  /\ UNCHANGED <<doc, cache, money, ledger, serial, saves, behind>>

\* syncInvoice, also asked for by hand: the invoice, then its dues and its base
BeginSync(u, i) ==
  /\ At(u, "idle") /\ Exists(i)
  /\ Do(u, [step |-> "sync", invoice |-> i])
  /\ UNCHANGED <<doc, lines, cache, money, ledger, serial, saves, behind>>
ReadInvoice(u) ==
  /\ At(u, "sync")
  /\ IF Exists(clerk[u].invoice)
     THEN Do(u, [step |-> "dues", invoice |-> clerk[u].invoice, d |-> doc[clerk[u].invoice]])
     ELSE Finish(u)
  /\ UNCHANGED <<doc, lines, cache, money, ledger, serial, saves, behind>>
Charging(i, ccy, base, rules, existing, wanted) ==
  [step |-> "charge", invoice |-> i, ccy |-> ccy, base |-> base, rules |-> rules,
   existing |-> existing, wanted |-> wanted]
ReadDues(u) ==
  /\ At(u, "dues")
  /\ LET i == clerk[u].invoice  d == clerk[u].d IN
     Do(u, Charging(i, d.ccy, Base(i, d), Covering(d), Dues(i), Covering(d)))
  /\ UNCHANGED <<doc, lines, cache, money, ledger, serial, saves, behind>>

\* a due is written if none was read, or if the one read says otherwise of the
\* amount or the hire; its currency is not compared
KeptAsItWas(e, base) == TRUE \* mutant: a due is never updated
Stands(e, base) == e.base = base /\ e.amount = base * Rate[e.broker]
Unique(rows, e) ==
  \A r \in rows : r.kind = "due" /\ r.invoice = e.invoice /\ r.broker = e.broker
                    => r.id = e.id
Refused(e) == ~Exists(e.invoice) \/ ~Unique(ledger, e)
Charge(u, b) ==
  LET i == clerk[u].invoice  base == clerk[u].base
      known == {e \in clerk[u].existing : e.broker = b}
      ccy == clerk[u].ccy
      next == Charging(i, ccy, base, clerk[u].rules, clerk[u].existing, clerk[u].wanted \ {b})
      row == Due(i, b, IF known = {} THEN serial ELSE (CHOOSE e \in known : TRUE).id,
                 base, ccy) IN
  /\ At(u, "charge") /\ b \in clerk[u].wanted
  /\ IF IF known = {} THEN row.amount = 0 ELSE \A e \in known : Stands(e, base)
     THEN /\ Do(u, next) /\ UNCHANGED <<ledger, serial>>
     ELSE /\ IF Refused(row)
             THEN /\ Finish(u) /\ UNCHANGED ledger
             ELSE /\ ledger' = {e \in ledger : e.id # row.id} \cup {row}
                  /\ Do(u, next)
          /\ IF known = {} THEN RowsLeft /\ serial' = serial + 1 ELSE UNCHANGED serial
  /\ UNCHANGED <<doc, lines, cache, money, saves, behind>>

\* dues whose rule no longer covers the invoice go, unless something was paid on
\* them; the count and the deletion are two statements
Lapsed(u, e) == e.broker \notin clerk[u].rules
CountPaid(u, e) ==
  /\ At(u, "charge") /\ clerk[u].wanted = {}
  /\ e \in clerk[u].existing /\ Lapsed(u, e)
  /\ LET rest == Charging(clerk[u].invoice, clerk[u].ccy, clerk[u].base, clerk[u].rules,
                          clerk[u].existing \ {e}, {}) IN
     Do(u, IF PaidOn(clerk[u].invoice, e.broker) # {} THEN rest
           ELSE [step |-> "drop", due |-> e, rest |-> rest])
  /\ UNCHANGED <<doc, lines, cache, money, ledger, serial, saves, behind>>
DropDue(u) ==
  /\ At(u, "drop")
  /\ ledger' = {e \in ledger : e.id # clerk[u].due.id}
  /\ Do(u, clerk[u].rest)
  /\ UNCHANGED <<doc, lines, cache, money, serial, saves, behind>>
Synced(u) ==
  /\ At(u, "charge") /\ clerk[u].wanted = {}
  /\ \A e \in clerk[u].existing : ~Lapsed(u, e)
  /\ Finish(u) /\ behind' = behind \ {clerk[u].invoice}
  /\ UNCHANGED <<doc, lines, cache, money, ledger, serial, saves>>

\* A statement fails, or the process goes: before the synchronisation the request
\* fails, in it the error is reported and the saved invoice kept
Fail(u) ==
  /\ clerk[u].step \in {"clear", "items", "sync", "dues", "charge", "drop"}
  /\ Finish(u)
  /\ UNCHANGED <<doc, lines, cache, money, ledger, serial, saves, behind>>

\* remove: refused once a commission was paid on it; the rows that hang on the
\* invoice go with it, the notes on it keep it
BeginRemove(u, i) ==
  /\ At(u, "idle") /\ Exists(i)
  /\ \A b \in Brokers : PaidOn(i, b) = {}
  /\ Do(u, [step |-> "remove", invoice |-> i])
  /\ UNCHANGED <<doc, lines, cache, money, ledger, serial, saves, behind>>
RemoveInvoice(u) ==
  LET i == clerk[u].invoice IN
  /\ At(u, "remove") /\ Finish(u)
  /\ IF \E n \in Papers : Exists(n) /\ doc[n].of = i
     THEN UNCHANGED <<doc, lines, cache, money, ledger, behind>>
     ELSE /\ doc' = [doc EXCEPT ![i] = Nothing] /\ behind' = behind \ {i}
          /\ cache' = [cache EXCEPT ![i] = [paid |-> 0, status |-> "unpaid"]]
          /\ lines' = lines \ LinesOf(i) /\ money' = money \ MoneyOf(i)
          /\ ledger' = {e \in ledger : e.invoice # i}
  /\ UNCHANGED <<serial, saves>>

\* addPaymentAtomic: checked, written and derived under the lock
Payable(i, amount) == Counted(i, money) + amount <= doc[i].total
AddPaymentAtomic(i, amount) ==
  LET row == [id |-> serial, invoice |-> i, amount |-> amount, ccy |-> doc[i].ccy] IN
  /\ RowsLeft /\ Exists(i) /\ ~IsNote(doc[i]) /\ Payable(i, amount)
  /\ money' = money \cup {row} /\ serial' = serial + 1
  /\ Recompute(i, money \cup {row})
  /\ UNCHANGED <<doc, lines, ledger, saves, clerk, behind>>

\* removePaymentAtomic: the payment is not asked which invoice it belongs to
RemovePaymentAtomic(i, m) ==
  /\ Exists(i) /\ m \in money
  /\ money' = money \ {m} /\ Recompute(i, money \ {m})
  /\ UNCHANGED <<doc, lines, ledger, serial, saves, clerk, behind>>

\* pay and deletePayment of a broker, on an invoice or on account
PayBroker(b, i, amount) ==
  /\ RowsLeft /\ (i # Nothing => Exists(i))
  /\ ledger' = ledger \cup {[id |-> serial, kind |-> "payment", invoice |-> i,
                             broker |-> b, amount |-> -amount, base |-> 0,
                             ccy |-> IF i = Nothing THEN "eur" ELSE doc[i].ccy]}
  /\ serial' = serial + 1
  /\ UNCHANGED <<doc, lines, cache, money, saves, clerk, behind>>
DeleteBrokerPayment(e) ==
  /\ e \in ledger /\ e.kind = "payment"
  /\ ledger' = ledger \ {e}
  /\ UNCHANGED <<doc, lines, cache, money, serial, saves, clerk, behind>>

HireNext ==
  \/ \E u \in Clerks :
       \/ \E i \in Papers, d \in Documents : CreateInvoice(u, i, d) \/ UpdateInvoice(u, i, d)
       \/ ClearItems(u) \/ SaveItems(u)
       \/ \E i \in Papers : BeginSync(u, i) \/ BeginRemove(u, i)
       \/ ReadInvoice(u) \/ ReadDues(u) \/ Synced(u) \/ Fail(u)
       \/ \E b \in Brokers : Charge(u, b)
       \/ \E e \in ledger : CountPaid(u, e)
       \/ DropDue(u) \/ RemoveInvoice(u)
  \/ \E i \in Papers, a \in Amounts : AddPaymentAtomic(i, a)
  \/ \E i \in Papers, m \in money : RemovePaymentAtomic(i, m)
  \/ \E b \in Brokers, i \in Papers \cup {Nothing}, a \in Amounts : PayBroker(b, i, a)
  \/ \E e \in ledger : DeleteBrokerPayment(e)

HireSpec == HireInit /\ [][HireNext]_hireVars

----------------------------------------------------------------------------
\* One due for each broker and invoice, however many requests synchronise the
\* invoice at once (broker_ledger_one_due_idx, "due once per invoice and broker").
OneDuePerBroker ==
  \A e, f \in ledger :
    e.kind = "due" /\ f.kind = "due" /\ e.invoice = f.invoice /\ e.broker = f.broker
      => e = f

\* One due for each broker and invoice, whatever the requests; and when they come
\* one at a time, a broker whose rule covers an invoice is owed its rate of the hire
\* in the invoice as it now stands, unless the invoice was saved and no
\* synchronisation has come to its end since: whatever failed before that one, of
\* the items, of the dues, of an earlier synchronisation, is put right by it
\* (hire-invoices.controller.ts, «repaired by synchronising again»).
DuesFollowTheDocument ==
  /\ OneDuePerBroker
  /\ \A u \in DOMAIN clerk : DOMAIN clerk = {u} =>
       \A i \in Papers \ behind : Exists(i) =>
         \A b \in Covering(doc[i]) :
           AmountIn({e \in Dues(i) : e.broker = b})
             = Rate[b] * (IF LinesOf(i) = {} THEN doc[i].total
                          ELSE AmountIn({l \in LinesOf(i) : l.kind = "hire"}))
=============================================================================
