---------------------------- MODULE Amortization ----------------------------
(***************************************************************************)
(* Prepaid expenses, written off month by month: upsertPrepaidSchedule and *)
(* runAmortization of AccountingBridgeService, with the plans of           *)
(* amortization.logic.ts.                                                  *)
(*                                                                         *)
(* A month has one entry for all the schedules that touch it.  A schedule  *)
(* added later is caught up with: what is planned less what was entered,   *)
(* account by account, goes into a further entry of the month.  A run      *)
(* reads the schedules, the amounts entered and the number of entries in   *)
(* three statements, then writes one draft per month, each a transaction.  *)
(*                                                                         *)
(* Months are numbered; amounts are whole cents.  Void entries count       *)
(* nowhere and are forgotten; reversed ones count.                         *)
(***************************************************************************)
EXTENDS Integers, FiniteSets, FiniteSetsExt

CONSTANTS
  Runners,    \* concurrent requests
  References, \* contracts that may be scheduled
  Terms,      \* what may be entered: [total, start, end, expense, prepaid, monthly]
  NoTerms,
  Accounts,   \* expense and prepaid accounts
  LastMonth,  \* bound: the clock stops
  MaxEntered  \* bound: entries written

VARIABLES
  prepaid, \* the active row of prepaid_schedules of each contract
  clock,   \* the current month
  amort,   \* rows of journal_entries of event amortization
  entered, \* entries written so far: their identity
  runner   \* what each run has read and has still to do

amortizationVars == <<prepaid, clock, amort, entered, runner>>

----------------------------------------------------------------------------
(* Plans *)

\* spreadAmount: equal instalments, or the one that is dictated; the last month
\* takes what is left, to the cent
Instalment(t) ==
  LET n == t.end - t.start + 1 IN
  IF t.monthly > 0 THEN t.monthly ELSE (2 * t.total + n) \div (2 * n)
EvenShare(t, m) == \* mutant: the last month is like the others
  IF m \notin t.start..t.end THEN 0 ELSE Instalment(t)
Share(t, m) ==
  CASE m \notin t.start..t.end -> 0
    [] m = t.end -> t.total - Instalment(t) * (t.end - t.start)
    [] OTHER -> Instalment(t)

\* planMonth: a debit for each expense account, a credit for each prepaid one
Loaded(s) == {r \in References : s[r] # NoTerms}
Debit(s, m, a) ==
  MapThenSumSet(LAMBDA r : Share(s[r], m), {r \in Loaded(s) : s[r].expense = a})
Credit(s, m, a) ==
  MapThenSumSet(LAMBDA r : Share(s[r], m), {r \in Loaded(s) : s[r].prepaid = a})
Touched(s, m) == {r \in Loaded(s) : Share(s[r], m) # 0}
Expenses(s, m) == {s[r].expense : r \in Touched(s, m)}
Prepaids(s, m) == {s[r].prepaid : r \in Touched(s, m)}

InMonth(m) == {e \in amort : e.month = m}
EnteredDebit(m, a) == MapThenSumSet(LAMBDA e : e.debit[a], InMonth(m))
EnteredCredit(m, a) == MapThenSumSet(LAMBDA e : e.credit[a], InMonth(m))

Start(s) == Min({s[r].start : r \in Loaded(s)})
End(s) == Max({s[r].end : r \in Loaded(s)})
Lesser(a, b) == IF a < b THEN a ELSE b

----------------------------------------------------------------------------
(* Requests *)

AtRest == [step |-> "rest"]
Now(u, r) == runner' = [runner EXCEPT ![u] = r]
Room == entered < MaxEntered \* bound of the model

\* One active row for a reference: entered again, it is changed, but for the
\* prepaid account
Upsert(u) ==
  \E r \in References, t \in Terms :
    /\ runner[u] = AtRest
    /\ prepaid' = [prepaid EXCEPT ![r] =
                     IF @ = NoTerms THEN t ELSE [t EXCEPT !.prepaid = prepaid[r].prepaid]]
    /\ UNCHANGED <<clock, amort, entered, runner>>

\* loadSchedules; the request may ask for months to come
BeginRun(u) ==
  \E through \in {0, LastMonth} :
    /\ runner[u] = AtRest /\ Room /\ Loaded(prepaid) # {}
    /\ Now(u, [step |-> "posted", plan |-> prepaid, through |-> through])
    /\ UNCHANGED <<prepaid, clock, amort, entered>>

\* What is entered, by month and account: with the plan it gives what is left,
\* and where something was entered a month is not due any more
Owing(s, m) ==
  [debit |-> [a \in Accounts |->
     IF a \in Expenses(s, m) THEN Debit(s, m, a) - EnteredDebit(m, a) ELSE 0],
   credit |-> [a \in Accounts |->
     IF a \in Prepaids(s, m) THEN Credit(s, m, a) - EnteredCredit(m, a) ELSE 0]]
MonthsOf(s, through) ==
  IF through > 0 THEN Start(s)..Lesser(through, End(s))
  ELSE {m \in Start(s)..Lesser(End(s), clock - 1) : InMonth(m) = {}}
ReadPosted(u) ==
  /\ runner[u].step = "posted"
  /\ LET s == runner[u].plan IN
     Now(u, [step |-> "count", plan |-> s, through |-> runner[u].through, left |-> MonthsOf(s, runner[u].through),
             owing |-> [m \in 1..LastMonth |-> Owing(s, m)]])
  /\ UNCHANGED <<prepaid, clock, amort, entered>>

\* How many entries a month has: the further ones are numbered from there
ReadCounts(u) ==
  /\ runner[u].step = "count"
  /\ Now(u, [step |-> "months", plan |-> runner[u].plan, through |-> runner[u].through,
             left |-> runner[u].left, owing |-> runner[u].owing,
             count |-> [m \in 1..LastMonth |-> Cardinality(InMonth(m))]])
  /\ UNCHANGED <<prepaid, clock, amort, entered>>

Deltas(o) == {o.debit[a] : a \in Accounts} \cup {o.credit[a] : a \in Accounts}
NoAmount(o) == Deltas(o) = {0}
Excess(o) == \E n \in Deltas(o) : n < 0
SumOver(f) == MapThenSumSet(LAMBDA a : f[a], Accounts)
Balanced(o) == SumOver(o.debit) = SumOver(o.credit)

\* A month that owes nothing, or was entered beyond its plan, is skipped, and so
\* is one whose next entry there is already
SourceTaken(m, n) == \E e \in amort : e.month = m /\ e.seq = n
SkipMonth(u) ==
  LET r == runner[u]  m == Min(r.left) IN
  /\ r.step = "months" /\ r.left # {}
  /\ NoAmount(r.owing[m]) \/ Excess(r.owing[m]) \/ SourceTaken(m, r.count[m])
  /\ Now(u, [r EXCEPT !.left = @ \ {m}])
  /\ UNCHANGED <<prepaid, clock, amort, entered>>

\* createDraft: an entry that does not balance is refused, and ends the run
WriteMonth(u) ==
  LET r == runner[u]  m == Min(r.left)  o == r.owing[m] IN
  /\ r.step = "months" /\ r.left # {} /\ Room
  /\ ~NoAmount(o) /\ ~Excess(o) /\ ~SourceTaken(m, r.count[m])
  /\ IF Balanced(o)
     THEN /\ amort' = amort \cup {[id |-> entered, month |-> m, seq |-> r.count[m],
                                   debit |-> o.debit, credit |-> o.credit, status |-> "draft"]}
          /\ entered' = entered + 1
          /\ Now(u, [r EXCEPT !.left = @ \ {m}])
     ELSE Now(u, AtRest) /\ UNCHANGED <<amort, entered>>
  /\ UNCHANGED <<prepaid, clock>>

FinishRun(u) ==
  /\ runner[u].step = "months" /\ runner[u].left = {}
  /\ Now(u, AtRest)
  /\ UNCHANGED <<prepaid, clock, amort, entered>>

\* The connection is lost: the months written stay
CutShort(u) ==
  /\ runner[u] # AtRest
  /\ Now(u, AtRest)
  /\ UNCHANGED <<prepaid, clock, amort, entered>>

----------------------------------------------------------------------------
(* The ledger and the clock *)

Becomes(u, from, to) ==
  \E e \in amort :
    /\ runner[u] = AtRest /\ e.status = from
    /\ amort' = (amort \ {e}) \cup {[e EXCEPT !.status = to]}
    /\ UNCHANGED <<prepaid, clock, entered, runner>>
PostMonth(u) == Becomes(u, "draft", "posted")
ReverseMonth(u) == Becomes(u, "posted", "reversed")
VoidMonth(u) ==
  \E e \in amort :
    /\ runner[u] = AtRest /\ e.status = "draft"
    /\ amort' = amort \ {e}
    /\ UNCHANGED <<prepaid, clock, entered, runner>>

MonthPasses ==
  /\ clock < LastMonth /\ clock' = clock + 1
  /\ UNCHANGED <<prepaid, amort, entered, runner>>

----------------------------------------------------------------------------
AmortizationInit ==
  /\ prepaid = [r \in References |-> NoTerms]
  /\ clock = 1 /\ amort = {} /\ entered = 0
  /\ runner = [u \in Runners |-> AtRest]
AmortizationNext ==
  \/ MonthPasses
  \/ \E u \in Runners :
       \/ Upsert(u) \/ BeginRun(u) \/ ReadPosted(u) \/ ReadCounts(u)
       \/ SkipMonth(u) \/ WriteMonth(u) \/ FinishRun(u) \/ CutShort(u)
       \/ PostMonth(u) \/ VoidMonth(u) \/ ReverseMonth(u)
AmortizationSpec == AmortizationInit /\ [][AmortizationNext]_amortizationVars

----------------------------------------------------------------------------
(* Properties *)

\* A run through the last month, over schedules of which nothing was voided and
\* nothing entered in excess, leaves no cent of them behind, even if earlier runs
\* were cut short or schedules were added since
Exhausted(s) ==
  \A a \in {s[r].expense : r \in Loaded(s)} :
    MapThenSumSet(LAMBDA m : EnteredDebit(m, a), 1..LastMonth) >=
      MapThenSumSet(LAMBDA r : s[r].total, {r \in Loaded(s) : s[r].expense = a})
RunsExhaust ==
  [][\A u \in Runners :
       /\ runner[u].step = "months" /\ runner[u].left = {} /\ runner'[u] = AtRest
       /\ runner[u].through = LastMonth /\ entered = Cardinality(amort)
       /\ \A m \in 1..LastMonth : ~Excess(Owing(runner[u].plan, m))
       => Exhausted(runner[u].plan)]_amortizationVars
=============================================================================
