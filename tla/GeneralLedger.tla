---------------------------- MODULE GeneralLedger ----------------------------
(***************************************************************************)
(* The double-entry core: AccountingService, the pure posting rules of     *)
(* accounting-posting.ts and the constraints, indexes and triggers that    *)
(* the p11a migration puts under them.                                     *)
(*                                                                         *)
(* Every request is a READ COMMITTED transaction of PostgreSQL, cut at the *)
(* statements where another request can come between: a read that takes no *)
(* lock, and a wait for a row lock.  What a transaction wrote becomes      *)
(* visible in its last step.  Row locks are not a variable: who holds one  *)
(* follows from the program counter and the request (section Locks).       *)
(*                                                                         *)
(* A date is abstracted to the fiscal period it selects, a line set to the *)
(* net amount (debit - credit, in euro cents) it puts on each account.     *)
(***************************************************************************)
EXTENDS Integers, FiniteSets, FiniteSetsExt

CONSTANTS
  Users,        \* concurrent requests the server is working on
  Entries,      \* identifiers of journal entries
  Years,        \* fiscal years of the one legal entity
  LastPeriod,   \* periods of a year are 0 (opening) .. LastPeriod; 12 in the code
  EventTypes,   \* event types a client may ask for ("reversal" is not one)
  Sources,      \* source documents (source_type, source_id)
  Accounts,
  Managed,      \* bound: the accounts whose master data is edited
  Nominal,      \* the accounts of type revenue or expense
  LineSets,     \* balanced line sets a client may send, as net amounts
  Rates,        \* rows of accounting_fx_rates
  RateValues,   \* exchange rates a client may enter
  None          \* SQL NULL

ASSUME YearsAssumption   == Years \subseteq Nat
ASSUME PeriodAssumption  == LastPeriod \in Nat \ {0}
ASSUME EventAssumption   == "reversal" \notin EventTypes
ASSUME LinesAssumption   == LineSets \subseteq [Accounts -> Int]
ASSUME RatesAssumption   == RateValues \subseteq Nat \ {0}
ASSUME NoneAssumption    == /\ None \notin Entries /\ None \notin Sources
                            /\ None \notin Rates /\ None \notin Years \X Nat
ASSUME AccountsAssumption == Nominal \subseteq Accounts /\ Managed \subseteq Accounts

VARIABLES
  status,        \* journal_entries.status; "none" is a row not yet inserted
  entry_no,      \* journal_entries.entry_no, 0 for NULL
  reversed_by,   \* journal_entries.reversed_by_entry_id
  body,          \* the other columns of the entry and its lines
  period_status, \* fiscal_periods.status; "none" before the year is created
  next_entry_no, \* fiscal_years.next_entry_no
  is_active,     \* accounting_accounts.is_active
  fx,            \* accounting_fx_rates: rate (0: no row) and approval
  pc,            \* where each request is
  req            \* what it read or was given

entryVars  == <<status, entry_no, reversed_by, body>>
setupVars  == <<is_active, fx>>
vars == <<entryVars, period_status, next_entry_no, setupVars, pc, req>>

----------------------------------------------------------------------------
(* Data *)

Periods == Years \X (0 .. LastPeriod)
YearOf(p) == p[1]
PeriodNo(p) == p[2]

\* assertReversalDate: the reversal is not dated before its original
AnyDate(p, q) == TRUE \* mutant: the check left out
NotBefore(p, q) ==
  \/ YearOf(q) > YearOf(p)
  \/ YearOf(q) = YearOf(p) /\ PeriodNo(q) >= PeriodNo(p)

Statuses == {"none", "draft", "posted", "reversed", "void"}
PeriodStatuses == {"none", "open", "soft_closed", "hard_closed"}

Body == [period : Periods, event : EventTypes \cup {"reversal"},
         source : Sources \cup {None}, net : [Accounts -> Int],
         fx : Rates \cup {None}, rate : Nat, reversal_of : Entries \cup {None}]

PCs == {"idle", "draft_write", "edit_write", "post_number", "post_commit",
        "rev_insert", "rev_number", "rev_commit", "account_save", "fx_save"}

NoBody == [period |-> None]
Request == [entry : Entries \cup {None}, body : Body \cup {NoBody}, seq : Nat,
            item : Accounts \cup Rates \cup {None}, rate : Nat, approved : BOOLEAN]
NoRequest == [entry |-> None, body |-> NoBody, seq |-> 0,
              item |-> None, rate |-> 0, approved |-> FALSE]

InLedger(e) == status[e] \in {"posted", "reversed"}
Negated(net) == [a \in Accounts |-> -net[a]]
Touched(net) == {a \in Accounts : net[a] # 0}

\* The balance of an account over the posted and reversed entries
AccountBalance(a) ==
  MapThenSumSet(LAMBDA e : body[e].net[a], {e \in Entries : InLedger(e)})

----------------------------------------------------------------------------
(* Locks.  A request keeps its row locks from the statement that takes them *)
(* to the end of its transaction.                                           *)

\* SELECT ... FOR UPDATE of a journal entry
Holding == {"edit_write", "post_number", "post_commit",
            "rev_insert", "rev_number", "rev_commit"}
EntryNeverLocked(e) == FALSE \* mutant: no pessimistic_write
EntryLocked(e) == \E u \in Users : pc[u] \in Holding /\ req[u].entry = e

\* FOR UPDATE of the fiscal year, taken by nextEntryNo
Numbering == {"post_commit", "rev_commit"}
YearLockedBy(u, y) ==
  pc[u] \in Numbering /\ YearOf(req[u].body.period) = y

\* FOR KEY SHARE of the year and the period, taken by the foreign keys of an
\* inserted entry that is not yet committed
YearSharedBy(u, y) ==
  pc[u] \in {"rev_number", "rev_commit"} /\ YearOf(req[u].body.period) = y
PeriodSharedBy(u, p) ==
  pc[u] \in {"rev_number", "rev_commit"} /\ req[u].body.period = p

YearAlwaysLockable(u, y) == TRUE \* mutant: no FOR UPDATE in nextEntryNo
YearLockable(u, y) ==
  \A v \in Users \ {u} : ~YearLockedBy(v, y) /\ ~YearSharedBy(v, y)
YearSharable(u, y) == \A v \in Users \ {u} : ~YearLockedBy(v, y)
PeriodLockable(p) == \A v \in Users : ~PeriodSharedBy(v, p)

\* Two uncommitted reversals of one year, each waiting for the other's key
\* share to become the holder of the year's row
CycleUnseen(u) == FALSE \* mutant: no deadlock detection
WaitCycle(u) ==
  /\ pc[u] = "rev_number"
  /\ \E v \in Users \ {u} :
       pc[v] = "rev_number" /\ YearSharedBy(v, YearOf(req[u].body.period))

----------------------------------------------------------------------------
(* Rules *)

\* assertPeriodAcceptsPosting
PeriodAccepts(p, event) ==
  \/ period_status[p] = "open"
  \/ period_status[p] = "soft_closed" /\ event \in {"adjustment", "reversal"}

\* trigger accounting_je_period_guard, on the step to "posted"
PeriodUnguarded(p, event) == TRUE \* mutant: no trigger
PeriodGuard(p, event) ==
  /\ period_status[p] # "hard_closed"
  /\ period_status[p] = "soft_closed" => event \in {"adjustment", "reversal"}

\* trigger accounting_je_immutable, on any update but posted -> reversed
JeMutable(e) == status[e] \notin {"posted", "reversed"}

\* unique index on (event type, source) of the rows that are not void
EventFree(event, source) ==
  source # None =>
    \A e \in Entries :
      status[e] \notin {"none", "void"} =>
        ~(body[e].event = event /\ body[e].source = source)

\* selectPeriod: the event type decides between period 0 and the others
SelectsPeriod(event, p) == (event = "opening_balance") <=> (PeriodNo(p) = 0)

\* assertOpeningBalanceAccounts
OpeningAccountsOK(event, net) ==
  event = "opening_balance" => Touched(net) \cap Nominal = {}

\* no deactivated account on the lines
AccountsUsable(net) == \A a \in Touched(net) : is_active[a]
\* no rate that nobody approved
RateUsable(r) == r # None => fx[r].approved

\* resolveContext and prepareLines: what a client's input is accepted on, and
\* what is made of it
ContextAccepts(event, p, net, r) ==
  /\ SelectsPeriod(event, p)
  /\ PeriodAccepts(p, event)
  /\ AccountsUsable(net)
  /\ RateUsable(r)
Prepared(event, source, p, net, r) ==
  [period |-> p, event |-> event, source |-> source, net |-> net,
   fx |-> r, rate |-> IF r = None THEN 1 ELSE fx[r].rate, reversal_of |-> None]

\* post reads the period and the accounts again; neither is locked
AcceptsOldAccounts(e) == \* mutant: the accounts are not read again
  /\ status[e] = "draft"
  /\ PeriodAccepts(body[e].period, body[e].event)
PostingAccepts(e) ==
  /\ status[e] = "draft"
  /\ PeriodAccepts(body[e].period, body[e].event)
  /\ AccountsUsable(body[e].net)

\* buildReversalLines and the header of the reversing entry: the original's
\* source, rate and source reference, the opposite amounts
ReversalInNoPeriod(e, q) == \* mutant: a date no period covers is let through
  [body[e] EXCEPT !.period = None, !.event = "reversal",
                  !.net = Negated(body[e].net), !.reversal_of = e]
Unswapped(e, q) == \* mutant: debit and credit not exchanged
  [body[e] EXCEPT !.period = q, !.event = "reversal", !.reversal_of = e]
ReversalOf(e, q) ==
  [body[e] EXCEPT !.period = q, !.event = "reversal",
                  !.net = Negated(body[e].net), !.reversal_of = e]

\* What the database still looks at when the request writes: the unique index
\* on insert, the triggers on update
Admitted(u) ==
  LET e == req[u].entry  b == req[u].body IN
  /\ pc[u] \in {"draft_write", "rev_insert"} => EventFree(b.event, b.source)
  /\ pc[u] \in {"edit_write", "post_commit"} => JeMutable(e)
  /\ pc[u] \in {"post_commit", "rev_commit"} => PeriodGuard(b.period, b.event)
  /\ pc[u] = "rev_commit" => status[e] = "posted" /\ reversed_by[e] = None

End(u) == pc' = [pc EXCEPT ![u] = "idle"] /\ req' = [req EXCEPT ![u] = NoRequest]
At(u, from) == pc[u] = from
Start(u, to, r) ==
  /\ At(u, "idle")
  /\ pc' = [pc EXCEPT ![u] = to]
  /\ req' = [req EXCEPT ![u] = r]

\* Bound of the model: an identifier is left for every request that inserts
Room ==
  Cardinality({e \in Entries : status[e] = "none"}) >
    Cardinality({u \in Users :
      pc[u] \in {"draft_write", "rev_insert", "rev_number", "rev_commit"}})

----------------------------------------------------------------------------
(* Drafts *)

\* createDraft up to its first write: no lock is taken on what it checks
BeginCreateDraft(u) ==
  \E event \in EventTypes, source \in Sources \cup {None}, p \in Periods,
     net \in LineSets, r \in Rates \cup {None} :
    /\ Room
    /\ ContextAccepts(event, p, net, r)
    /\ OpeningAccountsOK(event, net)
    /\ Start(u, "draft_write",
             [NoRequest EXCEPT !.body = Prepared(event, source, p, net, r)])
    /\ UNCHANGED <<entryVars, period_status, next_entry_no, setupVars>>

\* createDraft: insert of the entry and its lines, commit
WriteDraft(u) ==
  LET b == req[u].body IN
  /\ At(u, "draft_write")
  /\ YearSharable(u, YearOf(b.period))
  /\ Admitted(u)
  /\ \E e \in Entries :
       /\ status[e] = "none"
       /\ status' = [status EXCEPT ![e] = "draft"]
       /\ body' = [body EXCEPT ![e] = b]
  /\ End(u)
  /\ UNCHANGED <<entry_no, reversed_by, period_status, next_entry_no, setupVars>>

\* updateDraft: lock the entry, check; event type and source stay the entry's
BeginUpdateDraft(u) ==
  \E e \in Entries, p \in Periods, net \in LineSets, r \in Rates \cup {None} :
    LET event == body[e].event IN
    /\ status[e] = "draft" /\ ~EntryLocked(e)
    /\ ContextAccepts(event, p, net, r)
    /\ Start(u, "edit_write",
             [NoRequest EXCEPT
                !.entry = e,
                !.body = Prepared(event, body[e].source, p, net, r)])
    /\ UNCHANGED <<entryVars, period_status, next_entry_no, setupVars>>

\* updateDraft: replace the lines, update the header, commit
WriteUpdate(u) ==
  LET e == req[u].entry  b == req[u].body IN
  /\ At(u, "edit_write")
  /\ YearOf(b.period) # YearOf(body[e].period) => YearSharable(u, YearOf(b.period))
  /\ Admitted(u)
  /\ body' = [body EXCEPT ![e] = b]
  /\ End(u)
  /\ UNCHANGED <<status, entry_no, reversed_by, period_status, next_entry_no, setupVars>>

\* voidDraft: lock, check, update and commit, nothing read in between
VoidDraft(u) ==
  \E e \in Entries :
    /\ At(u, "idle")
    /\ ~EntryLocked(e)
    /\ status[e] = "draft"
    /\ status' = [status EXCEPT ![e] = "void"]
    /\ UNCHANGED <<entry_no, reversed_by, body, period_status, next_entry_no,
                   setupVars, pc, req>>

----------------------------------------------------------------------------
(* Posting *)

\* post: lock the draft, check the period, the accounts and the balance
BeginPost(u) ==
  \E e \in Entries :
    /\ ~EntryLocked(e)
    /\ PostingAccepts(e)
    /\ Start(u, "post_number", [NoRequest EXCEPT !.entry = e, !.body = body[e]])
    /\ UNCHANGED <<entryVars, period_status, next_entry_no, setupVars>>

\* nextEntryNo: lock the year's row and read the counter
TakeNumber(u) ==
  LET y == YearOf(req[u].body.period) IN
  /\ pc[u] \in {"post_number", "rev_number"}
  /\ YearLockable(u, y)
  /\ req' = [req EXCEPT ![u].seq = next_entry_no[y]]
  /\ pc' = [pc EXCEPT ![u] = IF pc[u] = "post_number" THEN "post_commit" ELSE "rev_commit"]
  /\ UNCHANGED <<entryVars, period_status, next_entry_no, setupVars>>

\* post: mark the entry posted (two triggers look), count up, commit
CommitPost(u) ==
  LET e == req[u].entry  y == YearOf(req[u].body.period) IN
  /\ At(u, "post_commit")
  /\ Admitted(u)
  /\ status' = [status EXCEPT ![e] = "posted"]
  /\ entry_no' = [entry_no EXCEPT ![e] = req[u].seq]
  /\ next_entry_no' = [next_entry_no EXCEPT ![y] = req[u].seq + 1]
  /\ End(u)
  /\ UNCHANGED <<reversed_by, body, period_status, setupVars>>

----------------------------------------------------------------------------
(* Reversal *)

\* reverse: lock the original, check it, find the target period by date
BeginReverse(u) ==
  \E e \in Entries, q \in Periods :
    /\ Room
    /\ ~EntryLocked(e)
    /\ status[e] = "posted" /\ reversed_by[e] = None
    /\ PeriodNo(q) > 0
    /\ NotBefore(body[e].period, q)
    /\ PeriodAccepts(q, "reversal")
    /\ Start(u, "rev_insert",
             [NoRequest EXCEPT !.entry = e, !.body = ReversalOf(e, q)])
    /\ UNCHANGED <<entryVars, period_status, next_entry_no, setupVars>>

\* reverse: insert the reversing entry as a draft; the foreign keys lock the
\* year and the period for key share, the unique index waits for the commit
\* of another reversal of the same source
InsertReversal(u) ==
  LET b == req[u].body IN
  /\ At(u, "rev_insert")
  /\ YearSharable(u, YearOf(b.period))
  /\ Admitted(u)
  /\ b.source # None =>
       \A v \in Users \ {u} :
         pc[v] \in {"rev_number", "rev_commit"} => req[v].body.source # b.source
  /\ pc' = [pc EXCEPT ![u] = "rev_number"]
  /\ UNCHANGED <<entryVars, period_status, next_entry_no, setupVars, req>>

\* reverse: post the reversing entry under its number, mark the original, commit
CommitReverse(u) ==
  LET e == req[u].entry  b == req[u].body  y == YearOf(b.period) IN
  /\ At(u, "rev_commit")
  /\ Admitted(u)
  /\ \E r \in Entries :
       /\ status[r] = "none"
       /\ status' = [status EXCEPT ![r] = "posted", ![e] = "reversed"]
       /\ entry_no' = [entry_no EXCEPT ![r] = req[u].seq]
       /\ body' = [body EXCEPT ![r] = b]
       /\ reversed_by' = [reversed_by EXCEPT ![e] = r]
  /\ next_entry_no' = [next_entry_no EXCEPT ![y] = req[u].seq + 1]
  /\ End(u)
  /\ UNCHANGED <<period_status, setupVars>>

\* PostgreSQL ends a wait cycle by rolling one of its transactions back
DeadlockAbort(u) ==
  /\ WaitCycle(u)
  /\ End(u)
  /\ UNCHANGED <<entryVars, period_status, next_entry_no, setupVars>>

\* A trigger or the unique index refuses the write: the transaction is rolled back
Refuse(u) ==
  /\ ~Admitted(u)
  /\ End(u)
  /\ UNCHANGED <<entryVars, period_status, next_entry_no, setupVars>>

\* The connection is lost: rolled back too, the number it took with it
ConnectionLost(u) ==
  /\ pc[u] # "idle"
  /\ End(u)
  /\ UNCHANGED <<entryVars, period_status, next_entry_no, setupVars>>

----------------------------------------------------------------------------
(* Fiscal years and periods *)

\* createFiscalYear: the year and its periods in one transaction
CreateFiscalYear(u) ==
  \E y \in Years :
    /\ At(u, "idle")
    /\ \A p \in Periods : YearOf(p) = y => period_status[p] = "none"
    /\ period_status' =
         [p \in Periods |-> IF YearOf(p) = y THEN "open" ELSE period_status[p]]
    /\ UNCHANGED <<entryVars, next_entry_no, setupVars, pc, req>>

DraftsIn(p) == {e \in Entries : status[e] = "draft" /\ body[e].period = p}

\* closePeriod: the row stays locked from the first read to the commit
ClosePeriod(u) ==
  \E p \in Periods, hard \in BOOLEAN :
    /\ At(u, "idle")
    /\ PeriodLockable(p)
    /\ period_status[p] = "open" \/ (hard /\ period_status[p] = "soft_closed")
    /\ DraftsIn(p) = {}
    /\ period_status' =
         [period_status EXCEPT ![p] = IF hard THEN "hard_closed" ELSE "soft_closed"]
    /\ UNCHANGED <<entryVars, next_entry_no, setupVars, pc, req>>

\* reopenPeriod
ReopenPeriod(u) ==
  \E p \in Periods :
    /\ At(u, "idle")
    /\ PeriodLockable(p)
    /\ period_status[p] = "soft_closed"
    /\ period_status' = [period_status EXCEPT ![p] = "open"]
    /\ UNCHANGED <<entryVars, next_entry_no, setupVars, pc, req>>

----------------------------------------------------------------------------
(* Accounts and exchange rates: checked first, saved later, no lock between *)

\* updateAccount: deactivation looks at the balance, activation at nothing; a
\* rename or a new system role carries the flag it read to the save
BeginUpdateAccount(u) ==
  \E a \in Managed, active \in BOOLEAN :
    /\ is_active[a] /\ ~active => AccountBalance(a) = 0
    /\ Start(u, "account_save", [NoRequest EXCEPT !.item = a, !.approved = active])
    /\ UNCHANGED <<entryVars, period_status, next_entry_no, setupVars>>

SaveAccount(u) ==
  /\ At(u, "account_save")
  /\ is_active' = [is_active EXCEPT ![req[u].item] = req[u].approved]
  /\ End(u)
  /\ UNCHANGED <<entryVars, period_status, next_entry_no, fx>>

\* createFxRate: always unapproved
CreateFxRate(u) ==
  \E r \in Rates, v \in RateValues :
    /\ At(u, "idle")
    /\ fx[r].rate = 0
    /\ fx' = [fx EXCEPT ![r] = [rate |-> v, approved |-> FALSE]]
    /\ UNCHANGED <<entryVars, period_status, next_entry_no, is_active, pc, req>>

\* updateFxRate: refused when a posted line points at the rate
BeginUpdateFxRate(u) ==
  \E r \in Rates, v \in RateValues :
    /\ fx[r].rate # 0
    /\ \A e \in Entries : InLedger(e) => body[e].fx # r
    /\ Start(u, "fx_save", [NoRequest EXCEPT !.item = r, !.rate = v])
    /\ UNCHANGED <<entryVars, period_status, next_entry_no, setupVars>>

\* approveFxRate: an approved rate is returned as it is
BeginApproveFxRate(u) ==
  \E r \in Rates :
    /\ fx[r].rate # 0 /\ ~fx[r].approved
    /\ Start(u, "fx_save",
             [NoRequest EXCEPT !.item = r, !.rate = fx[r].rate, !.approved = TRUE])
    /\ UNCHANGED <<entryVars, period_status, next_entry_no, setupVars>>

\* repository.save writes back every column that differs from the row
SaveFxRate(u) ==
  /\ At(u, "fx_save")
  /\ fx' = [fx EXCEPT ![req[u].item] =
              [rate |-> req[u].rate, approved |-> req[u].approved]]
  /\ End(u)
  /\ UNCHANGED <<entryVars, period_status, next_entry_no, is_active>>

----------------------------------------------------------------------------
Init ==
  /\ status = [e \in Entries |-> "none"]
  /\ entry_no = [e \in Entries |-> 0]
  /\ reversed_by = [e \in Entries |-> None]
  /\ body = [e \in Entries |-> NoBody]
  /\ period_status = [p \in Periods |-> "none"]
  /\ next_entry_no = [y \in Years |-> 1]
  /\ is_active = [a \in Accounts |-> TRUE]
  /\ fx = [r \in Rates |-> [rate |-> 0, approved |-> FALSE]]
  /\ pc = [u \in Users |-> "idle"]
  /\ req = [u \in Users |-> NoRequest]

\* A step that ends or advances a request that is under way
Continue(u) ==
  \/ WriteDraft(u) \/ WriteUpdate(u)
  \/ TakeNumber(u) \/ CommitPost(u)
  \/ InsertReversal(u) \/ CommitReverse(u)
  \/ SaveAccount(u) \/ SaveFxRate(u)
  \/ DeadlockAbort(u) \/ Refuse(u) \/ ConnectionLost(u)

Begin(u) ==
  \/ BeginCreateDraft(u) \/ BeginUpdateDraft(u) \/ VoidDraft(u)
  \/ BeginPost(u) \/ BeginReverse(u)
  \/ CreateFiscalYear(u) \/ ClosePeriod(u) \/ ReopenPeriod(u)
  \/ BeginUpdateAccount(u)
  \/ CreateFxRate(u) \/ BeginUpdateFxRate(u) \/ BeginApproveFxRate(u)

Next == \E u \in Users : Begin(u) \/ Continue(u)

Spec == Init /\ [][Next]_vars

\* A request under way is not left alone for ever: the server goes on with it,
\* PostgreSQL breaks a wait cycle, and it serves the waiters of a row in turn
\* (strong fairness of the steps that wait for a lock)
Fairness ==
  \A u \in Users :
    /\ SF_vars(WriteDraft(u)) /\ SF_vars(WriteUpdate(u))
    /\ SF_vars(TakeNumber(u)) /\ WF_vars(CommitPost(u))
    /\ SF_vars(InsertReversal(u)) /\ WF_vars(CommitReverse(u))
    /\ WF_vars(SaveAccount(u)) /\ WF_vars(SaveFxRate(u))
    /\ WF_vars(DeadlockAbort(u)) /\ WF_vars(Refuse(u))
FairSpec == Spec /\ Fairness

----------------------------------------------------------------------------
(* Invariants *)

TypeOK ==
  /\ status \in [Entries -> Statuses]
  /\ entry_no \in [Entries -> Nat]
  /\ reversed_by \in [Entries -> Entries \cup {None}]
  /\ body \in [Entries -> Body \cup {NoBody}]
  /\ \A e \in Entries : status[e] # "none" => body[e] \in Body
  /\ period_status \in [Periods -> PeriodStatuses]
  /\ next_entry_no \in [Years -> Nat \ {0}]
  /\ is_active \in [Accounts -> BOOLEAN]
  /\ fx \in [Rates -> [rate : Nat, approved : BOOLEAN]]
  /\ pc \in [Users -> PCs]
  /\ req \in [Users -> Request]

LedgerOfYear(y) == {e \in Entries : InLedger(e) /\ YearOf(body[e].period) = y}
LedgerOfPeriod(p) == {e \in Entries : InLedger(e) /\ body[e].period = p}

\* The official numbers of a year are 1, 2, 3, ... without gap or repetition,
\* whatever requests post and reverse at the same time or fail half way
GaplessNumbers ==
  \A y \in Years :
    /\ \A e, f \in LedgerOfYear(y) : entry_no[e] = entry_no[f] => e = f
    /\ {entry_no[e] : e \in LedgerOfYear(y)} = 1 .. (next_entry_no[y] - 1)

\* An entry is reversed exactly when one entry of the ledger cancels it to
\* the cent, not earlier than it, and the two point at each other
Cancels(r, e) ==
  /\ InLedger(r)
  /\ body[r].reversal_of = e /\ body[r].net = Negated(body[e].net)
  /\ NotBefore(body[e].period, body[r].period)
ReversalsPaired ==
  /\ \A e \in Entries : status[e] = "reversed" <=> reversed_by[e] # None
  /\ \A e \in Entries : reversed_by[e] # None => Cancels(reversed_by[e], e)
  /\ \A r \in Entries : InLedger(r) /\ body[r].reversal_of # None =>
       reversed_by[body[r].reversal_of] = r

\* No two requests hold the lock of one entry, or of the counter of one year
LocksExclude ==
  \A u, v \in Users :
    /\ pc[u] \in Holding /\ pc[v] \in Holding
         /\ req[u].entry = req[v].entry => u = v
    /\ pc[u] \in Numbering /\ pc[v] \in Numbering
         /\ YearOf(req[u].body.period) = YearOf(req[v].body.period) => u = v

\* What a request read under its locks is still so when it comes to write: the
\* draft it posts or edits, the original it reverses, the number it took
ReadsHold(u) ==
  LET e == req[u].entry  b == req[u].body IN
  /\ pc[u] \in Holding => e \in Entries
  /\ pc[u] \notin {"idle", "account_save", "fx_save"} => b \in Body
  /\ pc[u] \in {"draft_write", "edit_write"} => b.reversal_of = None
  /\ pc[u] = "edit_write" => status[e] = "draft"
  /\ pc[u] \in {"post_number", "post_commit"} => status[e] = "draft" /\ b = body[e]
  /\ pc[u] \in {"rev_insert", "rev_number", "rev_commit"} =>
       /\ status[e] = "posted"
       /\ b.reversal_of = e /\ b.net = Negated(body[e].net)
       /\ NotBefore(body[e].period, b.period)
  /\ pc[u] \in Numbering => req[u].seq = next_entry_no[YearOf(b.period)]
LockedReadsHold == \A u \in Users : ReadsHold(u)

\* Only the entry a reversal inserts points back at an original
DraftsCancelNothing ==
  \A e \in Entries : status[e] = "draft" => body[e].reversal_of = None

\* The inductive invariant
IInv ==
  /\ TypeOK
  /\ LocksExclude /\ LockedReadsHold /\ DraftsCancelNothing
  /\ GaplessNumbers /\ ReversalsPaired

----------------------------------------------------------------------------
(* Action properties *)

\* A period closed for good stays closed and its ledger stays what it was; a
\* period closed for the moment takes adjustments and reversals only
PeriodStep ==
  \A p \in Periods :
    /\ period_status[p] = "hard_closed" =>
         /\ period_status'[p] = "hard_closed"
         /\ LedgerOfPeriod(p)' = LedgerOfPeriod(p)
    /\ period_status[p] = "soft_closed" =>
         \A e \in LedgerOfPeriod(p)' \ LedgerOfPeriod(p) :
           body'[e].event \in {"adjustment", "reversal"}
PeriodsGovernPosting == [][PeriodStep]_vars

\* Nothing ever changes a posted entry but the mark that it was reversed, and
\* a void entry is never revived, even by a request that read it as a draft
PostedStep ==
  \A e \in Entries :
    /\ InLedger(e) =>
         /\ InLedger(e)'
         /\ body'[e] = body[e] /\ entry_no'[e] = entry_no[e]
         /\ reversed_by[e] # None => reversed_by'[e] = reversed_by[e]
    /\ status[e] = "void" => status'[e] = "void"
PostedIsForever == [][PostedStep]_vars

\* With one request at a time: an entry other than a reversal reaches the
\* ledger only on accounts that are active at that moment
PostingChecksSetup ==
  [][\A e \in Entries :
       ~InLedger(e) /\ InLedger(e)' /\ body'[e].event # "reversal" =>
         \A a \in Touched(body'[e].net) : is_active[a]]_vars

\* Every request the server accepted comes to an end: locks and number
\* are never waited for in vain
RequestsFinish == \A u \in Users : pc[u] # "idle" ~> pc[u] = "idle"

----------------------------------------------------------------------------
(* Refinement: the posted entries are the pages of LedgerBook *)

EntryAt(y, n) ==
  CHOOSE e \in Entries : e \in LedgerOfYear(y) /\ entry_no[e] = n
Place(e) == <<YearOf(body[e].period), entry_no[e]>>
PageOf(e) ==
  [period |-> body[e].period, net |-> body[e].net,
   cancels |-> IF body[e].reversal_of = None THEN None
               ELSE Place(body[e].reversal_of)]

Pages == [y \in Years |-> [n \in 1 .. (next_entry_no[y] - 1) |-> PageOf(EntryAt(y, n))]]
ClosedForGood == {p \in Periods : period_status[p] = "hard_closed"}

Book == INSTANCE LedgerBook WITH NoPage <- None, book <- Pages, final <- ClosedForGood

ImplementsBook == Book!BookSpec

=============================================================================
