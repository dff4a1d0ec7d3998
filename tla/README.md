# Ship-management finance, in TLA+

The repository is the back end of a ship-management office: supplier, hire and
management invoices and what was paid on them, crew salaries, vessel profit and
its distribution to partners, and a double-entry general ledger. It is a NestJS
program over TypeORM and PostgreSQL (isolation READ COMMITTED); every HTTP
request runs on its own, several at once, and the database is the only memory
they share. So the questions worth a model are those of a database program: what
two requests do to each other between a read and a write, what is left when one
of them dies half way, whether a chain of legal requests can reach a state that
the rules forbid.

Source paths below are relative to `src/src/`.

## The system

| Part | State | Operations | What is hard |
|---|---|---|---|
| General ledger (`modules/accounting`) | entries and lines, fiscal years and periods, counters, accounts, FX rates | draft, edit, void, post, reverse, close, reopen, approve a rate, deactivate an account | a shared counter under locks, periods that close while an entry is on its way, reversal pairs, triggers that refuse, deadlocks |
| Ledger reports (`modules/accounting/reports`) | nothing of their own | statements, balances of parties, the general ledger | several queries without a snapshot |
| Accounting bridge (`modules/accounting/bridge`) | prepaid and depreciation schedules | draft the entry of an invoice, a payment, a hire, a month of depreciation or amortization | once per source event, catch-up after interruptions, what was read without a lock |
| Supplier invoices and payments (`modules/payments`, `modules/invoices`) | invoices with a cached paid amount and status, payments, credit-note applications | pay, pay a batch with credit notes, undo, edit, delete | the cache against the rows, overpayment by two payments at once, lock order, invoices edited after payment |
| Audit, statements, totals (`modules/audit`, `modules/suppliers`, `common/currency-totals.ts`) | nothing of their own | the same amounts derived again | several derivations of one figure |
| Hire invoices and brokers (`modules/hire-invoices`, `modules/brokers`) | invoices, items, money received, commission due and paid | save, receive, synchronise the commission, pay a broker, remove | a save of several statements, edits that change the base |
| Profit ratification and division (`modules/profit-periods`) | periods, partner dues and payments | fetch, correct, divide, ratify, un-ratify, pay, delete, record the latest count | no transaction at all: crash between saves, two ratifications, two methods that must agree |
| Crew salaries (`modules/crew-salaries`) | files, decisions, versions, entitlements, rows that went out | import, link, decide, submit, approve, reject, export | approval of what a newer version replaces, one seafarer on two vessels, what went out and then changed |
| Investments (`modules/investments`) | rounds, loan, moves, terms, reports | add, remove, seed, narrate | a seed of many rows without a transaction, figures over several tables |
| Receipts (`modules/receipts`) | receipts of goods | receive | an eligibility that is read, then used by the bridge |
| Vessel profit and costs (`modules/vessel-profit`, `modules/vessel-cogs`) | one row per card; cost lines; voyages in a shared sheet | push a package, add and void inputs, save the card; import, classify; read the sheet | three writers of one column, a file imported again and again, a sheet typed by hand |
| Fleet and market (`modules/fleet`, `modules/market`) | a copy in memory; records and the history of agencies | fetch, show; import, change an agency, compare | answers from a copy, fetches that fail or arrive late, sums over overlapping periods |
| Migration of old invoices (`migrations/r3a-*`) | the invoices and a batch row | run, roll back | a run whose first readings are not under its lock |
| Sessions, assistants, registers, shell | see `components` in `PROJECT.json` | | |

The parts meet in the database. The bridge reads invoices, payments and receipts
and ends in the ledger's `createDraft`; reports read what the ledger posted; the
audit, the statements and the totals read what the payments wrote; ratification
freezes what the division computes; the division, the cards and the fleet read
sheets that the vessels keep outside; salaries are assembled from files and go out
in batches. Every part and its sources are listed in `PROJECT.json`, with what is
left out of each and why.

## The modules

| Module | What it is |
|---|---|
| `GeneralLedger` | the ledger: `accounting.service.ts`, the rules of `accounting-posting.ts`, the triggers, keys and indexes of the p11a migration |
| `LedgerBook` | what the ledger promises an auditor: numbered pages that are never torn out, and periods closed for good |
| `GeneralLedgerProofs` | theorems about `GeneralLedger` for all values of its constants |
| `LedgerReports` | the reports, query by query, over the entries `LedgerBook` promises |
| `DocumentBridge` | from documents to drafts: accruals, settlements, releases, receipts |
| `Depreciation`, `Amortization` | the two schedules of the bridge and what they charge month by month |
| `SupplierPayments` | `payments.service.ts`, the rules of `payment-derivation.ts`, the edits and deletions of `invoices.service.ts` that meet them |
| `SettlementBook` | what the payments service promises whoever reads a paid amount: whole settlements within the totals |
| `SupplierPaymentsProofs` | theorems about `SupplierPayments` and `InvoiceReports` for all values of their constants |
| `InvoiceReports` | audit, statement and totals, over the rows of `SupplierPayments` (which it extends) |
| `HireInvoices` | hire invoices, their money, the commission of the brokers |
| `HireInvoicesProofs` | theorems about `HireInvoices` for all values of its constants |
| `LegacyMigration` | the run that closes old invoices, its gates and its rollback |
| `ProfitRatification` | `profit-ratification.service.ts` and the edits of `profit-periods.service.ts` that meet it |
| `ProfitRatificationProofs` | theorems about `ProfitRatification` for all values of its constants |
| `SumLaws` | laws of finite sums, proved from the definition of the folds; the proofs about money rest on them |
| `ProfitDistribution` | the rows a period is read from, and the methods that divide it |
| `SalarySources` | from imported files and decisions to the cases of a month |
| `CrewBatches` | from cases to versions, entitlements and rows that go out |
| `CrewBatchesProofs` | theorems about `CrewBatches` for all values of its constants |
| `PostingProofs` | theorems about `DocumentBridge`, `Depreciation` and `LedgerReports` for all values of their constants |
| `StoneFund` | the investment, its seeding, its card and its report |
| `MonteCard`, `CostImports`, `VoyageSheets` | the profit card of a vessel, its costs, and the voyages of the sheet |
| `FleetCache`, `MarketShares` | the dashboard's copy of the sheet; the shares of a market |
| `OfficeProofs` | theorems about `LegacyMigration`, `CostImports`, `MonteCard`, `FleetCache`, `VoyageSheets` and `StoneFund` for all values of their constants |
| `MCGeneralLedger`, `MCGeneralLedgerProgress`, `MCSupplierPayments`, `MCProfitRatification`, `MCDepreciation`, `MCCrewBatches` | instances for TLC |
| `MCOffice`, `MCFigures`, `MCProgress` | several modules that share no row: a behaviour chooses one at the start, and the variables of the others keep their values. `MCOffice` extends `DocumentBridge`, `LedgerReports`, `CrewBatches` and the six modules of `OfficeProofs`, `MCFigures` extends `ProfitRatification` (by `MCProfitRatification`), `HireInvoices` and `Depreciation`, `MCProgress` extends `Depreciation`, so that their assumptions are evaluated and their own properties checked, the ones the theorems state; the other modules are instances, `MCGeneralLedgerProgress` among them |

`SettlementBook` and `LedgerBook` are where the parts meet: `SupplierPayments` and
`GeneralLedger` are shown to implement them, and `DocumentBridge`,
`LedgerReports` and `Amortization` see payments and entries as the books promise them
and no closer. `InvoiceReports` is composed with the payments themselves.
`CrewBatches` takes a case as a whole, `SalarySources` shows where it comes from.
`ProfitRatification` takes the figures of a period as an input, `ProfitDistribution`
computes them.

`map` in `PROJECT.json` gives the source lines of every definition. A definition
marked `\* mutant` is a plausible mistake: put in the place of the definition below
it, it makes the property named beside it in `PROJECT.json` fail, which shows that
the property says something of the code.

### GeneralLedger

**State.** `status`, `entry_no`, `reversed_by` and `body` are the columns of
`journal_entries` with the lines folded into the net amount per account;
`period_status`, `next_entry_no` are `fiscal_periods` and `fiscal_years`;
`is_active` and `fx` are the flags of accounts and rates that posting reads;
`pc` and `req` say where a request is and what it carries.

**Steps.** A request is a transaction cut where another request can come
between: after a read that takes no lock, and where it waits for a row lock.
`createDraft` is `BeginCreateDraft` (all its unlocked reads) and `WriteDraft`;
`post` is `BeginPost`, `TakeNumber` (the wait for the year's row), `CommitPost`;
`reverse` is `BeginReverse`, `InsertReversal`, `TakeNumber`, `CommitReverse`. An
operation that reads and writes under one lock from its first statement
(`voidDraft`, `closePeriod`, `reopenPeriod`) is one step. What a transaction
wrote becomes visible in its last step. Row locks are not a variable: who holds
one follows from `pc` and `req` (`EntryLocked`, `YearLockedBy`, and the key
shares that foreign keys take, `YearSharedBy`, `PeriodSharedBy`).

**What the database adds.** `Admitted` is the unique index and the triggers: a
write it refuses ends the request without effect (`Refuse`). `DeadlockAbort` is
PostgreSQL breaking a wait cycle. `ConnectionLost` may end any request at any
point; its transaction is rolled back.

**Abstractions.** A date is the period it selects. A line set is its net effect
on each account, in euro cents; `LineSets` holds balanced ones, which is what
`assertBalanced` lets through. Texts, users' names and audit columns are left
out. One legal entity.

### SupplierPayments

**State.** `doc`, `status`, `paid` are the columns of `invoices` (a negative
total makes a credit note; status is "absent" before the invoice is entered and
"deleted" after); `payments` and `allocations` are rows; `attached` says whether
an invoice has attachments, whose foreign key matters to its deletion. `pc`,
`req`, `wanted`, `held` say where a request is, what it carries, and which
invoice rows it has still to lock and has locked.

**Steps.** `create`, `createBatch`, `remove` and `removeAllocation` are
transactions of the same shape: `Begin...` takes the input (the removals read
their row before they lock anything), `Lock` takes the invoices one by one in
ascending order, `Check` or `Refuse` judges what it then reads, `Commit...`
writes the rows and derives the cache of every invoice touched. Between `Check`
and the commit other requests may act: that none of them spoils what was checked
is a property (`ChecksHold`), not an assumption. `EditInvoice` is one UPDATE,
which waits for the row but does not derive the cache. `InvoicesService.remove`
is three statements without a transaction, and so three steps:
`BeginRemoveInvoice` counts, `DeleteAttachments`, `DeleteInvoice`, where the
foreign keys decide. `ConnectionLost` ends a request anywhere.

**Abstractions.** Whole cents. Invoices are numbered in the order of their
identifiers. `Legacy` are the invoices that the r3a migration closed: paid in
full, without rows, never derived again. Status "cancelled" is checked by the
code and set by none of these operations.

**SettlementBook** sees only the paid amounts: a step settles some invoices and
notes at once, within their totals, taking no more from the notes than the
invoices receive, or undoes one payment or one application.

### ProfitRatification

**State.** `period` are rows of `profit_periods`: the inputs (`input` holds what
`calculate` gives for them), the frozen figures, the latest reading. `rows` are
`profit_settlements`, a set told apart by their identifiers (the database names a row
when it is written, `NewId`). `todo` are the rows a
request has still to write. `cut` is history: the periods whose accruals a
crashed request left half written.

**Steps.** No operation of the service runs in a transaction, so every statement
is a step and commits alone. `ratify` is `BeginRatify` (load and check), one
`Write` per accrual, `FinishRatify`; `unratify` is `BeginUnratify`, `ReadRows`,
`Write`s, `FinishUnratify`; `recordLatest` is `BeginRecordLatest`, `SaveLatest`,
`Clear`, `Write`s; `openBalance` is `BeginOpenBalance`, `Clear`, `Write`s. `save`
writes back the whole row as it was loaded, and inserts it again if it was
deleted meanwhile (`Save`). `Crash` ends a request between any two statements
and undoes nothing.

**Apart.** With `Apart` two requests do not meet on one period. What the service
promises holds only then; what happens otherwise is listed below.

### The bridge: DocumentBridge, Depreciation, Amortization

**DocumentBridge.** `received` and `missing` are the receipts and the approval state
that make an invoice eligible; `made` and `gone` the payments; `entries` the rows of
`journal_entries` that a document is the source of; `bridge` what each request has
read and the draft it builds. A request of `accounting-bridge.service.ts` is
`Begin...` (its guards, one reading), `ReadSettled` where the service queries again,
and `WriteDraft`, where the unique index on event and source decides. Posting,
voiding and reversing by others come between. The settlement's exchange difference
is left out; a rate is only told apart from another. Releases divide a hire by days
(`Earned`), as `splitHireRevenue` does.

**Depreciation.** `schedule` is the active row of a vessel, `month` the current
month, `charges` the entries of event depreciation, `run` what a request has still
to do. `BeginCatchUp` reads what is due, `Work` writes one month, `Die` cuts a run off
between two. **Amortization** has one entry for a month and all the contracts that
touch it: `BeginRun`, `ReadPosted` and `ReadCounts` are the three readings, then
`WriteMonth` month by month; `Share` rounds as `spreadAmount` does.

### LedgerReports and InvoiceReports

A ledger report is two steps or more, because the code makes two queries or more:
`BeginStatements` and `FinishStatements`, `BeginParties`, `ReadParties` and
`FinishParties`, `BeginLedger` and `FinishLedger`; between them entries are posted
and reversed (`book` only grows) and accounts deactivated (`active`).
`InvoiceReports` has no steps of its own: each report is a function of the rows.

### HireInvoices and LegacyMigration

**HireInvoices.** `AddPaymentAtomic` and `RemovePaymentAtomic` are transactions under the
invoice's lock. Saving an invoice is not: `CreateInvoice` or `UpdateInvoice`,
`ClearItems`, `SaveItems`, then the synchronisation of the commission, `ReadInvoice`,
`ReadDues`, `Charge`, `CountPaid`, `DropDue`, `Synced`, each a statement. `Fail` ends a
request at any of them: what was written before stays, and when it was the
synchronisation that failed the controller reports it beside the saved invoice
(`hire-invoices.controller.ts:106-113`, `:142-143`). `behind` is history: the invoices
that were saved and of which no synchronisation has come to its end since. A due has
the currency of the invoice; whether it is written again is decided by its amount and
its base alone (`brokers.service.ts:143-150`). A commission is counted in hundredths so
that it needs no rounding.

**LegacyMigration.** `BeginRun` and `TakeSnapshot` read while clients pay and edit;
`AlterTables` takes the lock that stops them; `PassGates`, `Commit` or `Abort` and
`Rollback` follow. Payments are sequences of a first reading and a commit, as in
`SupplierPayments`.

### SalarySources and CrewBatches

**SalarySources.** `files` are the standing files, `decided` the standing decisions,
links and rates; the cases are operators over them, as `assemble`, `matchName` and
`computeEntry` derive them on every request. A key is a place: an item's is its source,
row and column, a note's its paragraph, and what a corrected message brings in that
place has the same key. A claim (`Claims`) is a standing supplementary decision: it is
paid with the seafarer, currency, kind and amount typed in it, whatever became of the
note it was taken on (`assemble.ts:259-263`, `crew-salaries.service.ts:663`).

**CrewBatches.** `versions` holds the frozen submissions, `holder` the entitlements
(the version that entitles each case), `rows` what went out, `decisions` the
owner's decisions, `page` the screen a decision is taken on: what it shows may be
older than what the decision meets. An approval takes its advisory locks and reads
in `BeginApprove` and writes in `FinishApprove`; `work` says which locks it holds.
`Submit`, `Reject`, `ExportPayments` and `ResolveBatch` are transactions under the
lock of the cycle and so one step each. A case stands for its content hash. A decision
is told from an equal one taken later by how many rows had gone out before it
(`after`), and `Unspent` is the unique index `UQ_crew_salary_export_rows_resolution`: a
batch that would spend a decision twice is refused as a whole.

### ProfitDistribution

`sheet` is what the vessels typed, `fetched` what the screen holds, `period` what was
saved. `Dividend`, `VesselResult`, `balanceAtBassam` and `LegacyActivity` are
`calculateDistribution`, `calculateProposed` and `calculateLegacy`. Money is in
sixths of the unit that payments are rounded down to, so that dividing by up to three
partners is exact; 0.6667 and 0.3333 stand as two thirds and one third.

### StoneFund, MonteCard, CostImports

**StoneFund.** The tables are one set of rows, `fund_rows`. `BeginSeed` counts, `SeedLine`
writes one line on the round its request has written, `EndSeed` ends, and a second
request may count before the first writes; `AddLine` and `RemoveRow` work beside them.
`CardHead` and `RoundFigures` are the card. `AskModel`, `OtherModel`, `ModelFails` and
`Reply` are the narrated report: its numbers are checked against the figures, and a
reply that invents one is asked for again once and then shown with a warning.

**MonteCard.** `card` is the row's column, `open` what each screen shows, `hand` what
each request has read. `BeginLocked` with `Ingest`, `AddInput` or `VoidInput` work under
the row's lock; `BeginSave` and `SaveCard` do not.

**CostImports.** `costs` are the rows, `rules` the program's classification, which
changes between versions of the program. A file is planned and later committed in a
transaction whose unique index may refuse all of it; `reapplyRules` saves what it has
read.

### FleetCache, VoyageSheets, MarketShares

A fetch is `Ask`, `Export` (the sheet is read, at some moment of the request) and
`Arrive` or `Fail` (`AskSheet`, `ExportSheet`, `SheetArrives`, `SheetFails` for the
voyages); several run at once and the copy is what arrived last. Time is a
clock of a few ticks; `CacheTime` and `Timeout` (`CopyTime` and `LoadTime`) keep the order of the constants in the
code, and `Restart` empties the copy. Cells have a form (a number, an amount in
brackets, blank), since what `num` and `monthOf` do with each form is the question.
`MarketShares` has the imports and the history of agencies as steps and the figures of
`market.calc.ts` as operators; a share is a pair of numbers.

## The runs

| Run | Expect | What it shows |
|---|---|---|
| `ledger_core` | pass | two requests over two fiscal years with source documents: the numbers of a year have no gap and no repetition, reversed entries and reversals pair one to one, closed periods take nothing they should not, a posted entry never changes, what was read under a lock still holds at the commit; and the whole implements `LedgerBook` |
| `progress` | pass | two requests that post and reverse in one year, while one of them edits an account or approves a rate, all end, wait cycles included; and depreciation by schedule comes to every month, while requests die and drafts are voided |
| `payments_core` | pass | payments, batches with credit notes, removals and a deletion, two at once: what was checked holds until the write, the cache is what the rows give, locks ascend, nothing is orphaned, and the paid amounts implement `SettlementBook` |
| `payments_edits` | pass | while invoices and notes are edited, no application joins papers that do not belong together, every request ends whatever the others lock, and audit and totals show what the rows give and by how much a cache is off |
| `payments_note` | violation | a single payment addressed to a credit note counts towards it, so batches may then apply more from it than its total |
| `payments_statement` | violation | an invoice paid by a credit note is shown on the supplier's statement as closed without evidence, beside the note itself |
| `ratification_difference` | violation | the difference row of a ratified period is left in the account when the period is un-ratified |
| `office` | pass | eleven desks, one in each behaviour: see below |
| `crew_replacement` | violation | pay went out under one currency, a settlement under another: a replacement calls off the settlement alone |
| `figures` | pass | eight sheets, one in each behaviour: see below |
| `salaries_pending` | violation | a decision on a note or item of the message speaks for whatever a corrected message brings in its place |
| `depreciation_catchup` | violation | a schedule that depreciates a vessel to nothing and is interrupted is refused for ever |

Each violation run checks a sentence of the source or its comments, quoted in
`PROJECT.json` under `findings`.

**The desks of `office`.**

| Desk | What it shows | Bounds |
|---|---|---|
| ledger | an account deactivated between draft and posting keeps the draft out (`PostingChecksSetup`); one request at a time, since a second may deactivate after `post` has looked | two entries, an opening entry and a rate among them |
| supplier, charter | one live entry for a document and event; a settlement at the rate of an accrual that was posted (`OneEntryPerDocument`, `SettlementsFollowAccruals`) | two requests; an invoice of two payments and two rates; a hire over two periods; four entries, so that a voided accrual is drafted again |
| reports | statements balance, the general ledger cancels out, the parties add up (`ReportsAddUp`) | three entries, an expense without a group, a payable settled without a supplier |
| fund | seeded once; interest by slices is interest by days; the card is what its rows give (`FundAddsUp`) | two requests, three days, four rows |
| crew | `ServiceIsPaidOnce`, `NothingGoesOutAgainUndecided`, `RowsAreOfTheStandingApproval` | one seafarer, two vessels, two contract currencies, two screens; two files, versions and rows on the first vessel, one on the other |
| archive | `LegacySettlementsStand` | an old invoice, an old note, an invoice of the system; four payments; a second run after a rollback |
| fleet, voyages | the copy is what it says it is (`ShownAsWhatItIs`); every voyage typed is in a month and on one screen (`VoyagesAreAsTyped`) | two readers; a sheet that loses a column, a tab or its header; eight rows, each with one thing wrong or none. The dashboard's clock runs to 5, beyond `CacheTime + Timeout` and `ImportLimit + CacheTime`, both 3, so that an answer could be older than either bound if the copy were kept too long |
| monte | `TeamInputsStand` | two requests, four packages, one of them older, one without a date and one that does not agree with itself |
| costs | `CostsStandOnce` | five files, two rule books, two requests |

**The sheets of `figures`.**

| Sheet | What it shows | Bounds |
|---|---|---|
| account | requests that do not meet on a period, each cut short anywhere: a ratified period has accrued exactly what is frozen, any other nothing; un-ratifying settles even what crashed requests left; one difference per partner; what was frozen stays (`AccrualsStand`, `UnratifyingSettles`, `OneDifference`, `FrozenStays`) | see below |
| hire, hire together | one due for each broker and invoice; and with one request at a time the due follows the invoice, whatever it was edited to and whatever failed before, once a synchronisation has come to its end (`DuesFollowTheDocument`) | an invoice and its note, or two requests on an invoice; four documents, within and out of a broker's rule, with and without items, in two currencies, and a note |
| charges | depreciation by hand and by schedule (`ChargedOnce`) | two requests, months that are voided and charged again |
| prepaid | no cent of a contract is left behind (`RunsExhaust`) | two contracts that share a month and an account |
| profit | no method makes or loses money, and the bridge between the two in use closes (`DistributionsAddUp`) | seven rows of three vessels, of which one disagrees with itself, one has no treasury, one is of another line; Safaga cash and bunker entered for the older method |
| salaries | every amount has its place, and a settled month adds up (`NothingFallsAway`) | two exports, one with a seafarer in both currencies; a message, its correction and a second one; a payout sheet; eighteen decisions, four taken in any order |
| market | the parts come to the market (`PartsAreTheWhole`) | two admins, three files of four months that overlap, two months asked for |

`progress` has a vessel whose cost is more than twice what its schedule charges;
`depreciation_catchup` is the same with one whose cost is used up, and
`salaries_pending` is the salaries of `figures`.

**Bounds.** *Ledger.* Two requests meet in every pair of steps, and every lock
conflict of the code is between two. Three entries hold an original, its
reversal and the reversal of that; five in `progress`, where numbers must
be competed for again and again. `ledger_core` takes the
steps of `Next` that its bounds have room for (`CoreNext`): no account or rate is edited,
and with one identifier for a reversal no wait cycle arises. Two years are needed for a reversal into the
next year and to keep the two counters apart. `Room` leaves an identifier for every
request that inserts; `Managed` names the accounts whose flags are edited;
`LastPeriod` is 1 (period 0 and one ordinary period) where two ordinary periods add
nothing. *Payments.* Two invoices of 2 and 1 cents and a note of -2 allow partial,
full and excessive payment, a note used up on two invoices, and a batch that only
some states accept; three inserting transactions (`MaxRows`) are one more than the
largest invoice takes. `Payable`, `Editable`, `Removable` keep apart what each
run is about. *Ratification.* Two partners with figures that differ between two
readings; figures of 0, which write no row; one incomplete reading, which may
not be ratified. One period, since a request reads no other; four rows (`MaxRows`,
tested when a request begins, so that it writes all it has) let a period be
ratified, un-ratified and ratified again. *Desks and sheets.* Every hazard they are
about is between two requests, or one and an edit; the bounds leave room for the
first request, the one it meets and one after both.

**Deadlock.** `CHECK_DEADLOCK FALSE` where a model can run out of identifiers or
rows, or its clock stops: the bound stops it, not the code. That no request waits for
ever is what `RequestsFinish` checks instead.

**Fairness.** A request under way is continued: weak fairness of the steps that
wait for nobody, strong fairness of those that wait for a row lock (`Lock`,
`DeleteInvoice`, the ledger's `WriteDraft`, `WriteUpdate`, `TakeNumber`,
`InsertReversal`), since PostgreSQL queues the waiters of a row and serves them in
turn, so a lock that is free again and again is obtained. `DeadlockAbort` and `Refuse`
are weakly fair: the detector runs after a second. In `progress` and
`depreciation_catchup` `BeginCatchUp` is weakly fair, since the accounting screen
calls the catch-up each time it is opened and it is opened again, and so is `Work`;
dying and voiding are not, and their number is bounded (`Voids`): a service that is
for ever interrupted before its first month charges nothing. Nothing is assumed of
`ConnectionLost`, of a crash, or of the arrival of requests.

## The proofs

### GeneralLedgerProofs

For any finite or infinite sets of requests, entries, years, accounts and rates:

* `Invariant`: `IInv` is inductive. It holds the types (`TypeOK`), the exclusion
  of row locks (`LocksExclude`), what each request may rely on between its steps
  (`LockedReadsHold`), that a draft never claims to cancel anything
  (`DraftsCancelNothing`), and the two properties themselves (`GaplessNumbers`,
  `ReversalsPaired`). The numbers alone are not inductive: that two requests do
  not write the same one needs the lock on the year's row and the fact that the
  number a request took is still the counter's value when it commits, which is
  in `LockedReadsHold`; the pairs need that an original locked by a reversal is
  still posted and still uncancelled.
* `NumbersAreGapless`, `ReversalsArePaired`, `ReadsAreCurrent`, `TypeCorrect`: its parts.
* `PostedEntriesAreForever`, `ClosedPeriodsAreClosed`: the action properties, from
  the same invariant, one lemma per action.
* `LedgerImplementsBook`: the ledger implements `LedgerBook`. `Pages` maps the posted
  and reversed entries of a year, in the order of their numbers, to the pages of the
  book, and `ClosedForGood` the hard-closed periods to the closed ones. That `Pages`
  is a sequence is `GaplessNumbers`; that a step adds pages at the end and changes
  none, the posted-entry property; that a cancelling page cancels one page, exactly
  and once, `ReversalsPaired`; that no page enters a closed period, the trigger. So
  `CommitPost` adds one page, `CommitReverse` one that cancels, a hard close closes,
  and every other step is a stutter.
* `PostsOnActiveAccounts`: with one request at a time, nothing but a reversal is
  posted on an account that is not active. With two it is false (see below), which is
  why the desk of the ledger has one.

### SupplierPaymentsProofs

For any set of requests, invoices (natural numbers), documents, amounts and
batches:

* `Invariant`: `IInv` is the conjunction of `Types` (the types that the rest needs), `Locking`
  (what a request holds, wants and has touched, and `LocksAscend`), `ChecksHold`
  and `NoOrphans`. `ChecksHold` is not inductive alone: that a check outlives the
  steps of others needs that a request in "write" holds every invoice it
  touches, and that no one else then holds it, so that no row of those invoices,
  and no document or status of theirs, can change. `NoOrphans` needs `ChecksHold`: an invoice that
  is about to be written to still exists.
* `LocksAlwaysAscend`, `ChecksAlwaysHold`, `NothingIsOrphaned`: its parts.
* `CreditsBelong`: the action property; only `CommitBatch` adds applications, and
  what it adds was accepted.
* `CacheAlwaysMatches`: the cache equals the sums of the rows. The steps that
  write rows derive it again for exactly the invoices whose rows change; for every
  other invoice the sets of rows that count are the same before and after, and so
  are their sums.
* `PaymentsImplementBook`: the paid amounts implement `SettlementBook`. `BookInv` adds
  to `IInv` that the rows are finitely many with positive amounts, that what an
  invoice shows is what its payments and applications add up to, and that this is
  within its total. A batch is one `Settle`: what the request checked under its locks
  (`ChecksHold`) bounds each invoice and each note, and what leaves the notes arrives
  on the invoices because each application is counted once on either side
  (`SumLaws`). A removal is one `TakeBack` or `GiveBack`. Two hypotheses, both true in
  `payments_core`: no invoice is edited, since an edit does not derive the cache
  again (`invoices.service.ts:87-98`), and no single payment is addressed to a credit
  note, since the code then counts it towards the note (the finding of
  `payments_note`).

* `ReportsFollow`: audit and totals follow the rows, whoever edits what
  meanwhile and whatever is addressed to a note, for any invoices approved or aboard.
  `RowsAddUp` adds to `IInv` only what makes a sum of rows a number: the rows are
  finitely many, a payment is of something, an application joins two papers of which
  neither is closed by the migration, and paid amounts are whole. From it alone the
  reports are read (`ReportsRead`): what the audit adds up, own payments and signed
  applications, is what the payments service derives (`AuditAddsTheRows`), so its
  rules fire exactly where cache and rows differ (`InvoiceIsRead`). The net exposure
  lies between what the caches are off and the raw one, because each invoice that is
  off has a finding of that amount, and a subject's greatest exposure is one of its
  findings' (`OffWithinNet`, `NetWithinRaw`).

The assumptions are those of the constants in these two modules: invoices are
numbers and finitely many, and so are the applications of a batch
(`BatchesAssumption`). TLC evaluates them in the runs.

### SumLaws

Sums of rows are folds of the community modules, recursions over the subsets of a set
in an order nobody chose. `SumLaws` shows, for every finite set, that the recursion
has a solution and that the order makes no difference (`SumAdds`), and from this the
laws the proofs cite: an element more or less (`SumRemove`, `SumAdd`), a union, a
part outside which all is nil, a sum taken by key, an image, bounds on a sum and its
parts (`SumMonotone`, `SumBounds`), sums of rows by their amount (`RowSum...`). Induction over the size of a set is replaced by the smallest
member of a family of subsets (`SmallestSet`), which the library proves from
well-foundedness without an operator for a parameter.

### ProfitRatificationProofs

For any periods, partners, figures, transfers, opening entries and requests, as long
as two requests do not meet on a period (`Apart`); without that the properties are
false (see below). Any request may crash between any two of its statements.

* `AccountInvariant`: `AccountInv` is inductive. It says what each request relies on
  between its statements (`Relies`): a ratification, that what is owed already and
  what its list still owes give the frozen figures (`Ratifying`); an un-ratification,
  that both give nothing (`Unratifying`); a second reading, that the differences it
  has still to write are of partners who have none. `AccrualsStand` is what is left
  of this when no request is at work and none was cut short.
* `AccrualsHold`, `OneDifferenceHolds`: its parts; `TypeCorrect`.
* `UnratifyingLeavesNothing`, `FrozenHolds`: the action properties. The first holds
  of periods where a crash left accruals half written too: `unratify` reverses the
  rows that are there, not the figures.

### PostingProofs

For any requests, documents, payments, rates, vessels, schedules and bounds; amounts
matter to the reports only:

* `OneEntry`: one live entry for a document and event. Requests look for one
  without a lock; the proof rests on the unique index at the writing and on the
  reversal, which takes an event of its own.
* `SettlementsFollow`: a settlement stands on an accrual at its rate. `BridgeInv` says
  of a request between its readings and its draft that what it read is still backed:
  an entry that was posted can be reversed and not voided, so an accrual never
  disappears from under it. The theorem supposes that payments are told apart by
  their identifiers (`PaymentsHaveIds`), the key of the payments table.
* `OneCharge`: a month of a vessel is charged once. What a request saw when it looked
  is not used: only the index at the writing, and that posting and reversing keep a
  charge's vessel and month (`DepreciationInv`).
* `ReportsStand`: what the reports show adds up, whatever the ledger does between
  their queries. It supposes what the chart and `assertBalanced` give: accounts of the
  five types with codes that are in an order, and entries that balance on accounts of
  the chart (`ChartAssumption`, `BookingsAssumption`). The argument: a query joins the
  lines of whole entries, so its rows come to nothing (`RowsBalance`), and so do the
  balances of the accounts (`BalancesAddUp`), of which the sheet takes each once
  (`SheetTakesAll`); the rows are ranked by the order of the query, so a list below the
  cap has each of them once (`CappedListsAll`); and a party is left with what stands
  beside the last of its lines, the sum of them all (`PartiesTakeAll`). `ReportsInv`
  adds to it that a reversal balances as its entry does, and what a report that is not
  finished has read: opening balances that cancel out, or every line of its accounts.

### OfficeProofs

Six desks that share no row; each has an invariant of its own.

* `MigrationStands` (any documents, payments, manifest and clients): what the run
  closes is the manifest, document for document and without a payment, and nothing
  that is closed changes its paid amount or status. `LockHolds` carries it: from the
  `ALTER TABLE` on no client is inside the tables, so what the gates accepted is still
  so at the commit. `RowsAreSound` says that a row is in the batch exactly if it is
  closed.
* `CostsStand` (any files, rule books and admins): a line of the books is there once,
  an import is all or nothing, and what was classified again follows the rules.
  `Once` holds that no identifier and no key is there twice, `Plans` that what a
  request means to insert is the lines of its file that were not there when it
  looked, and `Ruling` that a row which does not follow the rules, while they are
  applied, is in the hand of the request that applies them.
* `CardStands` (any packages, entries and values): the inputs of the team only grow,
  no older package is pushed over a newer one, and the months come to the voyages.
  `HandSound` says that a request which locked the row has read what it holds, since
  no other writes meanwhile; a save reads without the lock, and a column it
  overwrites is the one case in which an input may go. That the months come to the
  voyages is a sum by month of sums by item, from `SumLaws`.
* `FleetStands` (any workbooks and readers): an answer not marked as old shows what
  was in the sheet a bounded time ago, figure by figure. `FleetInv` follows the
  contents of the sheet in time (`SheetsFollow`), what each request under way can
  still bring (`FetchesBring`) and the copy (`CacheIsRead`); the age of an answer is
  the copy's and the request's together, which is why the bound is
  `CacheTime + Timeout`.
* `VoyagesStand` (any rows and viewers): the same for the voyages (`SheetInv`), and two
  facts about one reading of any rows: a voyage typed is on one screen (`OneScreen`),
  and a net that its items do not give shows its gap (`GapsTell`).
* `FundStands` (any payloads, lines by hand, requests and days): a round holds the lines
  of one payload, whoever seeds at once; interest by slices is the interest of every
  day; the figures of the card come to its tables, and no gap is left without an alert.
  `FundTables` is needed for the figures: identities are apart, amounts are positive, a
  deal hangs on a round that is there, and the loan of a round that was removed on none.
  `OwnNames` and `EveryRoundIsFed` carry the seeding: the rounds that two requests have
  written are apart, and on a round hang at most the lines of a payload up to the one
  its request is at. `SlicesAddUp` parts the days by the last cut before each; between
  two cuts nothing starts (`NothingStarts`), so a slice is a sum of equal days.

Of the constants they assume that a list is a list, an amount a whole number and an
absent value none of the others (`ArchiveAssumption`, `CostAssumption`,
`CardAssumption`, `FleetAssumption`, `SheetsAssumption`, `FundAssumption`), for the voyages
that no vessel and line is on two screens, as in the tables of `vessel-profit-sheet.ts`,
and for the fund that a payload has neither interest terms nor reports, as in
`SeedPayload`. TLC evaluates them in `office`, those of `HireInvoices` and
`ProfitRatification` in `figures`.

### HireInvoicesProofs

For any invoices, documents, brokers, rates and amounts:

* `BrokersHaveOneDue`: one due for each broker and invoice, for any number of
  requests at once; the index at the writing is all that is used.
* `DuesFollow`: the same, and with one request at a time a broker is owed its rate of
  the hire in the invoice as it stands, unless the invoice was saved and no
  synchronisation of it has come to its end since. Any statement of a request may fail;
  what it leaves is put right by the next synchronisation that ends. `DuesInv` says of
  the one request what it knows and has done (`Knows`): while it charges, that it holds
  the base and the rules of the invoice as it stands, that what it read of each broker
  it has still to charge is what is there, and that every other broker is owed what is
  right; while it drops a due, that the due is outside the rules. Every invoice that is
  not `behind` follows its document, and before the synchronisation begins the invoice
  in hand may only be behind (`Unsynced`): a request cut off there leaves it so. Money
  and payments to brokers come in between from anybody. `HireAssumption` says that the
  documents' totals and items are numbers.

### CrewBatchesProofs

For any crews, vessels, currencies, screens and bounds; crews and currencies are
finitely many (`CrewsAssumption`), so that a batch is:

* `PaidOnce`: a seafarer's month is entitled on one vessel only. `ServiceIsPaidOnce` is
  not inductive: an approval
  looks for an overlap when it begins and writes when it ends. `IInv` adds that its
  locks are those of its version (the cases of a version never change), that the
  locks of two approvals are apart (`LocksExclude`), and that the overlap it did not
  find is still not there (`NoOverlapSince`), since who would create one needs the
  seafarer's lock.
* `RowsAreApproved`: what goes out is of the version that entitles the case at that
  moment, and by a decision only for the content it was taken on.
* `NothingAgainUndecided`: nothing goes out in full and undecided beside what stands
  for the case, or for the seafarer under a key that is gone, and a decision brings
  out one row. Both are of the step `ExportPayments`, with the invariant that rows
  are sequences a batch only extends (`RowsShape`).

**Only model-checked.** Liveness: `RequestsFinish` and `AttendedMonthsAreCharged` are
about fairness, which the prover does not reason about. `RunsExhaust`, which is about a
schedule spread over months one after another, would need an induction over data, and
so would the figures that two ways of adding the same data agree on, where the adding is over lists
that are sorted, cut and folded: `DistributionsAddUp`, `NothingFallsAway`,
`PartsAreTheWhole`. What a fold over a list of any length gives is
an induction over data; the sums over sets that could be proved without one are.
`PostingChecksSetup` is what `MCOffice` says of
its one instance of the ledger; `PostsOnActiveAccounts` proves it of `GeneralLedger`.
The violations, which are counterexamples.

## Seen in the model, no run kept

The models showed the following while they were made. None is contradicted by a
sentence of the source so plain that a run of its own is kept for it; where a
property would be false of it, the property says for which states it is stated.

*Ledger and bridge.*

* Two reversals of one year each insert a row that shares the year's key and then
  ask for the year's row: they wait for each other until the database aborts one
  (`accounting.service.ts:801-806`). `progress` shows that this ends.
* A draft may land in a period closed for good meanwhile
  (`accounting.service.ts:743`, against the check at `:642`), and an edit may put an
  expense account on an opening entry (`:455`, against `accounting-posting.ts:349`).
  Neither reaches the ledger.
* A rate corrected between draft and posting leaves a posted line with the old
  one (`accounting.service.ts:336`); a correction and an approval of one rate write
  back whole rows (`:364`); the reversal of an entry gives a deactivated account a
  balance (`:563`, `:279`).
* With two requests an account may be deactivated after `post` has looked at it and
  before it commits (`accounting.service.ts:516-544`).
* A second `adjustment` of a document is refused although the first was reversed: the
  index counts every entry that is not void (`p11a-accounting-foundation.ts:234`), while
  `P11A_MIGRATION_PACK.md:217-218` has the second wait for the reversal of the first
  only. The bridge's own adjustments carry no source, so this is about entries made by
  hand. Accruals and settlements never compete: the ones carry the invoice as their
  source, the others the payment.
* The revenue of a hire whose accrual was reversed is still released
  (`accounting-bridge.service.ts:656-662`), and two amortization runs at once charge
  a month twice (`:777-797`), so `RunsExhaust` has one.

*Invoices.*

* A single payment is accepted on an invoice closed by the migration, and not
  derived (`payments.service.ts:61`, `payment-derivation.ts:122`); the vessel's
  figures for it then go below zero.
* An edited total or currency leaves paid amount and status as they were
  (`invoices.service.ts:98`): hence `CacheMatchesRows` speaks of the others, and
  `ReportsFollowTheRows` says how the audit shows it.
* A deletion refused by a foreign key has already deleted the attachments
  (`invoices.service.ts:105-110`). A payment repeated by a client that got no answer
  is recorded twice if the total leaves room (`payments.service.ts:52`).
* For a supplier, `currency-totals.ts:60-69` counts what a note pays of an invoice as
  without evidence, and the note's own use as its negative: the two cancel in the sum
  of one supplier and currency, which is why his totals show nothing (`CreditCancels`).
  `vessels.service.ts:94` takes the credit off by name.
* An edit of the currency of a hire alone leaves its due in the old one: a due is
  written in the currency of its invoice, and only amount and base are compared when
  the invoice is synchronised again (`brokers.service.ts:143-150`).
* The audit compares with a tolerance of a cent and the payments with half a cent;
  its three queries have no snapshot.
* `HireInvoicesController` counts the money of an invoice and then deletes it in
  another statement.

*Periods.*

* Two requests on one period (`Apart = FALSE`) break all that
  the account of `figures` shows: an edit or a removal that looked at `ratified_at`
  before a ratification acts after it; `ratify` inserts again a period that was
  removed, without its accruals; two `recordLatest` both clear, then both write; a
  payment is recorded while its period is un-ratified.
* The removal of a period that was never ratified, or no longer is, deletes the
  payments that name it, by cascade (`profit-periods.service.ts:122`).
* The "total transferred" of `profit-ratification.service.ts:88-113` sums balances
  that `ratify` froze with what was carried into them (`:342-346`), so that a carried
  balance is counted in every period it passes.
* A commission or a fee of 0 falls back to the default
  (`profit-periods.service.ts:412-415`). The comments of `profit-model.ts:598` and
  `:658` disagree on whether the net revenue is before or after the fuel; `BridgeCloses`
  holds of the first, which is what the sheet's net is.
* The comment of `profit-model.ts:649-651` has 3,029.33 move between the partners from
  one method to the other. That is the difference of each vessel's own fee, which its
  due carries (`:188-203`), to its share; the transfer of the approved method carries
  the share already, so the transfers themselves differ by the rounding alone.
  `BridgeCloses` states both. The balances of the method used before are not modelled.

*Salaries.*

* A decision to settle that has brought out its row stays when the row is called off by
  a later one. The next batch of its currency would bring it out again, the unique
  index refuses, and with it every other case of the batch, until the owner decides
  anew (`crew-salaries.service.ts`, `exportPayments`).
* A seafarer in two exports has the items of his message in both cases under one key
  (`crew-salary.assemble.ts:219`): one acceptance pays them in both. `InPlace` counts a
  place for each export, and `MonthAddsUp` is about months of one contract each.

*Cards, costs, sheets, market.*

* A save of the card overwrites an input that was added after the save had read the
  row (`vessel-profit.service.ts:82-94`), and a card that was open for long brings
  back the package it had; a package without a date is never taken as older; a month
  that a package lists twice counts twice.
* A file with two identical lines is refused as a whole by the unique index; a row
  removed while `reapplyRules` has it in hand comes back; a line whose code is
  excluded and charged again has lost its months of depreciation
  (`vessel-cogs.service.ts:161`).
* A fetch that was sent earlier and arrives later replaces the newer copy, in both
  caches, and "recently imported" is as old as the copy it is in. Two of the Duba
  vessels have a field read from one leg only (`vessel-profit-sheet.ts:79-80`).
* `monthlyOverlay` leaves out the months of the reference that have no month beside
  them, hence the `<=` in `PartsOf`; the analysis of the market report and its
  comparison are read at different moments.
* The card of the fund is nine queries without a snapshot.
* `changeAgency` closes a period and opens the next in two statements
  (`agency.service.ts:52`). What a month between them belongs to is stated nowhere, so
  no property says it: the sums by agency agree either way.

## The plan

Done: `GeneralLedger` and `SupplierPayments`, each with what it promises, the proof that
it implements it, and the proofs of its invariants; `ProfitRatification`, the hire
invoices, the drafts, the depreciation and the salaries with theirs; the laws of sums;
what audit and totals tell of the invoices; the migration, the card, the
costs, the dashboard's copy and the voyages, with their proofs, the ledger's reports
and the fund with theirs; the division of profits and the market, model-checked.

To come, in this order:

1. The amounts of the drafts: that a settlement and its accrual close the liability.
2. The bridge composed with `GeneralLedger` itself instead of what `LedgerBook`
   promises.

## Not modelled

Sessions, the rate limit and the authorisation of screens are access control: who
may call what. The assistants call an external model and keep no state of the
system, notifications and tasks are records that no rule reads back, and the
registers are single rows. The parsers of files and the wording of reports are
conversions whose result is modelled and whose text is not. Management invoices
repeat the rules of the hire invoices over a table of their own. Listings and exports
change no state. Schema migrations are run by hand; their result, the keys and
triggers, is modelled.

Amounts are whole cents: the rounding of a foreign-currency line to the cent
(`prepareLines`) is not in the model, so an entry that fails to balance only by
rounding is not either, nor is the half cent of tolerance of `payment-derivation.ts`.
