---------------------------- MODULE LedgerReports ----------------------------
(***************************************************************************)
(* The reports read from the general ledger: the financial statements, the *)
(* balances of vendors, customers and related parties, and the general     *)
(* ledger itself (AccountingReportsService, financial-statements.ts and    *)
(* subledger-reports.ts).                                                  *)
(*                                                                         *)
(* A report is made from several queries, outside a transaction, while     *)
(* entries are posted and reversed: each query sees the ledger of its own  *)
(* moment.  The ledger is seen as LedgerBook promises it: entries balance, *)
(* their lines do not change, and a reversal mirrors an entry once.        *)
(***************************************************************************)
EXTENDS Integers, Sequences, FiniteSets, FiniteSetsExt

CONSTANTS
  Chart,     \* the accounts: [code, type, group, role] of each
  Bookings,  \* entries that may be posted: [date, lines], a sequence of lines
             \* [account, debit, credit, supplier, customer]
  Spans,     \* periods reports are asked for: [from, to]
  Nobody,    \* no supplier, no customer
  RowCap,    \* rows of a report at most
  Closable,  \* bound: accounts that may be deactivated
  Reporters, \* concurrent reports
  MaxBook    \* bound: entries in the ledger

VARIABLES
  book,    \* the entries; their order stands for the one of their numbers
  active,  \* accounts that are active
  reader   \* what each report has read so far, and what it said in the end

reportVars == <<book, active, reader>>

----------------------------------------------------------------------------
NetOf(line) == line.debit - line.credit
\* What the values of F come to
SumOver(F) == MapThenSumSet(LAMBDA x : F[x], DOMAIN F)

\* The chart has accounts of five types, and an entry balances on accounts of the
\* chart (assertBalanced).
IsBalanced(lines) ==
  /\ Len(lines) \in Nat /\ DOMAIN lines = 1..Len(lines)
  /\ \A k \in DOMAIN lines :
       /\ DOMAIN lines[k] = {"account", "debit", "credit", "supplier", "customer"}
       /\ lines[k].account \in DOMAIN Chart
       /\ lines[k].debit \in Int /\ lines[k].credit \in Int
  /\ SumOver([k \in DOMAIN lines |-> NetOf(lines[k])]) = 0
ASSUME ChartAssumption ==
  /\ IsFiniteSet(DOMAIN Chart)
  /\ \A a \in DOMAIN Chart :
       /\ Chart[a].code \in Int
       /\ Chart[a].type \in {"asset", "liability", "equity", "revenue", "expense"}
ASSUME BookingsAssumption == \A e \in Bookings : e.date \in Int /\ IsBalanced(e.lines)
ASSUME ReportsAssumption ==
  RowCap \in Nat /\ \A p \in Spans : p.from \in Int /\ p.to \in Int

\* what the queries join: the lines of entries that were posted, reversed or not
Journal == {n \in DOMAIN book : book[n].status \in {"posted", "reversed"}}
RowsOf(S) ==
  UNION {{[no |-> n, at |-> k, date |-> book[n].date, line |-> book[n].lines[k]] :
            k \in DOMAIN book[n].lines} : n \in S}
RowsTo(d) == RowsOf({n \in Journal : book[n].date <= d})
RowsIn(p) == RowsOf({n \in Journal : p.from <= book[n].date /\ book[n].date <= p.to})
RowsBefore(d) == RowsOf({n \in Journal : book[n].date < d})

\* balances: debit less credit of every account
Balances(rows) ==
  [a \in DOMAIN Chart |->
     SumOver([r \in {x \in rows : x.line.account = a} |-> NetOf(r.line)])]

----------------------------------------------------------------------------
(* The statements *)

OfType(type) == {a \in DOMAIN Chart : Chart[a].type = type}
TotalOf(balance, S) == SumOver([a \in S |-> balance[a]])

\* buildIncomeStatement: an expense outside the known groups has a section of its own
KnownGroups == {"VESSEL_OPEX", "ADMIN", "FINANCE"}
Section(balance, group) ==
  TotalOf(balance, {a \in OfType("expense") : Chart[a].group = group})
Unclassified(balance) ==
  TotalOf(balance, {a \in OfType("expense") : Chart[a].group \notin KnownGroups})
NetResult(balance) ==
  - TotalOf(balance, OfType("revenue"))
    - (Section(balance, "VESSEL_OPEX") + Section(balance, "ADMIN")
         + Section(balance, "FINANCE") + Unclassified(balance))

\* buildBalanceSheet: the result is shown beside equity, not closed into it
Difference(balance, result) ==
  TotalOf(balance, OfType("asset"))
    + TotalOf(balance, OfType("liability")) + TotalOf(balance, OfType("equity")) - result

----------------------------------------------------------------------------
(* Parties *)

\* the order of the query, cut at the cap: by date, number and line, in the general
\* ledger by account first
Key(r, byAccount) ==
  <<IF byAccount THEN Chart[r.line.account].code ELSE 0, r.date, r.no, r.at>>
Lower(x, y) == \E i \in 1..4 : x[i] < y[i] /\ \A j \in 1..(i - 1) : x[j] = y[j]
Ahead(r, rows, byAccount) == {s \in rows : Lower(Key(s, byAccount), Key(r, byAccount))}
Capped(rows, byAccount) ==
  [k \in {n \in 1..Cardinality(rows) : n <= RowCap} |->
     CHOOSE r \in rows : Cardinality(Ahead(r, rows, byAccount)) = k - 1]
Truncated(rows) == Cardinality(rows) > RowCap

\* whom a line belongs to: by the column of the report, or by either column
Party(line, by) ==
  CASE by = "supplier" -> line.supplier
    [] by = "customer" -> line.customer
    [] OTHER -> IF line.customer # Nobody THEN line.customer ELSE line.supplier
Sign(by) == IF by = "supplier" THEN -1 ELSE 1

\* buildPartyBalanceDetail: beside each line the balance of its party so far; a party,
\* or nobody, is left with what is beside the last of its lines
Of(rows, by, p) == {k \in DOMAIN rows : Party(rows[k].line, by) = p}
Running(rows, by, k) ==
  SumOver([j \in {i \in Of(rows, by, Party(rows[k].line, by)) : i <= k} |->
             Sign(by) * NetOf(rows[j].line)])
Parties(rows, by) == {Party(rows[k].line, by) : k \in DOMAIN rows}
Detail(rows, by) == [p \in Parties(rows, by) |-> Running(rows, by, Max(Of(rows, by, p)))]
GrandTotal(detail) ==
  SumOver([p \in DOMAIN detail \ {Nobody} |-> detail[p]])
    + SumOver([p \in DOMAIN detail \cap {Nobody} |-> detail[p]])
\* buildPartyBalanceSummary: the settled parties are not listed
Summary(detail) == {p \in DOMAIN detail : detail[p] # 0}

\* buildSplitMap: the other account of a line's entry, if there is just one
Counterpart(no, account) ==
  LET lines == book[no].lines
      others == {lines[k].account : k \in DOMAIN lines} \ {account} IN
  CASE others = {} -> "" [] Cardinality(others) = 1 -> CHOOSE a \in others : TRUE
    [] OTHER -> "-SPLIT-"

\* accountCodes: the active accounts of the role, or of the group of related parties
Codes(by) ==
  {a \in active :
     CASE by = "supplier" -> Chart[a].role = "ACCOUNTS_PAYABLE"
       [] by = "customer" -> Chart[a].role = "ACCOUNTS_RECEIVABLE"
       [] OTHER -> Chart[a].group = "RELATED_PARTY"}

----------------------------------------------------------------------------
ReportsInit ==
  /\ book = <<>> /\ active = DOMAIN Chart
  /\ reader = [u \in Reporters |-> [step |-> "idle"]]

\* the ledger goes on: entries are drafted and posted, an entry is reversed, an
\* account without a balance is deactivated
DraftBooking(e) ==
  /\ Len(book) < MaxBook
  /\ book' = Append(book, [date |-> e.date, lines |-> e.lines, status |-> "draft"])
  /\ UNCHANGED <<active, reader>>
PostBooking(n) ==
  /\ book[n].status = "draft"
  /\ book' = [book EXCEPT ![n].status = "posted"]
  /\ UNCHANGED <<active, reader>>
Mirror(l) == [l EXCEPT !.debit = l.credit, !.credit = l.debit]
ReverseBooking(n, d) ==
  /\ Len(book) < MaxBook /\ book[n].status = "posted"
  /\ book' = Append([book EXCEPT ![n].status = "reversed"],
       [date |-> d, lines |-> [k \in DOMAIN book[n].lines |-> Mirror(book[n].lines[k])],
        status |-> "posted"])
  /\ UNCHANGED <<active, reader>>
Deactivate(a) ==
  /\ a \in active
  /\ Balances(RowsOf(Journal))[a] = 0
  /\ active' = active \ {a}
  /\ UNCHANGED <<book, reader>>

Show(u, r) == reader' = [reader EXCEPT ![u] = r] /\ UNCHANGED <<book, active>>

\* statements: the balances of the period, then those to its end
BeginStatements(u, p) ==
  /\ reader[u].step = "idle"
  /\ Show(u, [step |-> "cumulative", period |-> p, income |-> Balances(RowsIn(p))])
OfThePeriod(u, balance) == NetResult(reader[u].income) \* mutant: the period's own result
ResultShown(u, balance) == NetResult(balance)
FinishStatements(u) ==
  /\ reader[u].step = "cumulative"
  /\ \E balance \in {Balances(RowsTo(reader[u].period.to))} :
       Show(u, [step |-> "statements", income |-> NetResult(reader[u].income),
                  difference |-> Difference(balance, ResultShown(u, balance))])

\* partyReport and relatedPartyStatement: the accounts, then their lines, then the
\* lines across from them
BeginParties(u, by, d) ==
  /\ reader[u].step = "idle" /\ Codes(by) # {}
  /\ Show(u, [step |-> "lines", by |-> by, to |-> d, codes |-> Codes(by)])
ReadParties(u) ==
  /\ reader[u].step = "lines"
  /\ \E rows \in {{r \in RowsTo(reader[u].to) : r.line.account \in reader[u].codes}} :
       Show(u, [step |-> "splits", by |-> reader[u].by, rows |-> Capped(rows, FALSE),
                truncated |-> Truncated(rows),
                balance |-> SumOver([r \in rows |-> Sign(reader[u].by) * NetOf(r.line)])])
FinishParties(u) ==
  /\ reader[u].step = "splits"
  /\ LET rows == reader[u].rows  detail == Detail(rows, reader[u].by) IN
     Show(u, [step |-> "parties", detail |-> detail, total |-> GrandTotal(detail),
                listed |-> Summary(detail), truncated |-> reader[u].truncated,
                balance |-> reader[u].balance,
                across |-> {Counterpart(rows[k].no, rows[k].line.account) : k \in DOMAIN rows}])

\* generalLedger: the balances before the period, then the lines in it
BeginLedger(u, p) ==
  /\ reader[u].step = "idle"
  /\ Show(u, [step |-> "period", period |-> p, opening |-> Balances(RowsBefore(p.from))])
\* buildGeneralLedger: an account with an opening balance and no line is shown too
ListedAccounts(opening, moved) == DOMAIN moved \cup {a \in DOMAIN opening : opening[a] # 0}
FinishLedger(u) ==
  /\ reader[u].step = "period"
  /\ \E rows \in {RowsIn(reader[u].period)} :
       LET capped == Capped(rows, TRUE)
           kept == {capped[k] : k \in DOMAIN capped}  opening == reader[u].opening
           moved == [a \in {r.line.account : r \in kept} |-> Balances(kept)[a]] IN
       Show(u, [step |-> "ledger report", truncated |-> Truncated(rows),
                  closing |-> [a \in ListedAccounts(opening, moved) |->
                    opening[a] + IF a \in DOMAIN moved THEN moved[a] ELSE 0]])

ReportsNext ==
  \/ \E e \in Bookings : DraftBooking(e)
  \/ \E n \in DOMAIN book : PostBooking(n) \/ \E e \in Bookings : ReverseBooking(n, e.date)
  \/ \E a \in Closable : Deactivate(a)
  \/ \E u \in Reporters :
       \/ \E p \in Spans : BeginStatements(u, p) \/ BeginLedger(u, p)
       \/ \E by \in {"supplier", "customer", "either"}, p \in Spans : BeginParties(u, by, p.to)
       \/ FinishStatements(u) \/ ReadParties(u) \/ FinishParties(u) \/ FinishLedger(u)

ReportsSpec == ReportsInit /\ [][ReportsNext]_reportVars

----------------------------------------------------------------------------
\* A balance sheet is balanced ("is_balanced"), and the closing balances of a
\* complete general ledger cancel out, whatever is posted, reversed or deactivated
\* between the queries the report is made from.
ReportsBalance ==
  \A u \in Reporters :
    /\ reader[u].step = "statements" => reader[u].difference = 0
    /\ reader[u].step = "ledger report" /\ ~reader[u].truncated =>
         SumOver(reader[u].closing) = 0

\* The balances of the parties, with what belongs to nobody, add up to the balance
\* of their accounts, and the summary leaves out nothing that is still open.
PartiesAddUp ==
  \A u \in Reporters :
    reader[u].step = "parties" /\ ~reader[u].truncated =>
      /\ reader[u].total = reader[u].balance
      /\ SumOver([p \in reader[u].listed |-> reader[u].detail[p]]) = reader[u].balance

\* What is shown adds up, in the statements and in the balances of the parties.
ReportsAddUp == ReportsBalance /\ PartiesAddUp
=============================================================================
