----------------------------- MODULE StoneFund -----------------------------
(***************************************************************************)
(* The card of the Stone investment: rounds, the loan of the parent, the   *)
(* money that went out to the fund and came back (InvestmentsService), the *)
(* interest on the loan (stone-interest.ts), the seeding of the ledgers    *)
(* (stone-seed.ts) and the report a language model words from the card     *)
(* (stone-report.service.ts).                                              *)
(*                                                                         *)
(* Every table is seen as rows of one set.  Seeding checks that the tables *)
(* are empty and then writes line by line, outside a transaction.          *)
(***************************************************************************)
EXTENDS Integers, Sequences, FiniteSets, FiniteSetsExt

CONSTANTS
  Seeders,      \* concurrent requests to seed
  Payloads,     \* what may be sent to be seeded: sequences of lines, rounds first
  EnteredLines, \* lines that may be added by hand
  CardDays,     \* days the card may be asked for
  NoValue,      \* no round, no share
  MaxFund       \* bound: rows written

VARIABLES
  fund_rows,    \* rows of the stone_* tables: [id, table, round, line]
  written_rows, \* rows written so far: their identity
  seeder,       \* what each request seeds, and how far it is
  narrator      \* where the report is

fundVars == <<fund_rows, written_rows, seeder, narrator>>

----------------------------------------------------------------------------
\* The columns a figure is summed from; interest terms and the fund's reports are
\* entered by hand only
IsLine(l) ==
  /\ {"table", "no"} \subseteq DOMAIN l
  /\ l.table \in {"rounds", "parent", "investment", "reports"} =>
       "amount" \in DOMAIN l /\ l.amount \in Int
  /\ l.table \in {"parent", "terms", "reports"} => l.date \in Int
  /\ l.table = "terms" => l.rate \in Nat
  /\ l.table = "reports" => l.result \in Int
ASSUME FundAssumption ==
  /\ NoValue \notin Int
  /\ \A l \in EnteredLines : IsLine(l)
  /\ \A p \in Payloads :
       /\ Len(p) \in Nat /\ DOMAIN p = 1..Len(p)
       /\ \A k \in DOMAIN p : IsLine(p[k]) /\ p[k].table \notin {"terms", "reports"}
  /\ \A day \in CardDays : day \in Int

Table(name) == {r \in fund_rows : r.table = name}
RoundRows(no) == {r \in Table("rounds") : r.line.no = no}
OfRound(name, id) == {r \in Table(name) : r.round = id}
\* What the values of F come to
SumUp(F) == MapThenSumSet(LAMBDA x : F[x], DOMAIN F)
Money(S) == SumUp([r \in S |-> r.line.amount])

\* the latest report on the fund of a round, and the share of its result that the
\* commitment gives; a round without a report has none
Latest(id) ==
  LET of == OfRound("reports", id) IN {r \in of : \A s \in of : s.line.date <= r.line.date}
BookShare(id, commitment) ==
  LET one == {(r.line.result * commitment) \div r.line.amount : r \in Latest(id)} IN
  IF one = {} THEN NoValue ELSE CHOOSE x \in one : TRUE

\* the card, for one round: every figure is summed from its rows
Deals(way) == {r \in Table("investment") : r.line.way = way}
Confirmed == {r \in Deals("repatriation") : r.line.status = "confirmed"}
Loans(way) == {r \in Table("parent") : r.line.kind = "principal" /\ r.line.way = way}
Mine(S, rd) == {r \in S : r.round = rd.id}
RoundFigures(rd) ==
  LET contributed == Money(Mine(Deals("contribution"), rd))
      confirmed == Money(Mine(Confirmed, rd))
      funded == Money(Mine(Loans("funding"), rd))
      returned == IF confirmed < contributed THEN confirmed ELSE contributed
      share == BookShare(rd.id, rd.line.amount) IN
  [contributed |-> contributed, funded |-> funded,
   announced |-> Money(Mine(Deals("repatriation") \ Confirmed, rd)),
   over |-> IF contributed > rd.line.amount THEN contributed - rd.line.amount ELSE 0,
   gap |-> contributed - funded, gain |-> confirmed - returned,
   capital |-> contributed - returned, share |-> share,
   value |-> IF share = NoValue THEN NoValue ELSE contributed - returned + share]
ByRound == [rd \in Table("rounds") |-> RoundFigures(rd)]
Figure(card, field) == SumUp([rd \in DOMAIN card |-> card[rd][field]])
OrElse(value, other) == IF value = NoValue THEN other ELSE value

\* the head of the card; without a single report there is no book value
Reported(card) == \E rd \in DOMAIN card : card[rd].share # NoValue
Shares(card) ==
  IF Reported(card) THEN SumUp([rd \in DOMAIN card |-> OrElse(card[rd].share, 0)]) ELSE NoValue
CardHead(card) ==
  [borrowed |-> Money(Loans("funding")), repaid |-> Money(Loans("repayment")),
   invested |-> Figure(card, "contributed"), announced |-> Figure(card, "announced"),
   gain |-> Figure(card, "gain"), share |-> Shares(card),
   value |-> IF Reported(card)
             THEN SumUp([rd \in DOMAIN card |-> OrElse(card[rd].value, card[rd].capital)])
             ELSE NoValue]

\* alerts, drawn from the figures: [kind, of] for a round, or for the whole card
Alerts(card) ==
  LET on(kind, S) == {[kind |-> kind, of |-> rd] : rd \in S}
      bare == {rd \in DOMAIN card : card[rd].contributed > 0 /\ card[rd].funded = 0} IN
  on("no facility", bare)
    \cup on("gap", {rd \in DOMAIN card \ bare : card[rd].gap > 0})
    \cup on("over the commitment", {rd \in DOMAIN card : card[rd].over > 0})
    \cup on("announced", IF CardHead(card).announced > 0 THEN {NoValue} ELSE {})
    \cup on("no terms", IF Table("terms") = {} THEN {NoValue} ELSE {})

\* buildFigures: what the report says in total, summed from the rounds once more
ReportFigures(card) ==
  [invested |-> CardHead(card).invested,
   outstanding |-> CardHead(card).borrowed - CardHead(card).repaid,
   capital |-> Figure(card, "capital"), gain |-> Figure(card, "gain"),
   share |-> Shares(card), alerts |-> Alerts(card)]
----------------------------------------------------------------------------
(* Interest: simple, on the principal, from the first term on *)

Until(S, day) == {r \in S : r.line.date <= day}
Principal(day) == Money(Until(Loans("funding"), day)) - Money(Until(Loans("repayment"), day))

TermDays == {r.line.date : r \in Table("terms")}
LoanDays == {r.line.date : r \in {s \in Table("parent") : s.line.kind = "principal"}}
\* of the terms of one day the last of the query holds; here the last written
TermAt(day) ==
  LET started == Until(Table("terms"), day) IN
  CHOOSE t \in started : \A s \in started :
    s.line.date < t.line.date \/ (s.line.date = t.line.date /\ s.id <= t.id)
\* per cent for a day, in a unit that both years divide
Daily(term) == term.line.rate * (IF term.line.basis = "ACT/360" THEN 365 ELSE 360)
DayInterest(day) == IF Principal(day) <= 0 THEN 0 ELSE Principal(day) * Daily(TermAt(day))

\* accrueInterest: a slice runs from one cut to the day before the next
CutsByMoves(asOf) == \* mutant: a new term does not start a new slice
  {Min(TermDays)} \cup {d \in LoanDays : Min(TermDays) < d /\ d <= asOf}
Cuts(asOf) ==
  {Min(TermDays)} \cup {d \in TermDays \cup LoanDays : Min(TermDays) < d /\ d <= asOf}
SliceEnd(cut, asOf) ==
  LET later == {d \in Cuts(asOf) : d > cut} IN IF later = {} THEN asOf ELSE Min(later) - 1
SliceInterest(cut, asOf) == DayInterest(cut) * (SliceEnd(cut, asOf) - cut + 1)
Accrued(asOf) ==
  IF TermDays = {} THEN 0
  ELSE IF asOf < Min(TermDays) THEN 0
  ELSE SumUp([cut \in Cuts(asOf) |-> SliceInterest(cut, asOf)])
----------------------------------------------------------------------------
(* Writing *)

\* the lines of a payload for one table, and what keeps it from being written
\* (planSeed)
LinesFor(p, name) == {k \in DOMAIN p : p[k].table = name}
SoundPayload(p) ==
  LET of(name) == LinesFor(p, name)
      known == {p[k].no : k \in of("rounds")} IN
  /\ of("rounds") # {} /\ Cardinality(known) = Cardinality(of("rounds"))
  /\ \A k \in of("rounds") \cup of("parent") \cup of("investment") : p[k].amount > 0
  /\ \A k \in of("parent") : p[k].no \in known \cup {NoValue}
  /\ \A k \in of("investment") : p[k].no \in known

\* the rows the database refuses: a round number twice, two reports of a round on
\* one day, a round that is not there, a deal or a report without one
NumberTaken(line) == RoundRows(line.no) # {}
RowRefused(line, round) ==
  \/ line.table = "rounds" /\ NumberTaken(line)
  \/ line.table = "reports" /\ \E r \in OfRound("reports", round) : r.line.date = line.date
  \/ line.table \in {"investment", "reports"} /\ round = NoValue
  \/ round # NoValue /\ \A r \in Table("rounds") : r.id # round
InsertRow(line, round) ==
  /\ fund_rows' = fund_rows \cup
       {[id |-> written_rows, table |-> line.table, round |-> round, line |-> line]}
  /\ written_rows' = written_rows + 1
RoomInFund == written_rows < MaxFund

FundInit ==
  /\ fund_rows = {} /\ written_rows = 0
  /\ seeder = [u \in Seeders |-> [step |-> "idle"]]
  /\ narrator = [step |-> "idle"]

\* requireAmount: an amount is positive; a term has none
AmountGiven(line) == "amount" \in DOMAIN line => line.amount > 0

\* addRound, addParentMove, addInvestmentMove, addInterestTerm, addFundReport and
\* the registers beside them; a term needs a rate, an investment its round
AddLine(line) ==
  \E round \in IF line.no = NoValue \/ line.table = "rounds" THEN {NoValue}
               ELSE {r.id : r \in RoundRows(line.no)} :
    /\ RoomInFund /\ AmountGiven(line) /\ ~RowRefused(line, round)
    /\ InsertRow(line, round)
    /\ UNCHANGED <<seeder, narrator>>

\* removeRow: what belongs to a round goes with it, save the loan, which is kept
\* without a round
RemoveRow(r) ==
  /\ fund_rows' =
       {IF s.round = r.id THEN [s EXCEPT !.round = NoValue] ELSE s :
          s \in {t \in fund_rows \ {r} : t.round # r.id \/ t.table = "parent"}}
  /\ UNCHANGED <<written_rows, seeder, narrator>>

\* seedCommit: nothing is there yet, the fund reports not counted
NothingYet == fund_rows = Table("reports")
BeginSeed(u, p) ==
  /\ seeder[u].step = "idle" /\ SoundPayload(p) /\ NothingYet
  /\ seeder' = [seeder EXCEPT ![u] = [step |-> "seed", payload |-> p, next |-> 1, ids |-> <<>>]]
  /\ UNCHANGED <<fund_rows, written_rows, narrator>>
IdFor(u, no) == IF no \in DOMAIN seeder[u].ids THEN seeder[u].ids[no] ELSE NoValue
\* roundIds.set
WithRound(ids, no) ==
  [n \in DOMAIN ids \cup {no} |-> IF n = no THEN written_rows ELSE ids[n]]
SeedLine(u) ==
  /\ seeder[u].step = "seed" /\ seeder[u].next \in DOMAIN seeder[u].payload /\ RoomInFund
  /\ LET line == seeder[u].payload[seeder[u].next]
         isRound == line.table = "rounds"
         round == IF isRound THEN NoValue ELSE IdFor(u, line.no) IN
     IF RowRefused(line, round)
     THEN /\ seeder' = [seeder EXCEPT ![u] = [step |-> "idle"]]
          /\ UNCHANGED <<fund_rows, written_rows>>
     ELSE /\ InsertRow(line, round)
          /\ seeder' = [seeder EXCEPT ![u] =
               [step |-> "seed", payload |-> @.payload, next |-> @.next + 1,
                ids |-> IF isRound THEN WithRound(@.ids, line.no) ELSE @.ids]]
  /\ UNCHANGED narrator
\* done, or cut off in the middle: what was written stays
EndSeed(u) ==
  /\ seeder[u].step = "seed"
  /\ seeder' = [seeder EXCEPT ![u] = [step |-> "idle"]]
  /\ UNCHANGED <<fund_rows, written_rows, narrator>>

----------------------------------------------------------------------------
(* The report: worded by a model, and held against the figures of the card *)

Narrate(n) == narrator' = n /\ UNCHANGED <<fund_rows, written_rows, seeder>>
AskModel ==
  /\ narrator.step = "idle"
  /\ Narrate([step |-> "asked", model |-> 1, retried |-> FALSE])
\* a model the key may not use is replaced by the other, at the first question
OtherModel ==
  /\ narrator.step = "asked" /\ narrator.model = 1 /\ ~narrator.retried
  /\ Narrate([narrator EXCEPT !.model = 2])
ModelFails == narrator.step = "asked" /\ Narrate([step |-> "idle"])
\* unmatchedNumbers: whether the text has numbers that are not among the figures,
\* however rounded (years and what is not above a hundred are let pass)
Invented == BOOLEAN
\* asked again once, and shown with a warning if they stay
Reply(invented) ==
  /\ narrator.step = "asked"
  /\ IF invented /\ ~narrator.retried
     THEN Narrate([narrator EXCEPT !.retried = TRUE])
     ELSE Narrate([step |-> "shown", ok |-> ~invented, retried |-> narrator.retried])
CloseReport == narrator.step = "shown" /\ Narrate([step |-> "idle"])

FundNext ==
  \/ \E line \in EnteredLines : AddLine(line)
  \/ \E r \in fund_rows : RemoveRow(r)
  \/ \E u \in Seeders : SeedLine(u) \/ EndSeed(u) \/ \E p \in Payloads : BeginSeed(u, p)
  \/ AskModel \/ OtherModel \/ ModelFails \/ \E invented \in Invented : Reply(invented)
  \/ CloseReport

FundSpec == FundInit /\ [][FundNext]_fundVars

----------------------------------------------------------------------------
\* Beside what was added by hand, the account of a round holds the lines of one
\* payload, each as often as it is there, however many requests seed at the same
\* moment ("seeding a ledger that has data doubles every entry", seedCommit).
SeededOnce ==
  \A rd \in Table("rounds") : \E p \in Payloads \cup {<<>>} :
    \A line \in {r.line : r \in Mine(fund_rows, rd)} \ EnteredLines :
      Cardinality({r \in Mine(fund_rows, rd) : r.line = line})
        <= Cardinality({k \in DOMAIN p : p[k] = line})

\* The slices of accrueInterest come to what the principal of every single day, at
\* the rate of that day, comes to: a slice never runs over a new term, a new loan
\* or a repayment.
InterestIsDaily ==
  \A asOf \in CardDays :
    Accrued(asOf) =
      SumUp([day \in IF TermDays = {} THEN {} ELSE Min(TermDays)..asOf |-> DayInterest(day)])

\* The rounds of the card come to the tables they are summed from, whatever was
\* seeded by halves, added or removed: no move of the investment hangs on a round
\* that is gone, and of the loan only what names no round is left out of them; the
\* report gives the same totals, and the book value is the capital at the fund with
\* the shares in its result.
RoundsTakeEverything ==
  LET card == ByRound IN
  /\ Figure(card, "capital") - Figure(card, "gain")
       = Money(Deals("contribution")) - Money(Confirmed)
  /\ Figure(card, "gap")
       = Money(Deals("contribution")) - Money({r \in Loans("funding") : r.round # NoValue})
  /\ CardHead(card).value # NoValue =>
       CardHead(card).value = ReportFigures(card).capital + ReportFigures(card).share

\* Without an alert on the loan of a round, the money invested was lent: a round that
\* was lent too much, or a loan that lost its round, hides no gap of another (alerts).
AlertsAreHeard ==
  (\A alert \in Alerts(ByRound) : alert.kind \notin {"no facility", "gap"}) =>
    CardHead(ByRound).invested <= CardHead(ByRound).borrowed

\* The account is seeded once, and every figure of the card is what its rows give.
FundAddsUp == SeededOnce /\ InterestIsDaily /\ RoundsTakeEverything /\ AlertsAreHeard
=============================================================================
