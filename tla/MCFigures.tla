----------------------------- MODULE MCFigures -----------------------------
(***************************************************************************)
(* The figures of a month for TLC: the account of the partners, the hire   *)
(* invoices with their commissions, depreciation by hand and by schedule,  *)
(* the prepaid contracts, the division of a period's profit, the cases of  *)
(* the salaries and the shares of the market.  They share no row, so a     *)
(* behaviour is about one of them, chosen at the start.                    *)
(*                                                                         *)
(* ProfitRatification, HireInvoices and Depreciation, of which something   *)
(* is proved, are extended with the constants given here; the account is   *)
(* the one of MCProfitRatification.                                        *)
(***************************************************************************)
EXTENDS MCProfitRatification, HireInvoices, Depreciation

VARIABLES
  sheet_of,
  prepaid, clock, amort, entered, runner,
  sheet, fetched, kept, edits,
  files, decided, taken,
  records, history, written, desk

----------------------------------------------------------------------------
(* Hire invoices: one request over an invoice and its note, two over an invoice *)

Item(kind, amount) == [kind |-> kind, amount |-> amount]
Invoice(ruled, total, items) ==
  [type |-> "invoice", of |-> Nothing, ruled |-> ruled, total |-> total, ccy |-> "eur",
   items |-> items]
MCDocuments ==
  {Invoice(TRUE, 2, Nothing), Invoice(TRUE, 1, <<Item("hire", 3), Item("other", -2)>>),
   [Invoice(FALSE, 2, <<Item("hire", 2)>>) EXCEPT !.ccy = "usd"],
   [Invoice(TRUE, 1, Nothing) EXCEPT !.type = "credit_note", !.of = 1]}
MCRate == "x" :> 1
Together == INSTANCE HireInvoices WITH
  Clerks <- Users, Papers <- {1}, MaxHireRows <- 2

----------------------------------------------------------------------------
(* Depreciation: one vessel, whose cost is one charge more than the range asked for *)

MCPlans == {[amount |-> 1, start |-> 1, end |-> 2]}

----------------------------------------------------------------------------
(* Amortization: contracts that share accounts and months *)

Contract(total, start, end, expense, monthly) ==
  [total |-> total, start |-> start, end |-> end, expense |-> expense, prepaid |-> "p",
   monthly |-> monthly]
Prepaid == INSTANCE Amortization WITH
  Runners <- {1}, References <- {"r", "q"}, NoTerms <- Nothing,
  Terms <- {Contract(3, 1, 2, "x", 1), Contract(2, 2, 2, "y", 0)},
  Accounts <- {"x", "y", "p"}, LastMonth <- 2, MaxEntered <- 3

\* A run to the end of the contracts leaves no cent of them behind (runAmortization).
RunsExhaust == Prepaid!RunsExhaust

----------------------------------------------------------------------------
(* Profit: rows of three vessels, one on another line, one without a line, one *)
(* that does not agree with itself, one whose treasury is empty                *)

Voyage(vessel, ref, day, line, net, bunker, duba, overPax, trucks) ==
  [vessel |-> vessel, ref |-> ref, day |-> day, line |-> line, income |-> net * 12,
   net |-> net * 6, bunker |-> bunker * 6, duba |-> duba * 6,
   safaga |-> (net + bunker - duba) * 6, overPax |-> overPax * 6, trucks |-> trucks * 12]
MCVoyages ==
  {Voyage("poseidon", 1, 1, 1, 10, 2, 7, 3, 4), Voyage("poseidon", 2, 3, 1, 5, 1, 1, 0, 1),
   Voyage("amal", 1, 2, 1, 8, 1, 9, 1, 2),
   [Voyage("amal", 2, 2, 1, 4, 1, 2, 0, 2) EXCEPT !.safaga = 0],
   [Voyage("poseidon", 3, 2, 1, 6, 1, 0, 1, 2) EXCEPT !.safaga = 0],
   Voyage("daleela", 1, 1, Nothing, 3, 1, 2, 2, 1), Voyage("daleela", 1, 2, 2, 9, 1, 2, 2, 1)}
Profit == INSTANCE ProfitDistribution WITH
  Voyages <- MCVoyages, Line <- 1, From <- 1, To <- 2, Ranges <- {{}, {1, 2}},
  DailyRate <- [poseidon |-> 18, amal |-> 12, daleela |-> 6],
  Commission <- 50, PerVoyage <- 6, Ratio <- [badawi |-> 50, ittihad |-> 50],
  SafagaCash <- [badawi |-> 3, ittihad |-> 1], Bunker <- [badawi |-> 2, ittihad |-> 0],
  Adjustments <- {12}, MaxEdits <- 3, period <- kept

\* No method makes or loses money, and the bridge between the two in use closes
\* (calculateDistribution, calculateProposed, calculateLegacy).
DistributionsAddUp == sheet_of = "profit" => Profit!DistributionsAddUp

----------------------------------------------------------------------------
(* Salaries: two exports, one of them with a seafarer in both currencies; a       *)
(* message, its correction with another amount in the first row and another note  *)
(* in the same paragraph, and a message with a row that is nobody's and an item   *)
(* without a currency; a payout sheet                                             *)

Exported(id, currency, start, finish, final, advance) ==
  [id |-> id, currency |-> currency, start |-> start, finish |-> finish, final |-> final,
   basic |-> 60, leave |-> 30, advance |-> advance]
OfMessage(no, id, name, currency, items) ==
  [no |-> no, id |-> id, name |-> name, currency |-> currency, items |-> items]
Amount(kind, amount) == [kind |-> kind, amount |-> amount]
Paid(no, name, kind, amount, currency) ==
  [no |-> no, name |-> name, kind |-> kind, amount |-> amount, currency |-> currency]
Noted(amount) == [no |-> 9, amount |-> amount]
MCSources ==
  {[kind |-> "cfm",
    rows |-> {Exported(1, "USD", 1, 31, FALSE, 0), Exported(2, "EUR", 3, 20, TRUE, 4)}],
   [kind |-> "cfm",
    rows |-> {Exported(1, "USD", 1, 9, TRUE, 0), Exported(1, "EUR", 10, 31, FALSE, 0)}],
   [kind |-> "email", notes |-> {Noted(6)},
    rows |-> {OfMessage(1, 1, "a", Nothing, {Amount("bonus", 10)})}],
   [kind |-> "email", notes |-> {Noted(8)},
    rows |-> {OfMessage(1, 1, "a", Nothing,
                        {Amount("bonus", 12), Amount("captain_bonus", Nothing)})}],
   [kind |-> "email", notes |-> {},
    rows |-> {OfMessage(2, Nothing, "b", "EUR", {Amount("unclassified", 8)}),
              OfMessage(3, 3, "c", Nothing, {Amount("luggage", 3)})}],
   [kind |-> "payout",
    rows |-> {Paid(1, "a", "bonus", 10, Nothing), Paid(2, "b", "cash_advance", 4, "EUR")}]}
Note == <<"note", 9>>
Bonus == <<"email", 1, "bonus">>
Luggage == <<"email", 3, "luggage">>
Decision(kind, target, value) == [kind |-> kind, target |-> target, value |-> value]
Claim(id, currency, kind, amount) ==
  Decision("supplementary", Note,
           [id |-> id, currency |-> currency, kind |-> kind, amount |-> amount])
MCDecisions ==
  {Decision("link", "b", 1), Decision("link", "b", 2), Decision("link", "a", 2),
   Decision("rate", "EUR", 2), Decision("payment_currency", <<1, "USD">>, "EUR"),
   Decision("review", Bonus, "accepted"), Decision("review", Bonus, "rejected"),
   Decision("review", <<"payout", 1, "bonus">>, "accepted"),
   Decision("review", <<"payout", 2, "cash_advance">>, "accepted"),
   Decision("review", <<"cfm", 2, "cash_advance">>, "accepted"),
   Decision("review", <<"supp", Note>>, "accepted"),
   Decision("classify", <<"email", 2, "unclassified">>, "bonus"),
   Decision("currency", Luggage, "USD"), Decision("review", Luggage, "accepted"),
   Decision("resolve", Note, TRUE), Decision("resolve", <<"currency", Luggage>>, TRUE),
   Claim(2, "EUR", "lashing", 6), Claim(3, "USD", "cash_advance", 7)}
Salaries == INSTANCE SalarySources WITH
  Files <- MCSources, Decisions <- MCDecisions, NamesOf <- <<{"a"}, {"b"}, {"c"}>>,
  MonthEnd <- 31, MaxDecisions <- 4

\* Nothing falls away in silence, and nothing is paid twice (assemble, computeEntry).
NothingFallsAway == sheet_of = "salaries" => Salaries!NothingFallsAway
\* What takes the place of another item or note begins unreviewed (assemble).
ImportsBeginPending == Salaries!ImportsBeginPending

(* Market: files that overlap, two admins *)

Line(m, ship, agency, out, back, load, unload) ==
  [month |-> m, ship |-> ship, agency |-> agency,
   out |-> out, back |-> back, load |-> load, unload |-> unload]
Served(ship, agency, from, to) == [ship |-> ship, agency |-> agency, from |-> from, to |-> to]
MCImports ==
  {[lines |-> <<Line(1, "x", "b", 3, 2, 1, 4), Line(1, "y", Nothing, 1, 2, 0, 3),
                Line(1, "x", "c", 9, 9, 9, 9), Line(3, "x", "b", 4, 4, 6, 0)>>,
    history |-> {Served("x", "b", 2, Nothing)}],
   [lines |-> <<Line(3, "x", "c", 1, 0, 2, 2), Line(Nothing, "x", "c", 7, 7, 0, 0),
                Line(3, "y", "c", 2, 5, 0, 8), Line(2, "y", "b", 0, 0, 0, 0)>>,
    history |-> {Served("x", "c", 5, Nothing), Served("y", "b", 2, 5)}],
   [lines |-> <<Line(2, "x", "b", 2, 2, 3, 1), Line(1, "y", "c", 0, 0, 0, 0),
                Line(4, "x", "b", 0, -1, 0, 0), Line(4, "x", "b", 0, 0, 0, 0)>>,
    history |-> {}]}
Market == INSTANCE MarketShares WITH
  Admins <- {1, 2}, Imports <- MCImports, Ships <- {"x", "y"}, Agencies <- {"b", "c"},
  Halves <- {5}, Months <- {2, 3}, Year <- 2, MaxHistory <- 3,
  serial <- written

\* The agencies, the steps and the ships come to the market (growthWaterfall).
PartsAreTheWhole == sheet_of = "market" => Market!PartsAreTheWhole

----------------------------------------------------------------------------
account == <<period, rows, pc, req, todo, cut>>
amortization == <<prepaid, clock, amort, entered, runner>>
profit == <<sheet, fetched, kept, edits>>
salaries == <<files, decided, taken>>
market == <<records, history, written, desk>>
others == <<depreciationVars, amortization, profit, salaries, market>>
figureVars == <<sheet_of, account, hireVars, others>>

FiguresInit ==
  /\ sheet_of \in {"account", "hire", "hire together", "charges", "prepaid", "profit",
                  "salaries", "market"}
  /\ Init /\ DepreciationInit /\ Prepaid!AmortizationInit /\ Profit!PeriodInit
  /\ Salaries!SourceInit /\ Market!MarketInit
  /\ IF sheet_of = "hire" THEN HireInit ELSE Together!HireInit
FiguresNext ==
  /\ sheet_of' = sheet_of
  /\ \/ sheet_of = "account" /\ Next /\ UNCHANGED <<hireVars, others>>
     \/ sheet_of = "hire" /\ HireNext /\ UNCHANGED <<account, others>>
     \/ sheet_of = "hire together" /\ Together!HireNext /\ UNCHANGED <<account, others>>
     \/ /\ UNCHANGED <<account, hireVars>>
        /\ \/ /\ sheet_of = "charges" /\ DepreciationNext
              /\ UNCHANGED <<amortization, profit, salaries, market>>
           \/ /\ sheet_of = "prepaid" /\ Prepaid!AmortizationNext
              /\ UNCHANGED <<depreciationVars, profit, salaries, market>>
           \/ /\ sheet_of = "profit" /\ Profit!PeriodNext
              /\ UNCHANGED <<depreciationVars, amortization, salaries, market>>
           \/ /\ sheet_of = "salaries" /\ Salaries!SourceNext
              /\ UNCHANGED <<depreciationVars, amortization, profit, market>>
           \/ /\ sheet_of = "market" /\ Market!MarketNext
              /\ UNCHANGED <<depreciationVars, amortization, profit, salaries>>
FiguresSpec == FiguresInit /\ [][FiguresNext]_figureVars
=============================================================================
