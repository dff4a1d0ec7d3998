------------------------------ MODULE MCOffice ------------------------------
(***************************************************************************)
(* The desks of the office for TLC: the master data of the ledger, the     *)
(* drafts from documents, the ledger reports, the stone fund, the crew     *)
(* salaries, the migration of old invoices, the fleet's dashboard, the     *)
(* card of Monte, the cost of goods and the voyages of the sheet.  They    *)
(* share no row, so a behaviour works at one of them, chosen at the start. *)
(*                                                                         *)
(* The desks that something is proved about are extended, with the         *)
(* constants given here; the others are instances.                         *)
(***************************************************************************)
EXTENDS DocumentBridge, CrewBatches, LegacyMigration, CostImports, MonteCard,
  FleetCache, VoyageSheets, LedgerReports, StoneFund, TLC

CONSTANTS u1, u2,  \* requests
          c1, c2,  \* cycles
          Nothing

VARIABLES
  desk,
  entry_status, entry_no, reversed_by, body, period_status, next_entry_no, is_active, fx, pc, req

Two == {u1, u2}
OfficeSymmetry == Permutations(Two)

----------------------------------------------------------------------------
(* The ledger: one request at a time, and the accounts and rates it reads *)

Purchase == ("cash" :> -1 @@ "cost" :> 1)
Refund == ("cash" :> 1 @@ "cost" :> -1)
Ledger == INSTANCE GeneralLedger WITH
  Users <- {0}, Entries <- {1, 2}, Years <- {1}, LastPeriod <- 1,
  EventTypes <- {"manual", "opening_balance"}, Sources <- {"document"},
  Accounts <- {"cash", "cost"}, Managed <- {"cash"}, Nominal <- {"cost"},
  LineSets <- {Purchase, Refund}, Rates <- {"card"}, RateValues <- {1}, None <- Nothing,
  status <- entry_status

\* An entry reaches the ledger on accounts that are active at that moment (post).
PostingChecksSetup == Ledger!PostingChecksSetup

----------------------------------------------------------------------------
(* Documents: an invoice paid in parts, and a hire released over two periods *)

MCTotal == <<2>>
MCNumber == <<"n">>
MCPayments ==
  {[id |-> 1, invoice |-> 1, amount |-> 1], [id |-> 2, invoice |-> 1, amount |-> 1]}

MCHires == {[id |-> 1, total |-> 3, from |-> 1, to |-> 2]}
MCPeriods == {[from |-> 1, to |-> 1], [from |-> 2, to |-> 3]}
Charter == INSTANCE DocumentBridge WITH
  Invoices <- {}, InvoiceTotal <- <<>>, Number <- <<>>, Payments <- {},
  ApprovedRates <- {1}, Hires <- MCHires, ReleasePeriods <- MCPeriods

----------------------------------------------------------------------------
(* Reports: a chart with a settled payable, and expenses in no known group *)

Account(place, type, group, role) ==
  [code |-> place, type |-> type, group |-> group, role |-> role]
MCChart ==
  ("bank" :> Account(1, "asset", "", "")) @@ ("rev" :> Account(5, "revenue", "", ""))
  @@ ("ap" :> Account(3, "liability", "", "ACCOUNTS_PAYABLE"))
  @@ ("ar" :> Account(2, "asset", "", "ACCOUNTS_RECEIVABLE"))
  @@ ("exp" :> Account(6, "expense", "OTHER", ""))
  @@ ("rp" :> Account(4, "liability", "RELATED_PARTY", "RELATED_PARTY"))
Leg(code, debit, credit, supplier, customer) ==
  [account |-> code, debit |-> debit, credit |-> credit,
   supplier |-> supplier, customer |-> customer]
MCBookings ==
  {[date |-> 1, lines |-> <<Leg("exp", 2, 0, Nothing, Nothing), Leg("ap", 0, 1, "s", Nothing),
                            Leg("rp", 0, 1, "s", Nothing)>>],
   [date |-> 2, lines |-> <<Leg("ap", 1, 0, Nothing, Nothing),
                            Leg("bank", 0, 1, Nothing, Nothing)>>],
   [date |-> 2, lines |-> <<Leg("ar", 3, 0, Nothing, "c"),
                            Leg("rev", 0, 3, Nothing, Nothing)>>]}
MCAsked == {[from |-> 2, to |-> 2]}

----------------------------------------------------------------------------
(* The fund: two payloads for one round, one with a loan for no round of it *)

Round(no) == [table |-> "rounds", no |-> no, amount |-> 4]
Loan(no, way, kind, date, amount) ==
  [table |-> "parent", no |-> no, way |-> way, kind |-> kind, date |-> date, amount |-> amount]
Deal(no, way, state, date, amount) ==
  [table |-> "investment", no |-> no, way |-> way, status |-> state, date |-> date,
   amount |-> amount]
Term(date, percent, basis) ==
  [table |-> "terms", no |-> Nothing, date |-> date, rate |-> percent, basis |-> basis]
Report(no, date) == [table |-> "reports", no |-> no, date |-> date, amount |-> 8, result |-> 2]
MCPayloads ==
  {<<Round(7), Loan(7, "funding", "principal", 1, 3), Deal(7, "contribution", "none", 2, 3)>>,
   <<Round(7), Loan(8, "funding", "principal", 1, 3)>>}
MCLines ==
  {Round(7), Loan(Nothing, "repayment", "principal", 2, 1), Deal(7, "repatriation", "confirmed", 3, 4),
   Deal(7, "repatriation", "announced", 3, 0), Term(1, 1, "ACT/360"), Term(3, 2, "ACT/365"), Report(7, 2)}

----------------------------------------------------------------------------
(* Salaries: one seafarer, of two vessels and two currencies of contract *)

MCMaxFiles == [c \in Cycles |-> IF c = c1 THEN 2 ELSE 1]
MCMaxVersions == [c \in Cycles |-> IF c = c1 THEN 2 ELSE 1]
MCMaxRows == [c \in Cycles |-> IF c = c1 THEN 2 ELSE 0]

----------------------------------------------------------------------------
(* The migration: an old invoice, an old credit note, and one of the system *)

Old(currency, amount, shown) ==
  [ccy |-> currency, total |-> amount, paid |-> shown, origin |-> "operational",
   status |-> IF shown = 0 THEN "unpaid" ELSE "paid", basis |-> "none", batch |-> FALSE]
MCManifest == <<[ccy |-> "usd", total |-> 2], [ccy |-> "eur", total |-> -1]>>
MCBasis == <<"pre_system_settled", "credit_note">>
MCEdits == <<{[ccy |-> "usd", total |-> 2], [ccy |-> "eur", total |-> 2]}, {}, {}>>
MCTransfers ==
  {[no |-> 1, invoice |-> 1, amount |-> 1], [no |-> 2, invoice |-> 1, amount |-> 1],
   [no |-> 3, invoice |-> 2, amount |-> 1], [no |-> 4, invoice |-> 3, amount |-> 2]}
MCOpened == <<Old("usd", 2, 2), Old("eur", -1, 1), Old("usd", 2, 0)>>

----------------------------------------------------------------------------
(* The fleet: a good sheet, one that lost a column, one that lost its header *)

Cell(form, value) == [form |-> form, value |-> value]
Sailed == ("vessel" :> Cell("name", "x")) @@ ("month" :> Cell("month", 1))
Sums == ("net" :> Cell("brackets", 2)) @@ ("trucks" :> Cell("number", 3))
Trip == ("vessel" :> Cell("name", "x")) @@ ("ref" :> Cell("name", "r"))
        @@ ("date" :> Cell("month", 1)) @@ ("line" :> Cell("name", "l"))
Tab(samples) == [columns |-> UNION {DOMAIN row : row \in samples}, rows |-> samples]
MCWorkbooks ==
  {[monthly |-> Tab({Sailed @@ Sums}), voyages |-> Tab({Trip @@ Sums}), imported |-> TRUE],
   [monthly |-> Tab({Sailed @@ ("net" :> Cell("number", 5)),
                     ("vessel" :> Cell("name", "y")) @@ ("month" :> Cell("blank", 0))
                       @@ ("net" :> Cell("number", 4))}),
    voyages |-> Nothing, imported |-> TRUE],
   [monthly |-> Tab({("month" :> Cell("month", 1)) @@ Sums}), voyages |-> Nothing,
    imported |-> FALSE]}

----------------------------------------------------------------------------
(* The card of Monte: three packages that agree with themselves and one that   *)
(* does not                                                                    *)

Part(kind, usd, excluded) == [kind |-> kind, usd |-> usd, excluded |-> excluded]
Sailing(no, m, rev, cost) ==
  [no |-> no, month |-> m, rev |-> rev, cost |-> cost,
   items |-> <<Part("rev", rev, FALSE), Part("cost", -cost, FALSE), Part("cost", -5, TRUE)>>]
MonthLine(m, vnet, trips, regular, items, fixed) ==
  [month |-> m, vnet |-> vnet, trips |-> trips, pos |-> 1, regular |-> regular, items |-> items,
   fixed |-> fixed, net |-> vnet + 1 + fixed]
Package(at, voyages, months) == [at |-> at, voyages |-> voyages, monthly |-> months]
OneMonth == <<MonthLine(1, 7, 1, -1, <<>>, -1)>>
TwoMonths == <<MonthLine(1, 7, 1, -1, <<>>, -1),
               MonthLine(2, 2, 1, -1, <<[key |-> "stores", usd |-> -2]>>, -3)>>
MCPackages ==
  {Package(1, <<Sailing(1, 1, 10, 3)>>, OneMonth),
   Package(2, <<Sailing(1, 1, 10, 3), Sailing(2, 2, 4, 2), Sailing(7, 2, 9, 9)>>, TwoMonths),
   Package(Nothing, <<Sailing(1, 1, 10, 3)>>, OneMonth),
   Package(3, <<Sailing(1, 1, 10, 4)>>, OneMonth)}
Sent(kind, m, value) == [kind |-> kind, month |-> m, value |-> value, document |-> TRUE]
MCEntered == {Sent("salary", 2, 5), Sent("egp_rate", Nothing, 48), Sent("egp_rate", Nothing, 3)}
MCAcceptable == [salary |-> 0..9, egp_rate |-> 20..150]

----------------------------------------------------------------------------
(* Costs: the file of a year, a month later with an edited memo and a new line, *)
(* and one with a line twice and a line in error                                *)

Bought(code, paper, date, amount, memo, spread) ==
  [code |-> code, doc |-> paper, date |-> date, amount |-> amount, memo |-> memo,
   months |-> spread, readable |-> TRUE]
Spare == Bought("504", "a", 1, 5, "m", 12)
Water == Bought("53203", "b", 1, 3, "m", 2)
Strange == Bought("999", "c", 3, 2, "m", Nothing)
MCFiles ==
  {[until |-> 2, lines |-> <<Spare, Water>>],
   [until |-> Nothing, lines |-> <<[Spare EXCEPT !.memo = "edited"], Strange>>],
   [until |-> 2, lines |-> <<Water, Strange>>],
   [until |-> Nothing, lines |-> <<Strange, Strange>>],
   [until |-> Nothing, lines |-> <<[Spare EXCEPT !.readable = FALSE]>>]}
Rule(category, charged) == [category |-> category, charged |-> charged]
MCRules ==
  {("504" :> Rule("maintenance", TRUE)) @@ ("53203" :> Rule("water", FALSE)),
   ("504" :> Rule("maintenance", FALSE)) @@ ("53203" :> Rule("water", TRUE))}
MCByHand == {Bought("insurance", "p", 1, 12, "m", 12)}

----------------------------------------------------------------------------
(* The voyages: one of each vessel, and what can be wrong with a row *)

On(year, m) == [year |-> year, month |-> m]
Typed(vessel, line, ref, left, reached, parts) ==
  [vessel |-> vessel, line |-> line, ref |-> ref, exp |-> left, imp |-> reached, year |-> 0,
   items |-> parts, income |-> 0, comm |-> 0, man |-> 0, net |-> 2, liq |-> 5, flag |-> FALSE,
   readable |-> TRUE]
Revenues == (<<"tr", "E">> :> 9) @@ (<<"aa", "-">> :> 3) @@ (<<"hire", "-">> :> 4)
MCVoyages ==
  {Typed("alcudia", "duba", 41, On(204, 11), On(2025, 12), <<"pk", "I">> :> 1),
   Typed("poseidon", "duba", 2, On(2026, 1), Nothing, <<"pk", "E">> :> 1),
   [Typed("alcudia", "duba", 3, On(204, 1), Nothing, <<"oth", "E">> :> 1) EXCEPT !.year = 2026],
   Typed("daleela", "duba", 5, On(2025, 8), Nothing, <<"aa", "E">> :> 3),
   [Typed("daleela", "jeddah", 5, On(2026, 13), On(2026, 1), Revenues)
      EXCEPT !.income = 9, !.comm = 3, !.man = 4],
   [Typed("monte", "jeddah", 1, On(2026, 10), Nothing, Revenues)
      EXCEPT !.income = 9, !.man = 6, !.net = 3, !.flag = TRUE],
   [Typed("monte", "jeddah", 2, On(2026, 10), Nothing, Revenues) EXCEPT !.net = 0],
   [Typed("daleela", "jeddah", 6, On(2026, 1), Nothing, Revenues) EXCEPT !.readable = FALSE]}
OnLine(vessel) == [vessel |-> vessel, line |-> "jeddah"]
MCDuba ==
  [Alcudia |-> [vessel |-> "alcudia", E |-> {"oth", "aa", "ab", "ac", "ad", "ae", "brk", "pg"},
                I |-> {"fw", "r", "s", "t", "sd", "eb", "tel", "oth", "pk"}],
   Poseidon |-> [vessel |-> "poseidon",
                 E |-> {"oth", "aa", "ab", "ac", "ad", "ae", "brk", "pg", "pk"},
                 I |-> {"fw", "r", "s", "t", "sd", "eb", "tel", "oth", "pk", "pg"}],
   Pelagos |-> [vessel |-> "pelagos", E |-> {"ab", "fz", "ad", "ae", "ac", "pg"},
                I |-> {"r", "s", "t", "fw", "oth", "eb", "pk"}]]
MCJeddah ==
  [DaleelaJS |-> OnLine("daleela"), AmmanJS |-> OnLine("amman"), MonteJS |-> OnLine("monte")]

----------------------------------------------------------------------------
general == <<entry_status, entry_no, reversed_by, body, period_status, next_entry_no,
             is_active, fx, pc, req>>
others == <<migrationVars, fleetVars, cardVars, costVars, sheetVars>>
officeVars == <<desk, general, bridgeVars, reportVars, fundVars, crewVars, others>>

Desks ==
  {"ledger", "supplier", "charter", "reports", "fund", "crew",
   "archive", "fleet", "monte", "costs", "voyages"}
OfficeInit ==
  /\ desk \in Desks
  /\ Ledger!Init /\ BridgeInit /\ ReportsInit
  /\ FundInit /\ CrewInit /\ MigrationInit /\ FleetInit
  /\ CardInit /\ CostInit /\ SheetInit
  /\ desk # "crew" => rate = 0
  /\ desk # "costs" => rules["504"].charged
  /\ tables[1].rows \in {{}} \cup (IF desk = "voyages" THEN {MCVoyages} ELSE {})
  /\ desk # "fleet" => sheets[1].book.voyages # Nothing
OfficeNext ==
  \/ desk = "ledger" /\ Ledger!Next /\ UNCHANGED <<desk, bridgeVars, reportVars, fundVars, crewVars, others>>
  \/ /\ \/ desk = "archive" /\ MigrationNext /\ UNCHANGED <<fleetVars, cardVars, costVars, sheetVars>>
        \/ desk = "fleet" /\ FleetNext /\ UNCHANGED <<migrationVars, cardVars, costVars, sheetVars>>
        \/ desk = "monte" /\ CardNext /\ UNCHANGED <<migrationVars, fleetVars, costVars, sheetVars>>
        \/ desk = "costs" /\ CostNext /\ UNCHANGED <<migrationVars, fleetVars, cardVars, sheetVars>>
        \/ desk = "voyages" /\ SheetNext /\ UNCHANGED <<migrationVars, fleetVars, cardVars, costVars>>
     /\ UNCHANGED <<desk, general, bridgeVars, reportVars, fundVars, crewVars>>
  \/ /\ UNCHANGED <<desk, general, others>>
     /\ \/ /\ \/ desk = "supplier" /\ BridgeNext
              \/ desk = "charter" /\ Charter!BridgeNext
           /\ UNCHANGED <<reportVars, fundVars, crewVars>>
        \/ desk = "reports" /\ ReportsNext /\ UNCHANGED <<bridgeVars, fundVars, crewVars>>
        \/ desk = "fund" /\ FundNext /\ UNCHANGED <<bridgeVars, reportVars, crewVars>>
        \/ desk = "crew" /\ CrewNext /\ UNCHANGED <<bridgeVars, reportVars, fundVars>>
OfficeSpec == OfficeInit /\ [][OfficeNext]_officeVars
=============================================================================
