------------------------------ MODULE FleetCache ------------------------------
(***************************************************************************)
(* The fleet dashboard (FleetService): a shared sheet read over the        *)
(* network, parsed by its headers, kept in the memory of the process for   *)
(* CacheTime, and shown again, marked as old, when it cannot be read.      *)
(*                                                                         *)
(* Requests run concurrently: each may find the cache expired, fetch, and  *)
(* write the cache when its own answer arrives.                            *)
(***************************************************************************)
EXTENDS Integers, Sequences

CONSTANTS
  Readers,
  Workbooks,    \* what the sheet may become: [monthly, voyages, imported]
  MonthlyLabels, VoyageLabels,
  CacheTime,    \* CACHE_MS
  Timeout,      \* of the request
  ImportLimit,  \* half a day without an import
  LastTick, MaxSheets,  \* bounds
  Nil

VARIABLES
  clock,
  sheets,   \* the sheet's contents one after the other: [book, from, imported]
  cached,   \* [data, at], or Nil after a restart
  fetching, \* the request of each reader: [since, got], or Nil
  answered  \* the answer just given: [data, stale], or Nil

fleetVars == <<clock, sheets, cached, fetching, answered>>

----------------------------------------------------------------------------
(* A tab is [columns, rows], a row a cell for each column, or there is none *)

Unsigned(n) == IF n < 0 THEN -n ELSE n

\* num: a number, an amount in brackets, or what is no number at all
num(cell) ==
  CASE cell.form = "number" -> cell.value
    [] cell.form = "brackets" -> -Unsigned(cell.value)
    [] OTHER -> 0
toMonth(cell) == IF cell.form = "month" THEN cell.value ELSE Nil
norm(cell) == IF cell.form = "name" THEN cell.value ELSE ""

\* colIndex, findHeaderRow: by the words of the header, never by place
Has(tab, label) == label \in tab.columns
CellOf(tab, row, label) == IF Has(tab, label) THEN row[label] ELSE [form |-> "blank"]
HeaderFound(tab, words) == tab # Nil /\ \A w \in words : Has(tab, w)

\* report: the labels no column was found for
Missing(tab, labels) == {l \in labels : ~Has(tab, l)}

\* The labels that are no figures
Words == {"vessel", "line", "month", "date", "ref", "direction"}
Unread(missing) == [rows |-> {}, missing |-> missing]
Parsed(tab, words, labels, month) ==
  IF tab = Nil THEN Unread({"tab"})
  ELSE IF ~HeaderFound(tab, words) THEN Unread({"header"})
  ELSE [rows |->
          {[vessel |-> norm(CellOf(tab, row, "vessel")), month |-> month[row],
            line |-> norm(CellOf(tab, row, "line")),
            figures |-> [l \in labels \ Words |-> num(CellOf(tab, row, l))]] :
             row \in {r \in tab.rows : norm(CellOf(tab, r, "vessel")) # "" /\ month[r] # Nil}},
        missing |-> Missing(tab, labels)]

parseMonthly(tab) ==
  LET monthOf == [row \in tab.rows |-> toMonth(CellOf(tab, row, "month"))] IN
  Parsed(tab, {"vessel", "month"}, MonthlyLabels, monthOf)
parseVoyages(tab) ==
  LET own(row) == toMonth(CellOf(tab, row, "month"))
      monthOf == [row \in tab.rows |->
                   IF own(row) # Nil THEN own(row) ELSE toMonth(CellOf(tab, row, "date"))] IN
  Parsed(tab, {"vessel", "ref"}, VoyageLabels, monthOf)

\* lastImport_: the last total of the log, and whether it is of half a day ago;
\* no log is as bad as an old one
importStale(n) ==
  sheets[n].imported = Nil \/ clock - sheets[n].imported > ImportLimit

Dashboard(book, stale) ==
  LET m == parseMonthly(book.monthly) IN
  [monthly |-> m, voyages |-> parseVoyages(book.voyages),
   vessels |-> {row.vessel : row \in m.rows}, months |-> {row.month : row \in m.rows},
   lines |-> {row.line : row \in m.rows} \ {""},
   importStale |-> stale]
DashboardOf(n) == Dashboard(sheets[n].book, importStale(n))

ASSUME FleetAssumption ==
  /\ CacheTime \in Nat \ {0} /\ Timeout \in Nat /\ ImportLimit \in Nat
  /\ \A book \in Workbooks, stale \in BOOLEAN : Dashboard(book, stale) # Nil

----------------------------------------------------------------------------
(* Answers *)

Answer(data, stale) == answered' = [data |-> data, stale |-> stale]

\* The catch and the empty sheet: the last good copy, stamped; or an error
FallBack == Answer(IF cached = Nil THEN Nil ELSE cached.data, TRUE)

AnyCopy(refresh) == ~refresh /\ cached # Nil \* mutant: the copy never expires
Current(refresh) == ~refresh /\ cached # Nil /\ clock - cached.at < CacheTime

Ask(r, refresh) ==
  /\ fetching[r] = Nil
  /\ \/ /\ Current(refresh)
        /\ Answer(cached.data, FALSE)
        /\ UNCHANGED fetching
     \/ /\ ~Current(refresh)
        /\ fetching' = [fetching EXCEPT ![r] = [since |-> clock, got |-> Nil]]
        /\ answered' = Nil
  /\ UNCHANGED <<clock, sheets, cached>>

\* The sheet is exported as it is at that moment; the answer is under way
Export(r) ==
  /\ fetching[r] # Nil /\ fetching[r].got = Nil
  /\ fetching' = [fetching EXCEPT ![r].got = Len(sheets)]
  /\ answered' = Nil
  /\ UNCHANGED <<clock, sheets, cached>>

Usable(data) == data.monthly.rows # {}
Arrive(r) ==
  /\ fetching[r] # Nil /\ fetching[r].got # Nil
  /\ \E data \in {DashboardOf(fetching[r].got)} :
       IF Usable(data)
       THEN cached' = [data |-> data, at |-> clock] /\ Answer(data, FALSE)
       ELSE FallBack /\ UNCHANGED cached
  /\ fetching' = [fetching EXCEPT ![r] = Nil]
  /\ UNCHANGED <<clock, sheets>>
Fail(r) ==
  /\ fetching[r] # Nil
  /\ FallBack
  /\ fetching' = [fetching EXCEPT ![r] = Nil]
  /\ UNCHANGED <<clock, sheets, cached>>

----------------------------------------------------------------------------
(* The world *)

\* The pipeline imports into the sheet, or somebody changes it by hand
Change(book) ==
  /\ Len(sheets) < MaxSheets
  /\ sheets' = Append(sheets,
       [book |-> book, from |-> clock,
        imported |-> IF book.imported THEN clock ELSE sheets[Len(sheets)].imported])
  /\ answered' = Nil
  /\ UNCHANGED <<clock, cached, fetching>>

\* A request does not outlive its timeout
Tick ==
  /\ clock < LastTick
  /\ \A r \in Readers : fetching[r] # Nil => clock - fetching[r].since < Timeout
  /\ clock' = clock + 1
  /\ answered' = Nil
  /\ UNCHANGED <<sheets, cached, fetching>>

\* The copy is a variable of the process
Restart ==
  /\ cached # Nil
  /\ cached' = Nil
  /\ fetching' = [r \in Readers |-> Nil]
  /\ answered' = Nil
  /\ UNCHANGED <<clock, sheets>>

FleetInit ==
  /\ clock = 0
  /\ sheets \in {<<[book |-> b, from |-> 0, imported |-> IF b.imported THEN 0 ELSE Nil]>> :
                   b \in Workbooks}
  /\ cached = Nil
  /\ fetching = [r \in Readers |-> Nil]
  /\ answered = Nil
FleetNext ==
  \/ \E r \in Readers :
       \/ \E refresh \in BOOLEAN : Ask(r, refresh)
       \/ Export(r) \/ Arrive(r) \/ Fail(r)
  \/ \E b \in Workbooks : Change(b)
  \/ Tick \/ Restart
FleetSpec == FleetInit /\ [][FleetNext]_fleetVars

----------------------------------------------------------------------------
\* The last moment content n was in the sheet
LastSeen(n) == IF n = Len(sheets) THEN clock ELSE sheets[n + 1].from

\* A figure is what the sheet's cell says, unless its column is listed as missing
Accounted(part, tab) ==
  \A shown \in part.rows : tab # Nil /\ \E row \in tab.rows :
    \A l \in DOMAIN shown.figures :
      IF l \in part.missing THEN shown.figures[l] = 0
      ELSE l \in tab.columns /\ shown.figures[l] = num(row[l])

\* The dashboard is what it says it is: an answer not marked as old shows what was in
\* the sheet less than the life of a copy and a request ago; it is never empty; every
\* figure is that of a cell or its column is reported missing; and an import shown as
\* recent was no older than half a day and the life of a copy (getDashboard, stamp,
\* report, lastImport_).
ShownAsWhatItIs ==
  (answered # Nil /\ ~answered.stale) =>
    /\ answered.data # Nil /\ answered.data.monthly.rows # {}
    /\ \E n \in 1..Len(sheets) :
         /\ clock - LastSeen(n) < CacheTime + Timeout
         /\ Accounted(answered.data.monthly, sheets[n].book.monthly)
         /\ Accounted(answered.data.voyages, sheets[n].book.voyages)
         /\ ~answered.data.importStale =>
              /\ sheets[n].imported # Nil
              /\ clock - sheets[n].imported < ImportLimit + CacheTime
=============================================================================
