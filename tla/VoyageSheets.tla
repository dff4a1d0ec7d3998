------------------------------ MODULE VoyageSheets ------------------------------
(***************************************************************************)
(* The voyages of the vessels' books, read from the shared sheet for two   *)
(* screens (vessel-profit-sheet.ts, VesselProfitService.loadSheet): the    *)
(* vessels of the Duba line with their legs, agents and liquidity, and the *)
(* vessels of the Jeddah line with their items as they stand.              *)
(*                                                                         *)
(* One reading serves both screens for CopyTime.  If the sheet cannot be   *)
(* read there is no answer: an old copy is not shown as live.              *)
(***************************************************************************)
EXTENDS Integers, Sequences, FiniteSetsExt

CONSTANTS
  Voyages,   \* rows that may be in the sheet: [vessel, line, ref, exp, imp, year, items,
             \* income, comm, man, net, liq, flag, readable]; items: name -> amount, the
             \* names <<field, leg>> of a leg or <<field, "-">> of the voyage
  Duba,      \* SHEET_VESSELS: key -> [vessel, E, I], the fields each leg shows
  Jeddah,    \* LINE_VESSELS: key -> [vessel, line]
  Viewers,
  CopyTime, LoadTime,
  LastHour, MaxTables, \* bounds
  Untyped

ASSUME SheetsAssumption ==
  /\ CopyTime \in Nat /\ LoadTime \in Nat
  /\ \A row \in Voyages :
       /\ {row.income, row.comm, row.man, row.net} \subseteq Int
       /\ \A name \in DOMAIN row.items : row.items[name] \in Int
  /\ \A key, other \in DOMAIN Duba : Duba[key].vessel = Duba[other].vessel => key = other
  /\ \A key, other \in DOMAIN Jeddah :
       Jeddah[key].vessel = Jeddah[other].vessel /\ Jeddah[key].line = Jeddah[other].line
         => key = other
  /\ \A key \in DOMAIN Duba, other \in DOMAIN Jeddah : Duba[key].vessel # Jeddah[other].vessel

VARIABLES
  hours,
  tables,  \* the contents of the sheet, one after the other: [rows, from]
  copy,    \* [read, at], or Untyped after a restart
  loading, \* the request of each reader: [since, got], or Untyped
  screen   \* the answer just given: [read, at], or Untyped

sheetVars == <<hours, tables, copy, loading, screen>>

----------------------------------------------------------------------------
(* Dates: [year, month], as they were typed *)

\* monthOf: a month that cannot be is a month that is not there
AnyMonth(date) == date \* mutant: the month is cut out of the date as typed
monthOf(date) ==
  IF date # Untyped /\ date.year \in 1900..2099 /\ date.month \in 1..12 THEN date ELSE Untyped
MonthOf(row) == IF monthOf(row.exp) # Untyped THEN monthOf(row.exp) ELSE monthOf(row.imp)

LIQ_FROM_YEAR == 2026
liqYear(row) ==
  IF row.year # 0 THEN row.year
  ELSE IF row.exp # Untyped THEN row.exp.year
  ELSE IF row.imp # Untyped THEN row.imp.year ELSE 0

----------------------------------------------------------------------------
(* The two shapes of a voyage *)

Size(n) == IF n < 0 THEN -n ELSE n
n0(row, field, leg) ==
  IF <<field, leg>> \in DOMAIN row.items THEN row.items[<<field, leg>>] ELSE 0

\* side: each leg shows the fields that are named for it
side(row, fields, leg) == [f \in fields |-> n0(row, f, leg)]
Total(row, fields, leg) ==
  LET amounts == side(row, fields, leg) IN MapThenSumSet(LAMBDA f : amounts[f], fields)

toSheetVoyage(row, spec) ==
  [ref |-> row.ref, month |-> MonthOf(row),
   E |-> side(row, spec.E, "E"), I |-> side(row, spec.I, "I"), net |-> row.net,
   liq |-> IF liqYear(row) >= LIQ_FROM_YEAR THEN row.liq ELSE 0, broken |-> row.flag]
voyagesFromData(rows, key) ==
  {toSheetVoyage(row, Duba[key]) :
     row \in {r \in rows : r.readable /\ r.vessel = Duba[key].vessel /\ MonthOf(r) # Untyped}}

LINE_REV == {"tr", "vh", "px", "dord", "furn", "minT", "hzr", "othInc", "dis"}
LINE_COMM == {"cTR", "cPA", "cDord", "cAfsh", "aa", "ab", "ac", "ad", "ae", "r", "s", "t", "fz"}
LINE_EXP ==
  {"bnk", "portA", "oth", "exFurn", "cater", "agency", "wht", "opex", "adv", "vesEx", "quar",
   "fw", "tips", "exHzr", "spray", "retPas", "tel", "hire", "sd", "eb", "brk", "pk", "pg", "crn"}
Revenue(row) == Total(row, LINE_REV, "E") + Total(row, LINE_REV, "I")

\* gap: what the items lack of the totals, and the totals of the net
Gap(row) ==
  Size(Revenue(row) - row.income) + Size(Total(row, LINE_COMM, "-") - row.comm)
  + Size(Total(row, LINE_EXP, "-") - row.man) + Size(row.income - row.comm - row.man - row.net)
toLineVoyage(row) ==
  [ref |-> row.ref, month |-> MonthOf(row), income |-> row.income, comm |-> row.comm,
   man |-> row.man, net |-> row.net, gap |-> Gap(row), broken |-> row.flag]

\* A numbered row without a date, or without a figure, is a place in the template
lineVoyagesFromData(rows, key) ==
  {toLineVoyage(row) :
     row \in {r \in rows : /\ r.readable /\ MonthOf(r) # Untyped
                           /\ r.vessel = Jeddah[key].vessel /\ r.line = Jeddah[key].line
                           /\ (r.income # 0 \/ r.net # 0 \/ r.man # 0)}}

----------------------------------------------------------------------------
(* The reading, and what is kept of it *)

ReadingOf(rows) ==
  [duba |-> [key \in DOMAIN Duba |-> voyagesFromData(rows, key)],
   jeddah |-> [key \in DOMAIN Jeddah |-> lineVoyagesFromData(rows, key)]]

CopyServes == copy # Untyped /\ hours - copy.at <= CopyTime
AskSheet(r) ==
  /\ loading[r] = Untyped
  /\ IF CopyServes THEN screen' = copy /\ UNCHANGED loading
     ELSE /\ loading' = [loading EXCEPT ![r] = [since |-> hours, got |-> 0]]
          /\ screen' = Untyped
  /\ UNCHANGED <<hours, tables, copy>>
ExportSheet(r) ==
  /\ loading[r] # Untyped /\ loading[r].got = 0
  /\ loading' = [loading EXCEPT ![r].got = Len(tables)]
  /\ screen' = Untyped
  /\ UNCHANGED <<hours, tables, copy>>
SheetArrives(r) ==
  /\ loading[r] # Untyped /\ loading[r].got # 0
  /\ copy' = [read |-> ReadingOf(tables[loading[r].got].rows), at |-> hours]
  /\ screen' = copy'
  /\ loading' = [loading EXCEPT ![r] = Untyped]
  /\ UNCHANGED <<hours, tables>>
SheetFails(r) ==
  /\ loading[r] # Untyped
  /\ loading' = [loading EXCEPT ![r] = Untyped]
  /\ screen' = Untyped
  /\ UNCHANGED <<hours, tables, copy>>

\* A row is added to the sheet, corrected, or taken out
EditSheet ==
  \E row \in Voyages :
    LET rows == tables[Len(tables)].rows IN
    /\ Len(tables) < MaxTables
    /\ tables' = Append(tables,
         [from |-> hours, rows |-> IF row \in rows THEN rows \ {row} ELSE rows \cup {row}])
    /\ screen' = Untyped
    /\ UNCHANGED <<hours, copy, loading>>
HourPasses ==
  /\ hours < LastHour
  /\ \A r \in Viewers : loading[r] # Untyped => hours - loading[r].since < LoadTime
  /\ hours' = hours + 1
  /\ screen' = Untyped
  /\ UNCHANGED <<tables, copy, loading>>

SheetInit ==
  /\ hours = 0
  /\ tables \in {<<[from |-> 0, rows |-> rows]>> : rows \in SUBSET Voyages}
  /\ copy = Untyped /\ screen = Untyped
  /\ loading = [r \in Viewers |-> Untyped]
SheetNext ==
  \/ \E r \in Viewers : AskSheet(r) \/ ExportSheet(r) \/ SheetArrives(r) \/ SheetFails(r)
  \/ EditSheet \/ HourPasses
SheetSpec == SheetInit /\ [][SheetNext]_sheetVars

----------------------------------------------------------------------------
LastTyped(n) == IF n = Len(tables) THEN hours ELSE tables[n + 1].from
DubaOf(read) == UNION {read.duba[key] : key \in DOMAIN Duba}
JeddahOf(read) == UNION {read.jeddah[key] : key \in DOMAIN Jeddah}

\* A voyage that was typed is on one screen, whatever was mistyped beside it: of the
\* rows with a figure, a vessel of a screen and one date that can be, none is missing
\* and none is there twice
OnOneScreen(rows, read) ==
  /\ \A v \in DubaOf(read) \cup JeddahOf(read) : \E row \in rows : row.ref = v.ref
  /\ \A row \in rows :
       LET keys == {key \in DOMAIN Duba :
                      \E v \in read.duba[key] : v.ref = row.ref /\ Duba[key].vessel = row.vessel}
           lines == {key \in DOMAIN Jeddah : \E v \in read.jeddah[key] :
                       v.ref = row.ref /\ Jeddah[key].vessel = row.vessel
                       /\ Jeddah[key].line = row.line}
           known == row.vessel \in {Duba[key].vessel : key \in DOMAIN Duba}
                    \/ <<row.vessel, row.line>>
                         \in {<<Jeddah[key].vessel, Jeddah[key].line>> : key \in DOMAIN Jeddah}
           possible == \E date \in {row.exp, row.imp} \ {Untyped} :
                         date.year \in 1900..2099 /\ date.month \in 1..12
       IN (row.readable /\ known /\ possible /\ row.net # 0) =>
            Cardinality(keys) + Cardinality(lines) = 1

\* The screens order months as text: every month shown is one
MonthsAreMonths(read) ==
  \A v \in DubaOf(read) \cup JeddahOf(read) :
    v.month.year \in 1900..2099 /\ v.month.month \in 1..12

\* A net that its items do not give shows at least so large a gap
GapTells(rows, read) ==
  \A key \in DOMAIN Jeddah : \A v \in read.jeddah[key] :
    \E row \in rows : row.ref = v.ref /\ row.vessel = Jeddah[key].vessel /\
      v.gap >= Size(Revenue(row) - Total(row, LINE_COMM, "-") - Total(row, LINE_EXP, "-") - v.net)

\* An answer is a whole reading of one content of the sheet, of a request before the
\* copy's age at most; the two screens agree on it, and each shows what was typed
\* (loadSheet, voyagesFromData, lineVoyagesFromData).
VoyagesAreAsTyped ==
  screen # Untyped =>
    \E n \in 1..Len(tables) :
      /\ hours - LastTyped(n) <= CopyTime + LoadTime
      /\ OnOneScreen(tables[n].rows, screen.read)
      /\ MonthsAreMonths(screen.read)
      /\ GapTells(tables[n].rows, screen.read)
=============================================================================
