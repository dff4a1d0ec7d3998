-------------------------- MODULE ProfitDistribution --------------------------
(***************************************************************************)
(* The profit of a period: read from the sheet the vessels keep            *)
(* (ProfitPeriodsService.fetchFromUnifiedSheet), saved by the screen into  *)
(* the period, corrected by hand, and divided among the partners by two    *)
(* methods, the approved one and the proposed one (profit-model.ts).       *)
(*                                                                         *)
(* Money counts in sixths of the unit payments are rounded down to, so the *)
(* divisions by up to three partners are exact: two thirds and one third   *)
(* stand for 0.6667 and 0.3333, and rounding to the cent is left out.      *)
(***************************************************************************)
EXTENDS Integers, FiniteSets, FiniteSetsExt, TLC

CONSTANTS
  Voyages,   \* rows the vessels may write: [vessel, ref, day, line, net, ...]
  Line,      \* the line the partnership runs on
  From, To,  \* the days of the period
  Ranges,    \* numbers of voyages that may be asked for; {} asks by date
  DailyRate, \* rent of a vessel for a day
  Commission, PerVoyage, \* fee: per cent of the base, and for each voyage
  Ratio,     \* per cent of the partners in the method used before
  SafagaCash, Bunker, \* entered for the partners in the method used before
  Adjustments, \* amounts that may be entered by hand
  Nothing,   \* nothing fetched, no net revenue
  MaxEdits   \* bound: rows written and corrections by hand

VARIABLES
  sheet,   \* rows of the sheet
  fetched, \* what the screen holds of the last fetch: [vessel, rows], or Nothing
  period,  \* the saved period, by vessel
  edits    \* rows written and corrected so far

periodVars == <<sheet, fetched, period, edits>>

Vessels == {"poseidon", "amal", "daleela"}
Unit == 6
Sum(f(_), S) == MapThenSumSet(f, S)

----------------------------------------------------------------------------
(* Reading the sheet *)

\* a row of another line is left out and counted; a row without a line passes
OnTheLine(r) == r.line \in {Line, Nothing}
\* a range of voyage numbers takes the place of the dates
Taken(v, range) ==
  {r \in sheet :
     /\ r.vessel = v /\ OnTheLine(r)
     /\ IF range = {} THEN From <= r.day /\ r.day <= To ELSE r.ref \in range}
\* a row whose treasury does not agree with its result is named; one whose
\* treasury is empty is only counted
TreasuryFilled(r) == r.duba # 0 \/ r.safaga # 0
TreasuryMismatch(rows) == {r \in rows : TreasuryFilled(r) /\ r.duba + r.safaga # r.net + r.bunker}
TreasuryMissing(rows) == {r \in rows : ~TreasuryFilled(r)}

Figures(rows) ==
  [voyages |-> Cardinality(rows),
   revenue |-> Sum(LAMBDA r : r.income, rows),
   sdBase  |-> Sum(LAMBDA r : r.trucks, rows),
   fuel    |-> Sum(LAMBDA r : r.bunker, rows),
   cashDuba |-> Sum(LAMBDA r : r.duba, rows),
   netCollected |-> Sum(LAMBDA r : r.safaga, rows),
   overPax |-> Sum(LAMBDA r : r.overPax, rows),
   netRevenue |-> IF rows = {} THEN Nothing ELSE Sum(LAMBDA r : r.net, rows)]
\* what is only entered by hand: no fetch writes it
ByHand == [overPaxSafaga |-> 0, fuelSupply |-> 0, fuelAdjust |-> 0, sdAdjust |-> 0]
VesselInput == Figures({}) @@ ByHand

----------------------------------------------------------------------------
(* The division *)

isActive(v) == period[v].voyages > 0 \/ period[v].cashDuba # 0 \/ period[v].netCollected # 0
Active == {v \in Vessels : isActive(v)}
partners == Cardinality(Active)
Total(f(_)) == Sum(f, Active)

PartnerOf(v) == IF v = "poseidon" THEN "badawi" ELSE "ittihad"
partnerTransfer(partner, transfer) ==
  Sum(LAMBDA v : transfer[v], {v \in Active : PartnerOf(v) = partner})

\* Over Pax goes two thirds to poseidon and one third to amal whatever vessel took
\* it; with daleela among the partners no document shows a rule, and it stays
\* where it was taken
OverPaxOf(v) == period[v].overPax
SafagaOverPaxOf(v) == period[v].overPaxSafaga
BothOverPax(v) == OverPaxOf(v) + SafagaOverPaxOf(v)
OverPax == [v \in Active |-> OverPaxOf(v)]
SafagaOverPax == [v \in Active |-> SafagaOverPaxOf(v)]
WholeOverPax == [v \in Active |-> BothOverPax(v)]
Unproven(amount) == "daleela" \in Active /\ \E v \in Active : amount[v] # 0
Divided(amount) == {"poseidon", "amal"} \subseteq Active /\ ~Unproven(amount)
Portion(v, total) ==
  CASE v = "poseidon" -> (total * 2) \div 3 [] v = "amal" -> total \div 3 [] OTHER -> 0
splitOverPax(v, amount) ==
  IF Divided(amount) THEN Portion(v, Total(LAMBDA w : amount[w])) ELSE amount[v]
\* of what was taken in Safaga only the difference to its share moves
splitSafagaOverPax(v) ==
  IF Divided(SafagaOverPax)
  THEN Portion(v, Total(SafagaOverPaxOf)) - SafagaOverPaxOf(v) ELSE 0

Rent(v) == (To - From + 1) * DailyRate[v]
Fuel(v) == period[v].fuel + period[v].fuelAdjust
Fee(v) ==
  ((period[v].sdBase + period[v].sdAdjust) * Commission) \div 100 + period[v].voyages * PerVoyage
Share(f(_)) == Total(f) \div partners
CashOf(v) == period[v].cashDuba
CollectedOf(v) == period[v].netCollected

\* what keeps a period from being ratified, and what its reader is told
Missing ==
  {v \in Active : Active # {} /\ Total(CashOf) = 0}
    \cup {v \in Active : CashOf(v) = 0 /\ period[v].voyages > 0}
HandCorrected == {v \in Active : period[v].sdAdjust # 0 \/ period[v].fuelAdjust # 0}

\* calculateDistribution: the dividend is paid in whole units, the rest stays at Duba
Dividend(v) ==
  Share(CashOf) + splitOverPax(v, OverPax)
    - Share(Rent) - Share(Fuel) - Share(Fee)
    + Share(CollectedOf) - CollectedOf(v) + splitSafagaOverPax(v)
VesselResult(v) ==
  LET burdens == Share(Rent) + Share(Fuel) + Share(Fee)
      payable == Unit * (Dividend(v) \div Unit)
      standalone == CashOf(v) + CollectedOf(v) + BothOverPax(v) - Rent(v) - Fuel(v) - Fee(v)
      partnered == Dividend(v) + CollectedOf(v) + SafagaOverPaxOf(v)
  IN [deductedFromDuba |-> burdens + payable,
      remainingAtDuba |-> Dividend(v) - payable,
      dueToAccount |-> payable + Rent(v) + Fuel(v) + Fee(v),
      transferToAccount |-> payable + Rent(v) + Share(Fee) + period[v].fuelSupply,
      partnershipGain |-> partnered - standalone]
deductedFromDuba(v) == VesselResult(v).deductedFromDuba
remainingAtDuba(v) == VesselResult(v).remainingAtDuba
dueToAccount(v) == VesselResult(v).dueToAccount
transferToAccount(v) == VesselResult(v).transferToAccount
partnershipGain(v) == VesselResult(v).partnershipGain
fuelSupplyOf(v) == period[v].fuelSupply
Transfer == [v \in Active |-> transferToAccount(v)]

\* calculateProposed: from the net revenue of the voyages, which must be known
ProposedAvailable == Active # {} /\ \A v \in Active : period[v].netRevenue # Nothing
AfterRent(v) == period[v].netRevenue - Rent(v)
safaga(v) == CollectedOf(v) + SafagaOverPaxOf(v)
DubaPartOnly(v) == \* mutant: an amount is taken off and given to nobody
  Share(AfterRent) - safaga(v) + splitOverPax(v, OverPax)
\* the whole of what Safaga holds is taken off, so the whole of Over Pax is divided
balanceAtBassam(v) == Share(AfterRent) - safaga(v) + splitOverPax(v, WholeOverPax)
total(v) == balanceAtBassam(v) + Rent(v) + fuelSupplyOf(v)
ProposedTransfer == [v \in Active |-> total(v)]

\* calculateLegacy: the method used before, kept beside the others for comparison
RevenueOf(v) == period[v].revenue
LegacyRent(v) == IF v = "daleela" /\ RevenueOf(v) <= 0 THEN 0 ELSE Rent(v)
netForDistribution == Sum(RevenueOf, Vessels) - Sum(LegacyRent, Vessels)
LegacyOverPax(partner) ==
  LET poseidon == OverPaxOf("poseidon") daleela == OverPaxOf("daleela")
  IN IF partner = "badawi" THEN (poseidon * 2) \div 3 + daleela \div 3
     ELSE poseidon \div 3 + OverPaxOf("amal") + (daleela * 2) \div 3
LegacyActivity(partner) ==
  (netForDistribution * Ratio[partner]) \div 100 - SafagaCash[partner]
    + LegacyOverPax(partner) + Sum(LegacyRent, {v \in Vessels : PartnerOf(v) = partner})
    + Bunker[partner]

----------------------------------------------------------------------------
PeriodInit ==
  /\ sheet = {} /\ fetched = Nothing /\ edits = 0
  /\ period = [v \in Vessels |-> VesselInput @@ [rows |-> {}]]

\* outside: the vessels write and correct their rows
Edit == edits < MaxEdits /\ edits' = edits + 1
Write(r) == Edit /\ sheet' = sheet \cup {r} /\ UNCHANGED <<fetched, period>>
Strike(r) == Edit /\ r \in sheet /\ sheet' = sheet \ {r} /\ UNCHANGED <<fetched, period>>

fetchFromUnifiedSheet(range) ==
  /\ fetched' = [v \in Vessels |-> Taken(v, IF v = "poseidon" THEN range ELSE {})]
  /\ UNCHANGED <<sheet, period, edits>>
\* the screen saves what it fetched, with the rows beside it (voyage_detail); the
\* columns entered by hand are not sent
SaveFetched ==
  /\ fetched # Nothing
  /\ period' = [v \in Vessels |-> Figures(fetched[v]) @@ [rows |-> fetched[v]] @@ period[v]]
  /\ fetched' = Nothing
  /\ UNCHANGED <<sheet, edits>>
\* update: a column of the period
Enter(v, column, amount) ==
  /\ Edit
  /\ period' = [period EXCEPT ![v][column] = amount]
  /\ UNCHANGED <<sheet, fetched>>

PeriodNext ==
  \/ \E r \in Voyages : Write(r) \/ Strike(r)
  \/ \E range \in Ranges : fetchFromUnifiedSheet(range)
  \/ SaveFetched
  \/ \E v \in Vessels, column \in DOMAIN ByHand, amount \in Adjustments : Enter(v, column, amount)

PeriodSpec == PeriodInit /\ [][PeriodNext]_periodVars

----------------------------------------------------------------------------
\* The division neither makes nor loses money: what is taken from Duba and what
\* stays there come to the cash and the Over Pax of the partners, what stays is
\* less than a unit for each, what one partner gains another loses, and the two
\* partners are sent what is due less the fuel their own supplier is paid for.
DistributionGivesAll ==
  Active # {} =>
    /\ Total(deductedFromDuba) + Total(remainingAtDuba) = Total(CashOf) + Total(OverPaxOf)
    /\ \A v \in Active : remainingAtDuba(v) \in 0 .. Unit - 1
    /\ Total(partnershipGain) = 0
    /\ partnerTransfer("badawi", Transfer) + partnerTransfer("ittihad", Transfer)
         = Total(dueToAccount) - Total(Fuel) + Total(fuelSupplyOf)

\* The proposed method sends the partners what the voyages left and was not taken
\* in Safaga, with the whole Over Pax: nothing is taken off that nobody is given.
\* The method before it gave out all revenue and Over Pax too, less the cash and
\* with the bunker that were entered for the partners.
ProposedGivesAll ==
  /\ ProposedAvailable =>
       partnerTransfer("badawi", ProposedTransfer) + partnerTransfer("ittihad", ProposedTransfer)
         = Sum(LAMBDA v : period[v].netRevenue, Active) - Total(CollectedOf)
             + Total(OverPaxOf) + Total(fuelSupplyOf)
  /\ LegacyActivity("badawi") + LegacyActivity("ittihad")
       = Sum(RevenueOf, Vessels) + Sum(OverPaxOf, Vessels)
           + Sum(LAMBDA x : Bunker[x] - SafagaCash[x], {"badawi", "ittihad"})

\* The bridge from one method to the other (the comment over calculateProposed), for
\* a period about which the reader is told nothing - no row disagrees with itself or
\* has an empty treasury, no cash is missing, no figure is corrected by hand: against
\* what is due to a vessel, its bunker aside, the proposed method differs by the fee
\* that moves between the partners (its share for its own) and by the rest of the
\* rounding, and by nothing else.  What the approved method transfers carries the
\* share already: there the two differ by the rest alone.
NothingAnnounced ==
  /\ Missing = {} /\ HandCorrected = {}
  /\ \A v \in Active :
       TreasuryMismatch(period[v].rows) = {} /\ TreasuryMissing(period[v].rows) = {}
BridgeCloses ==
  ProposedAvailable /\ NothingAnnounced =>
    \A v \in Active :
      /\ total(v) - fuelSupplyOf(v) =
           dueToAccount(v) - Fuel(v) + (Share(Fee) - Fee(v)) + remainingAtDuba(v)
      /\ total(v) - transferToAccount(v) = remainingAtDuba(v)

\* No method makes or loses money, and the bridge between the two in use closes.
DistributionsAddUp == DistributionGivesAll /\ ProposedGivesAll /\ BridgeCloses
=============================================================================
