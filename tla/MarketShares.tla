----------------------------- MODULE MarketShares -----------------------------
(***************************************************************************)
(* The shares of the shipping market: monthly records of every ship,       *)
(* imported from a file (market-import.service.ts), the agencies a ship    *)
(* had over time (AgencyService), and the comparison of two periods        *)
(* (MarketService, market.calc.ts).                                        *)
(*                                                                         *)
(* A month is two halves: month m begins with half 2m.  Two of the four    *)
(* metrics of a record are kept: the trips, which are the more of the ways *)
(* out and back, and the trucks, which are those of both ways (cars and    *)
(* passengers are counted as trucks are).  A share is a pair of numbers.   *)
(***************************************************************************)
EXTENDS Integers, Sequences, FiniteSets, FiniteSetsExt, TLC

CONSTANTS
  Admins,    \* who import and edit
  Imports,   \* files: [lines, history], a line [month, ship, agency, out, back, load, unload]
  Ships, Agencies,
  Halves,    \* days a period of an agency may begin or be changed on
  Months,    \* months that may be asked for
  Year,      \* months of a year
  Nothing,   \* no agency, no end, no month, no figure
  MaxHistory \* bound: periods of agencies written

VARIABLES
  records, \* market_records, by [month, ship], as a set
  history, \* agency_history: [id, ship, agency, from, to]
  serial,  \* periods written so far
  desk     \* what each admin is in the middle of

marketVars == <<records, history, serial, desk>>

Idle == [step |-> "idle"]
SameKey(r, s) == r.month = s.month /\ r.ship = s.ship

----------------------------------------------------------------------------
(* A file: its lines, and the records they give *)

Metrics == {"trips", "trucks"}
computeTripCount(line) == IF line.out > line.back THEN line.out ELSE line.back
computeTrucksTotal(line) == line.load + line.unload

\* a line needs its ship and its month, and no count of it is negative
Valid(line) ==
  /\ line.ship # Nothing /\ line.month # Nothing
  /\ \A field \in {"out", "back", "load", "unload"} : line[field] >= 0
\* parseAndValidate: of the lines of one month and ship the first valid one counts;
\* the totals are computed here, whatever the file says of them
Accepted(lines) ==
  {k \in DOMAIN lines :
     Valid(lines[k]) /\ ~\E j \in 1..(k - 1) : Valid(lines[j]) /\ SameKey(lines[j], lines[k])}
Measured(line) ==
  [month |-> line.month, ship |-> line.ship, agency |-> line.agency,
   load |-> line.load, unload |-> line.unload,
   trips |-> computeTripCount(line), trucks |-> computeTrucksTotal(line)]
parseAndValidate(f) == {Measured(f.lines[k]) : k \in Accepted(f.lines)}

----------------------------------------------------------------------------
(* Agencies over time *)

Ends(h, half) == h.to # Nothing /\ h.to < half
Covers(h, half) == h.from <= half /\ ~Ends(h, half)
Overlaps(a, b) == ~Ends(b, a.from) /\ ~Ends(a, b.from)

\* resolveFrom: of several periods that cover the month the first the query returns,
\* which has no order; here any of them, by the identity of the row
resolveFrom(r) ==
  LET hits == {h \in history : h.ship = r.ship /\ Covers(h, 2 * r.month)} IN
  IF hits = {} THEN r.agency
  ELSE (CHOOSE h \in hits : \A g \in hits : h.id <= g.id).agency

----------------------------------------------------------------------------
(* The comparison of two periods *)

monthsInRange(from, to) == from .. to
previousPeriod(from, to) == (from - (to - from + 1)) .. (from - 1)
sameMonthsPrevYear(from, to) == (from - Year) .. (to - Year)

sumMetric(rows, k) == MapThenSumSet(LAMBDA r : r[k], rows)
\* the months somebody moved in
activeMonths(rows) == {m \in {r.month : r \in rows} : \E r \in rows : r.month = m /\ \E k \in Metrics : r[k] > 0}
\* loadResolved: the records of the period, each with the agency its ship had
loadResolved(range) ==
  LET inRange == {r \in records : r.month \in range} IN
  {[r EXCEPT !.agency = resolveFrom(r)] : r \in {q \in inRange : q.month \in activeMonths(inRange)}}

\* aggregateByAgency: a record without an agency has a place of its own
AgenciesOf(rows) == {r.agency : r \in rows}
aggregateByAgency(rows, k) == [a \in AgenciesOf(rows) |-> sumMetric({r \in rows : r.agency = a}, k)]
At(sums, key) == IF key \in DOMAIN sums THEN sums[key] ELSE 0
Total(sums) == MapThenSumSet(LAMBDA key : sums[key], DOMAIN sums)

\* share, and whether one is less than another: the market of nothing has no shares
share(part, total) == IF total > 0 THEN <<part, total>> ELSE <<0, 1>>
Less(p, q) == p[1] * q[2] < q[1] * p[2]
Equal(p, q) == p[1] * q[2] = q[1] * p[2]

\* growthOf: from nothing there is no rate
growthOf(current, previous) ==
  [abs |-> current - previous,
   pct |-> IF previous = 0 THEN Nothing ELSE <<current - previous, previous>>]

\* growthWaterfall: a step for every agency of either period that has moves in one
SharedSteps(now, before) == \* mutant: an agency that came or went has no step
  {a \in DOMAIN now \cap DOMAIN before : now[a] > 0 \/ before[a] > 0}
Steps(now, before) ==
  {a \in DOMAIN now \cup DOMAIN before : At(now, a) > 0 \/ At(before, a) > 0}
growthWaterfall(now, before) ==
  [netChange |-> Total(now) - Total(before),
   deltas |-> [a \in Steps(now, before) |-> At(now, a) - At(before, a)]]

\* the matrix of growth and share, over the agencies of both periods
classifyQuadrant(ofShare, growth, agencies, market) ==
  LET big == ofShare[1] * agencies >= ofShare[2]
      fast == IF growth.pct = Nothing THEN TRUE
              ELSE IF market.pct = Nothing THEN growth.abs > 0 ELSE ~Less(growth.pct, market.pct) IN
  [big |-> big, fast |-> fast]
vsMarket(growth, market) ==
  IF growth.pct = Nothing \/ market.pct = Nothing THEN Nothing
  ELSE IF Less(market.pct, growth.pct) THEN "faster"
  ELSE IF Less(growth.pct, market.pct) THEN "slower" ELSE "same"
Positions(now, before) ==
  LET market == growthOf(Total(now), Total(before))
      agencies == DOMAIN now \cup DOMAIN before IN
  [a \in Steps(now, before) |->
     LET growth == growthOf(At(now, a), At(before, a))
         current == share(At(now, a), Total(now)) IN
     [share |-> current, previous |-> share(At(before, a), Total(before)),
      vsMarket |-> vsMarket(growth, market),
      quadrant |-> classifyQuadrant(current, growth, Cardinality(agencies), market)]]

\* shipComposition: the ships of either period, by whether they moved in each
MovedIn(rows) == {r.ship : r \in {q \in rows : \E k \in Metrics : q[k] > 0}}
shipComposition(now, before) ==
  LET ships == {r.ship : r \in now \cup before} IN
  [both |-> MovedIn(now) \cap MovedIn(before), entered |-> MovedIn(now) \ MovedIn(before),
   exited |-> MovedIn(before) \ MovedIn(now), zero |-> ships \ (MovedIn(now) \cup MovedIn(before))]
ShipMoves(rows, s, k) == sumMetric({r \in rows : r.ship = s}, k)
\* the ships of one agency, now and before (contributingShips)
shipDelta(now, before, a, k) ==
  LET mine(rows) == {r \in rows : r.agency = a} IN
  [s \in {r.ship : r \in mine(now) \cup mine(before)} |->
     ShipMoves(mine(now), s, k) - ShipMoves(mine(before), s, k)]

\* timeline, shareEvolution: a month for a month; of the year before, the overlay
\* takes the months that have movement now
timeline(rows, k) ==
  [m \in {r.month : r \in rows} |-> aggregateByAgency({r \in rows : r.month = m}, k)]
monthlyOverlay(now, before, k) ==
  [m \in {r.month : r \in now} |->
     [current |-> sumMetric({r \in now : r.month = m}, k),
      previous |-> sumMetric({r \in before : r.month = m - Year}, k)]]
\* ranking: the agencies ahead of one are those with more, and of its equals some
Ahead(now, a) == {b \in DOMAIN now : now[b] > now[a]}
directionBalance(rows) ==
  [departure |-> sumMetric(rows, "load"), arrival |-> sumMetric(rows, "unload")]

----------------------------------------------------------------------------
MarketInit ==
  /\ records = {} /\ history = {} /\ serial = 0
  /\ desk = [u \in Admins |-> Idle]

Write(h) == history' = history \cup {h @@ [id |-> serial]} /\ serial' = serial + 1
Room(n) == serial + n <= MaxHistory

\* commit: the records are written over those of their month and ship, in one
\* transaction with the agency periods that are not there yet; overlaps are not
\* looked for.  Two files at once meet at the unique index of the records, and the
\* second waits, or fails.
Seeds(f) ==
  {h \in f.history :
     ~\E g \in history : g.ship = h.ship /\ g.agency = h.agency /\ g.from = h.from}
commit(u, f) ==
  /\ desk[u] = Idle /\ parseAndValidate(f) # {} /\ Room(Cardinality(Seeds(f)))
  /\ records' = {r \in records : ~\E s \in parseAndValidate(f) : SameKey(r, s)}
                  \cup parseAndValidate(f)
  /\ \E place \in [Seeds(f) -> serial .. serial + Cardinality(Seeds(f)) - 1] :
       /\ \A g, h \in Seeds(f) : g # h => place[g] # place[h]
       /\ history' = history \cup {h @@ [id |-> place[h]] : h \in Seeds(f)}
  /\ serial' = serial + Cardinality(Seeds(f))
  /\ UNCHANGED desk

\* upsert: looks for an overlap, then writes
upsert(u, h) ==
  /\ desk[u] = Idle
  /\ ~\E g \in history : g.ship = h.ship /\ Overlaps(g, h)
  /\ desk' = [desk EXCEPT ![u] = [step |-> "write", period |-> h]]
  /\ UNCHANGED <<records, history, serial>>
WritePeriod(u) ==
  /\ desk[u].step = "write" /\ Room(1)
  /\ Write(desk[u].period)
  /\ desk' = [desk EXCEPT ![u] = Idle]
  /\ UNCHANGED records

\* changeAgency: closes the open period the day before, then opens the new one, in
\* two statements; the second may be refused.  What the library makes of the null in
\* its query (valid_to: null) is outside; here it finds the open period, as meant
changeAgency(u, ship, agency, half) ==
  /\ desk[u] = Idle
  /\ LET open == {h \in history : h.ship = ship /\ h.to = Nothing} IN
     \E o \in open :
       /\ o.from < half
       /\ history' = (history \ {o}) \cup {[o EXCEPT !.to = half - 1]}
  /\ desk' = [desk EXCEPT ![u] =
       [step |-> "open", period |-> [ship |-> ship, agency |-> agency, from |-> half, to |-> Nothing]]]
  /\ UNCHANGED <<records, serial>>
OpenPeriod(u) ==
  /\ desk[u].step = "open"
  /\ LET h == desk[u].period
         refused == \E g \in history : g.ship = h.ship /\ Overlaps(g, h) IN
     desk' = [desk EXCEPT ![u] = IF refused THEN Idle ELSE [step |-> "write", period |-> h]]
  /\ UNCHANGED <<records, history, serial>>
remove(u, h) ==
  /\ desk[u] = Idle /\ h \in history
  /\ history' = history \ {h}
  /\ UNCHANGED <<records, serial, desk>>

MarketNext ==
  \E u \in Admins :
    \/ \E f \in Imports : commit(u, f)
    \/ \E s \in Ships, a \in Agencies, half \in Halves :
         \/ changeAgency(u, s, a, half)
         \/ upsert(u, [ship |-> s, agency |-> a, from |-> half, to |-> Nothing])
    \/ WritePeriod(u) \/ OpenPeriod(u)
    \/ \E h \in history : remove(u, h)

MarketSpec == MarketInit /\ [][MarketNext]_marketVars

----------------------------------------------------------------------------
\* The parts are the whole, whatever the history of the agencies has become (a gap a
\* change left behind, two periods over one month, a record without an agency): the
\* agencies of a period come to its market, month by month too, the steps from the
\* period before come to the change of the market, and so do the ships, those that
\* stayed, came and went, and those of one agency to its step ("the steps add up to
\* the net change of the market, since the market is its agencies", growthWaterfall).
PartsOf(now, before, k) ==
  LET sums == aggregateByAgency(now, k)
      sumsBefore == aggregateByAgency(before, k)
      fall == growthWaterfall(sums, sumsBefore)
      change == sumMetric(now, k) - sumMetric(before, k)
      ships == shipComposition(now, before)
      over(of(_), S) == MapThenSumSet(of, S)
      months == timeline(now, k)
      overlay == monthlyOverlay(now, before, k) IN
  /\ Total(sums) = sumMetric(now, k)
  /\ Total(fall.deltas) = change /\ fall.netChange = change
  /\ over(LAMBDA s : ShipMoves(now, s, k) - ShipMoves(before, s, k), ships.both)
      + over(LAMBDA s : ShipMoves(now, s, k), ships.entered)
      - over(LAMBDA s : ShipMoves(before, s, k), ships.exited) = change
  /\ \A a \in DOMAIN fall.deltas : Total(shipDelta(now, before, a, k)) = fall.deltas[a]
  /\ \A a \in DOMAIN sums : over(LAMBDA m : At(months[m], a), DOMAIN months) = sums[a]
  /\ over(LAMBDA m : overlay[m].current, DOMAIN overlay) = sumMetric(now, k)
  /\ over(LAMBDA m : overlay[m].previous, DOMAIN overlay) <= sumMetric(before, k)

\* More volume is not more share: an agency grows faster than the market just when
\* its share rises, unless the market fell to nothing; some agency has at least the
\* share of the average, and none that outgrew the market is placed among the slow
\* ("comparing growth with the market separates volume from share", executive).
GrowthIsShare(now, before) ==
  LET places == Positions(now, before) IN
  /\ \A a \in DOMAIN places :
       /\ places[a].vsMarket # Nothing /\ Total(now) > 0 =>
            /\ places[a].vsMarket = "faster" <=> Less(places[a].previous, places[a].share)
            /\ places[a].vsMarket = "same" <=> Equal(places[a].previous, places[a].share)
       /\ Less(places[a].previous, places[a].share) => places[a].quadrant.fast
       /\ a \in DOMAIN now /\ Total(now) > 0 /\ Ahead(now, a) = {} => places[a].quadrant.big
  /\ Total(now) > 0 => \E a \in DOMAIN places : places[a].quadrant.big

PartsAreTheWhole ==
  \A from, to \in Months : from <= to =>
    \A now \in {loadResolved(monthsInRange(from, to))} :
      /\ \A before \in {loadResolved(previousPeriod(from, to)),
                        loadResolved(sameMonthsPrevYear(from, to))} :
           \A k \in Metrics :
             /\ PartsOf(now, before, k)
             /\ GrowthIsShare(aggregateByAgency(now, k), aggregateByAgency(before, k))
      /\ directionBalance(now).departure + directionBalance(now).arrival = sumMetric(now, "trucks")
=============================================================================
