---------------------------- MODULE SalarySources ----------------------------
(***************************************************************************)
(* How the cases of a month of salaries come out of their sources:         *)
(* assemble (crew-salary.assemble.ts) puts every amount of the exports of  *)
(* CFM, the rows and notes of the message and the payout sheet in a place, *)
(* matchName (crew-salary.match.ts) finds whose a name is, and             *)
(* computeEntry (crew-salary.calc.ts) says what counts and what is in the  *)
(* way of a case.  The cases are derived anew from the files and the       *)
(* standing decisions; CrewBatches takes them from there.                  *)
(*                                                                         *)
(* The key of an item is its source, its row and its column, that of a     *)
(* note its paragraph: what comes to stand in the same place has the same  *)
(* key.  Pay stands in amounts that thirty divides.                        *)
(***************************************************************************)
EXTENDS Integers, FiniteSets, FiniteSetsExt

CONSTANTS
  Files,     \* files that may be imported: [kind, rows], the message with notes [no, amount]
  Decisions, \* decisions that may be taken: [kind, target, value]
  NamesOf,   \* the names each seafarer goes by in the exports
  MonthEnd,  \* the days of the month
  Nothing,   \* no number, no currency, no decision
  MaxDecisions \* bound: decisions taken

VARIABLES
  files,    \* the standing files of the cycle
  decided,  \* standing decisions, confirmed links and rates of the month
  taken     \* decisions taken so far

sourceVars == <<files, decided, taken>>

----------------------------------------------------------------------------
(* Sources and decisions *)

Rows(kind) == UNION {f.rows : f \in {g \in files : g.kind = kind}}
Value(kind, target, otherwise) ==
  LET d == {x \in decided : x.kind = kind /\ x.target = target} IN
  IF d = {} THEN otherwise ELSE (CHOOSE x \in d : TRUE).value

\* matchName: a link that was confirmed, or the one candidate with that very name
Candidates == {r.id : r \in Rows("cfm")}
Carrying(name) == {id \in Candidates : name \in NamesOf[id]}
matchName(name) ==
  IF Value("link", name, Nothing) \in Candidates THEN Value("link", name, Nothing)
  ELSE IF Cardinality(Carrying(name)) = 1 THEN CHOOSE id \in Carrying(name) : TRUE
  ELSE Nothing

\* the first payout row of a seafarer is his; the others are shown as unmatched
PayoutClaims(id) == {p \in Rows("payout") : matchName(p.name) = id}
PayoutOf(id) == {p \in PayoutClaims(id) : \A q \in PayoutClaims(id) : p.no <= q.no}
UnmatchedPayout ==
  {p \in Rows("payout") :
     matchName(p.name) = Nothing \/ \E q \in PayoutClaims(matchName(p.name)) : q.no < p.no}

\* a row of the message is its number's, or by a confirmed link its name's
EmailSeafarer(r) == IF r.id # Nothing THEN r.id ELSE Value("link", r.name, Nothing)
Nameless == {r \in Rows("email") : EmailSeafarer(r) = Nothing}

----------------------------------------------------------------------------
(* Items of the cases *)

Group(kind) == IF kind \in {"lashing", "captain_bonus"} THEN "bonus" ELSE kind
Deductions == {"cash_advance", "other_deduction"}

Item(key, kind, amount, currency, twin) ==
  [key |-> key, kind |-> kind, amount |-> amount, currency |-> currency, twin |-> twin,
   review |-> Value("review", key, "pending")]

\* to classify an item of the message is to accept it, unless it is rejected
Classified(item) ==
  LET kind == Value("classify", item.key, Nothing) IN
  IF kind = Nothing THEN item
  ELSE [item EXCEPT !.kind = kind, !.review = Value("review", item.key, "accepted")]
rowExtras(r, fallback) ==
  {LET key == <<"email", r.no, x.kind>>
       known == IF r.currency = Nothing THEN fallback ELSE r.currency IN
   Classified(Item(key, x.kind, x.amount, Value("currency", key, known), {})) : x \in r.items}

\* the first item of the message with the same amount in the same group
Twins(p, emailed) ==
  LET same == {e \in emailed : Group(e.kind) = Group(p.kind) /\ e.amount = p.amount} IN
  {e.key : e \in {x \in same : \A y \in same : x.key[2] <= y.key[2]}}
PayoutItem(p, currency, emailed) ==
  LET key == <<"payout", p.no, p.kind>> IN
  IF p.kind = "cash_advance" THEN Item(key, p.kind, p.amount, "EUR", {})
  ELSE Item(key, p.kind, p.amount,
         Value("currency", key, IF p.currency = Nothing THEN currency ELSE p.currency),
         Twins(p, emailed))

CfmKeys == {<<r.id, r.currency>> : r \in Rows("cfm")}
CfmRow(k) == CHOOSE r \in Rows("cfm") : r.id = k[1] /\ r.currency = k[2]
EmailOf(id) == {r \in Rows("email") : EmailSeafarer(r) = id}

\* buildEntry: an advance of the payout sheet takes the place of the exported one
CfmItems(k) ==
  LET emailed == UNION {rowExtras(r, k[2]) : r \in EmailOf(k[1])}
      paid == {PayoutItem(p, k[2], emailed) : p \in PayoutOf(k[1])} IN
  emailed \cup paid \cup
  (IF CfmRow(k).advance = 0 \/ \E i \in paid : i.kind = "cash_advance" THEN {}
   ELSE {Item(<<"cfm", k[1], "cash_advance">>, "cash_advance", CfmRow(k).advance, k[2], {})})

\* seafarers of the message who are in no export: a case for every currency
Outside == {id \in {EmailSeafarer(r) : r \in Rows("email")} : id \notin Candidates \cup {Nothing}}
OutsideItems(id) == UNION {rowExtras(r, Nothing) : r \in EmailOf(id)}
OutsideKeys == UNION {{<<id, i.currency>> : i \in {x \in OutsideItems(id) : x.currency # Nothing}} : id \in Outside}
WithoutCurrency == {i \in UNION {OutsideItems(id) : id \in Outside} : i.currency = Nothing}

\* what somebody was found to be owed, most often by a note, is paid as the decision
\* says, in the case he has in its currency or in a new one, whatever became of the note
Claims == {d \in decided : d.kind = "supplementary"}
ClaimKey(d) == <<d.value.id, d.value.currency>>
ClaimItem(d) == Item(<<"supp", d.target>>, d.value.kind, d.value.amount, d.value.currency, {})

Cases == CfmKeys \cup OutsideKeys \cup {ClaimKey(d) : d \in Claims}
ItemsOf(k) ==
  {ClaimItem(d) : d \in {c \in Claims : ClaimKey(c) = k}} \cup
  IF k \in CfmKeys THEN CfmItems(k)
  ELSE {i \in OutsideItems(k[1]) : k[1] \in Outside /\ i.currency = k[2]}

\* What is unresolved, under the key of its place in the message: a row that is
\* nobody's, an item without a currency, a note.  A claim on its key resolves a note.
Resolved(key) == Value("resolve", key, FALSE)
Notes == UNION {f.notes : f \in {g \in files : g.kind = "email"}}
noteKey(n) == <<"note", n.no>>
Claimed(n) == \E d \in Claims : d.target = noteKey(n)
OpenNotes == {n \in Notes : ~Claimed(n) /\ ~Resolved(noteKey(n))}
OpenRows == {r \in Nameless : ~Resolved(<<"email", r.no>>)}
OpenItems == {i \in WithoutCurrency : ~Resolved(<<"currency", i.key>>)}
NothingUnresolved == OpenNotes = {} /\ OpenRows = {} /\ OpenItems = {}

----------------------------------------------------------------------------
(* computeEntry *)

Usd(currency) == IF currency = "USD" THEN 1 ELSE Value("rate", currency, 0)
PayCurrency(k) == Value("payment_currency", k, k[2])
Convertible(from, to) == from = to \/ (Usd(from) > 0 /\ Usd(to) > 0)

\* a whole month is thirty days, and no month is more
Dated(r) == 1 <= r.start /\ r.start <= r.finish /\ r.finish <= MonthEnd
Days(r) ==
  IF r.start = 1 /\ r.finish = MonthEnd THEN 30 ELSE Min({r.finish - r.start + 1, 30})
SignOffDay(r) == r.final /\ r.finish < MonthEnd /\ Days(r) < 30
Pay(r) ==
  (r.basic \div 30 + r.leave \div 30) * Days(r) + (IF SignOffDay(r) THEN r.basic \div 30 ELSE 0)

Counted(k, i) ==
  /\ i.review = "accepted" /\ i.kind # "unclassified" /\ i.amount # Nothing
  /\ Convertible(i.currency, PayCurrency(k))
\* what is in the way of an item
Open(k, i) ==
  /\ i.review # "rejected"
  /\ \/ i.amount = Nothing \/ i.kind = "unclassified" \/ i.review = "pending"
     \/ ~Convertible(i.currency, PayCurrency(k))
\* the same amount accepted from two sources
NeverTwice(k) == FALSE \* mutant: nothing is in the way of it
Twice(k) == \E i, j \in ItemsOf(k) : j.key \in i.twin /\ Counted(k, i) /\ Counted(k, j)
Complete(k) ==
  /\ k \in CfmKeys => Dated(CfmRow(k)) /\ Convertible(k[2], PayCurrency(k))
  /\ ~\E i \in ItemsOf(k) : Open(k, i)
  /\ ~Twice(k)

Converted(amount, from, to) == IF from = to THEN amount ELSE (amount * Usd(from)) \div Usd(to)
Signed(i) == IF i.kind \in Deductions THEN -i.amount ELSE i.amount
Balance(k) ==
  (IF k \in CfmKeys THEN Converted(Pay(CfmRow(k)), k[2], PayCurrency(k)) ELSE 0)
  + MapThenSumSet(LAMBDA i : Converted(Signed(i), i.currency, PayCurrency(k)),
                  {i \in ItemsOf(k) : Counted(k, i)})

----------------------------------------------------------------------------
SourceInit == files = {} /\ decided = {} /\ taken = 0

\* a file takes the place of the standing one of its kind (a second message, or a
\* second export of a currency, is in the way of everything until one is replaced)
importFile(f) ==
  /\ f \notin files
  /\ files' = {g \in files : g.kind # f.kind} \cup {f}
  /\ UNCHANGED <<decided, taken>>
\* decide, confirmLink and the rate of the month: the new one takes the place of the
\* standing one on its target
decide(d) ==
  /\ taken < MaxDecisions
  /\ decided' = {x \in decided : x.kind # d.kind \/ x.target # d.target} \cup {d}
  /\ taken' = taken + 1
  /\ UNCHANGED files
\* revokeLink, removeManual
Revoke(d) ==
  /\ d \in decided /\ d.kind \in {"link", "supplementary"} /\ taken < MaxDecisions
  /\ decided' = decided \ {d} /\ taken' = taken + 1
  /\ UNCHANGED files

SourceNext ==
  \/ \E f \in Files : importFile(f)
  \/ \E d \in Decisions : decide(d) \/ Revoke(d)

SourceSpec == SourceInit /\ [][SourceNext]_sourceVars

----------------------------------------------------------------------------
\* No amount of the message, of the payout sheet or of a claim is ever nowhere, and
\* none is in two places: it is in one case, among the rows that are nobody's, among
\* the items without a currency, or among the unmatched rows -- whatever is imported,
\* linked, relinked, resolved or revoked ("no financial data falls away in silence",
\* assemble).  Only the seafarer of two exports has his amounts in the case of each.
Places(key) == Cardinality({k \in Cases : \E i \in ItemsOf(k) : i.key = key})
Exports(id) == {k \in CfmKeys : k[1] = id}
InPlace(id, key) == Places(key) = Max({1, Cardinality(Exports(id))})
EveryAmountHasItsPlace ==
  /\ \A r \in Rows("email") : \A x \in r.items :
       LET key == <<"email", r.no, x.kind>>
           aside == r \in Nameless \/ \E i \in WithoutCurrency : i.key = key
       IN IF aside THEN Places(key) = 0 ELSE InPlace(EmailSeafarer(r), key)
  /\ \A p \in Rows("payout") :
       LET key == <<"payout", p.no, p.kind>>
       IN IF p \in UnmatchedPayout THEN Places(key) = 0 ELSE InPlace(matchName(p.name), key)
  /\ \A d \in Claims : Places(ClaimItem(d).key) = 1

\* A month of seafarers with one contract each whose cases are all complete, with
\* nothing unresolved, comes to the pay of its exports and to every amount of its
\* sources and claims that was not rejected, each of them once, in whatever currency
\* it is paid: an amount two sources carry is not paid twice (computeEntry).
RejectedKey(key) == Value("review", key, "pending") = "rejected"
\* the payout sheet repeats what the message said of the same case
Repeated(k, j) ==
  \E i \in ItemsOf(k) :
    /\ j.key[1] = "payout" /\ j.kind # "cash_advance" /\ i.key[1] = "email"
    /\ Group(i.kind) = Group(j.kind) /\ i.amount = j.amount /\ ~RejectedKey(i.key)
SourceAmounts ==
  UNION {{<<i.key, Signed(i) * Usd(i.currency)>> :
            i \in {j \in ItemsOf(k) : ~RejectedKey(j.key) /\ ~Repeated(k, j)}} : k \in Cases}
OneContract == \A id \in Candidates : Cardinality(Exports(id)) = 1
Settled == Cases # {} /\ (\A k \in Cases : Complete(k)) /\ NothingUnresolved /\ OneContract
MonthAddsUp ==
  Settled =>
    MapThenSumSet(LAMBDA k : Balance(k) * Usd(PayCurrency(k)), Cases) =
      MapThenSumSet(LAMBDA r : Pay(r) * Usd(r.currency), Rows("cfm"))
      + MapThenSumSet(LAMBDA a : a[2], SourceAmounts)

\* Nothing falls away in silence, and nothing is paid twice.
NothingFallsAway == EveryAmountHasItsPlace /\ MonthAddsUp

\* What a corrected message brings in the place of another item or note begins
\* unreviewed: "every imported item begins pending until a person reviews it", and
\* nothing is resolved but by a link, a correction or an exclusion (assemble).
EmailItems == {i \in UNION {ItemsOf(k) : k \in Cases} : i.key[1] = "email"}
ImportsBeginPending ==
  [][\A f \in Files : importFile(f) =>
       /\ \A i \in EmailItems, j \in EmailItems' :
            i.key = j.key /\ i.amount # j.amount => j.review = "pending"
       /\ \A m \in Notes, n \in Notes' : m.no = n.no /\ m # n => n \in OpenNotes']_sourceVars
=============================================================================
