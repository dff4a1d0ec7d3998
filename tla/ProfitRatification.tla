------------------------- MODULE ProfitRatification -------------------------
(***************************************************************************)
(* The running account of the two partners: ProfitRatificationService and  *)
(* the edits of ProfitPeriodsService that meet it.                         *)
(*                                                                         *)
(* What a partner is owed is the sum of the rows of profit_settlements.    *)
(* Ratifying a period accrues its figures and freezes them; un-ratifying   *)
(* accrues them back; a later reading of the sheets is kept beside the     *)
(* frozen figures, and its difference is a row of its own.  Payments are   *)
(* entered by hand.                                                        *)
(*                                                                         *)
(* No operation runs in a transaction: every statement commits alone, and  *)
(* a request may be cut short between any two.  save() writes back every   *)
(* column of the period as the request loaded it.                          *)
(***************************************************************************)
EXTENDS Integers, Sequences, SequencesExt, FiniteSets, FiniteSetsExt

CONSTANTS
  Users,     \* concurrent requests
  Periods,
  Partners,
  None,      \* no period, or figures not there
  Inputs,    \* what may be entered or read for a period: the figures that
             \* calculate() gives, and whether none is missing
  Transfers, \* amounts entered as payments
  Openings,  \* lists of opening entries a client may send
  Apart,     \* requests on one period come one after the other
  MaxRows    \* bound: rows in the account

ASSUME PartnersAssumption ==
  /\ None \notin Periods \cup Partners \cup [Partners -> Int]
  /\ IsFiniteSet(Partners)
ASSUME InputsAssumption ==
  Inputs \subseteq [figures : [Partners -> Int], complete : BOOLEAN]
ASSUME TransfersAssumption == Transfers \subseteq Int \ {0}
ASSUME OpeningsAssumption ==
  \A o \in Openings :
    Len(o) \in Nat /\ DOMAIN o = 1..Len(o) /\ \A k \in DOMAIN o : o[k].amount \in Int
ASSUME ApartAssumption == Apart \in BOOLEAN

VARIABLES
  period, \* rows of profit_periods
  rows,   \* rows of profit_settlements
  pc,     \* where each request is
  req,    \* what it was given or has loaded
  todo,   \* the rows it has still to write
  cut     \* history: periods whose accruals a request left half written

vars == <<period, rows, pc, req, todo, cut>>
accountVars == <<period, rows, cut>>

----------------------------------------------------------------------------
(* Periods and rows *)

NoPeriod(state) ==
  [state |-> state, input |-> None, frozen |-> None, latest |-> None]
Entered(input) == [NoPeriod("stored") EXCEPT !.input = input]

Stored(p) == period[p].state = "stored"
Ratified(p) == Stored(p) /\ period[p].frozen # None

\* The database names a row when it is written; the id tells equal rows apart
Row(p, who, kind, n) ==
  [id |-> None, period |-> p, partner |-> who, kind |-> kind, amount |-> n]
Named(r, n) == [r EXCEPT !.id = n]
NewId(r) == CHOOSE n \in 0..Cardinality(rows) : Named(r, n) \notin rows
Of(p, kind) == {r \in rows : r.period = p /\ r.kind = kind}

SumFor(who, s) == MapThenSumSet(LAMBDA r : r.amount, {r \in s : r.partner = who})

\* One row for each partner whose amount is not nil
RowsFor(p, kind, amount) ==
  LET due == {x \in Partners : amount[x] # 0}
      who == SetToSeq(due)
  IN [k \in 1..Cardinality(due) |-> Row(p, who[k], kind, amount[who[k]])]

Accruals(p, f) == RowsFor(p, "due", f)
Differences(p, f, g) == RowsFor(p, "delta", [x \in Partners |-> f[x] - g[x]])

\* unratify: every accrual of the period with the opposite amount, its earlier
\* reversals among them
FrozenOnly(p) == \* mutant: only the frozen figures are accrued back
  Accruals(p, [x \in Partners |-> -period[p].frozen[x]])
Reversals(p) ==
  LET due == SetToSeq(Of(p, "due"))
  IN [k \in 1..Cardinality(Of(p, "due")) |-> [due[k] EXCEPT !.id = None, !.amount = -@]]

----------------------------------------------------------------------------
(* Requests *)

NoRequest == [op |-> "none"]
OnPeriod(r) == IF r.op \in {"none", "open"} THEN None ELSE r.period

\* Bound, and the case the run is about: two requests do not meet on a period
Free(u, p) ==
  /\ pc[u] = "idle"
  /\ Apart /\ p # None => \A v \in Users : OnPeriod(req[v]) # p
Room == Cardinality(rows) < MaxRows

Goto(u, where) == pc' = [pc EXCEPT ![u] = where]
Begin(u, where, r, list) ==
  /\ Goto(u, where)
  /\ req' = [req EXCEPT ![u] = r]
  /\ todo' = [todo EXCEPT ![u] = list]
End(u) == Begin(u, "idle", NoRequest, <<>>)

\* The request holds the period as it was loaded; save() writes it all back,
\* and inserts it again if it is gone
Loaded(op, p) == [op |-> op, period |-> p, copy |-> period[p]]
Save(p, copy) == period' = [period EXCEPT ![p] = copy]

CreatePeriod(u) ==
  \E p \in Periods, i \in Inputs :
    /\ pc[u] = "idle" /\ period[p].state = "absent"
    /\ Save(p, Entered(i))
    /\ UNCHANGED <<rows, pc, req, todo, cut>>

\* Both refuse a ratified period, and act on it in a later statement
EditFrozen(p) == Stored(p) \* mutant: the ratified period is edited as any other
Editable(p) == Stored(p) /\ ~Ratified(p)

BeginUpdate(u) ==
  \E p \in Periods, i \in Inputs :
    /\ Free(u, p) /\ Editable(p)
    /\ Begin(u, "edit", [op |-> "update", period |-> p, input |-> i], <<>>)
    /\ UNCHANGED accountVars
UpdatePeriod(u) ==
  LET p == req[u].period IN
  /\ pc[u] = "edit" /\ req[u].op = "update"
  /\ period' = IF Stored(p) THEN [period EXCEPT ![p].input = req[u].input] ELSE period
  /\ End(u)
  /\ UNCHANGED <<rows, cut>>

BeginRemovePeriod(u) ==
  \E p \in Periods :
    /\ Free(u, p) /\ Editable(p)
    /\ Begin(u, "edit", [op |-> "remove", period |-> p], <<>>)
    /\ UNCHANGED accountVars
\* The rows of the period go with it: ON DELETE CASCADE
RemovePeriod(u) ==
  LET p == req[u].period IN
  /\ pc[u] = "edit" /\ req[u].op = "remove"
  /\ Save(p, NoPeriod("deleted"))
  /\ rows' = {r \in rows : r.period # p}
  /\ cut' = cut \ {p}
  /\ End(u)

\* ratify accrues what the period as loaded gives, then freezes it
RatifyAgain(p) == Stored(p) /\ period[p].input.complete \* mutant
Ratifiable(p) == Stored(p) /\ ~Ratified(p) /\ period[p].input.complete
BeginRatify(u) ==
  \E p \in Periods :
    /\ Free(u, p) /\ Ratifiable(p) /\ Room
    /\ Begin(u, "write", Loaded("ratify", p), Accruals(p, period[p].input.figures))
    /\ UNCHANGED accountVars

BeginUnratify(u) ==
  \E p \in Periods :
    /\ Free(u, p) /\ Ratified(p) /\ Room
    /\ Begin(u, "read", Loaded("unratify", p), <<>>)
    /\ UNCHANGED accountVars

\* A period that money was paid for is not un-ratified
NothingPaid(p) == Of(p, "payment") = {}
ReadRows(u) ==
  LET p == req[u].period IN
  /\ pc[u] = "read"
  /\ IF NothingPaid(p) THEN Begin(u, "write", req[u], Reversals(p)) ELSE End(u)
  /\ UNCHANGED accountVars

BeginRecordLatest(u) ==
  \E p \in Periods, i \in Inputs :
    /\ Free(u, p) /\ Ratified(p) /\ Room
    /\ Begin(u, "save", [Loaded("latest", p) EXCEPT !.copy.latest = i.figures],
             Differences(p, i.figures, period[p].frozen))
    /\ UNCHANGED accountVars
SaveLatest(u) ==
  /\ pc[u] = "save"
  /\ Save(req[u].period, req[u].copy)
  /\ Goto(u, "clear")
  /\ UNCHANGED <<rows, req, todo, cut>>

\* A payment may name any period there is, or none
Outgoing(n) == IF n > 0 THEN -n ELSE n
BeginPayment(u) ==
  \E p \in Periods \cup {None}, who \in Partners, n \in Transfers :
    /\ Free(u, p) /\ (p # None => Stored(p)) /\ Room
    /\ Begin(u, "write", [op |-> "pay", period |-> p],
             <<Row(p, who, "payment", Outgoing(n))>>)
    /\ UNCHANGED accountVars
\* Any payment; of equal ones, which differ in nothing but the id, the last named
DeletePayment(u) ==
  \E r \in rows :
    /\ Free(u, r.period) /\ r.kind = "payment"
    /\ \A s \in rows : Named(s, r.id) = r => s.id <= r.id
    /\ rows' = rows \ {r}
    /\ UNCHANGED <<period, pc, req, todo, cut>>

\* openBalance: refused once a period is ratified; what was entered before is
\* deleted, then the entries are written until one names an unknown partner
BeginOpenBalance(u) ==
  \E o \in Openings :
    /\ pc[u] = "idle" /\ \A p \in Periods : ~Ratified(p)
    /\ Room
    /\ Begin(u, "clear", [op |-> "open"],
             [k \in DOMAIN o |-> Row(None, o[k].partner, "opening", o[k].amount)])
    /\ UNCHANGED accountVars

\* openBalance and recordLatest replace the rows they wrote before
AddedTo(u, r) == r.kind = "opening" /\ req[u].op = "open" \* mutant
Replaced(u, r) ==
  IF req[u].op = "open" THEN r.kind = "opening"
  ELSE r.kind = "delta" /\ r.period = req[u].period
Clear(u) ==
  /\ pc[u] = "clear"
  /\ rows' = {r \in rows : ~Replaced(u, r)}
  /\ Goto(u, "write")
  /\ UNCHANGED <<period, req, todo, cut>>

\* One row, unless it is nil; refused if its partner is unknown, and by the
\* foreign key if its period is gone
Writable(r) ==
  r.partner \in Partners /\ (r.amount # 0 /\ r.period # None => Stored(r.period))
Write(u) ==
  LET r == Head(todo[u]) IN
  /\ pc[u] = "write" /\ todo[u] # <<>>
  /\ Writable(r)
  /\ rows' = IF r.amount = 0 THEN rows ELSE rows \cup {Named(r, NewId(r))}
  /\ todo' = [todo EXCEPT ![u] = Tail(@)]
  /\ UNCHANGED <<period, pc, req, cut>>
RefuseRow(u) ==
  /\ pc[u] = "write" /\ todo[u] # <<>>
  /\ ~Writable(Head(todo[u]))
  /\ End(u)
  /\ UNCHANGED accountVars

Written(u, ops) == pc[u] = "write" /\ todo[u] = <<>> /\ req[u].op \in ops
FinishRatify(u) ==
  LET c == req[u].copy IN
  /\ Written(u, {"ratify"})
  /\ Save(req[u].period, [c EXCEPT !.frozen = c.input.figures])
  /\ End(u)
  /\ UNCHANGED <<rows, cut>>
FinishUnratify(u) ==
  /\ Written(u, {"unratify"})
  /\ Save(req[u].period, [req[u].copy EXCEPT !.frozen = None])
  /\ cut' = cut \ {req[u].period}
  /\ End(u)
  /\ UNCHANGED rows
FinishRequest(u) ==
  /\ Written(u, {"pay", "open", "latest"})
  /\ End(u)
  /\ UNCHANGED accountVars

\* The process or its connection dies; what was written stays
Crash(u) ==
  /\ pc[u] # "idle"
  /\ End(u)
  /\ cut' = IF req[u].op \in {"ratify", "unratify"} THEN cut \cup {req[u].period} ELSE cut
  /\ UNCHANGED <<period, rows>>

----------------------------------------------------------------------------
Init ==
  /\ period = [p \in Periods |-> NoPeriod("absent")]
  /\ rows = {}
  /\ pc = [u \in Users |-> "idle"]
  /\ req = [u \in Users |-> NoRequest]
  /\ todo = [u \in Users |-> <<>>]
  /\ cut = {}

Next ==
  \E u \in Users :
    \/ CreatePeriod(u) \/ BeginUpdate(u) \/ UpdatePeriod(u)
    \/ BeginRemovePeriod(u) \/ RemovePeriod(u)
    \/ BeginRatify(u) \/ FinishRatify(u)
    \/ BeginUnratify(u) \/ ReadRows(u) \/ FinishUnratify(u)
    \/ BeginRecordLatest(u) \/ SaveLatest(u)
    \/ BeginPayment(u) \/ DeletePayment(u) \/ BeginOpenBalance(u)
    \/ Clear(u) \/ Write(u) \/ RefuseRow(u) \/ FinishRequest(u) \/ Crash(u)
Spec == Init /\ [][Next]_vars

----------------------------------------------------------------------------
(* Properties *)

Figures == [Partners -> Int] \cup {None}
\* Every variable has its type; what is paid is never written as owed
TypeOK ==
  /\ \A p \in Periods :
       /\ period[p].state \in {"absent", "stored", "deleted"}
       /\ period[p].input \in Inputs \cup {None}
       /\ period[p].frozen \in Figures /\ period[p].latest \in Figures
  /\ \A r \in rows :
       /\ r.period \in Periods \cup {None} /\ r.partner \in Partners
       /\ r.kind \in {"opening", "due", "payment", "delta"}
       /\ r.amount \in Int \ {0}
       /\ r.kind = "payment" => r.amount < 0
  /\ pc \in [Users -> {"idle", "edit", "read", "save", "clear", "write"}]
  /\ \A u \in Users : pc[u] = "idle" <=> req[u] = NoRequest
  /\ cut \subseteq Periods

Busy(p) == \E u \in Users : OnPeriod(req[u]) = p
Owed(p, who) == SumFor(who, Of(p, "due"))

\* Between requests a ratified period has accrued exactly what was frozen and
\* any other has accrued nothing, however often it was ratified, un-ratified
\* and edited, unless a crash left its accruals half written
AccrualsStand ==
  \A p \in Periods \ cut :
    ~Busy(p) => \A who \in Partners :
      Owed(p, who) = IF Ratified(p) THEN period[p].frozen[who] ELSE 0

\* An un-ratified period owes nothing, even if earlier requests crashed half
\* way: un-ratifying takes back whatever they left
UnratifyingSettles ==
  [][\A p \in Periods : Ratified(p) /\ ~Ratified(p)' =>
       \A who \in Partners : Owed(p, who) = 0]_vars

\* "The open row is replaced": a partner has at most one difference per period,
\* crashes or not
OneDifference ==
  \A p \in Periods : \A r, s \in Of(p, "delta") : r.partner = s.partner => r = s

\* What was ratified is what stays: neither the inputs nor the frozen figures
\* change, and the period and its accruals are not deleted
FrozenStays ==
  [][\A p \in Periods : Ratified(p) /\ Ratified(p)' =>
       /\ period'[p].input = period[p].input /\ period'[p].frozen = period[p].frozen
       /\ Of(p, "due") \subseteq Of(p, "due")']_vars

----------------------------------------------------------------------------
(* What the source says and the code does not keep *)

\* "The difference outstanding is what is computed now less what is frozen, and
\* no more": where nothing is frozen there is none
DifferencesAreOfTheFrozen ==
  \A p \in Periods : ~Ratified(p) /\ ~Busy(p) => Of(p, "delta") = {}
=============================================================================
