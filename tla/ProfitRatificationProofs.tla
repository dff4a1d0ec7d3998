---------------------- MODULE ProfitRatificationProofs ----------------------
(***************************************************************************)
(* Proofs about ProfitRatification: the type invariant, and, as long as    *)
(* two requests do not meet on a period, the four properties of the        *)
(* partners' account.                                                      *)
(***************************************************************************)
EXTENDS ProfitRatification, SumLaws, SequenceTheorems

----------------------------------------------------------------------------
(* The invariant *)

Kinds == {"opening", "due", "payment", "delta"}
Names == Partners \cup UNION {{o[k].partner : k \in DOMAIN o} : o \in Openings}

\* A row before and after the database has named it
NewRow == [id : {None}, period : Periods \cup {None}, partner : Names,
           kind : Kinds, amount : Int]
StoredRow == [id : Nat, period : Periods \cup {None}, partner : Partners,
              kind : Kinds, amount : Int \ {0}]
PeriodRow == [state : {"absent", "stored", "deleted"}, input : Inputs \cup {None},
              frozen : Figures, latest : Figures]

Typed ==
  /\ period \in [Periods -> PeriodRow]
  /\ rows \subseteq StoredRow /\ IsFiniteSet(rows)
  /\ \A r \in rows : r.kind = "payment" => r.amount < 0
  /\ pc \in [Users -> {"idle", "edit", "read", "save", "clear", "write"}]
  /\ req = [u \in Users |-> req[u]]
  /\ todo \in [Users -> Seq(NewRow)]
  /\ cut \subseteq Periods

\* Only a stored period has been entered, ratified or read again
Blank(p) == ~Stored(p) => period[p] = NoPeriod(period[p].state)
HasInput(p) == Stored(p) => period[p].input \in Inputs

\* The rows of u's list are of kind k on its period
Lists(u, k) ==
  \A i \in 1..Len(todo[u]) :
    /\ todo[u][i].kind = k /\ todo[u][i].period = OnPeriod(req[u])
    /\ k # "opening" => todo[u][i].partner \in Partners

\* What the rows of a list give a partner
Rest(s, who) ==
  Sum([i \in 1..Len(s) |-> IF s[i].partner = who THEN s[i].amount ELSE 0], 1..Len(s))

\* What each request relies on
Idle(u) == pc[u] = "idle" /\ req[u] = NoRequest /\ todo[u] = <<>>
Editing(u) ==
  /\ req[u] \in [op : {"update"}, period : Periods, input : Inputs]
                \cup [op : {"remove"}, period : Periods]
  /\ pc[u] = "edit" /\ todo[u] = <<>> /\ Editable(req[u].period)
Ratifying(u) ==
  /\ req[u] \in [op : {"ratify"}, period : Periods, copy : PeriodRow]
  /\ pc[u] = "write" /\ Lists(u, "due")
  /\ Ratifiable(req[u].period) /\ req[u].copy = period[req[u].period]
  /\ req[u].period \notin cut =>
       \A who \in Partners :
         Owed(req[u].period, who) + Rest(todo[u], who) = req[u].copy.input.figures[who]
Unratifying(u) ==
  /\ req[u] \in [op : {"unratify"}, period : Periods, copy : PeriodRow]
  /\ pc[u] \in {"read", "write"} /\ Lists(u, "due")
  /\ Ratified(req[u].period) /\ req[u].copy = period[req[u].period]
  /\ pc[u] = "read" => todo[u] = <<>>
  /\ pc[u] = "write" =>
       \A who \in Partners : Owed(req[u].period, who) + Rest(todo[u], who) = 0
Rereading(u) ==
  /\ req[u] \in [op : {"latest"}, period : Periods, copy : PeriodRow]
  /\ pc[u] \in {"save", "clear", "write"} /\ Lists(u, "delta")
  /\ Ratified(req[u].period)
  /\ \E f \in Figures : req[u].copy = [period[req[u].period] EXCEPT !.latest = f]
  /\ \A i, j \in 1..Len(todo[u]) : todo[u][i].partner = todo[u][j].partner => i = j
  /\ pc[u] = "write" =>
       \A r \in Of(req[u].period, "delta"), i \in 1..Len(todo[u]) :
         r.partner # todo[u][i].partner
Paying(u) ==
  /\ req[u] \in [op : {"pay"}, period : Periods \cup {None}]
  /\ pc[u] = "write" /\ Lists(u, "payment")
  /\ req[u].period # None => Stored(req[u].period)
  /\ \A i \in 1..Len(todo[u]) : todo[u][i].amount < 0
Opening(u) ==
  /\ req[u] = [op |-> "open"] /\ pc[u] \in {"clear", "write"} /\ Lists(u, "opening")

Relies(u) ==
  \/ Idle(u) \/ Editing(u) \/ Ratifying(u) \/ Unratifying(u)
  \/ Rereading(u) \/ Paying(u) \/ Opening(u)

\* A period has one request
Alone ==
  \A u, v \in Users :
    OnPeriod(req[u]) # None /\ OnPeriod(req[u]) = OnPeriod(req[v]) => u = v

\* What is owed for p is what is frozen, or nothing
Stands(p) ==
  \A who \in Partners : Owed(p, who) = IF Ratified(p) THEN period[p].frozen[who] ELSE 0
Accruing(u, p) ==
  pc[u] = "write" /\ req[u].op \in {"ratify", "unratify"} /\ req[u].period = p

AccountInv ==
  /\ Typed
  /\ \A p \in Periods : Blank(p) /\ HasInput(p)
  /\ Alone
  /\ \A u \in Users : Relies(u)
  /\ \A p \in Periods \ cut : (\A u \in Users : ~Accruing(u, p)) => Stands(p)
  /\ OneDifference

----------------------------------------------------------------------------
(* Rows and what is owed *)

LEMMA SumForAmounts ==
  ASSUME NEW who, NEW s
  PROVE  SumFor(who, s) = RowSum({r \in s : r.partner = who})
BY DEF SumFor, RowSum

LEMMA DueRows ==
  ASSUME Typed, NEW p, NEW who
  PROVE  /\ IsFiniteSet({r \in Of(p, "due") : r.partner = who})
         /\ \A r \in Of(p, "due") : r.amount \in Int
         /\ Owed(p, who) = RowSum({r \in Of(p, "due") : r.partner = who})
         /\ Owed(p, who) \in Int
<1>1. PICK S : S = {r \in Of(p, "due") : r.partner = who}
  OBVIOUS
<1>2. S \subseteq rows
  BY <1>1 DEF Of
<1>3. IsFiniteSet(S) /\ \A r \in Of(p, "due") : r.amount \in Int
  BY <1>2, FS_Subset DEF Typed, StoredRow, Of
<1>4. Owed(p, who) = RowSum(S)
  BY <1>1, SumForAmounts DEF Owed
<1>5. RowSum(S) \in Int
  BY <1>1, <1>3, RowSumInt
<1> QED
  BY <1>1, <1>3, <1>4, <1>5

\* A row that is written gets a name of its own
LEMMA NewIdFree ==
  ASSUME Typed, NEW r \in NewRow
  PROVE  NewId(r) \in Nat /\ Named(r, NewId(r)) \notin rows
<1>1. PICK N : N = Cardinality(rows)
  OBVIOUS
<1>2. N \in Nat
  BY <1>1, FS_CardinalityType DEF Typed
<1>3. \E n \in 0..N : Named(r, n) \notin rows
  <2>1. SUFFICES ASSUME \A n \in 0..N : Named(r, n) \in rows PROVE FALSE
    OBVIOUS
  <2>2. PICK f : f = [n \in 0..N |-> Named(r, n)]
    OBVIOUS
  <2>3. f \in Injection(0..N, rows)
    <3>1. f \in [0..N -> rows]
      BY <2>1, <2>2
    <3>2. \A m, n \in 0..N : Named(r, m) = Named(r, n) => m = n
      BY DEF Named, NewRow
    <3> QED
      BY <2>2, <3>1, <3>2 DEF Injection, IsInjective
  <2>4. Cardinality(0..N) <= N
    BY <1>1, <2>3, FS_Injection DEF Typed
  <2>5. Cardinality(0..N) = N + 1
    BY <1>2, FS_Interval
  <2> QED
    BY <1>2, <2>4, <2>5
<1>4. NewId(r) \in 0..N /\ Named(r, NewId(r)) \notin rows
  BY <1>1, <1>3 DEF NewId
<1> QED
  BY <1>2, <1>4

\* What a written row adds to what its partner is owed
LEMMA OwedGrows ==
  ASSUME Typed, NEW r \in NewRow, NEW p, NEW who,
         rows' = rows \cup {Named(r, NewId(r))}
  PROVE  Owed(p, who)' = Owed(p, who) +
           IF r.period = p /\ r.kind = "due" /\ r.partner = who THEN r.amount ELSE 0
<1>1. PICK e : e = Named(r, NewId(r))
  OBVIOUS
<1>2. /\ e.period = r.period /\ e.kind = r.kind /\ e.partner = r.partner
      /\ e.amount = r.amount /\ r.amount \in Int
  BY <1>1 DEF Named, NewRow
<1>3. e \notin rows
  BY <1>1, NewIdFree
<1>4. PICK S : S = {x \in Of(p, "due") : x.partner = who}
  OBVIOUS
<1>5. PICK T : T = {x \in Of(p, "due")' : x.partner = who}
  OBVIOUS
<1>6. T = IF r.period = p /\ r.kind = "due" /\ r.partner = who THEN S \cup {e} ELSE S
  BY <1>1, <1>2, <1>4, <1>5 DEF Of
<1>7. Owed(p, who)' = RowSum(T)
  <2>1. Owed(p, who)' = SumFor(who, Of(p, "due")')
    BY DEF Owed
  <2> QED
    BY <1>5, <2>1, SumForAmounts
<1>8. /\ IsFiniteSet(S) /\ (\A x \in S : x.amount \in Int) /\ e \notin S
      /\ Owed(p, who) = RowSum(S) /\ Owed(p, who) \in Int
  BY <1>3, <1>4, DueRows DEF Of
<1>9. CASE r.period = p /\ r.kind = "due" /\ r.partner = who
  <2>1. RowSum(S \cup {e}) = RowSum(S) + e.amount
    BY <1>2, <1>8, RowSumAdd
  <2>2. Owed(p, who)' = Owed(p, who) + e.amount
    <3>1. T = S \cup {e}
      BY <1>6, <1>9
    <3> QED
      BY <1>7, <1>8, <2>1, <3>1, Zenon
  <2> QED
    BY <1>2, <1>9, <2>2
<1>10. CASE ~(r.period = p /\ r.kind = "due" /\ r.partner = who)
  <2>1. T = S
    BY <1>6, <1>10
  <2>2. Owed(p, who)' = Owed(p, who)
    BY <1>7, <1>8, <2>1, Zenon
  <2> QED
    BY <1>8, <1>10, <2>2
<1> QED
  BY <1>9, <1>10

LEMMA OwedSame ==
  ASSUME NEW p, NEW who, Of(p, "due")' = Of(p, "due")
  PROVE  Owed(p, who)' = Owed(p, who)
BY DEF Owed

LEMMA NothingOwed ==
  ASSUME NEW p, NEW who, Of(p, "due") = {}
  PROVE  Owed(p, who) = 0
<1>1. {r \in Of(p, "due") : r.partner = who} = {}
  OBVIOUS
<1>2. Owed(p, who) = RowSum({})
  BY <1>1, SumForAmounts DEF Owed
<1> QED
  BY <1>2, RowSumEmpty

----------------------------------------------------------------------------
(* Lists of rows to write *)

LEMMA RestEmpty ==
  ASSUME NEW who
  PROVE  Rest(<<>>, who) = 0
<1>1. 1..Len(<<>>) = {}
  OBVIOUS
<1> QED
  BY <1>1, SumEmpty DEF Rest

LEMMA AmountsOfRows ==
  ASSUME NEW s \in Seq(NewRow)
  PROVE  /\ Len(s) \in Nat /\ IsFiniteSet(1..Len(s))
         /\ \A i \in 1..Len(s) : s[i] \in NewRow /\ s[i].amount \in Int
<1>1. Len(s) \in Nat /\ \A i \in 1..Len(s) : s[i] \in NewRow
  OBVIOUS
<1>2. IsFiniteSet(1..Len(s))
  BY <1>1, FS_Interval
<1>3. \A r \in NewRow : r.amount \in Int
  BY DEF NewRow
<1> QED
  BY <1>1, <1>2, <1>3

LEMMA RestInt ==
  ASSUME NEW s \in Seq(NewRow), NEW who
  PROVE  Rest(s, who) \in Int
<1>1. PICK n, F : /\ n = Len(s)
                  /\ F = [i \in 1..n |-> IF s[i].partner = who THEN s[i].amount ELSE 0]
  OBVIOUS
<1>2. IsFiniteSet(1..n) /\ \A i \in 1..n : F[i] \in Int
  BY <1>1, AmountsOfRows
<1> QED
  BY <1>1, <1>2, SumInt DEF Rest

LEMMA RestTail ==
  ASSUME NEW s \in Seq(NewRow), s # <<>>, NEW who
  PROVE  Rest(s, who) = (IF Head(s).partner = who THEN Head(s).amount ELSE 0)
                          + Rest(Tail(s), who)
<1>1. PICK n, F, t, G :
        /\ n = Len(s) /\ t = Tail(s)
        /\ F = [i \in 1..n |-> IF s[i].partner = who THEN s[i].amount ELSE 0]
        /\ G = [i \in 1..n - 1 |-> IF t[i].partner = who THEN t[i].amount ELSE 0]
  OBVIOUS
<1>2. /\ n \in Nat /\ 1 \in 1..n /\ Len(t) = n - 1 /\ t \in Seq(NewRow)
      /\ \A i \in 1..n - 1 : t[i] = s[i + 1]
      /\ Head(s) = s[1]
  BY <1>1
<1>3. /\ IsFiniteSet(1..n) /\ IsFiniteSet(1..n - 1)
      /\ \A i \in 1..n : F[i] \in Int
      /\ \A i \in 1..n - 1 : G[i] \in Int /\ G[i] = F[i + 1]
  <2>1. /\ IsFiniteSet(1..n) /\ \A i \in 1..n : s[i].amount \in Int
        /\ IsFiniteSet(1..n - 1) /\ \A i \in 1..n - 1 : t[i].amount \in Int
    BY <1>1, <1>2, AmountsOfRows
  <2>2. \A i \in 1..n : F[i] \in Int
    BY <1>1, <2>1
  <2>3. \A i \in 1..n - 1 : i + 1 \in 1..n /\ G[i] \in Int /\ G[i] = F[i + 1]
    BY <1>1, <1>2, <2>1
  <2> QED
    BY <2>1, <2>2, <2>3
<1>4. (1..n) \ {1} = 2..n
  BY <1>2
<1>5. Sum(F, 1..n) = F[1] + Sum(F, 2..n)
  <2>1. Sum(F, 1..n) = F[1] + Sum(F, (1..n) \ {1})
    BY <1>2, <1>3, SumRemove
  <2> QED
    BY <1>4, <2>1, Zenon
<1>6. Sum(G, 1..n - 1) = Sum(F, 2..n)
  <2>1. PICK b : b = [i \in 1..n - 1 |-> i + 1]
    OBVIOUS
  <2>2. b \in Bijection(1..n - 1, 2..n)
    <3>1. b \in [1..n - 1 -> 2..n]
      BY <1>2, <2>1
    <3>2. \A i, j \in 1..n - 1 : b[i] = b[j] => i = j
      BY <1>2, <2>1
    <3>3. \A j \in 2..n : \E i \in 1..n - 1 : b[i] = j
      <4>1. TAKE j \in 2..n
      <4>2. j - 1 \in 1..n - 1 /\ b[j - 1] = j
        BY <1>2, <2>1
      <4> QED
        BY <4>2
    <3> QED
      BY <2>1, <3>1, <3>2, <3>3 DEF Bijection, Injection, Surjection, IsInjective
  <2>3. \A i \in 1..n - 1 : G[i] \in Int /\ G[i] = F[b[i]]
    BY <1>3, <2>1
  <2>4. PICK I, J : I = 1..n - 1 /\ J = 2..n
    OBVIOUS
  <2>5. /\ IsFiniteSet(I) /\ b \in Bijection(I, J)
        /\ \A i \in I : G[i] \in Int /\ G[i] = F[b[i]]
    BY <1>3, <2>2, <2>3, <2>4
  <2>6. Sum(G, I) = Sum(F, J)
    BY <2>5, SumImage
  <2> QED
    BY <2>4, <2>6
<1>7. Rest(s, who) = Sum(F, 1..n)
  BY <1>1 DEF Rest
<1>8. Rest(t, who) = Sum(G, 1..n - 1)
  BY <1>1, <1>2 DEF Rest
<1>9. F[1] = IF Head(s).partner = who THEN Head(s).amount ELSE 0
  BY <1>1, <1>2
<1> QED
  BY <1>1, <1>5, <1>6, <1>7, <1>8, <1>9

\* The rows that ratify and recordLatest write
LEMMA RowsForRows ==
  ASSUME NEW p \in Periods, NEW k \in Kinds, NEW f \in [Partners -> Int]
  PROVE  LET s == RowsFor(p, k, f)
         IN /\ s \in Seq(NewRow)
            /\ \A i \in 1..Len(s) : s[i].kind = k /\ s[i].period = p /\ s[i].partner \in Partners
            /\ \A i, j \in 1..Len(s) : s[i].partner = s[j].partner => i = j
            /\ \A who \in Partners : Rest(s, who) = f[who]
<1>1. PICK P, n, q, s : /\ P = {x \in Partners : f[x] # 0} /\ n = Cardinality(P)
                        /\ q = SetToSeq(P) /\ s = RowsFor(p, k, f)
  OBVIOUS
<1>2. IsFiniteSet(P) /\ n \in Nat /\ q \in Bijection(1..n, P)
  BY <1>1, PartnersAssumption, FS_Subset, SetToSeqBijection
<1>3. q \in [1..n -> P] /\ \A i, j \in 1..n : q[i] = q[j] => i = j
  BY <1>2 DEF Bijection, Injection, IsInjective
<1>4. s = [i \in 1..n |-> Row(p, q[i], k, f[q[i]])]
  BY <1>1 DEF RowsFor
<1>5. /\ \A i \in 1..n : /\ s[i] = Row(p, q[i], k, f[q[i]])
                         /\ q[i] \in Partners /\ f[q[i]] \in Int
      /\ Len(s) = n
  <2>1. \A i \in 1..n : q[i] \in P /\ q[i] \in Partners
    BY <1>1, <1>3
  <2>2. \A i \in 1..n : f[q[i]] \in Int
    BY <2>1
  <2>3. \A i \in 1..n : s[i] = Row(p, q[i], k, f[q[i]])
    BY <1>4, Zenon
  <2>4. Len(s) = n
    BY <1>2, <1>4
  <2> QED
    BY <2>1, <2>2, <2>3, <2>4
<1>6. s \in Seq(NewRow)
  <2>1. \A i \in 1..n : s[i] \in NewRow
    BY <1>5 DEF Row, NewRow, Names
  <2> QED
    BY <1>2, <1>4, <2>1
<1>7. \A i \in 1..n : /\ s[i].kind = k /\ s[i].period = p
                      /\ s[i].partner = q[i] /\ s[i].amount = f[q[i]]
  BY <1>5 DEF Row
<1>8. ASSUME NEW who \in Partners PROVE Rest(s, who) = f[who]
  <2>1. PICK F, G : /\ F = [i \in 1..n |-> IF s[i].partner = who THEN s[i].amount ELSE 0]
                    /\ G = [x \in P |-> IF x = who THEN f[x] ELSE 0]
    OBVIOUS
  <2>2. ASSUME NEW i \in 1..n PROVE F[i] \in Int /\ F[i] = G[q[i]]
    <3>1. F[i] = IF q[i] = who THEN f[q[i]] ELSE 0
      BY <1>7, <2>1
    <3>2. q[i] \in P /\ f[q[i]] \in Int
      BY <1>3, <1>5
    <3>3. G[q[i]] = IF q[i] = who THEN f[q[i]] ELSE 0
      BY <2>1, <3>2
    <3> QED
      BY <3>1, <3>2, <3>3
  <2>3. IsFiniteSet(1..n)
    BY <1>2, FS_Interval
  <2>4. Sum(F, 1..n) = Sum(G, P)
    <3>1. PICK I : I = 1..n
      OBVIOUS
    <3>2. /\ IsFiniteSet(I) /\ q \in Bijection(I, P)
          /\ \A i \in I : F[i] \in Int /\ F[i] = G[q[i]]
      BY <1>2, <2>2, <2>3, <3>1
    <3>3. Sum(F, I) = Sum(G, P)
      BY <3>2, SumImage
    <3> QED
      BY <3>1, <3>3
  <2>5. Sum(G, P) = f[who]
    <3>1. CASE who \in P
      <4>1. G[who] = f[who] /\ G[who] \in Int /\ \A x \in P \ {who} : G[x] = 0
        BY <2>1, <3>1
      <4> QED
        BY <1>2, <3>1, <4>1, SumOne
    <3>2. CASE who \notin P
      <4>1. f[who] = 0 /\ \A x \in P : G[x] = 0
        BY <1>1, <2>1, <3>2
      <4> QED
        BY <1>2, <4>1, SumZero
    <3> QED
      BY <3>1, <3>2
  <2>6. Rest(s, who) = Sum(F, 1..n)
    BY <1>5, <2>1 DEF Rest
  <2> QED
    BY <2>4, <2>5, <2>6
<1>9. \A i \in 1..Len(s) : s[i].kind = k /\ s[i].period = p /\ s[i].partner \in Partners
  BY <1>5, <1>7
<1>10. \A i, j \in 1..Len(s) : s[i].partner = s[j].partner => i = j
  BY <1>3, <1>5, <1>7
<1> QED
  BY <1>1, <1>6, <1>8, <1>9, <1>10, Zenon

\* The rows that unratify writes take back what is owed
LEMMA ReversalRows ==
  ASSUME Typed, NEW p \in Periods
  PROVE  LET s == Reversals(p)
         IN /\ s \in Seq(NewRow)
            /\ \A i \in 1..Len(s) : s[i].kind = "due" /\ s[i].period = p /\ s[i].partner \in Partners
            /\ \A who \in Partners : Rest(s, who) = -Owed(p, who)
<1>1. PICK D, n, q, s : /\ D = Of(p, "due") /\ n = Cardinality(D)
                        /\ q = SetToSeq(D) /\ s = Reversals(p)
  OBVIOUS
<1>2. IsFiniteSet(D) /\ D \subseteq rows
  BY <1>1, FS_Subset DEF Typed, Of
<1>3. n \in Nat /\ q \in Bijection(1..n, D)
  BY <1>1, <1>2, SetToSeqBijection
<1>4. q \in [1..n -> D]
  BY <1>3 DEF Bijection, Injection
<1>5. s = [i \in 1..n |-> [q[i] EXCEPT !.id = None, !.amount = -@]]
  BY <1>1 DEF Reversals
<1>6. Len(s) = n /\ \A i \in 1..n : s[i] = [q[i] EXCEPT !.id = None, !.amount = -@]
  <2>1. Len(s) = n
    <3>1. PICK h : h = [i \in 1..n |-> [q[i] EXCEPT !.id = None, !.amount = -@]]
      OBVIOUS
    <3>2. h = [i \in 1..n |-> h[i]] /\ h = s
      BY <1>5, <3>1, Zenon
    <3>3. Len(h) = n
      BY <1>3, <3>2
    <3> QED
      BY <3>2, <3>3
  <2>2. \A i \in 1..n : s[i] = [q[i] EXCEPT !.id = None, !.amount = -@]
    BY <1>5, Zenon
  <2> QED
    BY <2>1, <2>2
<1>7. \A i \in 1..n : q[i] \in StoredRow /\ q[i].kind = "due" /\ q[i].period = p
  BY <1>1, <1>2, <1>4 DEF Typed, Of
<1>8. ASSUME NEW i \in 1..n
      PROVE  /\ s[i] \in NewRow /\ s[i].kind = "due" /\ s[i].period = p
             /\ s[i].partner = q[i].partner /\ s[i].amount = -q[i].amount
             /\ s[i].partner \in Partners /\ q[i].amount \in Int
  <2>1. PICK e : e = q[i]
    OBVIOUS
  <2>2. e \in StoredRow /\ e.kind = "due" /\ e.period = p
    BY <1>7, <2>1
  <2>3. s[i] = [e EXCEPT !.id = None, !.amount = -e.amount]
    BY <1>6, <2>1
  <2>4. e.amount \in Int /\ e.partner \in Partners
    BY <2>2 DEF StoredRow
  <2>5. s[i] = [id |-> None, period |-> p, partner |-> e.partner, kind |-> "due",
                amount |-> -e.amount]
    BY <2>2, <2>3 DEF StoredRow
  <2>6. s[i] \in NewRow
    BY <2>4, <2>5 DEF NewRow, Names, Kinds
  <2> QED
    BY <2>1, <2>4, <2>5, <2>6
<1>9. s \in Seq(NewRow)
  <2>1. s = [i \in 1..n |-> s[i]]
    BY <1>5, Zenon
  <2>2. \A i \in 1..n : s[i] \in NewRow
    BY <1>8
  <2> QED
    BY <1>3, <2>1, <2>2
<1>10. ASSUME NEW who \in Partners PROVE Rest(s, who) = -Owed(p, who)
  <2>1. PICK F, G, H, W :
          /\ F = [i \in 1..n |-> IF s[i].partner = who THEN s[i].amount ELSE 0]
          /\ G = [r \in D |-> IF r.partner = who THEN -r.amount ELSE 0]
          /\ H = [r \in D |-> r.amount]
          /\ W = {r \in D : r.partner = who}
    OBVIOUS
  <2>2. IsFiniteSet(1..n) /\ IsFiniteSet(W) /\ W \in SUBSET D
    BY <1>2, <1>3, <2>1, FS_Interval, FS_Subset
  <2>3. \A i \in 1..n : F[i] \in Int /\ F[i] = G[q[i]]
    BY <1>4, <1>8, <2>1
  <2>4. Sum(F, 1..n) = Sum(G, D)
    <3>1. PICK I : I = 1..n
      OBVIOUS
    <3>2. /\ IsFiniteSet(I) /\ q \in Bijection(I, D)
          /\ \A i \in I : F[i] \in Int /\ F[i] = G[q[i]]
      BY <1>3, <2>2, <2>3, <3>1
    <3>3. Sum(F, I) = Sum(G, D)
      BY <3>2, SumImage
    <3> QED
      BY <3>1, <3>3
  <2>5. \A r \in D : r.amount \in Int
    BY <1>2 DEF Typed, StoredRow
  <2>6. Sum(G, D) = Sum(G, W)
    <3>1. (\A r \in D : G[r] \in Int) /\ \A r \in D \ W : G[r] = 0
      BY <2>1, <2>5
    <3> QED
      BY <1>2, <2>2, <3>1, SumPart
  <2>7. Sum(G, W) = -Sum(H, W)
    <3>1. \A r \in W : H[r] \in Int /\ G[r] = -H[r]
      BY <2>1, <2>5
    <3> QED
      BY <2>2, <3>1, SumNegative
  <2>8. RowSum(W) = Sum(H, W)
    <3>1. \A r \in W : H[r] = r.amount
      BY <2>1
    <3> QED
      BY <2>2, <3>1, RowSumIsSum
  <2>9. Owed(p, who) = RowSum(W)
    BY <1>1, <2>1, DueRows
  <2>10. Rest(s, who) = Sum(F, 1..n)
    BY <1>6, <2>1 DEF Rest
  <2> QED
    BY <2>4, <2>6, <2>7, <2>8, <2>9, <2>10
<1> QED
  BY <1>1, <1>6, <1>8, <1>9, <1>10

----------------------------------------------------------------------------
(* What a step leaves alone *)

\* A request whose period, accruals and differences are left alone goes on
LEMMA OthersKeep ==
  ASSUME NEW v \in Users, Relies(v),
         pc'[v] = pc[v], req'[v] = req[v], todo'[v] = todo[v],
         \A p \in Periods : p = OnPeriod(req[v]) =>
           /\ period'[p] = period[p] /\ (p \in cut => p \in cut')
           /\ Of(p, "due")' = Of(p, "due") /\ Of(p, "delta")' = Of(p, "delta")
  PROVE  Relies(v)'
<1>1. \A k : Lists(v, k) => Lists(v, k)'
  BY DEF Lists
<1>2. ASSUME NEW p \in Periods, p = OnPeriod(req[v])
      PROVE  /\ Ratified(p)' <=> Ratified(p)
             /\ Ratifiable(p)' <=> Ratifiable(p)
             /\ Editable(p)' <=> Editable(p)
             /\ \A who : Owed(p, who)' = Owed(p, who)
  BY <1>2, OwedSame DEF Ratified, Ratifiable, Editable, Stored
<1>3. CASE Idle(v)
  BY <1>3 DEF Idle, Relies
<1>4. CASE Editing(v)
  <2>1. req[v].period \in Periods /\ req[v].period = OnPeriod(req[v])
    BY <1>4 DEF Editing, OnPeriod
  <2> QED
    BY <1>2, <1>4, <2>1 DEF Editing, Relies
<1>5. CASE Ratifying(v)
  <2>1. req[v].period \in Periods /\ req[v].period = OnPeriod(req[v])
    BY <1>5 DEF Ratifying, OnPeriod
  <2>2. Ratifying(v)'
    BY <1>1, <1>2, <1>5, <2>1 DEF Ratifying
  <2> QED
    BY <2>2 DEF Relies
<1>6. CASE Unratifying(v)
  <2>1. req[v].period \in Periods /\ req[v].period = OnPeriod(req[v])
    BY <1>6 DEF Unratifying, OnPeriod
  <2>2. Unratifying(v)'
    BY <1>1, <1>2, <1>6, <2>1 DEF Unratifying
  <2> QED
    BY <2>2 DEF Relies
<1>7. CASE Rereading(v)
  <2>1. req[v].period \in Periods /\ req[v].period = OnPeriod(req[v])
    BY <1>7 DEF Rereading, OnPeriod
  <2>2. Rereading(v)'
    BY <1>1, <1>2, <1>7, <2>1 DEF Rereading
  <2> QED
    BY <2>2 DEF Relies
<1>8. CASE Paying(v)
  <2>1. req[v].period = OnPeriod(req[v])
    BY <1>8 DEF Paying, OnPeriod
  <2>2. req[v].period # None => Stored(req[v].period)'
    BY <1>8, <2>1 DEF Paying, Stored
  <2>3. Paying(v)'
    BY <1>1, <1>8, <2>2 DEF Paying
  <2> QED
    BY <2>3 DEF Relies
<1>9. CASE Opening(v)
  BY <1>1, <1>9 DEF Opening, Relies
<1> QED
  BY <1>3, <1>4, <1>5, <1>6, <1>7, <1>8, <1>9 DEF Relies

LEMMA StandsKeep ==
  ASSUME NEW p, Stands(p), period'[p] = period[p], Of(p, "due")' = Of(p, "due")
  PROVE  Stands(p)'
<1>1. Ratified(p)' <=> Ratified(p)
  BY DEF Ratified, Stored
<1>2. \A who : Owed(p, who)' = Owed(p, who)
  BY OwedSame
<1> QED
  BY <1>1, <1>2 DEF Stands

LEMMA BeginFacts ==
  ASSUME Typed, NEW u \in Users, NEW where, NEW r, NEW list, Begin(u, where, r, list)
  PROVE  /\ pc'[u] = where /\ req'[u] = r /\ todo'[u] = list
         /\ \A v \in Users \ {u} :
              pc'[v] = pc[v] /\ req'[v] = req[v] /\ todo'[v] = todo[v]
         /\ req' = [v \in Users |-> req'[v]]
         /\ where \in {"idle", "edit", "read", "save", "clear", "write"} =>
              pc' \in [Users -> {"idle", "edit", "read", "save", "clear", "write"}]
         /\ list \in Seq(NewRow) => todo' \in [Users -> Seq(NewRow)]
BY DEF Typed, Begin, Goto

\* A request that begins, goes on or ends without writing anything
LEMMA BeginKeeps ==
  ASSUME AccountInv, NEW u \in Users, NEW where, NEW r, NEW list,
         Begin(u, where, r, list), list \in Seq(NewRow), Relies(u)',
         UNCHANGED <<period, rows>>, cut \subseteq cut', cut' \subseteq Periods,
         OnPeriod(r) # None => \A v \in Users \ {u} : OnPeriod(req[v]) # OnPeriod(r),
         \A p \in Periods \ cut' : Accruing(u, p) /\ ~Accruing(u, p)' => Stands(p)
  PROVE  AccountInv'
<1>1. /\ pc'[u] = where /\ req'[u] = r /\ todo'[u] = list
      /\ \A v \in Users \ {u} :
           pc'[v] = pc[v] /\ req'[v] = req[v] /\ todo'[v] = todo[v]
      /\ req' = [v \in Users |-> req'[v]]
      /\ todo' \in [Users -> Seq(NewRow)]
  BY BeginFacts DEF AccountInv
<1>2. where \in {"idle", "edit", "read", "save", "clear", "write"}
  BY <1>1, Zenon DEF Relies, Idle, Editing, Ratifying, Unratifying, Rereading, Paying, Opening
<1>3. Typed'
  BY <1>1, <1>2, BeginFacts DEF AccountInv, Typed
<1>4. \A p \in Periods : Blank(p)' /\ HasInput(p)'
  BY DEF AccountInv, Blank, HasInput, Stored
<1>5. Alone'
  BY <1>1 DEF AccountInv, Alone
<1>6. ASSUME NEW v \in Users PROVE Relies(v)'
  <2>1. CASE v = u
    BY <2>1
  <2>2. CASE v # u
    <3>1. pc'[v] = pc[v] /\ req'[v] = req[v] /\ todo'[v] = todo[v]
      BY <1>1, <2>2
    <3>2. \A p : Of(p, "due")' = Of(p, "due") /\ Of(p, "delta")' = Of(p, "delta")
      BY DEF Of
    <3> QED
      BY <3>1, <3>2, OthersKeep DEF AccountInv
  <2> QED
    BY <2>1, <2>2
<1>7. ASSUME NEW p \in Periods \ cut', \A v \in Users : ~Accruing(v, p)'
      PROVE  Stands(p)'
  <2>1. \A v \in Users \ {u} : ~Accruing(v, p)
    BY <1>1, <1>7 DEF Accruing
  <2>2. Stands(p)
    BY <1>7, <2>1 DEF AccountInv
  <2>3. Of(p, "due")' = Of(p, "due")
    BY DEF Of
  <2> QED
    BY <2>2, <2>3, StandsKeep
<1>8. OneDifference'
  BY DEF AccountInv, OneDifference, Of
<1> QED
  BY <1>3, <1>4, <1>5, <1>6, <1>7, <1>8 DEF AccountInv

----------------------------------------------------------------------------
(* Steps *)

LEMMA InitInv == Init => AccountInv
<1>1. SUFFICES ASSUME Init PROVE AccountInv
  OBVIOUS
<1>2. Typed
  BY <1>1, FS_EmptySet DEF Init, Typed, PeriodRow, NoPeriod, Figures
<1>3. \A p \in Periods : Blank(p) /\ HasInput(p) /\ ~Ratified(p)
  BY <1>1 DEF Init, Blank, HasInput, Stored, Ratified, NoPeriod
<1>4. Alone
  BY <1>1 DEF Init, Alone, OnPeriod, NoRequest
<1>5. \A u \in Users : Relies(u)
  BY <1>1 DEF Init, Relies, Idle
<1>6. ASSUME NEW p \in Periods PROVE Stands(p)
  <2>1. Of(p, "due") = {}
    BY <1>1 DEF Init, Of
  <2> QED
    BY <1>3, <2>1, NothingOwed DEF Stands
<1>7. OneDifference
  BY <1>1 DEF Init, OneDifference, Of
<1> QED
  BY <1>2, <1>3, <1>4, <1>5, <1>6, <1>7 DEF AccountInv

LEMMA StutterKeeps ==
  ASSUME AccountInv, UNCHANGED vars
  PROVE  AccountInv'
<1>1. Typed' /\ \A p \in Periods : Blank(p)' /\ HasInput(p)'
  BY DEF AccountInv, Typed, vars, Blank, HasInput, Stored
<1>2. Alone' /\ OneDifference'
  BY DEF AccountInv, Alone, OneDifference, Of, vars
<1>3. ASSUME NEW v \in Users PROVE Relies(v)'
  BY OthersKeep DEF AccountInv, vars, Of
<1>4. ASSUME NEW p \in Periods \ cut', \A v \in Users : ~Accruing(v, p)'
      PROVE  Stands(p)'
  <2>1. Stands(p) /\ Of(p, "due")' = Of(p, "due")
    BY <1>4 DEF AccountInv, Accruing, vars, Of
  <2> QED
    BY <2>1, StandsKeep DEF vars
<1> QED
  BY <1>1, <1>2, <1>3, <1>4 DEF AccountInv

\* A free request has its period to itself
LEMMA FreeAlone ==
  ASSUME Apart, NEW u \in Users, NEW p, Free(u, p)
  PROVE  /\ pc[u] = "idle" /\ \A q : ~Accruing(u, q)
         /\ p # None => \A v \in Users : OnPeriod(req[v]) # p
BY DEF Free, Accruing

LEMMA BeginUpdateKeeps ==
  ASSUME AccountInv, Apart, NEW u \in Users, BeginUpdate(u)
  PROVE  AccountInv'
<1>1. PICK p \in Periods, i \in Inputs :
        /\ Free(u, p) /\ Editable(p)
        /\ Begin(u, "edit", [op |-> "update", period |-> p, input |-> i], <<>>)
        /\ UNCHANGED accountVars
  BY DEF BeginUpdate
<1>2. Editing(u)'
  <2>1. /\ pc'[u] = "edit" /\ todo'[u] = <<>>
        /\ req'[u] = [op |-> "update", period |-> p, input |-> i]
    BY <1>1, BeginFacts DEF AccountInv
  <2> QED
    BY <1>1, <2>1 DEF Editing, Editable, Ratified, Stored, accountVars
<1>3. /\ <<>> \in Seq(NewRow) /\ Relies(u)' /\ UNCHANGED <<period, rows>>
      /\ cut \subseteq cut' /\ cut' \subseteq Periods
  BY <1>1, <1>2 DEF Relies, accountVars, AccountInv, Typed
<1>4. OnPeriod([op |-> "update", period |-> p, input |-> i]) = p
  BY DEF OnPeriod
<1> QED
  BY <1>1, <1>3, <1>4, FreeAlone, BeginKeeps

LEMMA BeginRemoveKeeps ==
  ASSUME AccountInv, Apart, NEW u \in Users, BeginRemovePeriod(u)
  PROVE  AccountInv'
<1>1. PICK p \in Periods :
        /\ Free(u, p) /\ Editable(p)
        /\ Begin(u, "edit", [op |-> "remove", period |-> p], <<>>)
        /\ UNCHANGED accountVars
  BY DEF BeginRemovePeriod
<1>2. Editing(u)'
  <2>1. /\ pc'[u] = "edit" /\ todo'[u] = <<>>
        /\ req'[u] = [op |-> "remove", period |-> p]
    BY <1>1, BeginFacts DEF AccountInv
  <2> QED
    BY <1>1, <2>1 DEF Editing, Editable, Ratified, Stored, accountVars
<1>3. /\ <<>> \in Seq(NewRow) /\ Relies(u)' /\ UNCHANGED <<period, rows>>
      /\ cut \subseteq cut' /\ cut' \subseteq Periods
  BY <1>1, <1>2 DEF Relies, accountVars, AccountInv, Typed
<1>4. OnPeriod([op |-> "remove", period |-> p]) = p
  BY DEF OnPeriod
<1> QED
  BY <1>1, <1>3, <1>4, FreeAlone, BeginKeeps

LEMMA BeginRatifyKeeps ==
  ASSUME AccountInv, Apart, NEW u \in Users, BeginRatify(u)
  PROVE  AccountInv'
<1>1. PICK p \in Periods :
        /\ Free(u, p) /\ Ratifiable(p)
        /\ Begin(u, "write", Loaded("ratify", p), Accruals(p, period[p].input.figures))
        /\ UNCHANGED accountVars
  BY DEF BeginRatify
<1>2. PICK f, s : f = period[p].input.figures /\ s = Accruals(p, f)
  OBVIOUS
<1>3. f \in [Partners -> Int]
  BY <1>1, <1>2, InputsAssumption DEF AccountInv, HasInput, Ratifiable
<1>4. /\ s \in Seq(NewRow)
      /\ \A i \in 1..Len(s) :
           s[i].kind = "due" /\ s[i].period = p /\ s[i].partner \in Partners
      /\ \A who \in Partners : Rest(s, who) = f[who]
  <2>1. s = RowsFor(p, "due", f)
    BY <1>2 DEF Accruals
  <2> QED
    BY <1>3, <2>1, RowsForRows DEF Kinds
<1>5. /\ pc'[u] = "write" /\ todo'[u] = s
      /\ req'[u] = [op |-> "ratify", period |-> p, copy |-> period[p]]
  BY <1>1, <1>2, BeginFacts DEF AccountInv, Loaded
<1>6. p \notin cut => \A who \in Partners : Owed(p, who) = 0
  <2>1. \A v \in Users : ~Accruing(v, p)
    <3>1. ASSUME NEW v \in Users, Accruing(v, p) PROVE OnPeriod(req[v]) = p
      BY <3>1 DEF Accruing, OnPeriod
    <3> QED
      BY <1>1, <3>1, FreeAlone, PartnersAssumption
  <2> QED
    BY <1>1, <2>1 DEF AccountInv, Stands, Ratifiable
<1>7. Ratifying(u)'
  <2>1. Lists(u, "due")'
    BY <1>4, <1>5 DEF Lists, OnPeriod
  <2>2. /\ req'[u] \in [op : {"ratify"}, period : Periods, copy : PeriodRow]
        /\ req'[u].period = p /\ req'[u].copy = period'[p]
        /\ req'[u].copy.input.figures = f
    BY <1>1, <1>2, <1>5 DEF AccountInv, Typed, accountVars
  <2>3. Ratifiable(p)'
    BY <1>1 DEF Ratifiable, Ratified, Stored, accountVars
  <2>4. p \notin cut' => \A who \in Partners : Owed(p, who)' + Rest(s, who) = f[who]
    <3>1. \A who : Owed(p, who)' = Owed(p, who)
      BY <1>1, OwedSame DEF accountVars, Of
    <3>2. \A who \in Partners : f[who] \in Int
      BY <1>3
    <3> QED
      BY <1>1, <1>4, <1>6, <3>1, <3>2 DEF accountVars
  <2> QED
    BY <1>5, <2>1, <2>2, <2>3, <2>4 DEF Ratifying
<1>8. /\ Relies(u)' /\ UNCHANGED <<period, rows>>
      /\ cut \subseteq cut' /\ cut' \subseteq Periods
  BY <1>1, <1>7 DEF Relies, accountVars, AccountInv, Typed
<1>9. OnPeriod(Loaded("ratify", p)) = p
  BY DEF OnPeriod, Loaded
<1> QED
  BY <1>1, <1>2, <1>4, <1>8, <1>9, FreeAlone, BeginKeeps

LEMMA BeginUnratifyKeeps ==
  ASSUME AccountInv, Apart, NEW u \in Users, BeginUnratify(u)
  PROVE  AccountInv'
<1>1. PICK p \in Periods :
        /\ Free(u, p) /\ Ratified(p)
        /\ Begin(u, "read", Loaded("unratify", p), <<>>)
        /\ UNCHANGED accountVars
  BY DEF BeginUnratify
<1>2. /\ pc'[u] = "read" /\ todo'[u] = <<>>
      /\ req'[u] = [op |-> "unratify", period |-> p, copy |-> period[p]]
  BY <1>1, BeginFacts DEF AccountInv, Loaded
<1>3. Unratifying(u)'
  <2>1. Lists(u, "due")'
    BY <1>2 DEF Lists
  <2>2. /\ req'[u] \in [op : {"unratify"}, period : Periods, copy : PeriodRow]
        /\ req'[u].period = p /\ req'[u].copy = period'[p]
    BY <1>1, <1>2 DEF AccountInv, Typed, accountVars
  <2>3. Ratified(p)'
    BY <1>1 DEF Ratified, Stored, accountVars
  <2> QED
    BY <1>2, <2>1, <2>2, <2>3 DEF Unratifying
<1>4. /\ <<>> \in Seq(NewRow) /\ Relies(u)' /\ UNCHANGED <<period, rows>>
      /\ cut \subseteq cut' /\ cut' \subseteq Periods
  BY <1>1, <1>3 DEF Relies, accountVars, AccountInv, Typed
<1>5. OnPeriod(Loaded("unratify", p)) = p
  BY DEF OnPeriod, Loaded
<1> QED
  BY <1>1, <1>4, <1>5, FreeAlone, BeginKeeps

LEMMA ReadRowsKeeps ==
  ASSUME AccountInv, NEW u \in Users, ReadRows(u)
  PROVE  AccountInv'
<1>1. pc[u] = "read" /\ Unratifying(u)
  BY DEF ReadRows, AccountInv, Relies, Idle, Editing, Ratifying, Rereading, Paying, Opening
<1>2. PICK p \in Periods : p = req[u].period /\ OnPeriod(req[u]) = p
  BY <1>1 DEF Unratifying, OnPeriod
<1>3. /\ UNCHANGED <<period, rows>> /\ cut \subseteq cut' /\ cut' \subseteq Periods
      /\ \A q : ~Accruing(u, q)
  BY <1>1 DEF ReadRows, accountVars, AccountInv, Typed, Accruing
<1>4. CASE NothingPaid(p)
  <2>1. PICK s : s = Reversals(p)
    OBVIOUS
  <2>2. Begin(u, "write", req[u], s)
    BY <1>2, <1>4, <2>1 DEF ReadRows
  <2>3. /\ s \in Seq(NewRow)
        /\ \A i \in 1..Len(s) :
             s[i].kind = "due" /\ s[i].period = p /\ s[i].partner \in Partners
        /\ \A who \in Partners : Rest(s, who) = -Owed(p, who)
    BY <2>1, ReversalRows DEF AccountInv
  <2>4. pc'[u] = "write" /\ todo'[u] = s /\ req'[u] = req[u]
    BY <2>2, BeginFacts DEF AccountInv
  <2>5. Unratifying(u)'
    <3>1. Lists(u, "due")'
      BY <1>2, <2>3, <2>4 DEF Lists
    <3>2. \A who \in Partners : Owed(p, who)' + Rest(s, who) = 0
      <4>1. \A who : Owed(p, who)' = Owed(p, who)
        BY <1>3, OwedSame DEF Of
      <4>2. \A who : Owed(p, who) \in Int
        BY DueRows DEF AccountInv
      <4> QED
        BY <2>3, <4>1, <4>2
    <3>3. Ratified(p)'
      BY <1>1, <1>2, <1>3 DEF Unratifying, Ratified, Stored
    <3> QED
      BY <1>1, <1>2, <1>3, <2>4, <3>1, <3>2, <3>3 DEF Unratifying
  <2>6. \A v \in Users \ {u} : OnPeriod(req[v]) # OnPeriod(req[u])
    BY <1>2, PartnersAssumption DEF AccountInv, Alone
  <2>7. Relies(u)'
    BY <2>5 DEF Relies
  <2> QED
    BY <1>3, <2>2, <2>3, <2>6, <2>7, BeginKeeps
<1>5. CASE ~NothingPaid(p)
  <2>1. Begin(u, "idle", NoRequest, <<>>)
    BY <1>2, <1>5 DEF ReadRows, End
  <2>2. Relies(u)'
    BY <2>1, BeginFacts DEF Relies, Idle, AccountInv
  <2>3. OnPeriod(NoRequest) = None /\ <<>> \in Seq(NewRow)
    BY DEF OnPeriod, NoRequest
  <2> QED
    BY <1>3, <2>1, <2>2, <2>3, BeginKeeps
<1> QED
  BY <1>4, <1>5

LEMMA BeginRecordLatestKeeps ==
  ASSUME AccountInv, Apart, NEW u \in Users, BeginRecordLatest(u)
  PROVE  AccountInv'
<1>1. PICK p \in Periods, i \in Inputs :
        /\ Free(u, p) /\ Ratified(p)
        /\ Begin(u, "save", [Loaded("latest", p) EXCEPT !.copy.latest = i.figures],
                 Differences(p, i.figures, period[p].frozen))
        /\ UNCHANGED accountVars
  BY DEF BeginRecordLatest
<1>2. PICK f, s, r : /\ f = i.figures /\ s = Differences(p, f, period[p].frozen)
                     /\ r = [Loaded("latest", p) EXCEPT !.copy.latest = f]
  OBVIOUS
<1>3. f \in [Partners -> Int] /\ period[p] \in PeriodRow
  BY <1>2, InputsAssumption DEF AccountInv, Typed
<1>4. r = [op |-> "latest", period |-> p, copy |-> [period[p] EXCEPT !.latest = f]]
  BY <1>2 DEF Loaded
<1>5. /\ s \in Seq(NewRow)
      /\ \A k \in 1..Len(s) :
           s[k].kind = "delta" /\ s[k].period = p /\ s[k].partner \in Partners
      /\ \A j, k \in 1..Len(s) : s[j].partner = s[k].partner => j = k
  <2>1. PICK d : d = [x \in Partners |-> f[x] - period[p].frozen[x]]
    OBVIOUS
  <2>2. period[p].frozen \in [Partners -> Int]
    BY <1>1, <1>3 DEF Ratified, PeriodRow, Figures
  <2>3. d \in [Partners -> Int]
    BY <1>3, <2>1, <2>2
  <2>4. s = RowsFor(p, "delta", d)
    BY <1>2, <2>1 DEF Differences
  <2>5. "delta" \in Kinds
    BY DEF Kinds
  <2> QED
    BY <2>3, <2>4, <2>5, RowsForRows
<1>6. pc'[u] = "save" /\ todo'[u] = s /\ req'[u] = r
  BY <1>1, <1>2, BeginFacts DEF AccountInv
<1>7. Rereading(u)'
  <2>1. Lists(u, "delta")'
    BY <1>4, <1>5, <1>6 DEF Lists, OnPeriod
  <2>2. f \in Figures /\ [period[p] EXCEPT !.latest = f] \in PeriodRow
    BY <1>3 DEF PeriodRow, Figures
  <2>3. /\ req'[u] \in [op : {"latest"}, period : Periods, copy : PeriodRow]
        /\ req'[u].period = p /\ req'[u].copy = [period'[p] EXCEPT !.latest = f]
    BY <1>1, <1>4, <1>6, <2>2 DEF accountVars
  <2>4. Ratified(p)'
    BY <1>1 DEF Ratified, Stored, accountVars
  <2> QED
    BY <1>5, <1>6, <2>1, <2>2, <2>3, <2>4 DEF Rereading
<1>8. /\ Relies(u)' /\ UNCHANGED <<period, rows>>
      /\ cut \subseteq cut' /\ cut' \subseteq Periods
  BY <1>1, <1>7 DEF Relies, accountVars, AccountInv, Typed
<1>9. OnPeriod(r) = p
  BY <1>4 DEF OnPeriod
<1> QED
  BY <1>1, <1>2, <1>5, <1>8, <1>9, FreeAlone, BeginKeeps

LEMMA BeginPaymentKeeps ==
  ASSUME AccountInv, Apart, NEW u \in Users, BeginPayment(u)
  PROVE  AccountInv'
<1>1. PICK p \in Periods \cup {None}, who \in Partners, n \in Transfers :
        /\ Free(u, p) /\ (p # None => Stored(p))
        /\ Begin(u, "write", [op |-> "pay", period |-> p],
                 <<Row(p, who, "payment", Outgoing(n))>>)
        /\ UNCHANGED accountVars
  BY DEF BeginPayment
<1>2. PICK s, r : /\ s = <<Row(p, who, "payment", Outgoing(n))>>
                  /\ r = [op |-> "pay", period |-> p]
  OBVIOUS
<1>3. Outgoing(n) \in Int /\ Outgoing(n) < 0
  BY TransfersAssumption DEF Outgoing
<1>4. /\ s \in Seq(NewRow) /\ Len(s) = 1
      /\ \A k \in 1..Len(s) : /\ s[k].kind = "payment" /\ s[k].period = p
                             /\ s[k].partner \in Partners /\ s[k].amount < 0
  <2>1. PICK e : e = Row(p, who, "payment", Outgoing(n))
    OBVIOUS
  <2>2. /\ e \in NewRow /\ e.kind = "payment" /\ e.period = p
        /\ e.partner \in Partners /\ e.amount < 0 /\ s = <<e>>
    BY <1>2, <1>3, <2>1 DEF Row, NewRow, Names, Kinds
  <2> QED
    BY <2>2
<1>5. pc'[u] = "write" /\ todo'[u] = s /\ req'[u] = r /\ OnPeriod(r) = p
  BY <1>1, <1>2, BeginFacts DEF AccountInv, OnPeriod
<1>6. Paying(u)'
  <2>1. Lists(u, "payment")'
    BY <1>4, <1>5 DEF Lists
  <2>2. req'[u].period = p /\ (p # None => Stored(p)')
    BY <1>1, <1>2, <1>5 DEF Stored, accountVars
  <2> QED
    BY <1>2, <1>4, <1>5, <2>1, <2>2 DEF Paying
<1>7. /\ Relies(u)' /\ UNCHANGED <<period, rows>>
      /\ cut \subseteq cut' /\ cut' \subseteq Periods
  BY <1>1, <1>6 DEF Relies, accountVars, AccountInv, Typed
<1> QED
  BY <1>1, <1>2, <1>4, <1>5, <1>7, FreeAlone, BeginKeeps

LEMMA BeginOpenBalanceKeeps ==
  ASSUME AccountInv, NEW u \in Users, BeginOpenBalance(u)
  PROVE  AccountInv'
<1>1. PICK o \in Openings :
        /\ pc[u] = "idle"
        /\ Begin(u, "clear", [op |-> "open"],
                 [k \in DOMAIN o |-> Row(None, o[k].partner, "opening", o[k].amount)])
        /\ UNCHANGED accountVars
  BY DEF BeginOpenBalance
<1>2. PICK n, s : /\ n = Len(o)
                  /\ s = [k \in DOMAIN o |-> Row(None, o[k].partner, "opening", o[k].amount)]
  OBVIOUS
<1>3. n \in Nat /\ DOMAIN o = 1..n
  BY <1>2, OpeningsAssumption
<1>4. ASSUME NEW k \in 1..n
      PROVE  s[k] \in NewRow /\ s[k].kind = "opening" /\ s[k].period = None
  <2>1. PICK x, m : x = o[k].partner /\ m = o[k].amount
    OBVIOUS
  <2>2. x \in Names /\ m \in Int
    BY <1>3, <2>1, OpeningsAssumption DEF Names
  <2>3. s[k] = Row(None, x, "opening", m)
    BY <1>2, <1>3, <2>1
  <2> QED
    BY <2>2, <2>3 DEF Row, NewRow, Kinds
<1>5. /\ s \in Seq(NewRow) /\ Len(s) = n
      /\ \A k \in 1..Len(s) : s[k].kind = "opening" /\ s[k].period = None
  <2>1. s = [k \in 1..n |-> s[k]]
    BY <1>2, <1>3, Zenon
  <2>2. s \in Seq(NewRow) /\ Len(s) = n
    BY <1>3, <1>4, <2>1
  <2> QED
    BY <1>4, <2>2
<1>6. /\ pc'[u] = "clear" /\ todo'[u] = s /\ req'[u] = [op |-> "open"]
      /\ OnPeriod([op |-> "open"]) = None
  BY <1>1, <1>2, BeginFacts DEF AccountInv, OnPeriod
<1>7. Opening(u)'
  <2>1. Lists(u, "opening")'
    BY <1>5, <1>6 DEF Lists
  <2> QED
    BY <1>6, <2>1 DEF Opening
<1>8. /\ Relies(u)' /\ UNCHANGED <<period, rows>> /\ (\A q : ~Accruing(u, q))
      /\ cut \subseteq cut' /\ cut' \subseteq Periods
  BY <1>1, <1>7 DEF Relies, accountVars, AccountInv, Typed, Accruing
<1> QED
  BY <1>1, <1>2, <1>5, <1>6, <1>8, BeginKeeps

\* A request that ends without having left accruals half written
LEMMA EndKeeps ==
  ASSUME AccountInv, NEW u \in Users, End(u), UNCHANGED <<period, rows>>,
         cut \subseteq cut', cut' \subseteq Periods,
         \A p \in Periods \ cut' : ~Accruing(u, p)
  PROVE  AccountInv'
<1>1. Begin(u, "idle", NoRequest, <<>>)
  BY DEF End
<1>2. Relies(u)'
  BY <1>1, BeginFacts DEF AccountInv, Relies, Idle
<1>3. OnPeriod(NoRequest) = None /\ <<>> \in Seq(NewRow)
  BY DEF OnPeriod, NoRequest
<1> QED
  BY <1>1, <1>2, <1>3, BeginKeeps

LEMMA FinishKeeps ==
  ASSUME AccountInv, NEW u \in Users, FinishRequest(u)
  PROVE  AccountInv'
BY EndKeeps DEF FinishRequest, Written, Accruing, accountVars, AccountInv, Typed

LEMMA CrashKeeps ==
  ASSUME AccountInv, NEW u \in Users, Crash(u)
  PROVE  AccountInv'
<1>1. Relies(u) /\ pc[u] # "idle"
  BY DEF AccountInv, Crash
<1>2. req[u].op \in {"ratify", "unratify"} => req[u].period \in Periods
  BY <1>1 DEF Relies, Idle, Editing, Ratifying, Unratifying, Rereading, Paying, Opening
<1> QED
  BY <1>2, EndKeeps DEF Crash, Accruing, AccountInv, Typed

\* The rows of a period that is there are never refused
LEMMA RefuseRowKeeps ==
  ASSUME AccountInv, NEW u \in Users, RefuseRow(u)
  PROVE  AccountInv'
<1>1. Relies(u) /\ todo[u] \in Seq(NewRow) /\ todo[u] # <<>> /\ ~Writable(Head(todo[u]))
  BY DEF AccountInv, Typed, RefuseRow
<1>2. Head(todo[u]) = todo[u][1] /\ 1 \in 1..Len(todo[u])
  BY <1>1
<1>3. \A p \in Periods : ~Accruing(u, p)
  <2>1. SUFFICES ASSUME NEW p \in Periods, Accruing(u, p) PROVE FALSE
    OBVIOUS
  <2>2. Ratifying(u) \/ Unratifying(u)
    BY <1>1, <2>1 DEF Accruing, Relies, Idle, Editing, Rereading, Paying, Opening, NoRequest
  <2>3. /\ todo[u][1].period = p /\ Stored(p)
        /\ todo[u][1].partner \in Partners
    BY <1>2, <2>1, <2>2 DEF Ratifying, Unratifying, Lists, Accruing, OnPeriod,
                            Ratifiable, Ratified
  <2> QED
    BY <1>1, <1>2, <2>3 DEF Writable
<1> QED
  BY <1>3, EndKeeps DEF RefuseRow, accountVars, AccountInv, Typed

\* A request's period is there
LEMMA OnStored ==
  ASSUME NEW v \in Users, Relies(v), NEW p \in Periods, OnPeriod(req[v]) = p
  PROVE  Stored(p)
<1>1. p # None
  BY PartnersAssumption
<1> QED
  BY <1>1 DEF Relies, Idle, Editing, Ratifying, Unratifying, Rereading, Paying, Opening,
              OnPeriod, NoRequest, Editable, Ratifiable, Ratified

\* A request that writes the period it has to itself
LEMMA SaveKeeps ==
  ASSUME AccountInv, NEW u \in Users, NEW p \in Periods, NEW row \in PeriodRow,
         Save(p, row), Typed', Alone', Relies(u)', OneDifference', Blank(p)', HasInput(p)',
         \A v \in Users \ {u} :
           /\ OnPeriod(req[v]) # p
           /\ pc'[v] = pc[v] /\ req'[v] = req[v] /\ todo'[v] = todo[v],
         \A q \in Periods \ {p} :
           /\ Of(q, "due")' = Of(q, "due") /\ Of(q, "delta")' = Of(q, "delta")
           /\ (q \in cut' <=> q \in cut) /\ ~Accruing(u, q),
         p \notin cut' /\ ~Accruing(u, p)' => Stands(p)'
  PROVE  AccountInv'
<1>1. /\ \A q \in Periods \ {p} : period'[q] = period[q]
      /\ period'[p] = row
  BY DEF Save, AccountInv, Typed
<1>2. \A q \in Periods : Blank(q)' /\ HasInput(q)'
  BY <1>1 DEF AccountInv, Blank, HasInput, Stored
<1>3. ASSUME NEW v \in Users PROVE Relies(v)'
  <2>1. CASE v = u
    BY <2>1
  <2>2. CASE v # u
    BY <1>1, <2>2, OthersKeep DEF AccountInv
  <2> QED
    BY <2>1, <2>2
<1>4. ASSUME NEW q \in Periods \ cut', \A v \in Users : ~Accruing(v, q)'
      PROVE  Stands(q)'
  <2>1. CASE q = p
    BY <1>4, <2>1
  <2>2. CASE q # p
    <3>1. \A v \in Users : ~Accruing(v, q)
      BY <1>4, <2>2 DEF Accruing
    <3>2. Stands(q)
      BY <1>4, <2>2, <3>1 DEF AccountInv
    <3> QED
      BY <1>1, <2>2, <3>2, StandsKeep
  <2> QED
    BY <2>1, <2>2
<1> QED
  BY <1>2, <1>3, <1>4 DEF AccountInv

LEMMA CreatePeriodKeeps ==
  ASSUME AccountInv, NEW u \in Users, CreatePeriod(u)
  PROVE  AccountInv'
<1>1. PICK p \in Periods, i \in Inputs :
        /\ pc[u] = "idle" /\ period[p].state = "absent" /\ Save(p, Entered(i))
        /\ UNCHANGED <<rows, pc, req, todo, cut>>
  BY DEF CreatePeriod
<1>2. Entered(i) = [state |-> "stored", input |-> i, frozen |-> None, latest |-> None]
  BY DEF Entered, NoPeriod
<1>3. Entered(i) \in PeriodRow
  BY <1>2 DEF PeriodRow, Figures
<1>4. /\ period' \in [Periods -> PeriodRow] /\ period'[p] = Entered(i)
      /\ ~Stored(p) /\ ~Ratified(p)
  BY <1>1, <1>3 DEF Save, AccountInv, Typed, Stored, Ratified
<1>5. \A v \in Users : OnPeriod(req[v]) # p /\ Relies(v)
  BY <1>4, OnStored DEF AccountInv
<1>6. Idle(u)' /\ Relies(u)'
  BY <1>1, <1>5 DEF Relies, Idle, Editing, Ratifying, Unratifying, Rereading, Paying, Opening
<1>7. Typed' /\ Alone' /\ OneDifference' /\ Blank(p)' /\ HasInput(p)'
  BY <1>1, <1>2, <1>4 DEF AccountInv, Typed, Alone, OneDifference, Of, Blank, HasInput, Stored
<1>8. ASSUME p \notin cut' PROVE Stands(p)'
  <2>1. \A v \in Users : ~Accruing(v, p)
    BY <1>5 DEF Accruing, OnPeriod
  <2>2. \A who \in Partners : Owed(p, who) = 0
    BY <1>1, <1>4, <1>8, <2>1 DEF AccountInv, Stands
  <2>3. \A who : Owed(p, who)' = Owed(p, who)
    BY <1>1, OwedSame DEF Of
  <2>4. ~Ratified(p)'
    BY <1>2, <1>4 DEF Ratified
  <2> QED
    BY <2>2, <2>3, <2>4 DEF Stands
<1>9. \A q \in Periods \ {p} :
        /\ Of(q, "due")' = Of(q, "due") /\ Of(q, "delta")' = Of(q, "delta")
        /\ (q \in cut' <=> q \in cut) /\ ~Accruing(u, q)
  BY <1>1 DEF Of, Accruing
<1> QED
  BY <1>1, <1>3, <1>5, <1>6, <1>7, <1>8, <1>9, SaveKeeps

\* What the end of a request on p settles for SaveKeeps
LEMMA EndOfSave ==
  ASSUME AccountInv, NEW u \in Users, NEW p \in Periods, OnPeriod(req[u]) = p,
         NEW row \in PeriodRow, Save(p, row), End(u),
         rows' \subseteq rows, IsFiniteSet(rows'), cut' \subseteq Periods
  PROVE  /\ Typed' /\ Alone' /\ Relies(u)' /\ OneDifference'
         /\ period'[p] = row
         /\ \A v \in Users \ {u} :
              /\ OnPeriod(req[v]) # p
              /\ pc'[v] = pc[v] /\ req'[v] = req[v] /\ todo'[v] = todo[v]
         /\ \A q \in Periods \ {p} : ~Accruing(u, q)
<1>1. Begin(u, "idle", NoRequest, <<>>) /\ <<>> \in Seq(NewRow)
  BY DEF End
<1>2. /\ pc'[u] = "idle" /\ req'[u] = NoRequest /\ todo'[u] = <<>>
      /\ \A v \in Users \ {u} :
           pc'[v] = pc[v] /\ req'[v] = req[v] /\ todo'[v] = todo[v]
      /\ req' = [v \in Users |-> req'[v]]
      /\ todo' \in [Users -> Seq(NewRow)]
      /\ pc' \in [Users -> {"idle", "edit", "read", "save", "clear", "write"}]
  <2>1. Typed
    BY DEF AccountInv
  <2> QED
    BY <1>1, <2>1 DEF Begin, Goto, Typed
<1>3. period' \in [Periods -> PeriodRow] /\ period'[p] = row
  BY DEF Save, AccountInv, Typed
<1>4. Typed'
  BY <1>2, <1>3 DEF AccountInv, Typed
<1>5. Alone'
  <2>1. OnPeriod(req'[u]) = None
    BY <1>2 DEF OnPeriod, NoRequest
  <2>2. \A v \in Users \ {u} : OnPeriod(req'[v]) = OnPeriod(req[v])
    BY <1>2
  <2> QED
    BY <2>1, <2>2 DEF AccountInv, Alone
<1>6. Relies(u)'
  BY <1>2 DEF Relies, Idle
<1>7. OneDifference'
  BY DEF AccountInv, OneDifference, Of
<1>8. \A v \in Users \ {u} : OnPeriod(req[v]) # p
  BY PartnersAssumption DEF AccountInv, Alone
<1>9. \A q \in Periods \ {p} : ~Accruing(u, q)
  BY DEF Accruing, OnPeriod
<1> QED
  BY <1>2, <1>3, <1>4, <1>5, <1>6, <1>7, <1>8, <1>9

LEMMA UpdatePeriodKeeps ==
  ASSUME AccountInv, NEW u \in Users, UpdatePeriod(u)
  PROVE  AccountInv'
<1>1. Relies(u) /\ pc[u] = "edit" /\ req[u].op = "update"
  BY DEF AccountInv, UpdatePeriod
<1>2. /\ Editing(u)
      /\ req[u] \in [op : {"update"}, period : Periods, input : Inputs]
  BY <1>1 DEF Relies, Idle, Editing, Ratifying, Unratifying, Rereading, Paying, Opening
<1>3. PICK p \in Periods : p = req[u].period
  BY <1>2
<1>4. PICK row : row = [period[p] EXCEPT !.input = req[u].input]
  OBVIOUS
<1>5. /\ OnPeriod(req[u]) = p /\ Editable(p) /\ Stored(p) /\ ~Ratified(p)
      /\ period[p] \in PeriodRow
  BY <1>2, <1>3 DEF Editing, OnPeriod, Editable, AccountInv, Typed
<1>6. /\ row \in PeriodRow /\ row.state = "stored" /\ row.input \in Inputs
      /\ row.frozen = None
  BY <1>2, <1>4, <1>5 DEF PeriodRow, Ratified, Stored
<1>7. Save(p, row) /\ End(u) /\ rows' = rows /\ cut' = cut
  <2>1. period' = [period EXCEPT ![p].input = req[u].input]
    BY <1>3, <1>5 DEF UpdatePeriod
  <2>2. period' = [period EXCEPT ![p] = row]
    BY <1>4, <2>1
  <2> QED
    BY <2>2 DEF UpdatePeriod, Save
<1>8. /\ Typed' /\ Alone' /\ Relies(u)' /\ OneDifference' /\ period'[p] = row
      /\ \A v \in Users \ {u} :
           /\ OnPeriod(req[v]) # p
           /\ pc'[v] = pc[v] /\ req'[v] = req[v] /\ todo'[v] = todo[v]
      /\ \A q \in Periods \ {p} : ~Accruing(u, q)
  BY <1>5, <1>6, <1>7, EndOfSave DEF AccountInv, Typed
<1>9. Blank(p)' /\ HasInput(p)' /\ ~Ratified(p)'
  BY <1>6, <1>8 DEF Blank, HasInput, Stored, Ratified
<1>10. ASSUME p \notin cut' PROVE Stands(p)'
  <2>1. \A v \in Users : ~Accruing(v, p)
    BY <1>1, <1>8 DEF Accruing, OnPeriod
  <2>2. \A who \in Partners : Owed(p, who) = 0
    BY <1>5, <1>7, <1>10, <2>1 DEF AccountInv, Stands
  <2>3. \A who : Owed(p, who)' = Owed(p, who)
    BY <1>7, OwedSame DEF Of
  <2> QED
    BY <1>9, <2>2, <2>3 DEF Stands
<1>11. \A q \in Periods \ {p} :
         /\ Of(q, "due")' = Of(q, "due") /\ Of(q, "delta")' = Of(q, "delta")
         /\ (q \in cut' <=> q \in cut) /\ ~Accruing(u, q)
  BY <1>7, <1>8 DEF Of
<1> QED
  BY <1>6, <1>7, <1>8, <1>9, <1>10, <1>11, SaveKeeps

LEMMA RemovePeriodKeeps ==
  ASSUME AccountInv, NEW u \in Users, RemovePeriod(u)
  PROVE  AccountInv'
<1>1. Relies(u) /\ pc[u] = "edit" /\ req[u].op = "remove"
  BY DEF AccountInv, RemovePeriod
<1>2. req[u] \in [op : {"remove"}, period : Periods]
  BY <1>1 DEF Relies, Idle, Editing, Ratifying, Unratifying, Rereading, Paying, Opening
<1>3. PICK p \in Periods : p = req[u].period
  BY <1>2
<1>4. OnPeriod(req[u]) = p
  BY <1>2, <1>3 DEF OnPeriod
<1>5. PICK row : row = NoPeriod("deleted")
  OBVIOUS
<1>6. /\ row = [state |-> "deleted", input |-> None, frozen |-> None, latest |-> None]
      /\ row \in PeriodRow
  BY <1>5 DEF NoPeriod, PeriodRow, Figures
<1>7. /\ Save(p, row) /\ End(u) /\ rows' = {r \in rows : r.period # p}
      /\ cut' = cut \ {p}
  BY <1>3, <1>5 DEF RemovePeriod
<1>8. rows' \subseteq rows /\ IsFiniteSet(rows') /\ cut' \subseteq Periods
  BY <1>7, FS_Subset DEF AccountInv, Typed
<1>9. /\ Typed' /\ Alone' /\ Relies(u)' /\ OneDifference' /\ period'[p] = row
      /\ \A v \in Users \ {u} :
           /\ OnPeriod(req[v]) # p
           /\ pc'[v] = pc[v] /\ req'[v] = req[v] /\ todo'[v] = todo[v]
      /\ \A q \in Periods \ {p} : ~Accruing(u, q)
  BY <1>4, <1>6, <1>7, <1>8, EndOfSave
<1>10. Blank(p)' /\ HasInput(p)' /\ ~Ratified(p)'
  BY <1>6, <1>9 DEF Blank, HasInput, Stored, Ratified, NoPeriod
<1>11. Stands(p)'
  <2>1. Of(p, "due")' = {}
    BY <1>7 DEF Of
  <2>2. \A who : Owed(p, who)' = 0
    <3>1. TAKE who
    <3>2. {r \in Of(p, "due")' : r.partner = who} = {}
      BY <2>1
    <3>3. Owed(p, who)' = SumFor(who, Of(p, "due")')
      BY DEF Owed
    <3> QED
      BY <3>2, <3>3, SumForAmounts, RowSumEmpty
  <2> QED
    BY <1>10, <2>2 DEF Stands
<1>12. \A q \in Periods \ {p} :
         /\ Of(q, "due")' = Of(q, "due") /\ Of(q, "delta")' = Of(q, "delta")
         /\ (q \in cut' <=> q \in cut) /\ ~Accruing(u, q)
  BY <1>7, <1>9 DEF Of
<1> QED
  BY <1>6, <1>7, <1>9, <1>10, <1>11, <1>12, SaveKeeps

LEMMA FinishRatifyKeeps ==
  ASSUME AccountInv, NEW u \in Users, FinishRatify(u)
  PROVE  AccountInv'
<1>1. Relies(u) /\ pc[u] = "write" /\ todo[u] = <<>> /\ req[u].op = "ratify"
  BY DEF AccountInv, FinishRatify, Written
<1>2. Ratifying(u)
  BY <1>1 DEF Relies, Idle, Editing, Unratifying, Rereading, Paying, Opening, NoRequest
<1>3. PICK p \in Periods : p = req[u].period
  BY <1>2 DEF Ratifying
<1>4. PICK f, row : f = period[p].input.figures /\ row = [period[p] EXCEPT !.frozen = f]
  OBVIOUS
<1>5. /\ OnPeriod(req[u]) = p /\ req[u].copy = period[p] /\ Ratifiable(p)
      /\ period[p] \in PeriodRow /\ period[p].input \in Inputs
  BY <1>2, <1>3 DEF Ratifying, OnPeriod, Ratifiable, AccountInv, Typed, HasInput
<1>6. f \in [Partners -> Int] /\ f # None
  BY <1>4, <1>5, InputsAssumption, PartnersAssumption
<1>7. /\ row \in PeriodRow /\ row.state = "stored" /\ row.input \in Inputs
      /\ row.frozen = f
  BY <1>4, <1>5, <1>6 DEF PeriodRow, Figures, Ratifiable, Stored
<1>8. Save(p, row) /\ End(u) /\ rows' = rows /\ cut' = cut
  BY <1>3, <1>4, <1>5 DEF FinishRatify
<1>9. /\ Typed' /\ Alone' /\ Relies(u)' /\ OneDifference' /\ period'[p] = row
      /\ \A v \in Users \ {u} :
           /\ OnPeriod(req[v]) # p
           /\ pc'[v] = pc[v] /\ req'[v] = req[v] /\ todo'[v] = todo[v]
      /\ \A q \in Periods \ {p} : ~Accruing(u, q)
  BY <1>5, <1>7, <1>8, EndOfSave DEF AccountInv, Typed
<1>10. Blank(p)' /\ HasInput(p)' /\ Ratified(p)'
  BY <1>6, <1>7, <1>9 DEF Blank, HasInput, Stored, Ratified
<1>11. ASSUME p \notin cut' PROVE Stands(p)'
  <2>1. \A who \in Partners : Owed(p, who) = f[who]
    <3>1. TAKE who \in Partners
    <3>2. Owed(p, who) + Rest(todo[u], who) = f[who]
      BY <1>2, <1>3, <1>4, <1>5, <1>8, <1>11 DEF Ratifying
    <3>3. Rest(todo[u], who) = 0
      BY <1>1, RestEmpty
    <3>4. Owed(p, who) \in Int
      BY DueRows DEF AccountInv
    <3> QED
      BY <3>2, <3>3, <3>4
  <2>2. \A who : Owed(p, who)' = Owed(p, who)
    BY <1>8, OwedSame DEF Of
  <2> QED
    BY <1>7, <1>9, <1>10, <2>1, <2>2 DEF Stands
<1>12. \A q \in Periods \ {p} :
         /\ Of(q, "due")' = Of(q, "due") /\ Of(q, "delta")' = Of(q, "delta")
         /\ (q \in cut' <=> q \in cut) /\ ~Accruing(u, q)
  BY <1>8, <1>9 DEF Of
<1> QED
  BY <1>7, <1>8, <1>9, <1>10, <1>11, <1>12, SaveKeeps

LEMMA FinishUnratifyKeeps ==
  ASSUME AccountInv, NEW u \in Users, FinishUnratify(u)
  PROVE  /\ AccountInv'
         /\ \A who \in Partners : Owed(req[u].period, who) = 0
<1>1. Relies(u) /\ pc[u] = "write" /\ todo[u] = <<>> /\ req[u].op = "unratify"
  BY DEF AccountInv, FinishUnratify, Written
<1>2. Unratifying(u)
  BY <1>1 DEF Relies, Idle, Editing, Ratifying, Rereading, Paying, Opening, NoRequest
<1>3. PICK p \in Periods : p = req[u].period
  BY <1>2 DEF Unratifying
<1>4. PICK row : row = [period[p] EXCEPT !.frozen = None]
  OBVIOUS
<1>5. /\ OnPeriod(req[u]) = p /\ req[u].copy = period[p] /\ Stored(p)
      /\ period[p] \in PeriodRow /\ period[p].input \in Inputs
  BY <1>2, <1>3 DEF Unratifying, OnPeriod, Ratified, AccountInv, Typed, HasInput
<1>6. /\ row \in PeriodRow /\ row.state = "stored" /\ row.input \in Inputs
      /\ row.frozen = None
  BY <1>4, <1>5 DEF PeriodRow, Figures, Stored
<1>7. Save(p, row) /\ End(u) /\ rows' = rows /\ cut' = cut \ {p}
  BY <1>3, <1>4, <1>5 DEF FinishUnratify
<1>8. /\ Typed' /\ Alone' /\ Relies(u)' /\ OneDifference' /\ period'[p] = row
      /\ \A v \in Users \ {u} :
           /\ OnPeriod(req[v]) # p
           /\ pc'[v] = pc[v] /\ req'[v] = req[v] /\ todo'[v] = todo[v]
      /\ \A q \in Periods \ {p} : ~Accruing(u, q)
  BY <1>5, <1>6, <1>7, EndOfSave DEF AccountInv, Typed
<1>9. Blank(p)' /\ HasInput(p)' /\ ~Ratified(p)'
  BY <1>6, <1>8 DEF Blank, HasInput, Stored, Ratified
<1>10. \A who \in Partners : Owed(p, who) = 0
  <2>1. TAKE who \in Partners
  <2>2. Owed(p, who) + Rest(todo[u], who) = 0
    BY <1>1, <1>2, <1>3 DEF Unratifying
  <2>3. Rest(todo[u], who) = 0
    BY <1>1, RestEmpty
  <2>4. Owed(p, who) \in Int
    BY DueRows DEF AccountInv
  <2> QED
    BY <2>2, <2>3, <2>4
<1>11. Stands(p)'
  <2>1. \A who : Owed(p, who)' = Owed(p, who)
    BY <1>7, OwedSame DEF Of
  <2> QED
    BY <1>9, <1>10, <2>1 DEF Stands
<1>12. \A q \in Periods \ {p} :
         /\ Of(q, "due")' = Of(q, "due") /\ Of(q, "delta")' = Of(q, "delta")
         /\ (q \in cut' <=> q \in cut) /\ ~Accruing(u, q)
  BY <1>7, <1>8 DEF Of
<1>13. AccountInv'
  BY <1>6, <1>7, <1>8, <1>9, <1>11, <1>12, SaveKeeps
<1> QED
  BY <1>3, <1>10, <1>13

LEMMA SaveLatestKeeps ==
  ASSUME AccountInv, NEW u \in Users, SaveLatest(u)
  PROVE  AccountInv'
<1>1. Relies(u) /\ pc[u] = "save"
  BY DEF AccountInv, SaveLatest
<1>2. Rereading(u)
  BY <1>1 DEF Relies, Idle, Editing, Ratifying, Unratifying, Paying, Opening
<1>3. PICK p \in Periods : p = req[u].period
  BY <1>2 DEF Rereading
<1>4. PICK row : row = req[u].copy
  OBVIOUS
<1>5. PICK f \in Figures : row = [period[p] EXCEPT !.latest = f]
  BY <1>2, <1>3, <1>4 DEF Rereading
<1>6. /\ row \in PeriodRow /\ period[p] \in PeriodRow /\ OnPeriod(req[u]) = p
      /\ Ratified(p) /\ period[p].input \in Inputs
  BY <1>2, <1>3, <1>4 DEF Rereading, OnPeriod, Ratified, AccountInv, Typed, HasInput
<1>7. row.state = "stored" /\ row.input = period[p].input /\ row.frozen = period[p].frozen
  BY <1>5, <1>6 DEF PeriodRow, Ratified, Stored
<1>8. Save(p, row) /\ Goto(u, "clear") /\ UNCHANGED <<rows, req, todo, cut>>
  BY <1>3, <1>4 DEF SaveLatest
<1>9. /\ period' \in [Periods -> PeriodRow] /\ period'[p] = row
      /\ pc' \in [Users -> {"idle", "edit", "read", "save", "clear", "write"}]
      /\ pc'[u] = "clear" /\ \A v \in Users \ {u} : pc'[v] = pc[v]
  BY <1>6, <1>8 DEF Save, Goto, AccountInv, Typed
<1>10. /\ Typed' /\ Alone' /\ OneDifference'
       /\ \A v \in Users \ {u} : OnPeriod(req[v]) # p
  BY <1>6, <1>8, <1>9, PartnersAssumption DEF AccountInv, Typed, Alone, OneDifference, Of
<1>11. Blank(p)' /\ HasInput(p)' /\ (Ratified(p)' <=> Ratified(p))
  BY <1>6, <1>7, <1>9 DEF Blank, HasInput, Stored, Ratified
<1>12. Relies(u)'
  <2>1. Lists(u, "delta")'
    BY <1>2, <1>8 DEF Rereading, Lists
  <2>2. row = [row EXCEPT !.latest = f]
    BY <1>5, <1>6 DEF PeriodRow
  <2>3. \E g \in Figures : req'[u].copy = [period'[p] EXCEPT !.latest = g]
    BY <1>4, <1>8, <1>9, <2>2
  <2>4. /\ req'[u] \in [op : {"latest"}, period : Periods, copy : PeriodRow]
        /\ req'[u].period = p
        /\ \A i, j \in 1..Len(todo'[u]) : todo'[u][i].partner = todo'[u][j].partner => i = j
    BY <1>2, <1>3, <1>8 DEF Rereading
  <2> QED
    BY <1>6, <1>9, <1>11, <2>1, <2>3, <2>4 DEF Relies, Rereading
<1>13. ASSUME p \notin cut' PROVE Stands(p)'
  <2>1. \A v \in Users : ~Accruing(v, p)
    BY <1>1, <1>10 DEF Accruing, OnPeriod
  <2>2. Stands(p)
    BY <1>8, <1>13, <2>1 DEF AccountInv
  <2>3. \A who : Owed(p, who)' = Owed(p, who)
    BY <1>8, OwedSame DEF Of
  <2> QED
    BY <1>7, <1>9, <1>11, <2>2, <2>3 DEF Stands
<1>14. \A q \in Periods \ {p} :
         /\ Of(q, "due")' = Of(q, "due") /\ Of(q, "delta")' = Of(q, "delta")
         /\ (q \in cut' <=> q \in cut) /\ ~Accruing(u, q)
  BY <1>1, <1>8 DEF Of, Accruing
<1> QED
  BY <1>6, <1>8, <1>9, <1>10, <1>11, <1>12, <1>13, <1>14, SaveKeeps

\* A request that writes or deletes rows of its own period
LEMMA RowsKeep ==
  ASSUME AccountInv, NEW u \in Users, UNCHANGED <<period, req, cut>>,
         Typed', Relies(u)', OneDifference',
         \A v \in Users \ {u} : pc'[v] = pc[v] /\ todo'[v] = todo[v],
         \A q \in Periods : q # OnPeriod(req[u]) =>
           Of(q, "due")' = Of(q, "due") /\ Of(q, "delta")' = Of(q, "delta"),
         \A q \in Periods :
           Accruing(u, q)' \/ (~Accruing(u, q) /\ Of(q, "due")' = Of(q, "due"))
  PROVE  AccountInv'
<1>1. \A p \in Periods : Blank(p)' /\ HasInput(p)'
  BY DEF AccountInv, Blank, HasInput, Stored
<1>2. Alone'
  BY DEF AccountInv, Alone
<1>3. ASSUME NEW v \in Users PROVE Relies(v)'
  <2>1. CASE v = u
    BY <2>1
  <2>2. CASE v # u
    <3>1. \A q \in Periods : q = OnPeriod(req[v]) => q # OnPeriod(req[u])
      BY <2>2, PartnersAssumption DEF AccountInv, Alone
    <3> QED
      BY <2>2, <3>1, OthersKeep DEF AccountInv
  <2> QED
    BY <2>1, <2>2
<1>4. ASSUME NEW q \in Periods \ cut', \A v \in Users : ~Accruing(v, q)'
      PROVE  Stands(q)'
  <2>1. \A v \in Users : ~Accruing(v, q)
    BY <1>4 DEF Accruing
  <2>2. Stands(q) /\ Of(q, "due")' = Of(q, "due")
    BY <1>4, <2>1 DEF AccountInv
  <2> QED
    BY <2>2, StandsKeep
<1> QED
  BY <1>1, <1>2, <1>3, <1>4 DEF AccountInv

LEMMA DeletePaymentKeeps ==
  ASSUME AccountInv, NEW u \in Users, DeletePayment(u)
  PROVE  AccountInv'
<1>1. PICK r \in rows : /\ pc[u] = "idle" /\ r.kind = "payment" /\ rows' = rows \ {r}
                        /\ UNCHANGED <<period, pc, req, todo, cut>>
  BY DEF DeletePayment, Free
<1>2. \A q : Of(q, "due")' = Of(q, "due") /\ Of(q, "delta")' = Of(q, "delta")
  BY <1>1 DEF Of
<1>3. IsFiniteSet(rows') /\ rows' \subseteq rows
  BY <1>1, FS_Subset DEF AccountInv, Typed
<1>4. Typed' /\ OneDifference'
  BY <1>1, <1>2, <1>3 DEF AccountInv, Typed, OneDifference
<1>5. Relies(u) /\ Idle(u)
  BY <1>1 DEF AccountInv, Relies, Editing, Ratifying, Unratifying, Rereading, Paying, Opening
<1>6. Relies(u)' /\ \A q : ~Accruing(u, q)
  BY <1>1, <1>5 DEF Relies, Idle, Accruing
<1> QED
  BY <1>1, <1>2, <1>4, <1>6, RowsKeep

LEMMA ClearKeeps ==
  ASSUME AccountInv, NEW u \in Users, Clear(u)
  PROVE  AccountInv'
<1>1. /\ Relies(u) /\ pc[u] = "clear"
      /\ rows' = {r \in rows : ~Replaced(u, r)} /\ Goto(u, "write")
      /\ UNCHANGED <<period, req, todo, cut>>
  BY DEF AccountInv, Clear
<1>2. Rereading(u) \/ Opening(u)
  BY <1>1 DEF Relies, Idle, Editing, Ratifying, Unratifying, Paying
<1>3. /\ pc' \in [Users -> {"idle", "edit", "read", "save", "clear", "write"}]
      /\ pc'[u] = "write" /\ \A v \in Users \ {u} : pc'[v] = pc[v]
      /\ rows' \subseteq rows
  BY <1>1 DEF Goto, AccountInv, Typed
<1>4. IsFiniteSet(rows')
  BY <1>3, FS_Subset DEF AccountInv, Typed
<1>5. Typed' /\ OneDifference'
  BY <1>1, <1>3, <1>4 DEF AccountInv, Typed, OneDifference, Of
<1>6. \A q : Of(q, "due")' = Of(q, "due")
  BY <1>1 DEF Of, Replaced
<1>7. ASSUME NEW q \in Periods, q # OnPeriod(req[u])
      PROVE  Of(q, "delta")' = Of(q, "delta")
  <2>1. req[u].op = "open" \/ req[u].period = OnPeriod(req[u])
    BY <1>2 DEF Rereading, Opening, OnPeriod
  <2> QED
    BY <1>1, <1>7, <2>1 DEF Of, Replaced
<1>8. req[u].op \notin {"ratify", "unratify"}
  BY <1>2 DEF Rereading, Opening
<1>9. Relies(u)'
  <2>1. CASE Opening(u)
    BY <1>1, <1>3, <2>1 DEF Opening, Relies, Lists
  <2>2. CASE Rereading(u)
    <3>1. PICK p \in Periods : p = req[u].period /\ req[u].op = "latest"
      BY <2>2 DEF Rereading
    <3>2. Of(p, "delta")' = {}
      BY <1>1, <3>1 DEF Of, Replaced
    <3>3. Lists(u, "delta")' /\ Ratified(p)'
      BY <1>1, <2>2, <3>1 DEF Rereading, Lists, Ratified, Stored
    <3>4. Rereading(u)'
      BY <1>1, <1>3, <2>2, <3>1, <3>2, <3>3 DEF Rereading
    <3> QED
      BY <3>4 DEF Relies
  <2> QED
    BY <1>2, <2>1, <2>2
<1>10. \A q : ~Accruing(u, q)
  BY <1>8 DEF Accruing
<1> QED
  BY <1>1, <1>3, <1>5, <1>6, <1>7, <1>9, <1>10, RowsKeep

\* What a written row leaves: the list without it, and the row under a new name
LEMMA WriteFacts ==
  ASSUME AccountInv, NEW u \in Users, Write(u),
         NEW r, r = Head(todo[u]), NEW e, e = Named(r, NewId(r))
  PROVE  /\ pc[u] = "write" /\ UNCHANGED <<period, pc, req, cut>>
         /\ todo[u] \in Seq(NewRow) /\ todo[u] # <<>>
         /\ todo' \in [Users -> Seq(NewRow)] /\ todo'[u] = Tail(todo[u])
         /\ \A v \in Users \ {u} : todo'[v] = todo[v]
         /\ Len(todo[u]) \in Nat /\ 1 \in 1..Len(todo[u]) /\ r = todo[u][1]
         /\ \A i \in 1..Len(todo'[u]) :
              i \in Nat /\ i + 1 \in 1..Len(todo[u]) /\ todo'[u][i] = todo[u][i + 1]
         /\ r \in NewRow /\ r.partner \in Partners /\ r.amount \in Int
         /\ rows' = IF r.amount = 0 THEN rows ELSE rows \cup {e}
         /\ r.amount # 0 => e \in StoredRow
         /\ e.period = r.period /\ e.kind = r.kind /\ e.partner = r.partner
         /\ e.amount = r.amount
<1>1. /\ pc[u] = "write" /\ UNCHANGED <<period, pc, req, cut>> /\ todo[u] # <<>>
      /\ Writable(r)
      /\ rows' = IF r.amount = 0 THEN rows ELSE rows \cup {e}
      /\ todo' = [todo EXCEPT ![u] = Tail(todo[u])]
  BY DEF Write
<1>2. todo \in [Users -> Seq(NewRow)] /\ todo[u] \in Seq(NewRow)
  BY DEF AccountInv, Typed
<1>3. /\ Len(todo[u]) \in Nat /\ 1 \in 1..Len(todo[u]) /\ r = todo[u][1]
      /\ Tail(todo[u]) \in Seq(NewRow)
      /\ \A i \in 1..Len(Tail(todo[u])) :
           i \in Nat /\ i + 1 \in 1..Len(todo[u]) /\ Tail(todo[u])[i] = todo[u][i + 1]
  <2>1. PICK s \in Seq(NewRow) : s = todo[u]
    BY <1>2
  <2>2. /\ Len(s) \in Nat /\ 1 \in 1..Len(s) /\ Head(s) = s[1] /\ Tail(s) \in Seq(NewRow)
        /\ \A i \in 1..Len(Tail(s)) :
             i \in Nat /\ i + 1 \in 1..Len(s) /\ Tail(s)[i] = s[i + 1]
    BY <1>1, <2>1
  <2> QED
    BY <2>1, <2>2
<1>4. todo' \in [Users -> Seq(NewRow)] /\ todo'[u] = Tail(todo[u])
      /\ \A v \in Users \ {u} : todo'[v] = todo[v]
  BY <1>1, <1>2, <1>3
<1>5. r \in NewRow
  BY <1>2, <1>3
<1>6. r.partner \in Partners /\ r.amount \in Int
  BY <1>1, <1>5 DEF Writable, NewRow
<1>7. /\ e = [r EXCEPT !.id = NewId(r)] /\ NewId(r) \in Nat
      /\ e.period = r.period /\ e.kind = r.kind /\ e.partner = r.partner
      /\ e.amount = r.amount
  BY <1>5, NewIdFree DEF AccountInv, Named, NewRow
<1>8. r.amount # 0 => e \in StoredRow
  BY <1>5, <1>6, <1>7 DEF NewRow, StoredRow
<1> QED
  BY <1>1, <1>2, <1>3, <1>4, <1>5, <1>6, <1>7, <1>8

\* ... and what it adds to what is owed
LEMMA OwedWritten ==
  ASSUME AccountInv, NEW u \in Users, Write(u), NEW q, NEW who,
         NEW r, r = Head(todo[u])
  PROVE  Owed(q, who)' = Owed(q, who) +
           IF r.period = q /\ r.kind = "due" /\ r.partner = who THEN r.amount ELSE 0
<1>1. PICK e : e = Named(r, NewId(r))
  OBVIOUS
<1>2. /\ r \in NewRow /\ r.amount \in Int
      /\ rows' = IF r.amount = 0 THEN rows ELSE rows \cup {e}
  BY <1>1, WriteFacts
<1>3. CASE r.amount = 0
  <2>1. Of(q, "due")' = Of(q, "due")
    BY <1>2, <1>3 DEF Of
  <2>2. Owed(q, who)' = Owed(q, who) /\ Owed(q, who) \in Int
    BY <2>1, OwedSame, DueRows DEF AccountInv
  <2> QED
    BY <1>3, <2>2
<1>4. CASE r.amount # 0
  <2>1. rows' = rows \cup {Named(r, NewId(r))}
    BY <1>1, <1>2, <1>4
  <2> QED
    BY <1>2, <2>1, OwedGrows DEF AccountInv
<1> QED
  BY <1>3, <1>4

LEMMA WriteKeeps ==
  ASSUME AccountInv, NEW u \in Users, Write(u)
  PROVE  AccountInv'
<1>1. PICK r, e : r = Head(todo[u]) /\ e = Named(r, NewId(r))
  OBVIOUS
<1>2. /\ pc[u] = "write" /\ UNCHANGED <<period, pc, req, cut>>
      /\ todo[u] \in Seq(NewRow) /\ todo[u] # <<>>
      /\ todo' \in [Users -> Seq(NewRow)] /\ todo'[u] = Tail(todo[u])
      /\ \A v \in Users \ {u} : todo'[v] = todo[v]
      /\ Len(todo[u]) \in Nat /\ 1 \in 1..Len(todo[u]) /\ r = todo[u][1]
      /\ \A i \in 1..Len(todo'[u]) :
           i \in Nat /\ i + 1 \in 1..Len(todo[u]) /\ todo'[u][i] = todo[u][i + 1]
      /\ r \in NewRow /\ r.partner \in Partners /\ r.amount \in Int
      /\ rows' = IF r.amount = 0 THEN rows ELSE rows \cup {e}
      /\ r.amount # 0 => e \in StoredRow
      /\ e.period = r.period /\ e.kind = r.kind /\ e.partner = r.partner
      /\ e.amount = r.amount
  BY <1>1, WriteFacts
<1>3. /\ Ratifying(u) \/ Unratifying(u) \/ Rereading(u) \/ Paying(u) \/ Opening(u)
      /\ Relies(u)
  BY <1>2 DEF AccountInv, Relies, Idle, Editing
<1>4. \A k : Lists(u, k) =>
        /\ Lists(u, k)' /\ r.kind = k /\ r.period = OnPeriod(req[u])
  BY <1>2 DEF Lists
<1>5. /\ r.kind = "payment" => r.amount < 0
      /\ r.kind = "delta" => Rereading(u) /\ r.period = req[u].period
      /\ r.period = OnPeriod(req[u])
      /\ r.kind = "due" => req[u].op \in {"ratify", "unratify"} /\ r.period = req[u].period
  <2>1. CASE Ratifying(u)
    BY <1>4, <2>1 DEF Ratifying, OnPeriod
  <2>2. CASE Unratifying(u)
    BY <1>4, <2>2 DEF Unratifying, OnPeriod
  <2>3. CASE Rereading(u)
    BY <1>4, <2>3 DEF Rereading, OnPeriod
  <2>4. CASE Paying(u)
    BY <1>2, <1>4, <2>4 DEF Paying
  <2>5. CASE Opening(u)
    BY <1>4, <2>5 DEF Opening
  <2> QED
    BY <1>3, <2>1, <2>2, <2>3, <2>4, <2>5
<1>6. Typed'
  <2>1. rows' \subseteq StoredRow /\ IsFiniteSet(rows')
        /\ \A s \in rows' : s.kind = "payment" => s.amount < 0
    BY <1>2, <1>5, FS_AddElement DEF AccountInv, Typed
  <2> QED
    BY <1>2, <2>1 DEF AccountInv, Typed
<1>7. \A q, k : r.kind # k \/ r.period # q => Of(q, k)' = Of(q, k)
  BY <1>2 DEF Of
<1>8. OneDifference'
  <2>1. SUFFICES ASSUME NEW p \in Periods, NEW s \in Of(p, "delta")',
                        NEW t \in Of(p, "delta")', s.partner = t.partner
                 PROVE  s = t
    BY DEF OneDifference
  <2>2. CASE Of(p, "delta")' = Of(p, "delta")
    BY <2>1, <2>2 DEF AccountInv, OneDifference
  <2>3. CASE Of(p, "delta")' # Of(p, "delta")
    <3>1. r.kind = "delta" /\ r.period = p
      BY <1>7, <2>3
    <3>2. Rereading(u) /\ req[u].period = p
      BY <1>5, <3>1
    <3>3. \A d \in Of(p, "delta") : d.partner # r.partner
      BY <1>2, <3>2 DEF Rereading
    <3>4. Of(p, "delta")' \subseteq Of(p, "delta") \cup {e}
      BY <1>2 DEF Of
    <3> QED
      BY <1>2, <2>1, <3>3, <3>4 DEF AccountInv, OneDifference
  <2> QED
    BY <2>2, <2>3
<1>9. \A q, who : Owed(q, who)' = Owed(q, who) +
        IF r.period = q /\ r.kind = "due" /\ r.partner = who THEN r.amount ELSE 0
  BY <1>1, OwedWritten
<1>10. \A who : /\ Rest(todo[u], who) = (IF r.partner = who THEN r.amount ELSE 0)
                                         + Rest(todo'[u], who)
                /\ Rest(todo'[u], who) \in Int
  <2>1. TAKE who
  <2>2. Rest(todo[u], who) = (IF Head(todo[u]).partner = who THEN Head(todo[u]).amount ELSE 0)
                              + Rest(Tail(todo[u]), who)
    BY <1>2, RestTail
  <2>3. todo'[u] \in Seq(NewRow)
    BY <1>2
  <2>4. Rest(todo'[u], who) \in Int
    BY <2>3, RestInt
  <2>5. todo'[u] = Tail(todo[u])
    BY <1>2
  <2>6. Rest(todo[u], who) = (IF r.partner = who THEN r.amount ELSE 0) + Rest(todo'[u], who)
    BY <1>1, <2>2, <2>5
  <2> QED
    BY <2>4, <2>6
<1>11. Relies(u)'
  <2>1. \A p \in Periods : /\ (Ratified(p)' <=> Ratified(p))
                           /\ (Ratifiable(p)' <=> Ratifiable(p))
    BY <1>2 DEF Ratified, Ratifiable, Stored
  <2>2. ASSUME NEW who, r.period = req[u].period, r.kind = "due"
        PROVE  Owed(req[u].period, who)' + Rest(todo'[u], who)
                 = Owed(req[u].period, who) + Rest(todo[u], who)
    <3>1. Owed(req[u].period, who) \in Int
      BY DueRows DEF AccountInv
    <3>2. PICK a, b, c, d, n :
            /\ a = Owed(req[u].period, who) /\ b = Owed(req[u].period, who)'
            /\ c = Rest(todo[u], who) /\ d = Rest(todo'[u], who)
            /\ n = IF r.partner = who THEN r.amount ELSE 0
      OBVIOUS
    <3>3. b = a + n /\ c = n + d /\ a \in Int /\ d \in Int /\ n \in Int
      BY <1>2, <1>9, <1>10, <2>2, <3>1, <3>2
    <3>4. b + d = a + c
      BY <3>3
    <3> QED
      BY <3>2, <3>4
  <2>3. CASE Ratifying(u)
    <3>1. r.period = req[u].period /\ r.kind = "due" /\ Lists(u, "due")'
      BY <1>4, <1>5, <2>3 DEF Ratifying
    <3>2. Ratifying(u)'
      BY <1>2, <2>1, <2>2, <2>3, <3>1 DEF Ratifying
    <3> QED
      BY <3>2 DEF Relies
  <2>4. CASE Unratifying(u)
    <3>1. r.period = req[u].period /\ r.kind = "due" /\ Lists(u, "due")'
      BY <1>4, <1>5, <2>4 DEF Unratifying
    <3>2. Unratifying(u)'
      BY <1>2, <2>1, <2>2, <2>4, <3>1 DEF Unratifying
    <3> QED
      BY <3>2 DEF Relies
  <2>5. CASE Rereading(u)
    <3>1. PICK p \in Periods : p = req[u].period /\ Ratified(p)
      BY <2>5 DEF Rereading
    <3>2. \A i, j \in 1..Len(todo'[u]) :
            todo'[u][i].partner = todo'[u][j].partner => i = j
      <4>1. TAKE i, j \in 1..Len(todo'[u])
      <4>2. todo'[u][i].partner = todo'[u][j].partner => i + 1 = j + 1
        BY <1>2, <2>5 DEF Rereading
      <4> QED
        BY <1>2, <4>2
    <3>3. \A s \in Of(p, "delta")', i \in 1..Len(todo'[u]) :
            s.partner # todo'[u][i].partner
      <4>1. TAKE s \in Of(p, "delta")', i \in 1..Len(todo'[u])
      <4>2. s \in Of(p, "delta") \/ s = e
        BY <1>2 DEF Of
      <4>3. CASE s = e
        <5>1. r.partner # todo[u][i + 1].partner
          <6>1. i + 1 # 1
            BY <1>2
          <6> QED
            BY <1>2, <2>5, <6>1 DEF Rereading
        <5> QED
          BY <1>2, <4>3, <5>1
      <4>4. CASE s \in Of(p, "delta")
        BY <1>2, <2>5, <3>1, <4>4 DEF Rereading
      <4> QED
        BY <4>2, <4>3, <4>4
    <3>4. Lists(u, "delta")'
      BY <1>4, <2>5 DEF Rereading
    <3>5. Rereading(u)'
      BY <1>2, <2>1, <2>5, <3>1, <3>2, <3>3, <3>4 DEF Rereading
    <3> QED
      BY <3>5 DEF Relies
  <2>6. CASE Paying(u)
    <3>1. \A i \in 1..Len(todo'[u]) : todo'[u][i].amount < 0
      BY <1>2, <2>6 DEF Paying
    <3>2. Lists(u, "payment")'
      BY <1>4, <2>6 DEF Paying
    <3>3. Paying(u)'
      BY <1>2, <2>6, <3>1, <3>2 DEF Paying, Stored
    <3> QED
      BY <3>3 DEF Relies
  <2>7. CASE Opening(u)
    BY <1>2, <1>4, <2>7 DEF Opening, Relies
  <2> QED
    BY <1>3, <2>3, <2>4, <2>5, <2>6, <2>7
<1>12. \A q \in Periods :
         Accruing(u, q)' \/ (~Accruing(u, q) /\ Of(q, "due")' = Of(q, "due"))
  <2>1. TAKE q \in Periods
  <2>2. Accruing(u, q)' <=> Accruing(u, q)
    BY <1>2 DEF Accruing
  <2>3. ~Accruing(u, q) => Of(q, "due")' = Of(q, "due")
    BY <1>2, <1>5, <1>7 DEF Accruing
  <2> QED
    BY <2>2, <2>3
<1>13. \A q \in Periods : q # OnPeriod(req[u]) =>
         Of(q, "due")' = Of(q, "due") /\ Of(q, "delta")' = Of(q, "delta")
  BY <1>5, <1>7
<1> QED
  BY <1>2, <1>6, <1>8, <1>11, <1>12, <1>13, RowsKeep

----------------------------------------------------------------------------
(* The whole account *)

LEMMA AccountNext ==
  ASSUME AccountInv, Apart, [Next]_vars
  PROVE  AccountInv'
<1>1. CASE UNCHANGED vars
  BY <1>1, StutterKeeps
<1>2. ASSUME NEW u \in Users,
             \/ CreatePeriod(u) \/ BeginUpdate(u) \/ UpdatePeriod(u)
             \/ BeginRemovePeriod(u) \/ RemovePeriod(u)
      PROVE  AccountInv'
  BY <1>2, CreatePeriodKeeps, BeginUpdateKeeps, UpdatePeriodKeeps, BeginRemoveKeeps,
     RemovePeriodKeeps
<1>3. ASSUME NEW u \in Users,
             \/ BeginRatify(u) \/ FinishRatify(u)
             \/ BeginUnratify(u) \/ ReadRows(u) \/ FinishUnratify(u)
             \/ BeginRecordLatest(u) \/ SaveLatest(u)
      PROVE  AccountInv'
  BY <1>3, BeginRatifyKeeps, FinishRatifyKeeps, BeginUnratifyKeeps, ReadRowsKeeps,
     FinishUnratifyKeeps, BeginRecordLatestKeeps, SaveLatestKeeps
<1>4. ASSUME NEW u \in Users,
             \/ BeginPayment(u) \/ DeletePayment(u) \/ BeginOpenBalance(u)
             \/ Clear(u) \/ Write(u) \/ RefuseRow(u) \/ FinishRequest(u) \/ Crash(u)
      PROVE  AccountInv'
  BY <1>4, BeginPaymentKeeps, DeletePaymentKeeps, BeginOpenBalanceKeeps, ClearKeeps,
     WriteKeeps, RefuseRowKeeps, FinishKeeps, CrashKeeps
<1> QED
  BY <1>1, <1>2, <1>3, <1>4, Zenon DEF Next

\* What a step does to a ratified period: its figures and its accruals stay, or
\* it is un-ratified and nothing is owed for it
LEMMA RatifiedStep ==
  ASSUME AccountInv, [Next]_vars, NEW p \in Periods, Ratified(p)
  PROVE  \/ /\ Ratified(p)' /\ period'[p].input = period[p].input
            /\ period'[p].frozen = period[p].frozen
            /\ Of(p, "due") \subseteq Of(p, "due")'
         \/ ~Ratified(p)' /\ \A who \in Partners : Owed(p, who) = 0
<1>1. CASE period' = period /\ rows' = rows
  BY <1>1 DEF Ratified, Stored, Of
<1>2. period \in [Periods -> PeriodRow] /\ period[p].state = "stored"
  BY DEF AccountInv, Typed, Ratified, Stored
<1>3. ASSUME NEW u \in Users, CreatePeriod(u)
      PROVE  period'[p] = period[p] /\ rows' = rows
  BY <1>2, <1>3 DEF CreatePeriod, Save
<1>4. ASSUME NEW u \in Users, pc[u] = "edit"
      PROVE  Editing(u) /\ req[u].period # p
  BY <1>4 DEF AccountInv, Relies, Idle, Editing, Ratifying, Unratifying, Rereading, Paying,
     Opening, Editable
<1>5. ASSUME NEW u \in Users, UpdatePeriod(u)
      PROVE  period'[p] = period[p] /\ rows' = rows
  BY <1>2, <1>4, <1>5 DEF UpdatePeriod
<1>6. ASSUME NEW u \in Users, RemovePeriod(u)
      PROVE  period'[p] = period[p] /\ Of(p, "due") \subseteq Of(p, "due")'
  BY <1>2, <1>4, <1>6 DEF RemovePeriod, Save, Of
<1>7. ASSUME NEW u \in Users, FinishRatify(u)
      PROVE  period'[p] = period[p] /\ rows' = rows
  <2>1. Relies(u) /\ pc[u] = "write" /\ req[u].op = "ratify"
    BY <1>7 DEF AccountInv, FinishRatify, Written
  <2>2. Ratifying(u)
    BY <2>1 DEF Relies, Idle, Editing, Unratifying, Rereading, Paying, Opening, NoRequest
  <2>3. req[u].period # p
    BY <2>2 DEF Ratifying, Ratifiable
  <2> QED
    BY <1>2, <1>7, <2>3 DEF FinishRatify, Save
<1>8. ASSUME NEW u \in Users, FinishUnratify(u)
      PROVE  \/ period'[p] = period[p] /\ rows' = rows
             \/ ~Ratified(p)' /\ \A who \in Partners : Owed(p, who) = 0
  <2>1. CASE req[u].period # p
    BY <1>2, <1>8, <2>1 DEF FinishUnratify, Save
  <2>2. CASE req[u].period = p
    <3>1. \A who \in Partners : Owed(p, who) = 0
      BY <1>8, <2>2, FinishUnratifyKeeps
    <3>2. Relies(u) /\ pc[u] = "write" /\ req[u].op = "unratify"
      BY <1>8 DEF AccountInv, FinishUnratify, Written
    <3>3. Unratifying(u)
      BY <3>2 DEF Relies, Idle, Editing, Ratifying, Rereading, Paying, Opening, NoRequest
    <3>4. req[u].copy \in PeriodRow
      BY <3>3 DEF Unratifying
    <3>5. period'[p].frozen = None
      BY <1>2, <1>8, <2>2, <3>4 DEF FinishUnratify, Save, PeriodRow
    <3> QED
      BY <3>1, <3>5 DEF Ratified
  <2> QED
    BY <2>1, <2>2
<1>9. ASSUME NEW u \in Users, SaveLatest(u)
       PROVE  /\ rows' = rows /\ period'[p].input = period[p].input
              /\ period'[p].frozen = period[p].frozen /\ period'[p].state = period[p].state
  <2>1. Relies(u) /\ pc[u] = "save"
    BY <1>9 DEF AccountInv, SaveLatest
  <2>2. Rereading(u)
    BY <2>1 DEF Relies, Idle, Editing, Ratifying, Unratifying, Paying, Opening
  <2>3. PICK f \in Figures : req[u].copy = [period[req[u].period] EXCEPT !.latest = f]
    BY <2>2 DEF Rereading
  <2> QED
    BY <1>2, <1>9, <2>3 DEF SaveLatest, Save, PeriodRow
<1>10. ASSUME NEW u \in Users, DeletePayment(u) \/ Clear(u) \/ Write(u)
       PROVE  period' = period /\ Of(p, "due") \subseteq Of(p, "due")'
  BY <1>10 DEF DeletePayment, Clear, Write, Replaced, Of
<1>11. ASSUME NEW u \in Users,
              \/ BeginUpdate(u) \/ BeginRemovePeriod(u) \/ BeginRatify(u) \/ BeginUnratify(u)
              \/ ReadRows(u) \/ BeginRecordLatest(u) \/ BeginPayment(u)
              \/ BeginOpenBalance(u) \/ RefuseRow(u) \/ FinishRequest(u) \/ Crash(u)
       PROVE  period' = period /\ rows' = rows
  BY <1>11 DEF BeginUpdate, BeginRemovePeriod, BeginRatify, BeginUnratify, ReadRows,
     BeginRecordLatest, BeginPayment, BeginOpenBalance, RefuseRow, FinishRequest, Crash, accountVars
<1>12. CASE UNCHANGED vars
  BY <1>1, <1>12 DEF vars
<1>13. ASSUME period'[p].state = period[p].state, period'[p].input = period[p].input,
              period'[p].frozen = period[p].frozen
       PROVE  Ratified(p)'
  BY <1>13 DEF Ratified, Stored
<1>14. rows' = rows => Of(p, "due")' = Of(p, "due")
  BY DEF Of
<1>15. CASE Next
  <2>1. PICK u \in Users :
          \/ CreatePeriod(u) \/ BeginUpdate(u) \/ UpdatePeriod(u) \/ BeginRemovePeriod(u)
          \/ RemovePeriod(u) \/ BeginRatify(u) \/ FinishRatify(u)
          \/ BeginUnratify(u) \/ ReadRows(u) \/ FinishUnratify(u)
          \/ BeginRecordLatest(u) \/ SaveLatest(u)
          \/ BeginPayment(u) \/ DeletePayment(u) \/ BeginOpenBalance(u)
          \/ Clear(u) \/ Write(u) \/ RefuseRow(u) \/ FinishRequest(u) \/ Crash(u)
    BY <1>15, Zenon DEF Next
  <2> QED
    BY <1>1, <1>3, <1>5, <1>6, <1>7, <1>8, <1>9, <1>10, <1>11, <1>13, <1>14, <2>1
<1> QED
  BY <1>12, <1>15

\* The account: as long as requests on one period come one after the other
\* (Apart), every request writes what its period has still to accrue, whatever
\* crashes, refuses or is entered between its statements.
THEOREM AccountInvariant ==
  ASSUME Apart
  PROVE  Spec => []AccountInv
<1>1. AccountInv /\ [Next]_vars => AccountInv'
  BY AccountNext
<1> QED
  BY InitInv, <1>1, PTL DEF Spec

\* Every variable has its type, and what is paid is never written as owed.
THEOREM TypeCorrect ==
  ASSUME Apart
  PROVE  Spec => []TypeOK
<1>1. ASSUME AccountInv PROVE TypeOK
  <2>1. \A p \in Periods : period[p] \in PeriodRow
    BY <1>1 DEF AccountInv, Typed
  <2>2. \A r \in rows : r \in StoredRow
    BY <1>1 DEF AccountInv, Typed
  <2>3. ASSUME NEW u \in Users PROVE pc[u] = "idle" <=> req[u] = NoRequest
    <3>1. Relies(u)
      BY <1>1 DEF AccountInv
    <3> QED
      BY <3>1 DEF Relies, Idle, Editing, Ratifying, Unratifying, Rereading, Paying, Opening,
         NoRequest
  <2> QED
    BY <1>1, <2>1, <2>2, <2>3 DEF AccountInv, Typed, TypeOK, PeriodRow, StoredRow, Kinds
<1> QED
  BY AccountInvariant, <1>1, PTL

\* A ratified period has accrued exactly its frozen figures and any other has
\* accrued nothing, for any partners, figures, payments and opening entries and
\* any number of requests, as long as two do not meet on a period: however often
\* periods are ratified, un-ratified, edited and read again, and whichever
\* requests crash elsewhere.
THEOREM AccrualsHold ==
  ASSUME Apart
  PROVE  Spec => []AccrualsStand
<1>1. ASSUME AccountInv PROVE AccrualsStand
  <2>1. ASSUME NEW p \in Periods \ cut, ~Busy(p) PROVE Stands(p)
    <3>1. \A u \in Users : ~Accruing(u, p)
      BY <2>1 DEF Busy, Accruing, OnPeriod
    <3> QED
      BY <1>1, <3>1 DEF AccountInv
  <2> QED
    BY <2>1 DEF AccrualsStand, Stands
<1> QED
  BY AccountInvariant, <1>1, PTL

\* A partner has at most one difference per period, crashes or not.
THEOREM OneDifferenceHolds ==
  ASSUME Apart
  PROVE  Spec => []OneDifference
<1>1. AccountInv => OneDifference
  BY DEF AccountInv
<1> QED
  BY AccountInvariant, <1>1, PTL

\* When a period is un-ratified nothing is owed for it, even where earlier
\* requests crashed half way: the reversals take back every accrual there is.
THEOREM UnratifyingLeavesNothing ==
  ASSUME Apart
  PROVE  Spec => UnratifyingSettles
<1>1. ASSUME AccountInv, [Next]_vars
      PROVE  \A p \in Periods : Ratified(p) /\ ~Ratified(p)' =>
               \A who \in Partners : Owed(p, who) = 0
  BY <1>1, RatifiedStep
<1> QED
  BY AccountInvariant, <1>1, PTL DEF Spec, UnratifyingSettles

\* What was ratified is what stays: no edit, later reading, payment, crash or
\* late save changes its inputs, its frozen figures or its accruals.
THEOREM FrozenHolds ==
  ASSUME Apart
  PROVE  Spec => FrozenStays
<1>1. ASSUME AccountInv, [Next]_vars
      PROVE  \A p \in Periods : Ratified(p) /\ Ratified(p)' =>
               /\ period'[p].input = period[p].input /\ period'[p].frozen = period[p].frozen
               /\ Of(p, "due") \subseteq Of(p, "due")'
  BY <1>1, RatifiedStep
<1> QED
  BY AccountInvariant, <1>1, PTL DEF Spec, FrozenStays
=============================================================================
