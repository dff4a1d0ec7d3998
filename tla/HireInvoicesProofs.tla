---------------------------- MODULE HireInvoicesProofs ----------------------------
(***************************************************************************)
(* Proofs about HireInvoices, for every set of invoices, documents and     *)
(* brokers: one due for each broker and invoice however many requests      *)
(* synchronise it at once, and, with one request at a time, the rate of    *)
(* the hire in the invoice as it stands, whatever was edited and whatever  *)
(* failed before its last synchronisation.                                 *)
(***************************************************************************)
EXTENDS HireInvoices, SumLaws

----------------------------------------------------------------------------
(* One due *)

LEMMA OneDueStarts == HireInit => OneDuePerBroker
BY DEF HireInit, OneDuePerBroker

\* The ledger only loses rows, gains a payment, or gains a due the index admits
LEMMA LedgerMoves ==
  ASSUME [HireNext]_hireVars
  PROVE  \/ ledger' \subseteq ledger
         \/ \E p : p.kind = "payment" /\ ledger' = ledger \cup {p}
         \/ \E row : /\ row.kind = "due" /\ Unique(ledger, row)
                     /\ ledger' = {e \in ledger : e.id # row.id} \cup {row}
<1>1. CASE UNCHANGED hireVars
  BY <1>1 DEF hireVars
<1>2. CASE HireNext
  <2>1. ASSUME NEW u \in Clerks, NEW b \in Brokers, Charge(u, b)
        PROVE  \/ ledger' = ledger
               \/ \E row : /\ row.kind = "due" /\ Unique(ledger, row)
                           /\ ledger' = {e \in ledger : e.id # row.id} \cup {row}
    <3>1. PICK row, id : row = Due(clerk[u].invoice, b, id, clerk[u].base, clerk[u].ccy)
                         /\ (\/ ledger' = ledger
                             \/ /\ ~Refused(row)
                                /\ ledger' = {e \in ledger : e.id # row.id} \cup {row})
      BY <2>1 DEF Charge
    <3>2. row.kind = "due"
      BY <3>1 DEF Due
    <3> QED
      BY <3>1, <3>2 DEF Refused
  <2>2. ASSUME NEW b \in Brokers, NEW i \in Papers \cup {Nothing}, NEW a \in Amounts,
               PayBroker(b, i, a)
        PROVE  \E p : p.kind = "payment" /\ ledger' = ledger \cup {p}
    <3>1. PICK p, c : /\ p = [id |-> serial, kind |-> "payment", invoice |-> i, broker |-> b,
                              amount |-> -a, base |-> 0, ccy |-> c]
                      /\ ledger' = ledger \cup {p}
      BY <2>2, Zenon DEF PayBroker
    <3>2. p.kind = "payment"
      BY <3>1
    <3> QED
      BY <3>1, <3>2
  <2>3. ASSUME NEW e \in ledger, DeleteBrokerPayment(e)
        PROVE  ledger' \subseteq ledger
    BY <2>3 DEF DeleteBrokerPayment
  <2>4. ASSUME NEW u \in Clerks, DropDue(u) \/ RemoveInvoice(u)
        PROVE  ledger' \subseteq ledger
    BY <2>4 DEF DropDue, RemoveInvoice
  <2>5. ASSUME NEW u \in Clerks, NEW i \in Papers,
               \/ \E d \in Documents : CreateInvoice(u, i, d) \/ UpdateInvoice(u, i, d)
               \/ ClearItems(u) \/ SaveItems(u) \/ BeginSync(u, i) \/ BeginRemove(u, i)
        PROVE  ledger' = ledger
    BY <2>5 DEF CreateInvoice, UpdateInvoice, ClearItems, SaveItems, BeginSync, BeginRemove
  <2>6. ASSUME NEW u \in Clerks,
               \/ ClearItems(u) \/ SaveItems(u) \/ ReadInvoice(u) \/ ReadDues(u) \/ Synced(u)
               \/ \E e \in ledger : CountPaid(u, e)
               \/ Fail(u)
        PROVE  ledger' = ledger
    BY <2>6 DEF ClearItems, SaveItems, ReadInvoice, ReadDues, Synced, CountPaid, Fail
  <2>7. ASSUME NEW i \in Papers,
               \/ \E a \in Amounts : AddPaymentAtomic(i, a)
               \/ \E m \in money : RemovePaymentAtomic(i, m)
        PROVE  ledger' = ledger
    BY <2>7 DEF AddPaymentAtomic, RemovePaymentAtomic
  <2> QED
    BY <1>2, <2>1, <2>2, <2>3, <2>4, <2>5, <2>6, <2>7 DEF HireNext
<1> QED
  BY <1>1, <1>2

LEMMA OneDueStays ==
  ASSUME OneDuePerBroker, [HireNext]_hireVars
  PROVE  OneDuePerBroker'
<1>1. CASE ledger' \subseteq ledger
  BY <1>1 DEF OneDuePerBroker
<1>2. CASE \E p : p.kind = "payment" /\ ledger' = ledger \cup {p}
  BY <1>2 DEF OneDuePerBroker
<1>3. CASE \E row : /\ row.kind = "due" /\ Unique(ledger, row)
                    /\ ledger' = {e \in ledger : e.id # row.id} \cup {row}
  BY <1>3 DEF OneDuePerBroker, Unique
<1> QED
  BY <1>1, <1>2, <1>3, LedgerMoves

\* However many requests synchronise an invoice at once, broker_ledger_one_due_idx
\* leaves each broker one due on it (brokers.service.ts, syncInvoice)
THEOREM BrokersHaveOneDue == HireSpec => []OneDuePerBroker
BY OneDueStarts, OneDueStays, PTL DEF HireSpec

----------------------------------------------------------------------------
(* Sums *)

\* The items are a finite set of rows with numbers for amounts
GoodLines(L) == IsFiniteSet(L) /\ \A l \in L : l.amount \in Int

\* As many rows as a finite set has members, at most
LEMMA FiniteImage ==
  ASSUME NEW S, IsFiniteSet(S), NEW F
  PROVE  IsFiniteSet({F[x] : x \in S})
<1>1. PICK T, f : T = {F[x] : x \in S} /\ f = [x \in S |-> F[x]]
  OBVIOUS
<1>2. f \in Surjection(S, T)
  BY <1>1 DEF Surjection
<1> QED
  BY <1>1, <1>2, FS_Surjection

LEMMA AmountIsRowSum == ASSUME NEW S PROVE AmountIn(S) = RowSum(S)
BY DEF AmountIn, RowSum

LEMMA NoAmount == AmountIn({}) = 0
BY AmountIsRowSum, RowSumEmpty

LEMMA OneAmount ==
  ASSUME NEW e, e.amount \in Int
  PROVE  AmountIn({e}) = e.amount
<1>1. PICK S : S = {}
  OBVIOUS
<1>2. IsFiniteSet(S) /\ (\A r \in S : r.amount \in Int) /\ e \notin S
  BY <1>1, FS_EmptySet
<1>3. RowSum(S \cup {e}) = RowSum(S) + e.amount
  BY <1>2, RowSumAdd
<1>4. PICK T : T = S \cup {e}
  OBVIOUS
<1>5. RowSum(T) = e.amount
  <2>1. RowSum(S) = 0
    BY <1>1, RowSumEmpty
  <2> QED
    BY <1>3, <1>4, <2>1
<1>6. T = {e}
  BY <1>1, <1>4
<1> QED
  BY <1>5, <1>6, AmountIsRowSum, Zenon

\* The hire in the items L of an invoice i whose document is d
LinesIn(L, i) == {l \in L : l.invoice = i}
BaseOn(S, d) == IF S = {} THEN d.total ELSE AmountIn({l \in S : l.kind = "hire"})
BaseOf(L, i, d) == BaseOn(LinesIn(L, i), d)

LEMMA BaseIsBaseOf == \A i, d : Base(i, d) = BaseOf(lines, i, d)
BY DEF Base, BaseOf, BaseOn, LinesOf, LinesIn

LEMMA BaseInt ==
  ASSUME NEW L, GoodLines(L), NEW i, NEW d, d.total \in Int
  PROVE  BaseOf(L, i, d) \in Int
<1>1. PICK S, T : S = LinesIn(L, i) /\ T = {l \in S : l.kind = "hire"}
  OBVIOUS
<1>2. T \subseteq L
  BY <1>1 DEF LinesIn
<1>3. IsFiniteSet(T) /\ \A r \in T : r.amount \in Int
  BY <1>2, FS_Subset DEF GoodLines
<1>4. AmountIn(T) \in Int
  BY <1>3, RowSumInt, AmountIsRowSum
<1> QED
  BY <1>1, <1>4 DEF BaseOf, BaseOn

----------------------------------------------------------------------------
(* The dues of an invoice, with one request at a time. D, L and R stand for *)
(* the invoices, their items and the broker ledger, now or after a step.    *)

DuesOf(R, i, b) == {e \in R : e.kind = "due" /\ e.invoice = i /\ e.broker = b}
Owes(D, L, R, i, b) == AmountIn(DuesOf(R, i, b)) = BaseOf(L, i, D[i]) * Rate[b]
Follows(D, L, R, i) ==
  D[i] # Nothing => \A b \in Covering(D[i]) : Owes(D, L, R, i, b)

\* What a synchronisation under way knows and has done
InCharge(D, L, R, c) ==
  /\ c.step = "charge" /\ c.invoice \in Papers /\ D[c.invoice] # Nothing
  /\ c.base = BaseOf(L, c.invoice, D[c.invoice]) /\ c.rules = Covering(D[c.invoice])
  /\ c.wanted \subseteq c.rules
  /\ \A b \in c.wanted :
       {e \in c.existing : e.broker = b} = DuesOf(R, c.invoice, b)
  /\ \A b \in c.rules \ c.wanted : Owes(D, L, R, c.invoice, b)
  /\ \A e \in c.existing : e.broker \notin c.rules =>
       e \in R /\ e.kind = "due" /\ e.invoice = c.invoice
InDrop(D, L, R, c) ==
  /\ c.step = "drop" /\ InCharge(D, L, R, c.rest) /\ c.rest.wanted = {}
  /\ c.due \in R /\ c.due.kind = "due" /\ c.due.invoice = c.rest.invoice
  /\ c.due.broker \notin c.rest.rules /\ c.due \notin c.rest.existing

\* The items are only touched after a save no synchronisation followed yet
Unsynced(c, B) == c.step \in {"clear", "items"} => c.invoice \in B

Lists == {d.items : d \in Documents} \ {Nothing}
Knows(D, L, R, c) ==
  \/ c.step \in {"idle", "remove"}
  \/ c.step \in {"clear", "items"} /\ c.invoice \in Papers /\ c.items \in Lists
  \/ c.step = "sync" /\ c.invoice \in Papers
  \/ c.step = "dues" /\ c.invoice \in Papers /\ D[c.invoice] # Nothing /\ c.d = D[c.invoice]
  \/ InCharge(D, L, R, c)
  \/ InDrop(D, L, R, c)

RowsHaveIds(R, n) ==
  /\ n \in Nat
  /\ \A e \in R : e.id \in Nat /\ e.id < n
  /\ \A e, f \in R : e.id = f.id => e = f

OneDueIn(R) ==
  \A e, f \in R :
    e.kind = "due" /\ f.kind = "due" /\ e.invoice = f.invoice /\ e.broker = f.broker
      => e = f

World(D, L, R, n) ==
  /\ D \in [Papers -> Documents \cup {Nothing}]
  /\ GoodLines(L) /\ RowsHaveIds(R, n) /\ OneDueIn(R)

DuesInv ==
  /\ World(doc, lines, ledger, serial) /\ DOMAIN clerk = Clerks
  /\ \A u \in Clerks : Knows(doc, lines, ledger, clerk[u]) /\ Unsynced(clerk[u], behind)
  /\ \A i \in Papers \ behind : Follows(doc, lines, ledger, i)

\* A step that hands the one request on to c
LEMMA HandsOn ==
  ASSUME DOMAIN clerk = Clerks, World(doc', lines', ledger', serial'),
         NEW u \in Clerks, \A v \in Clerks : v = u, NEW c,
         clerk' = [clerk EXCEPT ![u] = c], Knows(doc', lines', ledger', c),
         Unsynced(c, behind'), \A i \in Papers \ behind' : Follows(doc', lines', ledger', i)
  PROVE  DuesInv'
<1>1. clerk'[u] = c /\ DOMAIN clerk' = Clerks
  OBVIOUS
<1>2. \A v \in Clerks : clerk'[v] = c
  BY <1>1
<1> QED
  BY <1>1, <1>2 DEF DuesInv

\* An invoice a step has nothing to do with still follows its document
LEMMA StillFollows ==
  ASSUME NEW D, NEW L, NEW R, NEW D1, NEW L1, NEW R1, NEW i, Follows(D, L, R, i),
         D1[i] = D[i], LinesIn(L1, i) = LinesIn(L, i),
         \A b \in Brokers : DuesOf(R1, i, b) = DuesOf(R, i, b)
  PROVE  Follows(D1, L1, R1, i)
<1>1. Covering(D[i]) \subseteq Brokers
  BY DEF Covering
<1>2. BaseOf(L1, i, D1[i]) = BaseOf(L, i, D[i])
  BY DEF BaseOf
<1> QED
  BY <1>1, <1>2 DEF Follows, Owes

\* ... and what a synchronisation knows stays true while no due is touched
LEMMA StillInCharge ==
  ASSUME NEW D, NEW L, NEW R, NEW R1, NEW c, InCharge(D, L, R, c),
         \A e \in R : e.kind = "due" => e \in R1,
         \A e \in R1 : e.kind = "due" => e \in R
  PROVE  InCharge(D, L, R1, c)
<1>1. \A b : DuesOf(R1, c.invoice, b) = DuesOf(R, c.invoice, b)
  BY DEF DuesOf
<1>2. \A b : Owes(D, L, R1, c.invoice, b) <=> Owes(D, L, R, c.invoice, b)
  BY <1>1 DEF Owes
<1> QED
  BY <1>1, <1>2 DEF InCharge

LEMMA StillKnows ==
  ASSUME NEW D, NEW L, NEW R, NEW R1, NEW c, Knows(D, L, R, c),
         \A e \in R : e.kind = "due" => e \in R1,
         \A e \in R1 : e.kind = "due" => e \in R
  PROVE  Knows(D, L, R1, c)
<1>1. InCharge(D, L, R, c) => InCharge(D, L, R1, c)
  BY StillInCharge
<1>2. InDrop(D, L, R, c) => InDrop(D, L, R1, c)
  BY StillInCharge DEF InDrop
<1> QED
  BY <1>1, <1>2 DEF Knows

\* Steps that touch money and payments only
LEMMA PaymentsOnly ==
  ASSUME DuesInv, UNCHANGED <<doc, lines, clerk, behind>>, World(doc', lines', ledger', serial'),
         \A e \in ledger : e.kind = "due" => e \in ledger',
         \A e \in ledger' : e.kind = "due" => e \in ledger
  PROVE  DuesInv'
<1>1. \A i, b : DuesOf(ledger', i, b) = DuesOf(ledger, i, b)
  BY DEF DuesOf
<1>2. ASSUME NEW i \in Papers, Follows(doc, lines, ledger, i)
      PROVE  Follows(doc, lines, ledger', i)
  BY <1>1, <1>2, StillFollows
<1>3. ASSUME NEW u \in Clerks PROVE Knows(doc, lines, ledger', clerk[u])
  BY StillKnows DEF DuesInv
<1> QED
  BY <1>2, <1>3 DEF DuesInv

----------------------------------------------------------------------------
(* The steps of a request, when there is no other *)

\* The rows stay as they should be
LEMMA WorldStays ==
  ASSUME World(doc, lines, ledger, serial), [HireNext]_hireVars,
         doc' \in [Papers -> Documents \cup {Nothing}], GoodLines(lines'),
         RowsHaveIds(ledger', serial')
  PROVE  World(doc', lines', ledger', serial')
<1>1. OneDuePerBroker
  BY DEF World, OneDueIn, OneDuePerBroker
<1>2. OneDuePerBroker'
  BY <1>1, OneDueStays
<1>3. OneDueIn(ledger')
  BY <1>2 DEF OneDueIn, OneDuePerBroker
<1> QED
  BY <1>3 DEF World

\* The items that may be entered are a list of numbers
LEMMA ListOf ==
  ASSUME NEW items \in Lists
  PROVE  \E n \in Nat : DOMAIN items = 1 .. n /\ \A k \in 1 .. n : items[k].amount \in Int
<1>1. items \in Seq([kind : STRING, amount : Int])
  BY HireAssumption DEF Lists
<1>2. PICK S : S = [kind : STRING, amount : Int]
  OBVIOUS
<1>3. Len(items) \in Nat /\ DOMAIN items = 1 .. Len(items)
      /\ \A k \in 1 .. Len(items) : items[k] \in S
  <2>1. items \in Seq(S)
    BY <1>1, <1>2, Zenon
  <2> QED
    BY <2>1
<1>4. \A r \in S : r.amount \in Int
  BY <1>2
<1> QED
  BY <1>3, <1>4

LEMMA Entered ==
  ASSUME DuesInv, NEW u \in Clerks, \A v \in Clerks : v = u,
         NEW i \in Papers, NEW d \in Documents, [HireNext]_hireVars,
         CreateInvoice(u, i, d) \/ UpdateInvoice(u, i, d)
  PROVE  DuesInv'
<1>1. World(doc, lines, ledger, serial) /\ DOMAIN clerk = Clerks
  BY DEF DuesInv
<1>2. PICK c : /\ clerk' = [clerk EXCEPT ![u] = c] /\ c.invoice = i
               /\ \/ c.step = "sync"
                  \/ c.step \in {"items", "clear"} /\ c.items = d.items /\ d.items # Nothing
  <2>1. PICK c : /\ clerk' = [clerk EXCEPT ![u] = c]
                 /\ \/ c = [step |-> IF d.items = Nothing THEN "sync" ELSE "items",
                            invoice |-> i, items |-> d.items]
                    \/ c = [step |-> IF d.items = Nothing THEN "sync" ELSE "clear",
                            invoice |-> i, items |-> d.items]
    BY Zenon DEF CreateInvoice, UpdateInvoice, Do
  <2>2. /\ c.invoice = i
        /\ \/ c.step = "sync"
           \/ c.step \in {"items", "clear"} /\ c.items = d.items /\ d.items # Nothing
    BY <2>1
  <2> QED
    BY <2>1, <2>2, Zenon
<1>3. doc' = [doc EXCEPT ![i] = d] /\ At(u, "idle")
  BY DEF CreateInvoice, UpdateInvoice, Enters
<1>4. UNCHANGED <<lines, ledger, serial>>
  BY DEF CreateInvoice, UpdateInvoice
<1>5. World(doc', lines', ledger', serial')
  BY <1>1, <1>3, <1>4 DEF World
<1>6. c.step = "sync" \/ c.items \in Lists
  BY <1>2 DEF Lists
<1>7. Knows(doc', lines', ledger', c)
  BY <1>2, <1>6 DEF Knows
<1>8. behind' = behind \cup {i} /\ Unsynced(c, behind')
  BY <1>2 DEF CreateInvoice, UpdateInvoice, Enters, Unsynced
<1>9. ASSUME NEW j \in Papers \ behind' PROVE Follows(doc', lines', ledger', j)
  <2>1. Follows(doc, lines, ledger, j)
    BY <1>8 DEF DuesInv
  <2>2. doc'[j] = doc[j]
    BY <1>1, <1>3, <1>8 DEF World
  <2> QED
    BY <2>1, <2>2, <1>4, StillFollows
<1> QED
  BY <1>1, <1>2, <1>5, <1>7, <1>8, <1>9, HandsOn

\* Steps that change the items of the invoice at hand
LEMMA ItemsMove ==
  ASSUME DuesInv, NEW u \in Clerks, \A v \in Clerks : v = u, [HireNext]_hireVars,
         ClearItems(u) \/ SaveItems(u)
  PROVE  DuesInv'
<1>1. PICK c, i : c = clerk[u] /\ i = c.invoice
  OBVIOUS
<1>2. World(doc, lines, ledger, serial) /\ DOMAIN clerk = Clerks
  BY DEF DuesInv
<1>3. c.step \in {"clear", "items"}
  BY <1>1 DEF ClearItems, SaveItems, At
<1>4. i \in behind /\ UNCHANGED behind
  BY <1>1, <1>3 DEF DuesInv, Unsynced, ClearItems, SaveItems
<1>5. i \in Papers /\ c.items \in Lists
  BY <1>1, <1>3 DEF DuesInv, Knows, InCharge, InDrop
<1>6. UNCHANGED <<doc, ledger, serial>>
  BY DEF ClearItems, SaveItems
<1>7. GoodLines(lines') /\ \A j \in Papers \ {i} : LinesIn(lines', j) = LinesIn(lines, j)
  <2>1. CASE ClearItems(u)
    <3>1. lines' = {l \in lines : l.invoice # i}
      BY <2>1, <1>1 DEF ClearItems, LinesOf
    <3> QED
      BY <3>1, <1>2, FS_Subset DEF World, GoodLines, LinesIn
  <2>2. CASE SaveItems(u)
    <3>1. CASE lines' = lines
      BY <3>1, <1>2 DEF World
    <3>2. CASE lines' # lines
      <4>1. PICK n \in Nat : DOMAIN c.items = 1 .. n
                             /\ \A k \in 1 .. n : c.items[k].amount \in Int
        BY <1>5, ListOf
      <4>2. PICK F : F = [k \in 1 .. n |->
               [id |-> <<u, saves, k>>, invoice |-> i,
                kind |-> c.items[k].kind, amount |-> c.items[k].amount]]
        OBVIOUS
      <4>3. PICK new : new = {F[k] : k \in 1 .. n}
        OBVIOUS
      <4>4. lines' = lines \cup
               {[id |-> <<u, saves, k>>, invoice |-> i,
                 kind |-> c.items[k].kind, amount |-> c.items[k].amount] : k \in DOMAIN c.items}
        BY <2>2, <3>2, <1>1 DEF SaveItems
      <4>5. lines' = lines \cup new
        BY <4>1, <4>2, <4>3, <4>4
      <4>6. IsFiniteSet(new)
        <5>1. PICK S : S = 1 .. n /\ IsFiniteSet(S)
          BY FS_Interval
        <5> QED
          BY <4>3, <5>1, FiniteImage
      <4>7. \A l \in new : l.invoice = i /\ l.amount \in Int
        BY <4>1, <4>2, <4>3
      <4> QED
        BY <4>5, <4>6, <4>7, <1>2, FS_Union DEF World, GoodLines, LinesIn
    <3> QED
      BY <3>1, <3>2
  <2> QED
    BY <2>1, <2>2
<1>8. World(doc', lines', ledger', serial')
  BY <1>2, <1>6, <1>7 DEF World
<1>9. ASSUME NEW j \in Papers \ behind' PROVE Follows(doc', lines', ledger', j)
  <2>1. Follows(doc, lines, ledger, j)
    BY <1>4 DEF DuesInv
  <2> QED
    BY <2>1, <1>4, <1>6, <1>7, StillFollows
<1>10. PICK r : /\ clerk' = [clerk EXCEPT ![u] = r]
                /\ \/ r.step \in {"items", "sync"} /\ r.invoice = i /\ r.items = c.items
                   \/ r.step = "sync" /\ r.invoice = i
                   \/ r.step = "idle" /\ doc[i] = Nothing
  <2>1. PICK r : /\ clerk' = [clerk EXCEPT ![u] = r]
                 /\ \/ r = [step |-> "items", invoice |-> i, items |-> c.items]
                    \/ r = [step |-> "sync", invoice |-> i]
                    \/ r = [step |-> "idle"] /\ doc[i] = Nothing
    BY <1>1, Zenon DEF ClearItems, SaveItems, Do, Finish, Exists
  <2>2. \/ r.step \in {"items", "sync"} /\ r.invoice = i /\ r.items = c.items
        \/ r.step = "sync" /\ r.invoice = i
        \/ r.step = "idle" /\ doc[i] = Nothing
    BY <2>1
  <2> QED
    BY <2>1, <2>2, Zenon
<1>11. Knows(doc', lines', ledger', r)
  BY <1>5, <1>10 DEF Knows
<1>12. Unsynced(r, behind')
  BY <1>4, <1>10 DEF Unsynced
<1> QED
  BY <1>2, <1>8, <1>9, <1>10, <1>11, <1>12, HandsOn

\* Steps that only read, or end a request
LEMMA Reads ==
  ASSUME DuesInv, NEW u \in Clerks, \A v \in Clerks : v = u, [HireNext]_hireVars,
         \/ \E i \in Papers : BeginSync(u, i) \/ BeginRemove(u, i)
         \/ ReadInvoice(u) \/ ReadDues(u) \/ Synced(u) \/ Fail(u)
  PROVE  DuesInv'
<1>1. PICK c : c = clerk[u]
  OBVIOUS
<1>2. World(doc, lines, ledger, serial) /\ DOMAIN clerk = Clerks
  BY DEF DuesInv
<1>3. UNCHANGED <<doc, lines, ledger, serial>>
  BY DEF BeginSync, BeginRemove, ReadInvoice, ReadDues, Synced, Fail
<1>4. World(doc', lines', ledger', serial')
  BY <1>2, <1>3
<1>5. Knows(doc, lines, ledger, c) /\ \A i \in Papers \ behind : Follows(doc, lines, ledger, i)
  BY <1>1 DEF DuesInv
<1>6. SUFFICES ASSUME NEW r, clerk' = [clerk EXCEPT ![u] = r]
               PROVE  /\ Knows(doc, lines, ledger, r) /\ r.step \notin {"clear", "items"}
                      /\ \A i \in Papers \ behind' : Follows(doc, lines, ledger, i)
  <2>1. \E r : clerk' = [clerk EXCEPT ![u] = r]
    BY Zenon DEF BeginSync, BeginRemove, ReadInvoice, ReadDues, Synced, Fail, Do, Finish
  <2> QED
    BY <1>2, <1>3, <1>4, <2>1, <1>6, HandsOn DEF Unsynced
<1>7. r = clerk'[u]
  BY <1>2, <1>6
<1>8. CASE \E i \in Papers : BeginSync(u, i) \/ BeginRemove(u, i)
  <2>1. PICK i \in Papers : r \in {[step |-> "sync", invoice |-> i],
                                      [step |-> "remove", invoice |-> i]}
    <3>1. PICK i \in Papers : clerk' = [clerk EXCEPT ![u] = [step |-> "sync", invoice |-> i]]
                             \/ clerk' = [clerk EXCEPT ![u] = [step |-> "remove", invoice |-> i]]
      BY <1>8, Zenon DEF BeginSync, BeginRemove, Do
    <3> QED
      BY <3>1, <1>2, <1>7
  <2>2. behind' = behind
    BY <1>8 DEF BeginSync, BeginRemove
  <2> QED
    BY <2>1, <2>2, <1>5 DEF Knows
<1>9. CASE ReadInvoice(u)
  <2>1. c.step = "sync" /\ (IF doc[c.invoice] # Nothing
                            THEN r = [step |-> "dues", invoice |-> c.invoice,
                                      d |-> doc[c.invoice]]
                            ELSE r = [step |-> "idle"])
    BY <1>1, <1>2, <1>7, <1>9 DEF ReadInvoice, At, Do, Finish, Exists
  <2>2. c.invoice \in Papers /\ behind' = behind
    BY <2>1, <1>5, <1>9 DEF Knows, InCharge, InDrop, ReadInvoice
  <2>3. CASE doc[c.invoice] # Nothing
    <3>1. r.step = "dues" /\ r.invoice = c.invoice /\ r.d = doc[c.invoice]
      BY <2>1, <2>3
    <3> QED
      BY <3>1, <2>2, <2>3, <1>5 DEF Knows
  <2>4. CASE doc[c.invoice] = Nothing
    <3>1. r.step = "idle"
      BY <2>1, <2>4
    <3> QED
      BY <3>1, <2>2, <1>5 DEF Knows
  <2> QED
    BY <2>3, <2>4
<1>10. CASE ReadDues(u)
  <2>1. PICK i, d : i = c.invoice /\ d = c.d
    OBVIOUS
  <2>2. c.step = "dues"
        /\ clerk' = [clerk EXCEPT ![u] =
                       Charging(i, d.ccy, Base(i, d), Covering(d), Dues(i), Covering(d))]
    BY <1>1, <1>10, <2>1 DEF ReadDues, At, Do
  <2>3. r = Charging(i, d.ccy, Base(i, d), Covering(d), Dues(i), Covering(d))
    BY <2>2, <1>2, <1>7
  <2>4. i \in Papers /\ doc[i] # Nothing /\ d = doc[i]
    BY <2>1, <2>2, <1>5 DEF Knows, InCharge, InDrop
  <2>5. /\ r.step = "charge" /\ r.invoice = i /\ r.base = BaseOf(lines, i, d)
        /\ r.rules = Covering(d) /\ r.wanted = Covering(d) /\ r.existing = Dues(i)
    BY <2>3, BaseIsBaseOf DEF Charging
  <2>6. InCharge(doc, lines, ledger, r)
    <3>1. \A b : {e \in Dues(i) : e.broker = b} = DuesOf(ledger, i, b)
      BY DEF Dues, DuesOf
    <3> QED
      BY <2>4, <2>5, <3>1 DEF InCharge, Dues
  <2>7. behind' = behind
    BY <1>10 DEF ReadDues
  <2> QED
    BY <2>5, <2>6, <2>7, <1>5 DEF Knows
<1>11. CASE Synced(u)
  <2>1. c.step = "charge" /\ c.wanted = {} /\ r = [step |-> "idle"]
    BY <1>1, <1>2, <1>7, <1>11 DEF Synced, At, Finish, Do
  <2>2. InCharge(doc, lines, ledger, c)
    BY <2>1, <1>5 DEF Knows, InDrop
  <2>3. Follows(doc, lines, ledger, c.invoice)
    BY <2>1, <2>2 DEF InCharge, Follows
  <2>4. behind' = behind \ {c.invoice}
    BY <1>1, <1>11 DEF Synced
  <2> QED
    BY <2>1, <2>3, <2>4, <1>5 DEF Knows
<1>12. CASE Fail(u)
  <2>1. r = [step |-> "idle"] /\ behind' = behind
    BY <1>2, <1>7, <1>12 DEF Fail, Finish, Do
  <2> QED
    BY <2>1, <1>5 DEF Knows
<1> QED
  BY <1>8, <1>9, <1>10, <1>11, <1>12

\* An invoice that goes takes with it what hangs on it, and nothing else
LEMMA Removes ==
  ASSUME DuesInv, NEW u \in Clerks, \A v \in Clerks : v = u, [HireNext]_hireVars,
         RemoveInvoice(u)
  PROVE  DuesInv'
<1>1. PICK i : i = clerk[u].invoice
  OBVIOUS
<1>2. World(doc, lines, ledger, serial) /\ DOMAIN clerk = Clerks
  BY DEF DuesInv
<1>3. \A j \in Papers \ behind : Follows(doc, lines, ledger, j)
  BY DEF DuesInv
<1>5. PICK r : r = [step |-> "idle"] /\ clerk' = [clerk EXCEPT ![u] = r]
  BY Zenon DEF RemoveInvoice, Finish, Do
<1>6. Knows(doc', lines', ledger', r) /\ Unsynced(r, behind')
  BY <1>5 DEF Knows, Unsynced
<1>7. \/ UNCHANGED <<doc, lines, ledger, serial, behind>>
      \/ /\ doc' = [doc EXCEPT ![i] = Nothing] /\ serial' = serial /\ behind' = behind \ {i}
         /\ lines' = {l \in lines : l.invoice # i}
         /\ ledger' = {e \in ledger : e.invoice # i}
  BY <1>1 DEF RemoveInvoice, LinesOf
<1>8. CASE UNCHANGED <<doc, lines, ledger, serial, behind>>
  <2>1. World(doc', lines', ledger', serial')
    BY <1>8, <1>2
  <2>2. \A j \in Papers \ behind' : Follows(doc', lines', ledger', j)
    BY <1>8, <1>3
  <2> QED
    BY <1>2, <1>5, <1>6, <2>1, <2>2, HandsOn
<1>9. CASE /\ doc' = [doc EXCEPT ![i] = Nothing] /\ serial' = serial /\ behind' = behind \ {i}
           /\ lines' = {l \in lines : l.invoice # i}
           /\ ledger' = {e \in ledger : e.invoice # i}
  <2>1. doc' \in [Papers -> Documents \cup {Nothing}]
    BY <1>9, <1>2 DEF World
  <2>2. GoodLines(lines')
    BY <1>9, <1>2, FS_Subset DEF World, GoodLines
  <2>3. RowsHaveIds(ledger', serial')
    BY <1>9, <1>2 DEF World, RowsHaveIds
  <2>4. World(doc', lines', ledger', serial')
    BY <1>2, <2>1, <2>2, <2>3, WorldStays
  <2>5. ASSUME NEW j \in Papers \ behind' PROVE Follows(doc', lines', ledger', j)
    <3>1. CASE j = i
      BY <3>1, <1>2, <1>9 DEF Follows, World
    <3>2. CASE j # i
      <4>1. doc'[j] = doc[j] /\ LinesIn(lines', j) = LinesIn(lines, j)
        BY <3>2, <1>2, <1>9 DEF World, LinesIn
      <4>2. \A b : DuesOf(ledger', j, b) = DuesOf(ledger, j, b)
        BY <3>2, <1>9 DEF DuesOf
      <4> QED
        BY <3>2, <4>1, <4>2, <1>3, <1>9, StillFollows
    <3> QED
      BY <3>1, <3>2
  <2> QED
    BY <1>2, <1>5, <1>6, <2>4, <2>5, HandsOn
<1> QED
  BY <1>7, <1>8, <1>9

\* A due the broker has already, one it gains, or one that is rewritten
LEMMA Charges ==
  ASSUME DuesInv, NEW u \in Clerks, \A v \in Clerks : v = u, [HireNext]_hireVars,
         NEW b \in Brokers, Charge(u, b)
  PROVE  DuesInv'
<1>1. PICK c, i, base, known :
        /\ c = clerk[u] /\ i = c.invoice /\ base = c.base
        /\ known = {e \in c.existing : e.broker = b}
  OBVIOUS
<1>2. World(doc, lines, ledger, serial) /\ DOMAIN clerk = Clerks
  BY DEF DuesInv
<1>3. c.step = "charge" /\ b \in c.wanted
  BY <1>1 DEF Charge, At
<1>4. InCharge(doc, lines, ledger, c) /\ UNCHANGED behind
      /\ \A j \in Papers \ behind : Follows(doc, lines, ledger, j)
  BY <1>1, <1>3 DEF DuesInv, Knows, InDrop, Charge
<1>5. i \in Papers /\ doc[i] # Nothing /\ known = DuesOf(ledger, i, b)
      /\ base = BaseOf(lines, i, doc[i]) /\ b \in c.rules
  BY <1>1, <1>3, <1>4 DEF InCharge
<1>6. base \in Int /\ base * Rate[b] \in Int /\ base * Rate[b] = Rate[b] * base
  <2>1. doc[i].total \in Int
    BY <1>2, <1>5, HireAssumption DEF World
  <2>2. base \in Int
    BY <2>1, <1>2, <1>5, BaseInt DEF World
  <2>3. Rate[b] \in Int
    BY HireAssumption DEF Brokers
  <2> QED
    BY <2>2, <2>3
<1>7. PICK next : next = Charging(i, c.ccy, base, c.rules, c.existing, c.wanted \ {b})
  OBVIOUS
<1>8. /\ next.step = "charge" /\ next.invoice = i /\ next.base = base
      /\ next.rules = c.rules /\ next.existing = c.existing /\ next.wanted = c.wanted \ {b}
  BY <1>7 DEF Charging
<1>9. \A e, f \in known : e = f
  BY <1>2, <1>5 DEF World, OneDueIn, DuesOf
<1>10. PICK id : id = (IF known = {} THEN serial ELSE (CHOOSE e \in known : TRUE).id)
  OBVIOUS
<1>11. PICK row : row = Due(i, b, id, base, c.ccy)
  OBVIOUS
<1>12. /\ row.id = id /\ row.kind = "due" /\ row.invoice = i /\ row.broker = b
       /\ row.amount = base * Rate[b] /\ row.base = base
  BY <1>11 DEF Due
<1>13. \A e \in known : e.id = id
  BY <1>9, <1>10
<1>14. ~Refused(row)
  <2>1. \A e \in ledger : e.kind = "due" /\ e.invoice = i /\ e.broker = b => e.id = id
    BY <1>5, <1>13 DEF DuesOf
  <2> QED
    BY <2>1, <1>5, <1>12 DEF Refused, Unique, Exists
<1>15. /\ UNCHANGED <<doc, lines>> /\ clerk' = [clerk EXCEPT ![u] = next]
       /\ IF (IF known = {} THEN row.amount = 0 ELSE \A e \in known : Stands(e, base))
          THEN UNCHANGED <<ledger, serial>>
          ELSE /\ ledger' = {e \in ledger : e.id # row.id} \cup {row}
               /\ IF known = {} THEN serial' = serial + 1 ELSE UNCHANGED serial
  <2>1. UNCHANGED <<doc, lines>>
    BY DEF Charge
  <2>2. IF IF known = {} THEN row.amount = 0 ELSE \A e \in known : Stands(e, base)
        THEN /\ Do(u, next) /\ UNCHANGED <<ledger, serial>>
        ELSE /\ IF Refused(row)
                THEN /\ Finish(u) /\ UNCHANGED ledger
                ELSE /\ ledger' = {e \in ledger : e.id # row.id} \cup {row}
                     /\ Do(u, next)
             /\ IF known = {} THEN RowsLeft /\ serial' = serial + 1 ELSE UNCHANGED serial
    BY <1>1, <1>7, <1>10, <1>11, ZenonT(60) DEF Charge
  <2> QED
    BY <2>1, <2>2, <1>14 DEF Do
\* Whichever it was, the broker is now owed what the invoice says, ...
<1>16. PICK R : R = ledger'
  OBVIOUS
<1>17. /\ Owes(doc, lines, R, i, b)
       /\ \A j, k : <<j, k>> # <<i, b>> => DuesOf(R, j, k) = DuesOf(ledger, j, k)
       /\ \A e \in ledger : e.broker # b => e \in R
       /\ RowsHaveIds(R, serial')
  <2>1. CASE known = {} /\ row.amount = 0
    <3>1. R = ledger /\ serial' = serial
      BY <2>1, <1>15, <1>16
    <3>2. Owes(doc, lines, R, i, b)
      BY <2>1, <3>1, <1>5, <1>12, NoAmount DEF Owes
    <3> QED
      BY <3>1, <3>2, <1>2 DEF World
  <2>2. CASE known # {} /\ \A e \in known : Stands(e, base)
    <3>1. R = ledger /\ serial' = serial
      BY <2>2, <1>15, <1>16
    <3>2. PICK e \in known : known = {e}
      BY <2>2, <1>9
    <3>3. e.amount = base * Rate[b]
      BY <2>2, <3>2, <1>5 DEF Stands, DuesOf
    <3>4. AmountIn({e}) = base * Rate[b]
      BY <3>3, <1>6, OneAmount
    <3>5. Owes(doc, lines, R, i, b)
      BY <3>1, <3>2, <3>4, <1>5 DEF Owes
    <3> QED
      BY <3>1, <3>5, <1>2 DEF World
  <2>3. CASE ~(known = {} /\ row.amount = 0)
             /\ ~(known # {} /\ \A e \in known : Stands(e, base))
    <3>1. R = {e \in ledger : e.id # id} \cup {row}
          /\ IF known = {} THEN serial' = serial + 1 ELSE serial' = serial
      BY <2>3, <1>12, <1>15, <1>16
    <3>2. \A e \in ledger : e.id = id => e \in known
      <4>1. CASE known = {}
        <5>1. id = serial
          BY <4>1, <1>10
        <5> QED
          BY <5>1, <1>2 DEF World, RowsHaveIds
      <4>2. CASE known # {}
        <5>1. PICK e \in known : e.id = id
          BY <4>2, <1>13
        <5>2. e \in ledger
          BY <1>5, <5>1 DEF DuesOf
        <5> QED
          BY <5>1, <5>2, <1>2 DEF World, RowsHaveIds
      <4> QED
        BY <4>1, <4>2
    <3>3. DuesOf(R, i, b) = {row}
      BY <3>1, <1>5, <1>12, <1>13 DEF DuesOf
    <3>4. AmountIn({row}) = base * Rate[b]
      BY <1>6, <1>12, OneAmount
    <3>5. Owes(doc, lines, R, i, b)
      BY <3>3, <3>4, <1>5 DEF Owes
    <3>6. ASSUME NEW j, NEW k, <<j, k>> # <<i, b>>
          PROVE  DuesOf(R, j, k) = DuesOf(ledger, j, k)
      BY <3>1, <3>2, <3>6, <1>5, <1>12 DEF DuesOf
    <3>7. \A e \in ledger : e.broker # b => e \in R
      BY <3>1, <3>2, <1>5 DEF DuesOf
    <3>8. RowsHaveIds(R, serial')
      <4>1. id \in Nat /\ id < serial' /\ serial \in Nat /\ serial' \in Nat /\ serial <= serial'
        <5>1. serial \in Nat
          BY <1>2 DEF World, RowsHaveIds
        <5>2. CASE known = {}
          BY <5>1, <5>2, <3>1, <1>10
        <5>3. CASE known # {}
          <6>1. PICK e \in known : e.id = id
            BY <5>3, <1>13
          <6>2. e \in ledger
            BY <1>5, <6>1 DEF DuesOf
          <6> QED
            BY <5>1, <5>3, <6>1, <6>2, <3>1, <1>2 DEF World, RowsHaveIds
        <5> QED
          BY <5>2, <5>3
      <4>2. \A e \in ledger : e.id \in Nat /\ e.id < serial'
        BY <4>1, <1>2 DEF World, RowsHaveIds
      <4> QED
        BY <4>1, <4>2, <3>1, <1>2, <1>12 DEF World, RowsHaveIds
    <3> QED
      BY <3>5, <3>6, <3>7, <3>8
  <2> QED
    BY <2>1, <2>2, <2>3
<1>18. World(doc', lines', ledger', serial')
  BY <1>2, <1>15, <1>16, <1>17, WorldStays DEF World
\* ... and the request knows it
<1>19. InCharge(doc, lines, R, next)
  <2>1. \A k \in next.wanted : {e \in next.existing : e.broker = k} = DuesOf(R, i, k)
    BY <1>1, <1>4, <1>8, <1>17 DEF InCharge
  <2>2. ASSUME NEW k \in next.rules \ next.wanted PROVE Owes(doc, lines, R, i, k)
    <3>1. CASE k = b
      BY <3>1, <1>17
    <3>2. CASE k # b
      <4>1. Owes(doc, lines, ledger, i, k)
        BY <3>2, <1>1, <1>4, <1>8 DEF InCharge
      <4>2. DuesOf(R, i, k) = DuesOf(ledger, i, k)
        BY <3>2, <1>17
      <4> QED
        BY <4>1, <4>2 DEF Owes
    <3> QED
      BY <3>1, <3>2
  <2>3. \A e \in next.existing : e.broker \notin next.rules =>
          e \in R /\ e.kind = "due" /\ e.invoice = i
    BY <1>1, <1>4, <1>5, <1>8, <1>17 DEF InCharge
  <2>4. next.base = BaseOf(lines, i, doc[i]) /\ next.rules = Covering(doc[i])
        /\ next.wanted \subseteq next.rules
    BY <1>1, <1>4, <1>5, <1>8 DEF InCharge
  <2> QED
    BY <2>1, <2>2, <2>3, <2>4, <1>5, <1>8 DEF InCharge
\* An invoice nobody saved since is charged what it was charged
<1>20. ASSUME NEW j \in Papers \ behind PROVE Follows(doc, lines, R, j)
  <2>1. CASE j # i
    BY <2>1, <1>4, <1>17, StillFollows
  <2>2. CASE j = i
    <3>1. ASSUME NEW k \in Covering(doc[i]) PROVE Owes(doc, lines, R, i, k)
      <4>1. CASE k = b
        BY <4>1, <1>17
      <4>2. CASE k # b
        <5>1. Owes(doc, lines, ledger, i, k)
          BY <2>2, <1>4, <1>5 DEF Follows
        <5>2. DuesOf(R, i, k) = DuesOf(ledger, i, k)
          BY <4>2, <1>17
        <5> QED
          BY <5>1, <5>2 DEF Owes
      <4> QED
        BY <4>1, <4>2
    <3> QED
      BY <2>2, <3>1 DEF Follows
  <2> QED
    BY <2>1, <2>2
<1>21. Unsynced(next, behind')
  BY <1>8 DEF Unsynced
<1> QED
  BY <1>2, <1>4, <1>15, <1>16, <1>18, <1>19, <1>20, <1>21, HandsOn DEF Knows

\* Whether anything was paid on a due no rule covers any more, and its deletion
LEMMA Lapses ==
  ASSUME DuesInv, NEW u \in Clerks, \A v \in Clerks : v = u, [HireNext]_hireVars,
         (\E e \in ledger : CountPaid(u, e)) \/ DropDue(u)
  PROVE  DuesInv'
<1>1. PICK c : c = clerk[u]
  OBVIOUS
<1>2. World(doc, lines, ledger, serial) /\ DOMAIN clerk = Clerks
  BY DEF DuesInv
<1>3. Knows(doc, lines, ledger, c) /\ UNCHANGED behind
      /\ \A i \in Papers \ behind : Follows(doc, lines, ledger, i)
  BY <1>1 DEF DuesInv, CountPaid, DropDue
<1>4. CASE \E e \in ledger : CountPaid(u, e)
  <2>1. PICK e \in ledger : CountPaid(u, e)
    BY <1>4
  <2>2. /\ c.step = "charge" /\ c.wanted = {} /\ e \in c.existing /\ e.broker \notin c.rules
        /\ UNCHANGED <<doc, lines, ledger, serial>>
    BY <1>1, <2>1 DEF CountPaid, At, Lapsed
  <2>3. InCharge(doc, lines, ledger, c)
    BY <1>3, <2>2 DEF Knows, InDrop
  <2>4. PICK rest : rest = Charging(c.invoice, c.ccy, c.base, c.rules, c.existing \ {e}, {})
    OBVIOUS
  <2>5. /\ rest.step = "charge" /\ rest.invoice = c.invoice /\ rest.base = c.base
        /\ rest.rules = c.rules /\ rest.existing = c.existing \ {e} /\ rest.wanted = {}
    BY <2>4 DEF Charging
  <2>6. InCharge(doc, lines, ledger, rest)
    BY <2>2, <2>3, <2>5 DEF InCharge
  <2>7. PICK r : /\ clerk' = [clerk EXCEPT ![u] = r]
                 /\ r = rest \/ r = [step |-> "drop", due |-> e, rest |-> rest]
    BY <1>1, <2>1, <2>4, Zenon DEF CountPaid, Do
  <2>8. Knows(doc, lines, ledger, r) /\ Unsynced(r, behind)
    <3>1. CASE r = rest
      BY <3>1, <2>5, <2>6 DEF Knows, Unsynced
    <3>2. CASE r = [step |-> "drop", due |-> e, rest |-> rest]
      <4>1. r.step = "drop" /\ r.due = e /\ r.rest = rest
        BY <3>2
      <4>2. e \in ledger /\ e.kind = "due" /\ e.invoice = rest.invoice
        BY <2>2, <2>3, <2>5 DEF InCharge
      <4>3. InDrop(doc, lines, ledger, r)
        BY <4>1, <4>2, <2>2, <2>5, <2>6 DEF InDrop
      <4> QED
        BY <4>1, <4>3, <2>5 DEF Knows, Unsynced
    <3> QED
      BY <3>1, <3>2, <2>7
  <2> QED
    BY <1>2, <1>3, <2>2, <2>3, <2>7, <2>8, HandsOn
<1>5. CASE DropDue(u)
  <2>1. PICK rest, due, i : rest = c.rest /\ due = c.due /\ i = rest.invoice
    OBVIOUS
  <2>2. /\ c.step = "drop" /\ UNCHANGED <<doc, lines, serial>>
        /\ ledger' = {e \in ledger : e.id # due.id}
        /\ clerk' = [clerk EXCEPT ![u] = rest]
    BY <1>1, <1>5, <2>1 DEF DropDue, At, Do
  <2>3. InDrop(doc, lines, ledger, c)
    BY <1>3, <2>1, <2>2 DEF Knows, InCharge
  <2>4. /\ InCharge(doc, lines, ledger, rest) /\ rest.wanted = {} /\ due \in ledger
        /\ due.kind = "due" /\ due.invoice = i
        /\ due.broker \notin rest.rules /\ due \notin rest.existing
    BY <2>1, <2>3 DEF InDrop
  <2>5. PICK R : R = ledger'
    OBVIOUS
  <2>6. R = ledger \ {due}
    BY <2>2, <2>4, <2>5, <1>2 DEF World, RowsHaveIds
  <2>7. \A j, k : <<j, k>> # <<i, due.broker>> => DuesOf(R, j, k) = DuesOf(ledger, j, k)
    BY <2>4, <2>6 DEF DuesOf
  <2>8. World(doc', lines', ledger', serial')
    <3>1. RowsHaveIds(R, serial)
      BY <2>6, <1>2 DEF World, RowsHaveIds
    <3>2. OneDueIn(R)
      BY <2>6, <1>2 DEF World, OneDueIn
    <3> QED
      BY <3>1, <3>2, <2>2, <2>5, <1>2 DEF World
  <2>9. InCharge(doc, lines, R, rest)
    <3>1. ASSUME NEW k \in rest.rules PROVE Owes(doc, lines, R, i, k)
      <4>1. Owes(doc, lines, ledger, i, k)
        BY <2>1, <2>4 DEF InCharge
      <4>2. DuesOf(R, i, k) = DuesOf(ledger, i, k)
        BY <2>4, <2>7
      <4> QED
        BY <4>1, <4>2 DEF Owes
    <3> QED
      BY <3>1, <2>1, <2>4, <2>6 DEF InCharge
  <2>10. ASSUME NEW j \in Papers \ behind PROVE Follows(doc, lines, R, j)
    <3>1. \A k \in Covering(doc[j]) : DuesOf(R, j, k) = DuesOf(ledger, j, k)
      BY <2>1, <2>4, <2>7 DEF InCharge
    <3>2. Follows(doc, lines, ledger, j)
      BY <1>3
    <3> QED
      BY <3>1, <3>2 DEF Follows, Owes
  <2>11. Unsynced(rest, behind)
    BY <2>4 DEF Unsynced, InCharge
  <2> QED
    BY <1>2, <1>3, <2>2, <2>5, <2>8, <2>9, <2>10, <2>11, HandsOn DEF Knows
<1> QED
  BY <1>4, <1>5

\* Money received, and commission paid, whoever has a request open
LEMMA Pays ==
  ASSUME DuesInv, [HireNext]_hireVars,
         \/ \E i \in Papers, a \in Amounts : AddPaymentAtomic(i, a)
         \/ \E i \in Papers, m \in money : RemovePaymentAtomic(i, m)
         \/ \E b \in Brokers, i \in Papers \cup {Nothing}, a \in Amounts : PayBroker(b, i, a)
         \/ \E e \in ledger : DeleteBrokerPayment(e)
  PROVE  DuesInv'
<1>1. World(doc, lines, ledger, serial)
  BY DEF DuesInv
<1>2. UNCHANGED <<doc, lines, clerk, behind>>
  BY DEF AddPaymentAtomic, RemovePaymentAtomic, PayBroker, DeleteBrokerPayment
<1>3. \/ ledger' \subseteq ledger /\ (\A e \in ledger : e.kind = "due" => e \in ledger')
         /\ serial' \in {serial, serial + 1}
      \/ \E p : /\ p.kind = "payment" /\ p.id = serial
                /\ ledger' = ledger \cup {p} /\ serial' = serial + 1
  <2>1. ASSUME NEW i \in Papers,
               (\E a \in Amounts : AddPaymentAtomic(i, a)) \/ \E m \in money : RemovePaymentAtomic(i, m)
        PROVE  ledger' = ledger /\ serial' \in {serial, serial + 1}
    BY <2>1 DEF AddPaymentAtomic, RemovePaymentAtomic
  <2>2. ASSUME NEW e \in ledger, DeleteBrokerPayment(e)
        PROVE  /\ ledger' \subseteq ledger /\ serial' = serial
               /\ \A f \in ledger : f.kind = "due" => f \in ledger'
    BY <2>2 DEF DeleteBrokerPayment
  <2>3. ASSUME NEW b \in Brokers, NEW i \in Papers \cup {Nothing}, NEW a \in Amounts,
               PayBroker(b, i, a)
        PROVE  \E p : /\ p.kind = "payment" /\ p.id = serial
                      /\ ledger' = ledger \cup {p} /\ serial' = serial + 1
    <3>1. PICK p, c : /\ p = [id |-> serial, kind |-> "payment", invoice |-> i, broker |-> b,
                              amount |-> -a, base |-> 0, ccy |-> c]
                      /\ ledger' = ledger \cup {p} /\ serial' = serial + 1
      BY <2>3, Zenon DEF PayBroker
    <3>2. p.kind = "payment" /\ p.id = serial
      BY <3>1
    <3> QED
      BY <3>1, <3>2
  <2> QED
    BY <2>1, <2>2, <2>3
<1>4. RowsHaveIds(ledger', serial')
  BY <1>1, <1>3 DEF World, RowsHaveIds
<1>5. World(doc', lines', ledger', serial')
  BY <1>1, <1>2, <1>4, WorldStays DEF World
<1>6. /\ \A e \in ledger : e.kind = "due" => e \in ledger'
      /\ \A e \in ledger' : e.kind = "due" => e \in ledger
  BY <1>3
<1> QED
  BY <1>2, <1>5, <1>6, PaymentsOnly

----------------------------------------------------------------------------
(* The theorem *)

LEMMA DuesStart ==
  ASSUME HireInit
  PROVE  DuesInv
<1>1. RowsHaveIds(ledger, serial) /\ OneDueIn(ledger)
  BY DEF HireInit, RowsHaveIds, OneDueIn
<1>2. GoodLines(lines)
  BY FS_EmptySet DEF HireInit, GoodLines
<1>3. doc \in [Papers -> Documents \cup {Nothing}]
      /\ \A i \in Papers : Follows(doc, lines, ledger, i)
  BY DEF HireInit, Follows
<1>4. DOMAIN clerk = Clerks /\ \A u \in Clerks : clerk[u].step = "idle"
  BY DEF HireInit
<1> QED
  BY <1>1, <1>2, <1>3, <1>4 DEF DuesInv, World, Knows, Unsynced

\* Requests come and go, the clerks stay
LEMMA DeskStays ==
  ASSUME [HireNext]_hireVars
  PROVE  DOMAIN clerk' = DOMAIN clerk
<1>1. clerk' = clerk \/ \E u, c : clerk' = [clerk EXCEPT ![u] = c]
  <2>1. CASE UNCHANGED hireVars
    BY <2>1 DEF hireVars
  <2>2. ASSUME NEW u \in Clerks, NEW i \in Papers, NEW d \in Documents,
               CreateInvoice(u, i, d) \/ UpdateInvoice(u, i, d)
        PROVE  \E c : clerk' = [clerk EXCEPT ![u] = c]
    BY <2>2, Zenon DEF CreateInvoice, UpdateInvoice, Do
  <2>3. ASSUME NEW u \in Clerks, NEW i \in Papers, BeginSync(u, i) \/ BeginRemove(u, i)
        PROVE  \E c : clerk' = [clerk EXCEPT ![u] = c]
    BY <2>3, Zenon DEF BeginSync, BeginRemove, Do
  <2>4. ASSUME NEW u \in Clerks,
               \/ ClearItems(u) \/ SaveItems(u) \/ ReadInvoice(u) \/ ReadDues(u)
               \/ Synced(u) \/ Fail(u) \/ DropDue(u) \/ RemoveInvoice(u)
        PROVE  \E c : clerk' = [clerk EXCEPT ![u] = c]
    BY <2>4, Zenon DEF ClearItems, SaveItems, ReadInvoice, ReadDues, Synced, Fail, DropDue,
       RemoveInvoice, Do, Finish
  <2>5. ASSUME NEW u \in Clerks, NEW b \in Brokers, Charge(u, b)
        PROVE  \E c : clerk' = [clerk EXCEPT ![u] = c]
    BY <2>5, Zenon DEF Charge, Do, Finish
  <2>6. ASSUME NEW u \in Clerks, NEW e \in ledger, CountPaid(u, e)
        PROVE  \E c : clerk' = [clerk EXCEPT ![u] = c]
    BY <2>6, Zenon DEF CountPaid, Do
  <2>7. CASE \/ \E i \in Papers, a \in Amounts : AddPaymentAtomic(i, a)
             \/ \E i \in Papers, m \in money : RemovePaymentAtomic(i, m)
             \/ \E b \in Brokers, i \in Papers \cup {Nothing}, a \in Amounts :
                  PayBroker(b, i, a)
             \/ \E e \in ledger : DeleteBrokerPayment(e)
    BY <2>7 DEF AddPaymentAtomic, RemovePaymentAtomic, PayBroker, DeleteBrokerPayment
  <2> QED
    BY <2>1, <2>2, <2>3, <2>4, <2>5, <2>6, <2>7 DEF HireNext
<1> QED
  BY <1>1

LEMMA DuesStay ==
  ASSUME \A u, v \in Clerks : u = v, DuesInv, [HireNext]_hireVars
  PROVE  DuesInv'
<1>1. CASE UNCHANGED hireVars
  BY <1>1 DEF hireVars, DuesInv
<1>2. CASE HireNext
  <2>1. ASSUME NEW u \in Clerks,
               \/ \E i \in Papers, d \in Documents :
                    CreateInvoice(u, i, d) \/ UpdateInvoice(u, i, d)
               \/ ClearItems(u) \/ SaveItems(u)
               \/ \E i \in Papers : BeginSync(u, i) \/ BeginRemove(u, i)
               \/ ReadInvoice(u) \/ ReadDues(u) \/ Synced(u) \/ Fail(u)
               \/ \E b \in Brokers : Charge(u, b)
               \/ \E e \in ledger : CountPaid(u, e)
               \/ DropDue(u) \/ RemoveInvoice(u)
        PROVE  DuesInv'
    <3>1. \A v \in Clerks : v = u
      OBVIOUS
    <3>2. CASE \E i \in Papers, d \in Documents :
                 CreateInvoice(u, i, d) \/ UpdateInvoice(u, i, d)
      BY <3>1, <3>2, Entered
    <3>3. CASE ClearItems(u) \/ SaveItems(u)
      BY <3>1, <3>3, ItemsMove
    <3>4. CASE \/ \E i \in Papers : BeginSync(u, i) \/ BeginRemove(u, i)
               \/ ReadInvoice(u) \/ ReadDues(u) \/ Synced(u) \/ Fail(u)
      BY <3>1, <3>4, Reads
    <3>5. CASE \E b \in Brokers : Charge(u, b)
      BY <3>1, <3>5, Charges
    <3>6. CASE (\E e \in ledger : CountPaid(u, e)) \/ DropDue(u)
      BY <3>1, <3>6, Lapses
    <3>7. CASE RemoveInvoice(u)
      BY <3>1, <3>7, Removes
    <3> QED
      BY <2>1, <3>2, <3>3, <3>4, <3>5, <3>6, <3>7
  <2> QED
    BY <1>2, <2>1, Pays DEF HireNext
<1> QED
  BY <1>1, <1>2

LEMMA DuesShow ==
  ASSUME \A u, v \in Clerks : u = v, DuesInv
  PROVE  DuesFollowTheDocument
<1>1. OneDuePerBroker
  BY DEF DuesInv, World, OneDueIn, OneDuePerBroker
<1>2. SUFFICES ASSUME NEW u \in DOMAIN clerk, NEW i \in Papers \ behind, Exists(i),
                      NEW b \in Covering(doc[i])
               PROVE  AmountIn({e \in Dues(i) : e.broker = b})
                        = Rate[b] * (IF LinesOf(i) = {} THEN doc[i].total
                                     ELSE AmountIn({l \in LinesOf(i) : l.kind = "hire"}))
  BY <1>1 DEF DuesFollowTheDocument
<1>3. Follows(doc, lines, ledger, i)
  BY <1>2 DEF DuesInv
<1>4. AmountIn(DuesOf(ledger, i, b)) = BaseOf(lines, i, doc[i]) * Rate[b]
  BY <1>2, <1>3 DEF Follows, Owes, Exists
<1>5. doc[i].total \in Int /\ b \in Brokers /\ GoodLines(lines)
  BY <1>2, HireAssumption DEF DuesInv, World, Exists, Covering
<1>6. BaseOf(lines, i, doc[i]) \in Int /\ Rate[b] \in Int
  BY <1>5, BaseInt, HireAssumption DEF Brokers
<1>7. BaseOf(lines, i, doc[i]) * Rate[b] = Rate[b] * BaseOf(lines, i, doc[i])
  BY <1>6
<1>8. {e \in Dues(i) : e.broker = b} = DuesOf(ledger, i, b)
  BY DEF Dues, DuesOf
<1>9. BaseOf(lines, i, doc[i])
        = IF LinesOf(i) = {} THEN doc[i].total
          ELSE AmountIn({l \in LinesOf(i) : l.kind = "hire"})
  BY Zenon DEF BaseOf, BaseOn, LinesIn, LinesOf
<1> QED
  BY <1>4, <1>7, <1>8, <1>9, Zenon

\* With whatever requests, a broker has one due on an invoice; with one request at a
\* time, of every invoice that was not saved after its last completed synchronisation
\* the dues are the brokers' rates of the hire in it as it stands, wherever a save or
\* an earlier synchronisation failed or was cut off (brokers.service.ts, syncInvoice;
\* hire-invoices.controller.ts, create and update)
THEOREM DuesFollow == HireSpec => []DuesFollowTheDocument
<1>1. CASE \A u, v \in Clerks : u = v
  <2>1. HireInit => DuesInv
    BY DuesStart
  <2>2. DuesInv /\ [HireNext]_hireVars => DuesInv'
    BY <1>1, DuesStay
  <2>3. DuesInv => DuesFollowTheDocument
    BY <1>1, DuesShow
  <2> QED
    BY <2>1, <2>2, <2>3, PTL DEF HireSpec
\* With several requests only the first part speaks
<1>2. CASE ~\A u, v \in Clerks : u = v
  <2> DEFINE Inv == OneDuePerBroker /\ DOMAIN clerk = Clerks
  <2>1. HireInit => Inv
    BY OneDueStarts DEF HireInit
  <2>2. Inv /\ [HireNext]_hireVars => Inv'
    BY OneDueStays, DeskStays
  <2>3. Inv => DuesFollowTheDocument
    BY <1>2 DEF DuesFollowTheDocument
  <2> HIDE DEF Inv
  <2> QED
    BY <2>1, <2>2, <2>3, PTL DEF HireSpec
<1> QED
  BY <1>1, <1>2
=============================================================================
