------------------------ MODULE SupplierPaymentsProofs ------------------------
(***************************************************************************)
(* Proofs about SupplierPayments, for every set of requests, invoices,     *)
(* documents and batches: locks ascend, what is checked under them holds   *)
(* at the write, nothing is orphaned, credits stay with their supplier,    *)
(* the cache is what the rows give, what it shows is a book of whole       *)
(* settlements, and what InvoiceReports tells of it follows the rows.  The *)
(* first five need no arithmetic on the sums (two sums of the same rows    *)
(* are equal); the book and the reports need the laws of SumLaws.          *)
(***************************************************************************)
EXTENDS InvoiceReports, SumLaws, WellFoundedInduction

----------------------------------------------------------------------------
(* The inductive invariant *)

Statuses == {"absent", "deleted", "unpaid", "partial", "paid"}
PCs == {"idle", "lock", "write", "counted", "detached"}

\* TypeOK but for the sums in paid
Types ==
  /\ doc \in [Invoices -> Documents]
  /\ status \in [Invoices -> Statuses]
  /\ payments \subseteq Payment
  /\ allocations \subseteq Allocation
  /\ serial \in Nat
  /\ pc \in [Users -> PCs]
  /\ req \in [Users -> Request]
  /\ wanted \in [Users -> SUBSET Invoices]
  /\ held \in [Users -> SUBSET Invoices]

\* The invoices a request locks
TouchedBy(r) ==
  CASE r.op = "pay" -> {r.invoice}
    [] r.op = "batch" -> Touched(r.batch)
    [] r.op = "unpay" -> {r.row.invoice}
    [] r.op = "unapply" -> {r.row.note, r.row.invoice}
    [] OTHER -> {}

\* A request holds or wants just what it touches, and writes when it holds all
LocksMatch(u) ==
  /\ pc[u] \in {"lock", "write"} =>
       req[u].op \in Ops /\ held[u] \cup wanted[u] = TouchedBy(req[u])
  /\ pc[u] = "write" => wanted[u] = {}
  /\ pc[u] \notin {"lock", "write"} => held[u] = {} /\ wanted[u] = {}
  /\ pc[u] \in {"counted", "detached"} => req[u].op = "delete"
RequestsMatch == \A u \in Users : LocksMatch(u)

Locking == RequestsMatch /\ LocksAscend
IInv == Types /\ Locking /\ ChecksHold /\ NoOrphans

----------------------------------------------------------------------------
(* Facts about the operators *)

\* The least of a set of invoices is one of them
LEMMA LeastIsOne ==
  ASSUME NEW S, S \subseteq Invoices, S # {}
  PROVE  Min(S) \in S /\ \A y \in S : Min(S) <= y
<1>1. S \subseteq Nat  BY InvoicesAssumption
<1>2. IsWellFoundedOn(OpToRel(<, Nat), Nat)  BY NatLessThanWellFounded
<1>3. PICK R : R = OpToRel(<, Nat)  OBVIOUS
<1>4. \A x, y \in Nat : x < y => <<x, y>> \in R
  <2>1. R = {ss \in Nat \X Nat : ss[1] < ss[2]}  BY <1>3, Zenon DEF OpToRel
  <2> QED  BY <2>1
<1>5. \E x \in S : \A y \in S : ~(<<y, x>> \in R)  BY <1>1, <1>2, <1>3, WFMin
<1>6. PICK x \in S : \A y \in S : ~(<<y, x>> \in R)  BY <1>5
<1>7. ASSUME NEW y \in S PROVE x <= y
  <2>1. x \in Nat /\ y \in Nat  BY <1>1
  <2>2. ~(y < x)  BY <1>4, <1>6, <2>1, Zenon
  <2> QED  BY <2>1, <2>2
<1> QED  BY <1>7 DEF Min

\* A request that touches invoices touches invoices that there are numbers for
LEMMA TouchedAreInvoices ==
  ASSUME NEW r \in Request PROVE TouchedBy(r) \subseteq Invoices
<1>1. CASE r \in [op : {"batch"}, batch : Batches]
  <2>1. Touched(r.batch) \subseteq Invoices
    BY <1>1, BatchesAssumption DEF Touched, Lines, NotesOf
  <2> QED  BY <1>1, <2>1 DEF TouchedBy
<1>2. CASE r \notin [op : {"batch"}, batch : Batches]
  BY <1>2 DEF Request, NoRequest, TouchedBy, Payment, Allocation
<1> QED  BY <1>1, <1>2

\* Deriving the cache changes the status of the invoices derived only, and
\* none of them begins or ceases to exist
LEMMA RecomputeKeeps ==
  ASSUME Types, NEW S, NEW P, NEW A, Recompute(S, P, A)
  PROVE  /\ status' \in [Invoices -> Statuses]
         /\ \A i \in Invoices : Exists(i)' <=> Exists(i)
         /\ \A i \in Invoices \ S : status'[i] = status[i]
<1>1. \A t, n : PaymentState(t, n) \in {"unpaid", "partial", "paid"}
  BY DEF PaymentState
<1>2. \A i \in Invoices : \/ status'[i] = status[i]
                          \/ i \in S /\ Exists(i)
                             /\ status'[i] \in {"unpaid", "partial", "paid"}
  BY <1>1 DEF Recompute
<1>3. status' = [i \in Invoices |-> status'[i]]  BY DEF Recompute
<1> QED  BY <1>2, <1>3 DEF Exists, Types, Statuses

----------------------------------------------------------------------------
(* Requests begin, end and are continued *)

LEMMA StartKeeps ==
  ASSUME Types, Locking, NEW u \in Users, NEW r \in Request, r.op \in Ops,
         Start(u, r, TouchedBy(r))
  PROVE  /\ pc' \in [Users -> PCs] /\ req' \in [Users -> Request]
         /\ wanted' \in [Users -> SUBSET Invoices] /\ held' = held
         /\ Locking'
<1>1. TouchedBy(r) \subseteq Invoices  BY TouchedAreInvoices
<1>2. /\ pc' \in [Users -> PCs] /\ req' \in [Users -> Request]
      /\ wanted' \in [Users -> SUBSET Invoices] /\ held' = held
  BY <1>1 DEF Start, Types, PCs
<1>3. pc[u] = "idle" /\ held[u] = {}  BY DEF Start, Locking, RequestsMatch, LocksMatch
<1>4. pc'[u] = "lock" /\ req'[u] = r /\ wanted'[u] = TouchedBy(r)
  BY DEF Start, Types
<1>5. \A v \in Users \ {u} : pc'[v] = pc[v] /\ req'[v] = req[v] /\ wanted'[v] = wanted[v]
  BY DEF Start, Types
<1>6. LocksMatch(u)'  BY <1>2, <1>3, <1>4 DEF LocksMatch
<1>7. \A v \in Users \ {u} : LocksMatch(v)'
  BY <1>2, <1>5 DEF Locking, RequestsMatch, LocksMatch
<1>8. LocksAscend'  BY <1>2, <1>3, <1>4, <1>5 DEF Locking, LocksAscend
<1> QED  BY <1>2, <1>6, <1>7, <1>8 DEF Locking, RequestsMatch

LEMMA EndKeeps ==
  ASSUME Types, Locking, NEW u \in Users, End(u)
  PROVE  /\ pc' \in [Users -> PCs] /\ req' \in [Users -> Request]
         /\ wanted' \in [Users -> SUBSET Invoices]
         /\ held' \in [Users -> SUBSET Invoices]
         /\ pc'[u] = "idle"
         /\ \A v \in Users \ {u} : pc'[v] = pc[v] /\ req'[v] = req[v]
         /\ Locking'
<1>1. NoRequest \in Request  BY DEF Request
<1>2. /\ pc' \in [Users -> PCs] /\ req' \in [Users -> Request]
      /\ wanted' \in [Users -> SUBSET Invoices] /\ held' \in [Users -> SUBSET Invoices]
  BY <1>1 DEF End, Types, PCs
<1>3. pc'[u] = "idle" /\ req'[u] = NoRequest /\ wanted'[u] = {} /\ held'[u] = {}
  BY DEF End, Types
<1>4. \A v \in Users \ {u} : pc'[v] = pc[v] /\ req'[v] = req[v]
                             /\ wanted'[v] = wanted[v] /\ held'[v] = held[v]
  BY DEF End, Types
<1>5. LocksMatch(u)'  BY <1>3 DEF LocksMatch
<1>6. \A v \in Users \ {u} : LocksMatch(v)'
  BY <1>4 DEF Locking, RequestsMatch, LocksMatch
<1>7. LocksAscend'  BY <1>3, <1>4 DEF Locking, LocksAscend
<1> QED  BY <1>2, <1>3, <1>4, <1>5, <1>6, <1>7 DEF Locking, RequestsMatch

\* The lock that is asked for next is above those held
LEMMA LockKeeps ==
  ASSUME Types, Locking, NEW u \in Users, Lock(u)
  PROVE  /\ wanted' \in [Users -> SUBSET Invoices]
         /\ held' \in [Users -> SUBSET Invoices]
         /\ Locking'
<1>1. PICK i : i = NextLock(u)  OBVIOUS
<1>2. i \in wanted[u] /\ \A j \in wanted[u] : i <= j
  BY <1>1, LeastIsOne DEF Types, Lock, NextLock
<1>3. wanted[u] \subseteq Invoices /\ held[u] \subseteq Invoices  BY DEF Types
<1>4. /\ held' = [held EXCEPT ![u] = held[u] \cup {i}]
      /\ wanted' = [wanted EXCEPT ![u] = wanted[u] \ {i}]
      /\ pc' = pc /\ req' = req /\ pc[u] = "lock"
      /\ \A v \in Users \ {u} : i \notin held[v]
  BY <1>1 DEF Lock, LockFree
<1>5. /\ wanted' \in [Users -> SUBSET Invoices]
      /\ held' \in [Users -> SUBSET Invoices]
  BY <1>2, <1>3, <1>4 DEF Types
<1>6. held'[u] = held[u] \cup {i} /\ wanted'[u] = wanted[u] \ {i}  BY <1>4 DEF Types
<1>7. \A v \in Users \ {u} : held'[v] = held[v] /\ wanted'[v] = wanted[v]
  BY <1>4 DEF Types
<1>8. LocksMatch(u)'
  BY <1>2, <1>4, <1>6 DEF Locking, RequestsMatch, LocksMatch
<1>9. \A v \in Users \ {u} : LocksMatch(v)'
  BY <1>4, <1>7 DEF Locking, RequestsMatch, LocksMatch
<1>10. \A h \in held'[u], w \in wanted'[u] : h < w
  <2> SUFFICES ASSUME NEW h \in held'[u], NEW w \in wanted'[u] PROVE h < w
    OBVIOUS
  <2>1. w \in wanted[u] /\ w # i /\ i <= w  BY <1>2, <1>6
  <2>2. w \in Nat /\ i \in Nat  BY <1>2, <1>3, <2>1, InvoicesAssumption
  <2>3. CASE h \in held[u]  BY <2>1, <2>3 DEF Locking, LocksAscend
  <2>4. CASE h = i  BY <2>1, <2>2, <2>4
  <2> QED  BY <1>6, <2>3, <2>4
<1>11. ASSUME NEW v \in Users, NEW w \in Users \ {v} PROVE held'[v] \cap held'[w] = {}
  BY <1>4, <1>6, <1>7 DEF Locking, LocksAscend
<1>12. ASSUME NEW v \in Users \ {u}
       PROVE  \A h \in held'[v], w \in wanted'[v] : h < w
  BY <1>7 DEF Locking, LocksAscend
<1>13. LocksAscend'  BY <1>10, <1>11, <1>12 DEF LocksAscend
<1> QED  BY <1>5, <1>8, <1>9, <1>13 DEF Locking, RequestsMatch

----------------------------------------------------------------------------
(* What is checked depends on the invoices touched alone *)

SameRows(i) ==
  /\ PaymentsOf(i, payments') = PaymentsOf(i, payments)
  /\ {a \in allocations' : a.invoice = i} = {a \in allocations : a.invoice = i}
  /\ {a \in allocations' : a.note = i} = {a \in allocations : a.note = i}
Same(i) == doc'[i] = doc[i] /\ status'[i] = status[i] /\ SameRows(i)

LEMMA SameSettled ==
  ASSUME NEW i, Same(i) PROVE Settled(i)' = Settled(i)
<1>1. \A c : {r \in PaymentsOf(i, payments') : r.ccy = c}
             = {r \in PaymentsOf(i, payments) : r.ccy = c}
  BY DEF Same, SameRows
<1>2. \A c : {r \in {a \in allocations' : a.invoice = i} : r.ccy = c}
             = {r \in {a \in allocations : a.invoice = i} : r.ccy = c}
  BY DEF Same, SameRows
<1>3. \A c : {r \in {a \in allocations' : a.note = i} : r.ccy = c}
             = {r \in {a \in allocations : a.note = i} : r.ccy = c}
  BY DEF Same, SameRows
<1> QED  BY <1>1, <1>2, <1>3, ZenonT(60) DEF Same, Settled, SettledIn

LEMMA StillAccepted ==
  ASSUME NEW r, Accepted(r), r.op \in Ops,
         r.op \in {"pay", "batch"} => \A i \in TouchedBy(r) : Same(i)
  PROVE  Accepted(r)'
<1>1. CASE r.op = "pay"
  <2>1. Same(r.invoice)  BY <1>1 DEF TouchedBy
  <2>2. Settled(r.invoice)' = Settled(r.invoice)  BY <2>1, SameSettled
  <2>3. PaymentAccepted(r.invoice, r.amount)  BY <1>1 DEF Accepted
  <2>4. PaymentAccepted(r.invoice, r.amount)'
    BY <2>1, <2>2, <2>3 DEF PaymentAccepted, Exists, Same
  <2> QED  BY <1>1, <2>4 DEF Accepted
<1>2. CASE r.op = "batch"
  <2>1. PICK b : b = r.batch  OBVIOUS
  <2>2. \A i \in Touched(b) : Same(i)  BY <1>2, <2>1 DEF TouchedBy
  <2>3. \A i \in Touched(b) : Settled(i)' = Settled(i)  BY <2>2, SameSettled
  <2>4. BatchAccepted(b)  BY <1>2, <2>1 DEF Accepted
  <2>5. \A i \in Touched(b) : \A s : Open(i, s) => Open(i, s)'
    BY <2>2 DEF Open, Exists, Same
  <2>6. ASSUME NEW i \in Lines(b) PROVE LineAccepted(b, i)'
    <3>1. i \in Touched(b)  BY DEF Touched
    <3>2. LineAccepted(b, i)  BY <2>4 DEF BatchAccepted
    <3> QED  BY <2>2, <2>3, <2>5, <3>1, <3>2 DEF LineAccepted, Same
  <2>7. ASSUME NEW c \in b.credits PROVE CreditAccepted(b, c)'
    <3>1. c.note \in Touched(b) /\ c.invoice \in Touched(b)  BY DEF Touched, NotesOf
    <3>2. CreditAccepted(b, c)  BY <2>4 DEF BatchAccepted
    <3> QED  BY <2>2, <2>5, <3>1, <3>2 DEF CreditAccepted, Same
  <2>8. ASSUME NEW n \in NotesOf(b) PROVE NoteLasts(b, n)'
    <3>1. n \in Touched(b)  BY DEF Touched
    <3>2. NoteLasts(b, n)  BY <2>4 DEF BatchAccepted
    <3> QED  BY <2>2, <2>3, <3>1, <3>2 DEF NoteLasts, Same
  <2>9. BatchAccepted(b)'  BY <2>4, <2>6, <2>7, <2>8 DEF BatchAccepted
  <2> QED  BY <1>2, <2>1, <2>9 DEF Accepted
<1>3. CASE r.op \in {"unpay", "unapply"}  BY <1>3 DEF Accepted
<1> QED  BY <1>1, <1>2, <1>3 DEF Ops

\* What is accepted touches invoices that exist
LEMMA AcceptedExist ==
  ASSUME NEW r, Accepted(r), r.op \in {"pay", "batch"}
  PROVE  \A i \in TouchedBy(r) : Exists(i)
<1>1. CASE r.op = "pay"  BY <1>1 DEF Accepted, PaymentAccepted, TouchedBy
<1>2. CASE r.op = "batch"
  <2>1. PICK b : b = r.batch  OBVIOUS
  <2>2. BatchAccepted(b)  BY <1>2, <2>1 DEF Accepted
  <2>3. \A i \in Lines(b) : Exists(i)  BY <2>2 DEF BatchAccepted, LineAccepted, Open
  <2>4. \A c \in b.credits : Exists(c.note) /\ c.invoice \in Lines(b)
    BY <2>2 DEF BatchAccepted, CreditAccepted, Open
  <2>5. \A i \in Touched(b) : Exists(i)  BY <2>3, <2>4 DEF Touched, NotesOf
  <2> QED  BY <1>2, <2>1, <2>5 DEF TouchedBy
<1> QED  BY <1>1, <1>2

\* A step of one request on the invoices of S leaves the others' checks alone
LEMMA ChecksKept ==
  ASSUME Types, Locking, ChecksHold, NEW v \in Users, NEW S,
         \A i \in Invoices \ S : Same(i),
         pc'[v] # "write",
         \A u \in Users \ {v} : pc'[u] = pc[u] /\ req'[u] = req[u],
         \A u \in Users \ {v} :
           pc[u] = "write" /\ req[u].op \in {"pay", "batch"} =>
             TouchedBy(req[u]) \cap S = {}
  PROVE  ChecksHold'
<1> SUFFICES ASSUME NEW u \in Users, pc'[u] = "write" PROVE Accepted(req[u])'
  BY DEF ChecksHold
<1>1. u # v /\ pc[u] = "write" /\ req'[u] = req[u]  OBVIOUS
<1>2. PICK r : r = req[u]  OBVIOUS
<1>3. r \in Request  BY <1>2 DEF Types
<1>4. TouchedBy(r) \subseteq Invoices  BY <1>3, TouchedAreInvoices
<1>5. Accepted(r) /\ r.op \in Ops
  BY <1>1, <1>2 DEF ChecksHold, Locking, RequestsMatch, LocksMatch
<1>6. r.op \in {"pay", "batch"} => \A i \in TouchedBy(r) : Same(i)
  BY <1>1, <1>2, <1>4
<1>7. Accepted(r)'  BY <1>5, <1>6, StillAccepted
<1> QED  BY <1>1, <1>2, <1>7

\* Who writes holds what it touches, and nobody else does
LEMMA WritersApart ==
  ASSUME Locking, NEW v \in Users, NEW u \in Users \ {v}, pc[u] = "write", pc[v] = "write"
  PROVE  TouchedBy(req[u]) \cap TouchedBy(req[v]) = {}
<1>1. held[u] = TouchedBy(req[u]) /\ held[v] = TouchedBy(req[v])
  BY DEF Locking, RequestsMatch, LocksMatch
<1> QED  BY <1>1 DEF Locking, LocksAscend

\* A step that changes nothing that is checked
LEMMA QuietKeeps ==
  ASSUME IInv, UNCHANGED <<doc, status, payments, allocations>>,
         \A u \in Users : pc'[u] = "write" => Accepted(req'[u])
  PROVE  ChecksHold' /\ NoOrphans'
<1>1. \A r : Accepted(r)' <=> Accepted(r)
  BY DEF Accepted, PaymentAccepted, BatchAccepted, LineAccepted, CreditAccepted,
         NoteLasts, Open, Exists, Settled, SettledIn
<1>2. ChecksHold'  BY <1>1 DEF ChecksHold
<1>3. NoOrphans'  BY DEF IInv, NoOrphans, Exists
<1> QED  BY <1>2, <1>3

----------------------------------------------------------------------------
(* Steps of a request that change no row *)

LEMMA BeginKeeps ==
  ASSUME IInv, NEW u \in Users, NEW r \in Request, r.op \in Ops,
         Start(u, r, TouchedBy(r)), UNCHANGED <<paperVars, attached, rowVars>>
  PROVE  IInv'
<1>1. /\ pc' \in [Users -> PCs] /\ req' \in [Users -> Request]
      /\ wanted' \in [Users -> SUBSET Invoices] /\ held' = held
      /\ Locking'
  BY StartKeeps DEF IInv
<1>2. Types'  BY <1>1 DEF IInv, Types, paperVars, rowVars
<1>3. \A v \in Users : pc'[v] = "write" => Accepted(req'[v])
  BY DEF Start, IInv, Types, ChecksHold
<1>4. ChecksHold' /\ NoOrphans'  BY <1>3, QuietKeeps DEF paperVars, rowVars
<1> QED  BY <1>1, <1>2, <1>4 DEF IInv

LEMMA KeepsBeginPayment ==
  ASSUME IInv, NEW u \in Users, BeginPayment(u) PROVE IInv'
<1>1. PICK i \in Payable, amount \in Amounts :
        /\ Start(u, [op |-> "pay", invoice |-> i, amount |-> amount], {i})
        /\ UNCHANGED <<paperVars, attached, rowVars>>
  BY DEF BeginPayment
<1>2. PICK r : r = [op |-> "pay", invoice |-> i, amount |-> amount]  OBVIOUS
<1>3. r \in Request /\ r.op \in Ops /\ TouchedBy(r) = {i}
  BY <1>2, SubsetsAssumption DEF Request, Ops, TouchedBy
<1> QED  BY <1>1, <1>2, <1>3, BeginKeeps

LEMMA KeepsBeginBatch ==
  ASSUME IInv, NEW u \in Users, BeginBatch(u) PROVE IInv'
<1>1. PICK b \in Batches :
        /\ Start(u, [op |-> "batch", batch |-> b], Touched(b))
        /\ UNCHANGED <<paperVars, attached, rowVars>>
  BY DEF BeginBatch
<1>2. PICK r : r = [op |-> "batch", batch |-> b]  OBVIOUS
<1>3. r \in Request /\ r.op \in Ops /\ TouchedBy(r) = Touched(b)
  BY <1>2 DEF Request, Ops, TouchedBy
<1> QED  BY <1>1, <1>2, <1>3, BeginKeeps

LEMMA KeepsBeginRemovePayment ==
  ASSUME IInv, NEW u \in Users, BeginRemovePayment(u) PROVE IInv'
<1>1. PICK p \in payments :
        /\ Start(u, [op |-> "unpay", row |-> p], {p.invoice})
        /\ UNCHANGED <<paperVars, attached, rowVars>>
  BY DEF BeginRemovePayment
<1>2. PICK r : r = [op |-> "unpay", row |-> p]  OBVIOUS
<1>3. r \in Request /\ r.op \in Ops /\ TouchedBy(r) = {p.invoice}
  BY <1>2 DEF IInv, Types, Request, Ops, TouchedBy
<1> QED  BY <1>1, <1>2, <1>3, BeginKeeps

LEMMA KeepsBeginRemoveAllocation ==
  ASSUME IInv, NEW u \in Users, BeginRemoveAllocation(u) PROVE IInv'
<1>1. PICK a \in allocations :
        /\ Start(u, [op |-> "unapply", row |-> a], {a.note, a.invoice})
        /\ UNCHANGED <<paperVars, attached, rowVars>>
  BY DEF BeginRemoveAllocation
<1>2. PICK r : r = [op |-> "unapply", row |-> a]  OBVIOUS
<1>3. r \in Request /\ r.op \in Ops /\ TouchedBy(r) = {a.note, a.invoice}
  BY <1>2 DEF IInv, Types, Request, Ops, TouchedBy
<1> QED  BY <1>1, <1>2, <1>3, BeginKeeps

LEMMA KeepsLock ==
  ASSUME IInv, NEW u \in Users, Lock(u) PROVE IInv'
<1>1. /\ wanted' \in [Users -> SUBSET Invoices]
      /\ held' \in [Users -> SUBSET Invoices]
      /\ Locking'
  BY LockKeeps DEF IInv
<1>2. UNCHANGED <<paperVars, attached, rowVars, pc, req>>  BY DEF Lock
<1>3. Types'  BY <1>1, <1>2 DEF IInv, Types, paperVars, rowVars
<1>4. ChecksHold' /\ NoOrphans'
  BY <1>2, QuietKeeps DEF IInv, ChecksHold, paperVars, rowVars
<1> QED  BY <1>1, <1>3, <1>4 DEF IInv

LEMMA KeepsCheck ==
  ASSUME IInv, NEW u \in Users, Check(u) PROVE IInv'
<1>1. /\ pc[u] = "lock" /\ wanted[u] = {} /\ Accepted(req[u])
      /\ pc' = [pc EXCEPT ![u] = "write"]
      /\ UNCHANGED <<paperVars, attached, rowVars, req, wanted, held>>
  BY DEF Check
<1>2. Types'  BY <1>1 DEF IInv, Types, PCs, paperVars, rowVars
<1>3. Locking'
  BY <1>1 DEF IInv, Types, Locking, RequestsMatch, LocksMatch, LocksAscend
<1>4. \A v \in Users : pc'[v] = "write" => Accepted(req'[v])
  BY <1>1 DEF IInv, Types, ChecksHold
<1>5. ChecksHold' /\ NoOrphans'  BY <1>1, <1>4, QuietKeeps DEF paperVars, rowVars
<1> QED  BY <1>2, <1>3, <1>5 DEF IInv

LEMMA GivingUpKeeps ==
  ASSUME IInv, NEW u \in Users, End(u), UNCHANGED <<paperVars, attached, rowVars>>
  PROVE  IInv'
<1>1. /\ pc' \in [Users -> PCs] /\ req' \in [Users -> Request]
      /\ wanted' \in [Users -> SUBSET Invoices]
      /\ held' \in [Users -> SUBSET Invoices]
      /\ pc'[u] = "idle"
      /\ \A v \in Users \ {u} : pc'[v] = pc[v] /\ req'[v] = req[v]
      /\ Locking'
  BY EndKeeps DEF IInv
<1>2. Types'  BY <1>1 DEF IInv, Types, paperVars, rowVars
<1>3. \A v \in Users : pc'[v] = "write" => Accepted(req'[v])
  BY <1>1 DEF IInv, ChecksHold
<1>4. ChecksHold' /\ NoOrphans'  BY <1>3, QuietKeeps DEF paperVars, rowVars
<1> QED  BY <1>1, <1>2, <1>4 DEF IInv

LEMMA KeepsAttachFile ==
  ASSUME IInv, NEW u \in Users, AttachFile(u) PROVE IInv'
<1>1. UNCHANGED <<paperVars, rowVars, requestVars>>  BY DEF AttachFile
<1>2. Types' /\ Locking'
  BY <1>1 DEF IInv, Types, Locking, RequestsMatch, LocksMatch, LocksAscend,
              paperVars, rowVars, requestVars
<1>3. ChecksHold' /\ NoOrphans'
  BY <1>1, QuietKeeps DEF IInv, ChecksHold, paperVars, rowVars, requestVars
<1> QED  BY <1>2, <1>3 DEF IInv

\* The deletion of an invoice locks nothing before its last statement
LEMMA KeepsBeginRemoveInvoice ==
  ASSUME IInv, NEW u \in Users, BeginRemoveInvoice(u) PROVE IInv'
<1>1. PICK i \in Removable :
        /\ pc[u] = "idle"
        /\ pc' = [pc EXCEPT ![u] = "counted"]
        /\ req' = [req EXCEPT ![u] = [op |-> "delete", invoice |-> i]]
        /\ UNCHANGED <<paperVars, attached, rowVars, wanted, held>>
  BY DEF BeginRemoveInvoice
<1>2. [op |-> "delete", invoice |-> i] \in Request
  BY SubsetsAssumption DEF Request
<1>3. Types'  BY <1>1, <1>2 DEF IInv, Types, PCs, paperVars, rowVars
<1>4. /\ pc'[u] = "counted" /\ req'[u].op = "delete"
      /\ \A v \in Users \ {u} : pc'[v] = pc[v] /\ req'[v] = req[v]
  BY <1>1 DEF IInv, Types
<1>5. Locking'
  BY <1>1, <1>4 DEF IInv, Locking, RequestsMatch, LocksMatch, LocksAscend
<1>6. ChecksHold' /\ NoOrphans'
  BY <1>1, <1>4, QuietKeeps DEF IInv, ChecksHold, paperVars, rowVars
<1> QED  BY <1>3, <1>5, <1>6 DEF IInv

LEMMA KeepsDeleteAttachments ==
  ASSUME IInv, NEW u \in Users, DeleteAttachments(u) PROVE IInv'
<1>1. /\ pc[u] = "counted" /\ pc' = [pc EXCEPT ![u] = "detached"]
      /\ UNCHANGED <<paperVars, rowVars, req, wanted, held>>
  BY DEF DeleteAttachments
<1>2. Types'  BY <1>1 DEF IInv, Types, PCs, paperVars, rowVars
<1>3. pc'[u] = "detached" /\ \A v \in Users \ {u} : pc'[v] = pc[v]
  BY <1>1 DEF IInv, Types
<1>4. Locking'
  BY <1>1, <1>3 DEF IInv, Locking, RequestsMatch, LocksMatch, LocksAscend
<1>5. ChecksHold' /\ NoOrphans'
  BY <1>1, <1>3, QuietKeeps DEF IInv, ChecksHold, paperVars, rowVars
<1> QED  BY <1>2, <1>4, <1>5 DEF IInv

----------------------------------------------------------------------------
(* Steps that write *)

LEMMA WriteKeeps ==
  ASSUME IInv, NEW u \in Users, pc[u] = "write", End(u), doc' = doc,
         payments' \subseteq Payment, allocations' \subseteq Allocation, serial' \in Nat,
         NEW P, NEW A, Recompute(TouchedBy(req[u]), P, A),
         \A i \in Invoices \ TouchedBy(req[u]) : SameRows(i),
         \A p \in payments' \ payments : Exists(p.invoice),
         \A a \in allocations' \ allocations : Exists(a.note) /\ Exists(a.invoice)
  PROVE  IInv'
<1>1. /\ pc' \in [Users -> PCs] /\ req' \in [Users -> Request]
      /\ wanted' \in [Users -> SUBSET Invoices]
      /\ held' \in [Users -> SUBSET Invoices]
      /\ pc'[u] = "idle"
      /\ \A v \in Users \ {u} : pc'[v] = pc[v] /\ req'[v] = req[v]
      /\ Locking'
  BY EndKeeps DEF IInv
<1>2. /\ status' \in [Invoices -> Statuses]
      /\ \A i \in Invoices : Exists(i)' <=> Exists(i)
      /\ \A i \in Invoices \ TouchedBy(req[u]) : status'[i] = status[i]
  BY RecomputeKeeps DEF IInv
<1>3. Types'  BY <1>1, <1>2 DEF IInv, Types
<1>4. \A i \in Invoices \ TouchedBy(req[u]) : Same(i)  BY <1>2 DEF Same
<1>5. \A v \in Users \ {u} : pc[v] = "write" => TouchedBy(req[v]) \cap TouchedBy(req[u]) = {}
  BY WritersApart DEF IInv
<1>6. ChecksHold'  BY <1>1, <1>4, <1>5, ChecksKept DEF IInv
<1>7. /\ \A p \in payments' : Exists(p.invoice) /\ p.invoice \in Invoices
      /\ \A a \in allocations' : /\ Exists(a.note) /\ a.note \in Invoices
                                 /\ Exists(a.invoice) /\ a.invoice \in Invoices
  BY DEF IInv, NoOrphans, Payment, Allocation
<1>8. NoOrphans'  BY <1>2, <1>7 DEF NoOrphans
<1> QED  BY <1>1, <1>3, <1>6, <1>8 DEF IInv

LEMMA KeepsCommitPayment ==
  ASSUME IInv, NEW u \in Users, CommitPayment(u) PROVE IInv'
<1>1. PICK r : r = req[u]  OBVIOUS
<1>2. PICK p : p = [tx |-> serial, invoice |-> r.invoice,
                    amount |-> r.amount, ccy |-> doc[r.invoice].ccy]
  OBVIOUS
<1>3. /\ pc[u] = "write" /\ r.op = "pay"
      /\ payments' = payments \cup {p} /\ serial' = serial + 1
      /\ Recompute({r.invoice}, payments \cup {p}, allocations)
      /\ End(u) /\ UNCHANGED <<doc, attached, allocations>>
  BY <1>1, <1>2 DEF CommitPayment, Writes
<1>4. r \in Request  BY <1>1 DEF IInv, Types
<1>5. r.invoice \in Invoices /\ r.amount \in Amounts
  BY <1>3, <1>4 DEF Request, NoRequest
<1>6. doc[r.invoice].ccy \in STRING
  BY <1>5, DocumentsAssumption DEF IInv, Types
<1>7. p \in Payment  BY <1>2, <1>5, <1>6, AmountsAssumption DEF IInv, Types, Payment
<1>8. payments' \subseteq Payment /\ allocations' \subseteq Allocation /\ serial' \in Nat
  BY <1>3, <1>7 DEF IInv, Types
<1>9. TouchedBy(req[u]) = {r.invoice}  BY <1>1, <1>3 DEF TouchedBy
<1>10. ASSUME NEW i \in Invoices \ TouchedBy(req[u]) PROVE SameRows(i)
  BY <1>2, <1>3, <1>9 DEF SameRows, PaymentsOf
<1>11. Exists(r.invoice)
  BY <1>1, <1>3 DEF IInv, ChecksHold, Accepted, PaymentAccepted
<1>12. /\ \A q \in payments' \ payments : Exists(q.invoice)
       /\ allocations' \ allocations = {}
  BY <1>2, <1>3, <1>11
<1> QED  BY <1>3, <1>8, <1>9, <1>10, <1>12, WriteKeeps

LEMMA KeepsCommitRemovePayment ==
  ASSUME IInv, NEW u \in Users, CommitRemovePayment(u) PROVE IInv'
<1>1. /\ pc[u] = "write" /\ req[u].op = "unpay"
      /\ payments' = payments \ {req[u].row}
      /\ Recompute({req[u].row.invoice}, payments', allocations)
      /\ End(u) /\ UNCHANGED <<doc, attached, allocations, serial>>
  BY DEF CommitRemovePayment, Writes
<1>2. payments' \subseteq Payment /\ allocations' \subseteq Allocation /\ serial' \in Nat
  BY <1>1 DEF IInv, Types
<1>3. TouchedBy(req[u]) = {req[u].row.invoice}  BY <1>1 DEF TouchedBy
<1>4. ASSUME NEW i \in Invoices \ TouchedBy(req[u]) PROVE SameRows(i)
  BY <1>1, <1>3 DEF SameRows, PaymentsOf
<1>5. payments' \ payments = {} /\ allocations' \ allocations = {}  BY <1>1
<1> QED  BY <1>1, <1>2, <1>3, <1>4, <1>5, WriteKeeps

LEMMA KeepsCommitRemoveAllocation ==
  ASSUME IInv, NEW u \in Users, CommitRemoveAllocation(u) PROVE IInv'
<1>1. PICK a : a = req[u].row  OBVIOUS
<1>2. /\ pc[u] = "write" /\ req[u].op = "unapply"
      /\ allocations' = allocations \ {a}
      /\ Recompute({a.note, a.invoice}, payments, allocations')
      /\ End(u) /\ UNCHANGED <<doc, attached, payments, serial>>
  BY <1>1 DEF CommitRemoveAllocation, Writes
<1>3. payments' \subseteq Payment /\ allocations' \subseteq Allocation /\ serial' \in Nat
  BY <1>2 DEF IInv, Types
<1>4. TouchedBy(req[u]) = {a.note, a.invoice}  BY <1>1, <1>2 DEF TouchedBy
<1>5. ASSUME NEW i \in Invoices \ TouchedBy(req[u]) PROVE SameRows(i)
  BY <1>2, <1>4 DEF SameRows, PaymentsOf
<1>6. payments' \ payments = {} /\ allocations' \ allocations = {}  BY <1>2
<1> QED  BY <1>2, <1>3, <1>4, <1>5, <1>6, WriteKeeps

\* The rows a batch writes
CashRows(b) ==
  {[tx |-> serial, invoice |-> i, amount |-> b.cash[i], ccy |-> doc[i].ccy] :
     i \in CashLines(b)}
CreditRows(b) ==
  {[tx |-> serial, note |-> c.note, invoice |-> c.invoice,
    amount |-> c.amount, ccy |-> doc[c.invoice].ccy] : c \in b.credits}

LEMMA BatchWrites ==
  ASSUME IInv, NEW u \in Users, CommitBatch(u)
  PROVE  /\ pc[u] = "write" /\ req[u].op = "batch" /\ req[u].batch \in Batches
         /\ BatchAccepted(req[u].batch)
         /\ payments' = payments \cup CashRows(req[u].batch)
         /\ allocations' = allocations \cup CreditRows(req[u].batch)
         /\ Recompute(Touched(req[u].batch), payments \cup CashRows(req[u].batch),
                      allocations \cup CreditRows(req[u].batch))
         /\ serial' = serial + 1 /\ End(u) /\ UNCHANGED <<doc, attached>>
<1>1. pc[u] = "write" /\ req[u].op = "batch"  BY DEF CommitBatch, Writes
<1>2. req[u] \in Request  BY DEF IInv, Types
<1>3. req[u].batch \in Batches  BY <1>1, <1>2 DEF Request, NoRequest
<1>4. BatchAccepted(req[u].batch)  BY <1>1 DEF IInv, ChecksHold, Accepted
<1> QED  BY <1>1, <1>3, <1>4 DEF CommitBatch, CashRows, CreditRows

LEMMA KeepsCommitBatch ==
  ASSUME IInv, NEW u \in Users, CommitBatch(u) PROVE IInv'
<1>1. PICK b \in Batches :
        /\ b = req[u].batch /\ BatchAccepted(b)
        /\ payments' = payments \cup CashRows(b)
        /\ allocations' = allocations \cup CreditRows(b)
        /\ Recompute(Touched(b), payments \cup CashRows(b), allocations \cup CreditRows(b))
  BY BatchWrites
<1>2. /\ pc[u] = "write" /\ req[u].op = "batch" /\ serial' = serial + 1
      /\ End(u) /\ UNCHANGED <<doc, attached>>
  BY BatchWrites
<1>3. TouchedBy(req[u]) = Touched(b)  BY <1>1, <1>2 DEF TouchedBy
<1>4. /\ Lines(b) \subseteq Invoices
      /\ \A i \in Lines(b) : b.cash[i] \in Int
      /\ \A c \in b.credits : c.note \in Invoices /\ c.invoice \in Invoices
                              /\ c.amount \in Int
  BY BatchesAssumption DEF Lines
<1>5. \A i \in Invoices : doc[i].ccy \in STRING
  BY DocumentsAssumption DEF IInv, Types
<1>6. CashRows(b) \subseteq Payment
  BY <1>4, <1>5 DEF CashRows, CashLines, Payment, IInv, Types
<1>7. \A c \in b.credits : c.amount > 0  BY <1>1 DEF BatchAccepted, CreditAccepted
<1>8. CreditRows(b) \subseteq Allocation
  BY <1>4, <1>5, <1>7 DEF CreditRows, Allocation, IInv, Types
<1>9. payments' \subseteq Payment /\ allocations' \subseteq Allocation /\ serial' \in Nat
  BY <1>1, <1>2, <1>6, <1>8 DEF IInv, Types
<1>10. ASSUME NEW i \in Invoices \ Touched(b) PROVE SameRows(i)
  <2>1. \A p \in CashRows(b) : p.invoice # i  BY DEF CashRows, CashLines, Touched
  <2>2. \A a \in CreditRows(b) : a.invoice # i /\ a.note # i
    BY DEF CreditRows, Touched, NotesOf
  <2> QED  BY <1>1, <2>1, <2>2 DEF SameRows, PaymentsOf
<1>11. Accepted(req[u])  BY <1>2 DEF IInv, ChecksHold
<1>12. \A i \in Touched(b) : Exists(i)  BY <1>2, <1>3, <1>11, AcceptedExist
<1>13. \A p \in CashRows(b) : Exists(p.invoice)
  BY <1>12 DEF CashRows, CashLines, Touched
<1>14. \A a \in CreditRows(b) : Exists(a.note) /\ Exists(a.invoice)
  BY <1>12 DEF CreditRows, Touched, NotesOf
<1> QED  BY <1>1, <1>2, <1>3, <1>9, <1>10, <1>13, <1>14, WriteKeeps

----------------------------------------------------------------------------
(* Invoices are entered, edited and deleted *)

LEMMA KeepsEnterInvoice ==
  ASSUME IInv, NEW u \in Users, EnterInvoice(u) PROVE IInv'
<1>1. PICK i \in Invoices :
        /\ pc[u] = "idle" /\ status[i] = "absent"
        /\ doc' = [doc EXCEPT ![i] = Given[i]]
        /\ status' = [status EXCEPT ![i] = "unpaid"]
        /\ UNCHANGED <<paid, attached, rowVars, requestVars>>
  BY DEF EnterInvoice
<1>2. Types'
  BY <1>1, GivenAssumption DEF IInv, Types, Statuses, rowVars, requestVars
<1>3. Locking'
  BY <1>1 DEF IInv, Locking, RequestsMatch, LocksMatch, LocksAscend, requestVars
<1>4. \A j \in Invoices \ {i} : Same(j)
  BY <1>1 DEF IInv, Types, Same, SameRows, rowVars
<1>5. ~Exists(i)  BY <1>1 DEF Exists
<1>6. ASSUME NEW v \in Users \ {u}, pc[v] = "write", req[v].op \in {"pay", "batch"}
      PROVE  TouchedBy(req[v]) \cap {i} = {}
  <2>1. Accepted(req[v])  BY <1>6 DEF IInv, ChecksHold
  <2> QED  BY <1>5, <1>6, <2>1, AcceptedExist
<1>7. ChecksHold'
  <2>1. pc' = pc /\ req' = req  BY <1>1 DEF requestVars
  <2> QED  BY <1>1, <1>4, <1>6, <2>1, ChecksKept DEF IInv
<1>8. \A j \in Invoices : Exists(j) => Exists(j)'
  BY <1>1, <1>5 DEF IInv, Types, Exists
<1>9. NoOrphans'
  BY <1>1, <1>8 DEF IInv, Types, NoOrphans, Payment, Allocation, rowVars
<1> QED  BY <1>2, <1>3, <1>7, <1>9 DEF IInv

LEMMA KeepsEditInvoice ==
  ASSUME IInv, NEW u \in Users, EditInvoice(u) PROVE IInv'
<1>1. PICK i \in Editable, d \in Documents :
        /\ pc[u] = "idle" /\ RowFree(i)
        /\ doc' = [doc EXCEPT ![i] = d]
        /\ UNCHANGED <<status, paid, attached, rowVars, requestVars>>
  BY DEF EditInvoice
<1>2. i \in Invoices  BY SubsetsAssumption
<1>3. Types'  BY <1>1, <1>2 DEF IInv, Types, rowVars, requestVars
<1>4. Locking'
  BY <1>1 DEF IInv, Locking, RequestsMatch, LocksMatch, LocksAscend, requestVars
<1>5. \A j \in Invoices \ {i} : Same(j)
  BY <1>1 DEF IInv, Types, Same, SameRows, rowVars
<1>6. ASSUME NEW v \in Users \ {u}, pc[v] = "write"
      PROVE  TouchedBy(req[v]) \cap {i} = {}
  <2>1. held[v] = TouchedBy(req[v])
    BY <1>6 DEF IInv, Locking, RequestsMatch, LocksMatch
  <2> QED  BY <1>1, <2>1 DEF RowFree
<1>7. ChecksHold'
  <2>1. pc' = pc /\ req' = req  BY <1>1 DEF requestVars
  <2> QED  BY <1>1, <1>5, <1>6, <2>1, ChecksKept DEF IInv
<1>8. NoOrphans'  BY <1>1 DEF IInv, NoOrphans, Exists, rowVars
<1> QED  BY <1>3, <1>4, <1>7, <1>8 DEF IInv

LEMMA KeepsDeleteInvoice ==
  ASSUME IInv, NEW u \in Users, DeleteInvoice(u) PROVE IInv'
<1>1. PICK i : i = req[u].invoice  OBVIOUS
<1>2. /\ pc[u] = "detached" /\ RowFree(i)
      /\ status' = IF Referenced(i) THEN status ELSE [status EXCEPT ![i] = "deleted"]
      /\ End(u) /\ UNCHANGED <<doc, paid, attached, rowVars>>
  BY <1>1 DEF DeleteInvoice
<1>3. req[u] \in Request /\ req[u].op = "delete"
  BY <1>2 DEF IInv, Types, Locking, RequestsMatch, LocksMatch
<1>4. i \in Invoices  BY <1>1, <1>3 DEF Request, NoRequest
<1>5. /\ pc' \in [Users -> PCs] /\ req' \in [Users -> Request]
      /\ wanted' \in [Users -> SUBSET Invoices]
      /\ held' \in [Users -> SUBSET Invoices]
      /\ pc'[u] = "idle"
      /\ \A v \in Users \ {u} : pc'[v] = pc[v] /\ req'[v] = req[v]
      /\ Locking'
  BY <1>2, EndKeeps DEF IInv
<1>6. status' \in [Invoices -> Statuses]  BY <1>2, <1>4 DEF IInv, Types, Statuses
<1>7. Types'  BY <1>2, <1>5, <1>6 DEF IInv, Types, rowVars
<1>8. \A j \in Invoices \ {i} : Same(j)
  BY <1>2 DEF IInv, Types, Same, SameRows, rowVars
<1>9. ASSUME NEW v \in Users \ {u}, pc[v] = "write"
      PROVE  TouchedBy(req[v]) \cap {i} = {}
  <2>1. held[v] = TouchedBy(req[v])
    BY <1>9 DEF IInv, Locking, RequestsMatch, LocksMatch
  <2> QED  BY <1>2, <2>1 DEF RowFree
<1>10. ChecksHold'  BY <1>5, <1>8, <1>9, ChecksKept DEF IInv
<1>11. NoOrphans'
  <2>1. CASE Referenced(i)
    BY <1>2, <2>1 DEF IInv, NoOrphans, Exists, rowVars
  <2>2. CASE ~Referenced(i)
    <3>1. /\ \A p \in payments : p.invoice \in Invoices \ {i}
          /\ \A a \in allocations : a.invoice \in Invoices \ {i} /\ a.note \in Invoices \ {i}
      BY <2>2 DEF Referenced, IInv, Types, Payment, Allocation
    <3> QED  BY <1>8, <1>2, <3>1 DEF IInv, NoOrphans, Exists, Same, rowVars
  <2> QED  BY <2>1, <2>2
<1> QED  BY <1>5, <1>7, <1>10, <1>11 DEF IInv

----------------------------------------------------------------------------
(* The invariant *)

\* No row is written and no lock taken before the first request
LEMMA InitHolds == Init => IInv
<1> SUFFICES ASSUME Init PROVE IInv  OBVIOUS
<1>1. NoRequest \in Request  BY DEF Request
<1>2. Types
  BY <1>1, GivenAssumption DEF Init, Types, Statuses, PCs
<1>3. Locking
  BY DEF Init, Locking, RequestsMatch, LocksMatch, LocksAscend
<1>4. ChecksHold /\ NoOrphans  BY DEF Init, ChecksHold, NoOrphans
<1> QED  BY <1>2, <1>3, <1>4 DEF IInv

\* Every step keeps the invariant
LEMMA StepKeeps == IInv /\ [Next]_vars => IInv'
<1> SUFFICES ASSUME IInv, [Next]_vars PROVE IInv'  OBVIOUS
<1>1. CASE UNCHANGED vars
  <2>1. UNCHANGED <<paperVars, attached, rowVars, requestVars>>  BY <1>1 DEF vars
  <2>2. Types' /\ Locking'
    BY <2>1 DEF IInv, Types, Locking, RequestsMatch, LocksMatch, LocksAscend,
                paperVars, rowVars, requestVars
  <2>3. ChecksHold' /\ NoOrphans'
    BY <2>1, QuietKeeps DEF IInv, ChecksHold, paperVars, rowVars, requestVars
  <2> QED  BY <2>2, <2>3 DEF IInv
<1>2. CASE Next
  <2>1. PICK u \in Users : Begin(u) \/ Continue(u)  BY <1>2 DEF Next
  <2>2. CASE Begin(u)
    BY <2>2, KeepsBeginPayment, KeepsBeginBatch, KeepsBeginRemovePayment,
       KeepsBeginRemoveAllocation, KeepsEnterInvoice, KeepsEditInvoice,
       KeepsAttachFile, KeepsBeginRemoveInvoice DEF Begin
  <2>3. CASE Refuse(u) \/ ConnectionLost(u)
    BY <2>3, GivingUpKeeps DEF Refuse, ConnectionLost
  <2>4. CASE Continue(u) /\ ~(Refuse(u) \/ ConnectionLost(u))
    BY <2>4, KeepsLock, KeepsCheck, KeepsCommitPayment, KeepsCommitBatch,
       KeepsCommitRemovePayment, KeepsCommitRemoveAllocation,
       KeepsDeleteAttachments, KeepsDeleteInvoice DEF Continue
  <2> QED  BY <2>1, <2>2, <2>3, <2>4
<1> QED  BY <1>1, <1>2

\* The invariant of payments.service.ts and of the deletion of invoices
THEOREM Invariant == Spec => []IInv
<1>1. Init => IInv  BY InitHolds
<1>2. IInv /\ [Next]_vars => IInv'  BY StepKeeps
<1> QED  BY <1>1, <1>2, PTL DEF Spec

\* Locks are exclusive and asked for in ascending order (payments.service.ts:97
\* and :142), for any number of requests and invoices
THEOREM LocksAlwaysAscend == Spec => []LocksAscend
<1>1. IInv => LocksAscend  BY DEF IInv, Locking
<1> QED  BY <1>1, Invariant, PTL

\* What a request checked under its locks holds when it writes
\* (payments.service.ts:59-66 and :99-104)
THEOREM ChecksAlwaysHold == Spec => []ChecksHold
<1>1. IInv => ChecksHold  BY DEF IInv
<1> QED  BY <1>1, Invariant, PTL

\* No payment and no application is left without its invoice (invoices.service.ts:104-110)
THEOREM NothingIsOrphaned == Spec => []NoOrphans
<1>1. IInv => NoOrphans  BY DEF IInv
<1> QED  BY <1>1, Invariant, PTL

\* An application joins a note and an invoice of one supplier and one currency,
\* whoever edits them meanwhile (assertCreditBatch, payment-derivation.ts:139-150)
THEOREM CreditsBelong == Spec => CreditsStayWithSupplier
<1> DEFINE Belongs(a) ==
      /\ doc[a.note].supplier = doc[a.invoice].supplier
      /\ doc[a.note].ccy = doc[a.invoice].ccy /\ a.ccy = doc[a.invoice].ccy
      /\ doc[a.note].total < 0 /\ doc[a.invoice].total > 0
      /\ a.note \notin Legacy /\ a.invoice \notin Legacy
<1>1. ASSUME IInv, NEW u \in Users, CommitBatch(u)
      PROVE  \A a \in allocations' \ allocations : Belongs(a)
  <2>1. PICK b : BatchAccepted(b) /\ allocations' = allocations \cup CreditRows(b)
    BY <1>1, BatchWrites
  <2>2. ASSUME NEW c \in b.credits
        PROVE  /\ doc[c.note].supplier = doc[c.invoice].supplier
               /\ doc[c.note].ccy = doc[c.invoice].ccy
               /\ doc[c.note].total < 0 /\ doc[c.invoice].total > 0
               /\ c.note \notin Legacy /\ c.invoice \notin Legacy
    <3>1. CreditAccepted(b, c)  BY <2>1 DEF BatchAccepted
    <3>2. LineAccepted(b, c.invoice)  BY <2>1, <3>1 DEF BatchAccepted, CreditAccepted
    <3> QED  BY <3>1, <3>2 DEF CreditAccepted, LineAccepted, Open
  <2> QED  BY <2>1, <2>2 DEF CreditRows
<1>2. ASSUME IInv, Next PROVE \A a \in allocations' \ allocations : Belongs(a)
  <2>1. PICK u \in Users : Begin(u) \/ Continue(u)  BY <1>2 DEF Next
  <2>2. CASE CommitBatch(u)  BY <1>1, <1>2, <2>2
  <2>3. CASE ~CommitBatch(u)
    <3>1. allocations' \subseteq allocations
      BY <2>1, <2>3 DEF Begin, Continue, BeginPayment, BeginBatch, BeginRemovePayment,
         BeginRemoveAllocation, EnterInvoice, EditInvoice, AttachFile,
         BeginRemoveInvoice, Lock, Check, Refuse, CommitPayment, CommitRemovePayment,
         CommitRemoveAllocation, DeleteAttachments, DeleteInvoice, ConnectionLost, rowVars
    <3> QED  BY <3>1
  <2> QED  BY <2>2, <2>3
<1>3. IInv /\ [Next]_vars =>
        [\A a \in allocations' \ allocations :
           LET n == doc[a.note]  i == doc[a.invoice] IN
           /\ n.supplier = i.supplier /\ n.ccy = i.ccy /\ a.ccy = i.ccy
           /\ n.total < 0 /\ i.total > 0
           /\ a.note \notin Legacy /\ a.invoice \notin Legacy]_vars
  BY <1>2
<1> QED  BY <1>3, Invariant, PTL DEF Spec, CreditsStayWithSupplier

----------------------------------------------------------------------------
(* The cache *)

\* An invoice that is not entered has nothing paid
Cached ==
  /\ CacheMatchesRows
  /\ \A i \in Invoices : status[i] = "absent" => paid[i] = 0

LEMMA NothingIsNil == AmountOf({}) = 0
BY DEF AmountOf, MapThenSumSet, MapThenFoldSet

\* What does not move an invoice leaves its cache right
LEMMA CacheStays ==
  ASSUME NEW i, CacheIs(i), Same(i), paid'[i] = paid[i]
  PROVE  CacheIs(i)'
<1>1. Settled(i)' = Settled(i)  BY SameSettled
<1> QED  BY <1>1 DEF CacheIs, Same, Exists, PaymentState, Abs

\* Whoever writes derives the cache of what it touched from the new rows
LEMMA DerivingCaches ==
  ASSUME IInv, Cached, NEW u \in Users, doc' = doc,
         Recompute(TouchedBy(req[u]), payments', allocations'),
         \A i \in Invoices \ TouchedBy(req[u]) : SameRows(i)
  PROVE  Cached'
<1>1. /\ \A i \in Invoices : Exists(i)' <=> Exists(i)
      /\ \A i \in Invoices \ TouchedBy(req[u]) : status'[i] = status[i]
  BY RecomputeKeeps DEF IInv
<1>2. ASSUME NEW i \in Invoices \ (Legacy \cup Editable) PROVE CacheIs(i)'
  <2>1. CacheIs(i)  BY DEF Cached, CacheMatchesRows
  <2>2. CASE i \in TouchedBy(req[u]) /\ Exists(i)
    <3>1. /\ paid'[i] = SettledIn(i, payments', allocations')
          /\ status'[i] = PaymentState(doc[i].total, SettledIn(i, payments', allocations'))
      BY <2>2 DEF Recompute
    <3>2. Settled(i)' = SettledIn(i, payments', allocations')  BY DEF Settled, SettledIn
    <3> QED  BY <3>1, <3>2 DEF CacheIs, PaymentState, Abs
  <2>3. CASE i \notin TouchedBy(req[u])
    <3>1. Same(i) /\ paid'[i] = paid[i]  BY <1>1, <2>3 DEF Same, Recompute
    <3> QED  BY <2>1, <3>1, CacheStays
  <2>4. CASE ~Exists(i)  BY <1>1, <2>4 DEF CacheIs
  <2> QED  BY <2>2, <2>3, <2>4
<1>3. ASSUME NEW i \in Invoices, status'[i] = "absent" PROVE paid'[i] = 0
  <2>1. ~Exists(i)  BY <1>1, <1>3 DEF Exists
  <2>2. status'[i] = status[i] /\ paid'[i] = paid[i]  BY <2>1 DEF Recompute
  <2> QED  BY <1>3, <2>2 DEF Cached
<1> QED  BY <1>2, <1>3 DEF Cached, CacheMatchesRows

LEMMA CommitsCache ==
  ASSUME IInv, Cached, NEW u \in Users,
         \/ CommitPayment(u) \/ CommitBatch(u)
         \/ CommitRemovePayment(u) \/ CommitRemoveAllocation(u)
  PROVE  Cached'
<1>1. CASE CommitPayment(u)
  <2>1. /\ TouchedBy(req[u]) = {req[u].invoice} /\ doc' = doc
        /\ Recompute({req[u].invoice}, payments', allocations')
    BY <1>1 DEF CommitPayment, Writes, TouchedBy
  <2>2. PICK n : payments' = payments \cup
          {[tx |-> serial, invoice |-> req[u].invoice, amount |-> n,
            ccy |-> doc[req[u].invoice].ccy]}
    BY <1>1 DEF CommitPayment
  <2>3. allocations' = allocations  BY <1>1 DEF CommitPayment
  <2>4. ASSUME NEW i \in Invoices \ TouchedBy(req[u]) PROVE SameRows(i)
    BY <2>1, <2>2, <2>3 DEF SameRows, PaymentsOf
  <2> QED  BY <2>1, <2>4, DerivingCaches
<1>2. CASE CommitBatch(u)
  <2>1. PICK b : b = req[u].batch  OBVIOUS
  <2>2. /\ TouchedBy(req[u]) = Touched(b) /\ doc' = doc
        /\ payments' = payments \cup CashRows(b)
        /\ allocations' = allocations \cup CreditRows(b)
        /\ Recompute(Touched(b), payments', allocations')
    BY <1>2, <2>1, BatchWrites DEF TouchedBy
  <2>3. ASSUME NEW i \in Invoices \ TouchedBy(req[u]) PROVE SameRows(i)
    <3>1. \A p \in CashRows(b) : p.invoice # i
      BY <2>2 DEF CashRows, CashLines, Touched
    <3>2. \A a \in CreditRows(b) : a.invoice # i /\ a.note # i
      BY <2>2 DEF CreditRows, Touched, NotesOf
    <3> QED  BY <2>2, <3>1, <3>2 DEF SameRows, PaymentsOf
  <2> QED  BY <2>2, <2>3, DerivingCaches
<1>3. CASE CommitRemovePayment(u)
  <2>1. /\ TouchedBy(req[u]) = {req[u].row.invoice} /\ doc' = doc
        /\ Recompute({req[u].row.invoice}, payments', allocations')
    BY <1>3 DEF CommitRemovePayment, Writes, TouchedBy
  <2>2. ASSUME NEW i \in Invoices \ TouchedBy(req[u]) PROVE SameRows(i)
    BY <1>3, <2>1 DEF CommitRemovePayment, SameRows, PaymentsOf
  <2> QED  BY <2>1, <2>2, DerivingCaches
<1>4. CASE CommitRemoveAllocation(u)
  <2>1. /\ TouchedBy(req[u]) = {req[u].row.note, req[u].row.invoice} /\ doc' = doc
        /\ Recompute({req[u].row.note, req[u].row.invoice}, payments', allocations')
    BY <1>4 DEF CommitRemoveAllocation, Writes, TouchedBy
  <2>2. ASSUME NEW i \in Invoices \ TouchedBy(req[u]) PROVE SameRows(i)
    BY <1>4, <2>1 DEF CommitRemoveAllocation, SameRows, PaymentsOf
  <2> QED  BY <2>1, <2>2, DerivingCaches
<1> QED  BY <1>1, <1>2, <1>3, <1>4

\* A new invoice has no rows; an edit is of an invoice the cache says nothing of
LEMMA InvoicesCache ==
  ASSUME IInv, Cached, NEW u \in Users,
         EnterInvoice(u) \/ EditInvoice(u) \/ DeleteInvoice(u)
  PROVE  Cached'
<1>1. CASE EnterInvoice(u)
  <2>1. PICK i \in Invoices :
          /\ status[i] = "absent"
          /\ doc' = [doc EXCEPT ![i] = Given[i]]
          /\ status' = [status EXCEPT ![i] = "unpaid"]
          /\ UNCHANGED <<paid, payments, allocations>>
    BY <1>1 DEF EnterInvoice, rowVars
  <2>2. \A j \in Invoices \ {i} : Same(j)
    BY <2>1 DEF IInv, Types, Same, SameRows
  <2>3. status'[i] = "unpaid" /\ paid'[i] = 0  BY <2>1 DEF IInv, Types, Cached
  <2>4. Settled(i)' = 0
    <3>1. PaymentsOf(i, payments) = {} /\ {a \in allocations : a.invoice = i} = {}
          /\ {a \in allocations : a.note = i} = {}
      BY <2>1 DEF IInv, NoOrphans, Exists, PaymentsOf
    <3>2. \A c : /\ {r \in PaymentsOf(i, payments') : r.ccy = c} = {}
                 /\ {r \in {a \in allocations' : a.invoice = i} : r.ccy = c} = {}
                 /\ {r \in {a \in allocations' : a.note = i} : r.ccy = c} = {}
      BY <2>1, <3>1
    <3>3. Settled(i)' = AmountOf({}) + AmountOf({}) - AmountOf({})
      BY <3>2 DEF Settled, SettledIn
    <3> QED  BY <3>3, NothingIsNil
  <2>5. CacheIs(i)'  BY <2>3, <2>4 DEF CacheIs, PaymentState
  <2>6. \A j \in Invoices \ (Legacy \cup Editable \cup {i}) : CacheIs(j)'
    BY <2>1, <2>2, CacheStays DEF Cached, CacheMatchesRows
  <2>7. \A j \in Invoices : status'[j] = "absent" => paid'[j] = 0
    BY <2>1, <2>2, <2>3 DEF Cached, Same
  <2> QED  BY <2>5, <2>6, <2>7 DEF Cached, CacheMatchesRows
<1>2. CASE EditInvoice(u)
  <2>1. PICK i \in Editable, d \in Documents :
          /\ doc' = [doc EXCEPT ![i] = d]
          /\ UNCHANGED <<status, paid, payments, allocations>>
    BY <1>2 DEF EditInvoice, rowVars
  <2>2. \A j \in Invoices \ {i} : Same(j)
    BY <2>1 DEF IInv, Types, Same, SameRows
  <2>3. \A j \in Invoices \ (Legacy \cup Editable) : CacheIs(j)'
    BY <2>1, <2>2, CacheStays DEF Cached, CacheMatchesRows
  <2> QED  BY <2>1, <2>3 DEF Cached, CacheMatchesRows
<1>3. CASE DeleteInvoice(u)
  <2>1. PICK i : i = req[u].invoice  OBVIOUS
  <2>2. /\ status' = IF Referenced(i) THEN status ELSE [status EXCEPT ![i] = "deleted"]
        /\ UNCHANGED <<doc, paid, payments, allocations>>
    BY <1>3, <2>1 DEF DeleteInvoice, rowVars
  <2>3. ASSUME NEW j \in Invoices PROVE Same(j) \/ status'[j] = "deleted"
    BY <2>2 DEF IInv, Types, Same, SameRows
  <2>4. \A j \in Invoices \ (Legacy \cup Editable) : CacheIs(j)'
    <3> SUFFICES ASSUME NEW j \in Invoices \ (Legacy \cup Editable) PROVE CacheIs(j)'
      OBVIOUS
    <3>1. CASE Same(j)  BY <2>2, <3>1, CacheStays DEF Cached, CacheMatchesRows
    <3>2. CASE status'[j] = "deleted"  BY <3>2 DEF CacheIs, Exists
    <3> QED  BY <2>3, <3>1, <3>2
  <2>5. \A j \in Invoices : status'[j] = "absent" => paid'[j] = 0
    BY <2>2, <2>3 DEF Cached, Same
  <2> QED  BY <2>4, <2>5 DEF Cached, CacheMatchesRows
<1> QED  BY <1>1, <1>2, <1>3

LEMMA NoChangeCaches ==
  ASSUME Cached, UNCHANGED <<doc, status, paid, payments, allocations>> PROVE Cached'
<1>1. \A i \in Invoices : Same(i)  BY DEF Same, SameRows
<1> QED  BY <1>1, CacheStays DEF Cached, CacheMatchesRows

\* Between commits the paid amount and the status of an invoice nobody edits
\* are what its rows give (recompute, payments.service.ts:169-177), for any
\* number of requests, invoices, payments and batches
THEOREM CacheAlwaysMatches == Spec => []CacheMatchesRows
<1>1. ASSUME Init PROVE Cached
  <2>1. ASSUME NEW i \in Invoices \ Legacy PROVE ~Exists(i)
    BY <1>1 DEF Init, Exists
  <2> QED  BY <1>1, <2>1 DEF Init, Cached, CacheMatchesRows, CacheIs
<1>2. ASSUME IInv, Cached, [Next]_vars PROVE Cached'
  <2>1. CASE UNCHANGED vars
    BY <1>2, <2>1, NoChangeCaches DEF vars, paperVars, rowVars
  <2>2. CASE Next
    <3>1. PICK u \in Users : Begin(u) \/ Continue(u)  BY <2>2 DEF Next
    <3>2. CASE \/ CommitPayment(u) \/ CommitBatch(u)
               \/ CommitRemovePayment(u) \/ CommitRemoveAllocation(u)
      BY <1>2, <3>2, CommitsCache
    <3>3. CASE EnterInvoice(u) \/ EditInvoice(u) \/ DeleteInvoice(u)
      BY <1>2, <3>3, InvoicesCache
    <3>4. CASE ~ \/ CommitPayment(u) \/ CommitBatch(u)
                 \/ CommitRemovePayment(u) \/ CommitRemoveAllocation(u)
                 \/ EnterInvoice(u) \/ EditInvoice(u) \/ DeleteInvoice(u)
      <4>1. UNCHANGED <<paperVars, payments, allocations>>
        BY <3>1, <3>4 DEF Begin, Continue, BeginPayment, BeginBatch, BeginRemovePayment,
           BeginRemoveAllocation, AttachFile, BeginRemoveInvoice, Lock, Check, Refuse,
           DeleteAttachments, ConnectionLost, rowVars
      <4> QED  BY <1>2, <4>1, NoChangeCaches DEF paperVars
    <3> QED  BY <3>2, <3>3, <3>4
  <2> QED  BY <1>2, <2>1, <2>2
<1>3. Cached => CacheMatchesRows  BY DEF Cached
<1> QED  BY <1>1, <1>2, <1>3, Invariant, PTL DEF Spec

----------------------------------------------------------------------------
(* The book of settlements *)

\* The invoices and notes of the book, and what their rows give
Papers == Invoices \ Legacy
TotalOf(i) == Given[i].total
Cash(i, P) == RowSum({p \in P : p.invoice = i})
Got(i, A) == RowSum({a \in A : a.invoice = i})
Gave(i, A) == RowSum({a \in A : a.note = i})

\* Rows as the requests write them: in their invoices' currency, payments of
\* bills, applications of notes to bills
GoodPayments(P) ==
  /\ P \subseteq Payment /\ IsFiniteSet(P)
  /\ \A p \in P : /\ p.ccy = Given[p.invoice].ccy
                  /\ p.invoice \in Papers => TotalOf(p.invoice) > 0
GoodAllocations(A) ==
  /\ A \subseteq Allocation /\ IsFiniteSet(A)
  /\ \A a \in A : /\ a.note \in Papers /\ a.invoice \in Papers
                  /\ TotalOf(a.note) < 0 /\ TotalOf(a.invoice) > 0
                  /\ a.ccy = Given[a.note].ccy /\ a.ccy = Given[a.invoice].ccy
InBounds(i, n) == /\ TotalOf(i) > 0 => n <= TotalOf(i)
                  /\ TotalOf(i) < 0 => TotalOf(i) <= n

BookInv ==
  /\ doc = Given
  /\ GoodPayments(payments) /\ GoodAllocations(allocations)
  /\ \A r \in payments \cup allocations : r.tx < serial
  /\ \A u \in Users : req[u].op = "pay" => req[u].invoice \in Payable
  /\ paid \in [Invoices -> Int]
  /\ \A i \in Papers : /\ paid[i] = SettledIn(i, payments, allocations)
                       /\ InBounds(i, SettledIn(i, payments, allocations))

\* What a part of the rows gives is a whole number of cents, and not negative
LEMMA RowsCount ==
  ASSUME NEW S, IsFiniteSet(S), S \subseteq Payment \cup Allocation
  PROVE  RowSum(S) \in Nat
<1>1. \A r \in S : r.amount \in Int /\ r.amount >= 0
  BY DEF Payment, Allocation
<1>2. RowSum(S) \in Int
  BY <1>1, RowSumInt
<1>3. RowSum(S) >= 0
  BY <1>1, RowSumNonNegative
<1> QED
  BY <1>2, <1>3

\* What is settled is paid and got, less what was given
LEMMA SettledParts ==
  ASSUME doc = Given, NEW P, NEW A, GoodPayments(P), GoodAllocations(A), NEW i \in Papers
  PROVE  /\ SettledIn(i, P, A) = Cash(i, P) + Got(i, A) - Gave(i, A)
         /\ Cash(i, P) \in Nat /\ Got(i, A) \in Nat /\ Gave(i, A) \in Nat
         /\ SettledIn(i, P, A) \in Int
         /\ TotalOf(i) >= 0 => Gave(i, A) = 0
         /\ TotalOf(i) <= 0 => Cash(i, P) = 0 /\ Got(i, A) = 0
<1>1. PICK C, G, V : /\ C = {p \in P : p.invoice = i}
                     /\ G = {a \in A : a.invoice = i} /\ V = {a \in A : a.note = i}
  OBVIOUS
<1>2. /\ C = {r \in C : r.ccy = doc[i].ccy} /\ G = {r \in G : r.ccy = doc[i].ccy}
      /\ V = {r \in V : r.ccy = doc[i].ccy}
  BY <1>1 DEF GoodPayments, GoodAllocations
<1>3. SettledIn(i, P, A) = AmountOf(C) + AmountOf(G) - AmountOf(V)
  BY <1>1, <1>2, Zenon DEF SettledIn, PaymentsOf
<1>4. \A S : AmountOf(S) = RowSum(S)
  BY DEF AmountOf, RowSum
<1>5. Cash(i, P) = RowSum(C) /\ Got(i, A) = RowSum(G) /\ Gave(i, A) = RowSum(V)
  BY <1>1, Zenon DEF Cash, Got, Gave
<1>6. /\ IsFiniteSet(C) /\ C \subseteq Payment \cup Allocation
      /\ IsFiniteSet(G) /\ G \subseteq Payment \cup Allocation
      /\ IsFiniteSet(V) /\ V \subseteq Payment \cup Allocation
  BY <1>1, FS_Subset DEF GoodPayments, GoodAllocations
<1>7. RowSum(C) \in Nat /\ RowSum(G) \in Nat /\ RowSum(V) \in Nat
  BY <1>6, RowsCount
<1>8. TotalOf(i) \in Int
  BY GivenAssumption, DocumentsAssumption DEF TotalOf, Papers
<1>9. TotalOf(i) >= 0 => V = {}
  BY <1>1, <1>8 DEF GoodAllocations
<1>10. TotalOf(i) <= 0 => C = {} /\ G = {}
  BY <1>1, <1>8 DEF GoodPayments, GoodAllocations
<1>11. /\ SettledIn(i, P, A) = Cash(i, P) + Got(i, A) - Gave(i, A)
       /\ Cash(i, P) \in Nat /\ Got(i, A) \in Nat /\ Gave(i, A) \in Nat
  BY <1>3, <1>4, <1>5, <1>7
<1>12. TotalOf(i) >= 0 => Gave(i, A) = 0
  BY <1>5, <1>9, RowSumEmpty
<1>13. TotalOf(i) <= 0 => Cash(i, P) = 0 /\ Got(i, A) = 0
  BY <1>5, <1>10, RowSumEmpty
<1> QED
  BY <1>11, <1>12, <1>13

\* Rows that are added add up
LEMMA RowsGrow ==
  ASSUME NEW R \in {Payment, Allocation}, NEW S, S \subseteq R, IsFiniteSet(S),
         NEW T, T \subseteq R, IsFiniteSet(T), S \cap T = {}
  PROVE  RowSum(S \cup T) = RowSum(S) + RowSum(T)
<1>1. \A r \in R : r.amount \in Int
  <2>1. CASE R = Payment  BY <2>1 DEF Payment
  <2>2. CASE R = Allocation  BY <2>2 DEF Allocation
  <2> QED  BY <2>1, <2>2
<1>2. \A r \in S \cup T : r.amount \in Int
  BY <1>1
<1> QED
  BY <1>2, RowSumUnion

\* ... to the invoices and notes that they name
LEMMA CashGrows ==
  ASSUME NEW P, GoodPayments(P), NEW N, GoodPayments(N), P \cap N = {}, NEW i
  PROVE  Cash(i, P \cup N) = Cash(i, P) + Cash(i, N)
<1>1. PICK S, T, U : /\ S = {p \in P : p.invoice = i} /\ T = {p \in N : p.invoice = i}
                     /\ U = {p \in P \cup N : p.invoice = i}
  OBVIOUS
<1>2. /\ S \subseteq Payment /\ IsFiniteSet(S) /\ T \subseteq Payment /\ IsFiniteSet(T)
      /\ S \cap T = {} /\ U = S \cup T
  BY <1>1, FS_Subset DEF GoodPayments
<1>3. RowSum(S \cup T) = RowSum(S) + RowSum(T)
  BY <1>2, RowsGrow
<1>4. Cash(i, P) = RowSum(S) /\ Cash(i, N) = RowSum(T) /\ Cash(i, P \cup N) = RowSum(U)
  BY <1>1, Zenon DEF Cash
<1> QED
  BY <1>2, <1>3, <1>4

LEMMA CreditGrows ==
  ASSUME NEW A, GoodAllocations(A), NEW N, GoodAllocations(N), A \cap N = {}, NEW i
  PROVE  /\ Got(i, A \cup N) = Got(i, A) + Got(i, N)
         /\ Gave(i, A \cup N) = Gave(i, A) + Gave(i, N)
<1>1. PICK S, T, U : /\ S = {a \in A : a.invoice = i} /\ T = {a \in N : a.invoice = i}
                     /\ U = {a \in A \cup N : a.invoice = i}
  OBVIOUS
<1>2. PICK V, W, X : /\ V = {a \in A : a.note = i} /\ W = {a \in N : a.note = i}
                     /\ X = {a \in A \cup N : a.note = i}
  OBVIOUS
<1>3. /\ S \subseteq Allocation /\ IsFiniteSet(S) /\ T \subseteq Allocation /\ IsFiniteSet(T)
      /\ S \cap T = {} /\ U = S \cup T
  BY <1>1, FS_Subset DEF GoodAllocations
<1>4. /\ V \subseteq Allocation /\ IsFiniteSet(V) /\ W \subseteq Allocation /\ IsFiniteSet(W)
      /\ V \cap W = {} /\ X = V \cup W
  BY <1>2, FS_Subset DEF GoodAllocations
<1>5. RowSum(S \cup T) = RowSum(S) + RowSum(T)
  BY <1>3, RowsGrow
<1>6. RowSum(V \cup W) = RowSum(V) + RowSum(W)
  BY <1>4, RowsGrow
<1>7. Got(i, A) = RowSum(S) /\ Got(i, N) = RowSum(T) /\ Got(i, A \cup N) = RowSum(U)
  BY <1>1, Zenon DEF Got
<1>8. Gave(i, A) = RowSum(V) /\ Gave(i, N) = RowSum(W) /\ Gave(i, A \cup N) = RowSum(X)
  BY <1>2, Zenon DEF Gave
<1> QED
  BY <1>3, <1>4, <1>5, <1>6, <1>7, <1>8

\* Rows of no invoice and of one
LEMMA OneRow ==
  ASSUME NEW r, r.amount \in Int
  PROVE  RowSum({r}) = r.amount
<1>1. {} \cup {r} = {r} /\ IsFiniteSet({}) /\ r \notin {}
  BY FS_EmptySet
<1>2. RowSum({} \cup {r}) = RowSum({}) + r.amount
  BY <1>1, RowSumAdd
<1> QED
  BY <1>1, <1>2, RowSumEmpty

\* What is applied from notes is what arrives on invoices: the settlements of
\* all add up to the cash
LEMMA CreditsCancel ==
  ASSUME NEW P, NEW A, GoodPayments(P), GoodAllocations(A), doc = Given,
         NEW f, \A i \in Papers : f[i] = SettledIn(i, P, A)
  PROVE  Sum(f, Papers) = RowSum({p \in P : p.invoice \in Papers})
<1>1. PICK C, Q, X, Y, Z, D, N :
        /\ C = {p \in P : p.invoice \in Papers} /\ Q = Papers
        /\ X = [i \in Q |-> Cash(i, P)]
        /\ Y = [i \in Q |-> Got(i, A)] /\ Z = [i \in Q |-> Gave(i, A)]
        /\ N = [i \in Q |-> -Z[i]] /\ D = [i \in Q |-> X[i] + Y[i]]
  OBVIOUS
<1>2. /\ IsFiniteSet(Q) /\ IsFiniteSet(C) /\ IsFiniteSet(A)
      /\ \A r \in C : r.amount \in Int /\ r.invoice \in Q
      /\ \A r \in A : r.amount \in Int /\ r.invoice \in Q /\ r.note \in Q
  BY <1>1, InvoicesAssumption, FS_Subset
     DEF Papers, GoodPayments, GoodAllocations, Payment, Allocation
<1>3. \A i \in Q : /\ f[i] = D[i] + N[i] /\ D[i] = X[i] + Y[i] /\ N[i] = -Z[i]
                   /\ X[i] \in Int /\ Y[i] \in Int /\ Z[i] \in Int
                   /\ D[i] \in Int /\ N[i] \in Int
  <2>1. TAKE i \in Q
  <2>2. /\ f[i] = Cash(i, P) + Got(i, A) - Gave(i, A)
        /\ Cash(i, P) \in Int /\ Got(i, A) \in Int /\ Gave(i, A) \in Int
    BY <1>1, SettledParts
  <2> QED
    BY <1>1, <2>2
<1>4. Sum(X, Q) = RowSum(C)
  <2>1. PICK key, part : /\ key = [r \in C |-> r.invoice]
                         /\ part = [k \in Q |-> {r \in C : r.invoice = k}]
    OBVIOUS
  <2>2. /\ \A r \in C : key[r] \in Q
        /\ \A k \in Q : part[k] = {r \in C : key[r] = k}
    BY <1>2, <2>1
  <2>3. \A k \in Q : X[k] = RowSum(part[k])
    <3>1. TAKE k \in Q
    <3>2. {p \in P : p.invoice = k} = part[k]
      BY <1>1, <2>1
    <3>3. X[k] = Cash(k, P)
      BY <1>1
    <3> QED
      BY <3>2, <3>3, Zenon DEF Cash
  <2>4. \A r \in C : r.amount \in Int
    BY <1>2
  <2> QED
    BY <1>2, <2>2, <2>3, <2>4, RowSumByKey
<1>5. Sum(Y, Q) = RowSum(A)
  <2>1. PICK key, part : /\ key = [r \in A |-> r.invoice]
                         /\ part = [k \in Q |-> {r \in A : r.invoice = k}]
    OBVIOUS
  <2>2. /\ \A r \in A : key[r] \in Q
        /\ \A k \in Q : part[k] = {r \in A : key[r] = k}
    BY <1>2, <2>1
  <2>3. \A k \in Q : Y[k] = RowSum(part[k])
    BY <1>1, <2>1, Zenon DEF Got
  <2>4. \A r \in A : r.amount \in Int
    BY <1>2
  <2> QED
    BY <1>2, <2>2, <2>3, <2>4, RowSumByKey
<1>6. Sum(Z, Q) = RowSum(A)
  <2>1. PICK key, part : /\ key = [r \in A |-> r.note]
                         /\ part = [k \in Q |-> {r \in A : r.note = k}]
    OBVIOUS
  <2>2. /\ \A r \in A : key[r] \in Q
        /\ \A k \in Q : part[k] = {r \in A : key[r] = k}
    BY <1>2, <2>1
  <2>3. \A k \in Q : Z[k] = RowSum(part[k])
    BY <1>1, <2>1, Zenon DEF Gave
  <2>4. \A r \in A : r.amount \in Int
    BY <1>2
  <2> QED
    BY <1>2, <2>2, <2>3, <2>4, RowSumByKey
<1>7. Sum(D, Q) = Sum(X, Q) + Sum(Y, Q)
  BY <1>2, <1>3, SumOfSums
<1>8. Sum(N, Q) = -Sum(Z, Q)
  BY <1>2, <1>3, SumNegative
<1>9. Sum(f, Q) = Sum(D, Q) + Sum(N, Q)
  BY <1>2, <1>3, SumOfSums
<1>10. Sum(X, Q) \in Int /\ RowSum(A) \in Int
  BY <1>2, <1>3, SumInt, RowSumInt
<1>11. Sum(f, Q) = RowSum(C)
  BY <1>4, <1>5, <1>6, <1>7, <1>8, <1>9, <1>10
<1> QED
  BY <1>1, <1>11

----------------------------------------------------------------------------
(* Steps of the book *)

\* What is settled when a commit is through: what the rows give
LEMMA PaidFollows ==
  ASSUME IInv, BookInv, IInv', NEW u \in Users, doc' = doc,
         NEW P, NEW A, payments' = P, allocations' = A,
         GoodPayments(P), GoodAllocations(A),
         Recompute(TouchedBy(req[u]), P, A),
         \A i \in Invoices \ TouchedBy(req[u]) : SameRows(i)
  PROVE  /\ paid' \in [Invoices -> Int]
         /\ \A i \in Papers : paid'[i] = SettledIn(i, P, A)
         /\ \A i \in Papers \ TouchedBy(req[u]) : paid'[i] = paid[i]
<1>1. \A i \in Invoices : Exists(i)' <=> Exists(i)
  BY RecomputeKeeps DEF IInv
<1>2. \A i \in Papers : SettledIn(i, P, A) \in Int
  BY SettledParts DEF BookInv
<1>3. paid' \in [Invoices -> Int]
  BY <1>2 DEF Recompute, BookInv, Papers
<1>4. ASSUME NEW i \in Papers PROVE paid'[i] = SettledIn(i, P, A)
  <2>1. CASE i \in TouchedBy(req[u]) /\ Exists(i)
    BY <2>1 DEF Recompute, Papers
  <2>2. CASE ~(i \in TouchedBy(req[u]) /\ Exists(i))
    <3>1. paid'[i] = paid[i]
      BY <2>2 DEF Recompute, Papers
    <3>2. SameRows(i)
      <4>1. CASE i \notin TouchedBy(req[u])
        BY <4>1 DEF Papers
      <4>2. CASE ~Exists(i)
        <5>1. ~Exists(i)'
          BY <1>1, <4>2 DEF Papers
        <5>2. /\ \A p \in payments : p.invoice # i
              /\ \A a \in allocations : a.invoice # i /\ a.note # i
          BY <4>2 DEF IInv, NoOrphans
        <5>3. /\ \A p \in payments' : p.invoice # i
              /\ \A a \in allocations' : a.invoice # i /\ a.note # i
          BY <5>1 DEF IInv, NoOrphans
        <5> QED
          BY <5>2, <5>3 DEF SameRows, PaymentsOf
      <4> QED
        BY <2>2, <4>1, <4>2
    <3>3. SettledIn(i, P, A) = SettledIn(i, payments, allocations)
      <4>1. PaymentsOf(i, P) = PaymentsOf(i, payments)
        BY <3>2 DEF SameRows, PaymentsOf
      <4>2. /\ {a \in A : a.invoice = i} = {a \in allocations : a.invoice = i}
            /\ {a \in A : a.note = i} = {a \in allocations : a.note = i}
        BY <3>2 DEF SameRows
      <4> QED
        BY <4>1, <4>2, Zenon DEF SettledIn
    <3> QED
      BY <3>1, <3>3 DEF BookInv
  <2> QED
    BY <2>1, <2>2
<1>5. \A i \in Papers \ TouchedBy(req[u]) : paid'[i] = paid[i]
  BY DEF Recompute, Papers
<1> QED
  BY <1>3, <1>4, <1>5

\* What each sign of a document leaves of its sum: a document we owe is settled by
\* payments and credit, a note by what it gave
LEMMA SettledPartsBySign ==
  ASSUME doc = Given, NEW P, NEW A, GoodPayments(P), GoodAllocations(A)
  PROVE  \A i \in Papers :
           /\ SettledIn(i, P, A) = Cash(i, P) + Got(i, A) - Gave(i, A)
           /\ Cash(i, P) \in Nat /\ Got(i, A) \in Nat /\ Gave(i, A) \in Nat
           /\ TotalOf(i) >= 0 => Gave(i, A) = 0
           /\ TotalOf(i) <= 0 => Cash(i, P) = 0 /\ Got(i, A) = 0
BY SettledParts

\* More rows settle more: invoices up, notes down, and in all what is paid
LEMMA MoreIsSettled ==
  ASSUME BookInv, NEW N, GoodPayments(N), payments \cap N = {},
         NEW M, GoodAllocations(M), allocations \cap M = {},
         NEW P, P = payments \cup N, NEW A, A = allocations \cup M
  PROVE  /\ GoodPayments(P) /\ GoodAllocations(A)
         /\ \A i \in Papers :
              SettledIn(i, P, A) = SettledIn(i, payments, allocations)
                                     + Cash(i, N) + Got(i, M) - Gave(i, M)
<1>1. /\ GoodPayments(payments) /\ GoodAllocations(allocations) /\ doc = Given
  BY DEF BookInv
<1>2. GoodPayments(P) /\ GoodAllocations(A)
  BY <1>1, FS_Union DEF GoodPayments, GoodAllocations
<1>3. ASSUME NEW i \in Papers
      PROVE  SettledIn(i, P, A) = SettledIn(i, payments, allocations)
                                    + Cash(i, N) + Got(i, M) - Gave(i, M)
  <2>1. /\ SettledIn(i, P, A) = Cash(i, P) + Got(i, A) - Gave(i, A)
        /\ SettledIn(i, payments, allocations)
             = Cash(i, payments) + Got(i, allocations) - Gave(i, allocations)
        /\ SettledIn(i, N, M) = Cash(i, N) + Got(i, M) - Gave(i, M)
    BY <1>1, <1>2, SettledParts
  <2>2. /\ Cash(i, payments) \in Int /\ Got(i, allocations) \in Int
        /\ Gave(i, allocations) \in Int
        /\ Cash(i, N) \in Int /\ Got(i, M) \in Int /\ Gave(i, M) \in Int
    BY <1>1, SettledParts
  <2>3. Cash(i, P) = Cash(i, payments) + Cash(i, N)
    BY <1>1, CashGrows
  <2>4. /\ Got(i, A) = Got(i, allocations) + Got(i, M)
        /\ Gave(i, A) = Gave(i, allocations) + Gave(i, M)
    BY <1>1, CreditGrows
  <2> QED
    BY <2>1, <2>2, <2>3, <2>4
<1> QED
  BY <1>2, <1>3

\* The book's sums are ours
LEMMA BookNet ==
  ASSUME NEW f
  PROVE  Book!Net(f) = Sum(f, Papers)
BY Zenon DEF Book!Net, Sum, Papers, MapThenSumSet, MapThenFoldSet,
              Book!MapThenSumSet, Book!MapThenFoldSet

\* A commit that adds rows within the totals settles
LEMMA AddingSettles ==
  ASSUME BookInv, NEW N, GoodPayments(N), payments \cap N = {},
         NEW M, GoodAllocations(M), allocations \cap M = {},
         NEW P, P = payments \cup N, NEW A, A = allocations \cup M,
         \A i \in Papers : paid'[i] = SettledIn(i, P, A),
         \A i \in Papers : InBounds(i, SettledIn(i, P, A))
  PROVE  Book!Settle
<1>1. /\ GoodPayments(P) /\ GoodAllocations(A)
      /\ \A i \in Papers :
           SettledIn(i, P, A) = SettledIn(i, payments, allocations)
                                  + Cash(i, N) + Got(i, M) - Gave(i, M)
  BY MoreIsSettled
<1>2. GoodPayments(payments) /\ GoodAllocations(allocations) /\ doc = Given
  BY DEF BookInv
<1>3. \A i \in Papers : /\ paid[i] = SettledIn(i, payments, allocations)
                        /\ paid[i] \in Int /\ paid'[i] \in Int /\ TotalOf(i) \in Int
  <2>1. TAKE i \in Papers
  <2>2. SettledIn(i, P, A) \in Int
    BY <1>1, <1>2, SettledParts
  <2>3. i \in Invoices /\ TotalOf(i) \in Int
    BY GivenAssumption, DocumentsAssumption DEF TotalOf, Papers
  <2> QED
    BY <2>2, <2>3 DEF BookInv
<1>4. ASSUME NEW i \in Papers, TotalOf(i) > 0
      PROVE  0 <= paid'[i] /\ paid'[i] <= TotalOf(i) /\ paid[i] <= paid'[i]
  <2>1. TotalOf(i) >= 0 /\ TotalOf(i) \in Int
    BY <1>3, <1>4
  <2>2. /\ SettledIn(i, P, A) = Cash(i, P) + Got(i, A) - Gave(i, A)
        /\ Cash(i, P) \in Nat /\ Got(i, A) \in Nat /\ Gave(i, A) = 0
    <3>1. GoodPayments(P) /\ GoodAllocations(A) /\ i \in Papers
      BY <1>1, <1>4
    <3>2. /\ SettledIn(i, P, A) = Cash(i, P) + Got(i, A) - Gave(i, A)
          /\ Cash(i, P) \in Nat /\ Got(i, A) \in Nat
          /\ TotalOf(i) >= 0 => Gave(i, A) = 0
      BY <1>2, <3>1, SettledPartsBySign, ZenonT(60)
    <3> QED
      BY <2>1, <3>2
  <2>3. Cash(i, N) \in Nat /\ Got(i, M) \in Nat /\ Gave(i, M) = 0
    BY <1>2, <1>4, <2>1, SettledParts
  <2>4. paid'[i] = SettledIn(i, P, A) /\ SettledIn(i, P, A) <= TotalOf(i)
    BY <1>4 DEF InBounds
  <2>5. paid'[i] = paid[i] + Cash(i, N) + Got(i, M) - Gave(i, M)
    BY <1>1, <1>3, <1>4, <2>4
  <2>6. PICK a, b, c, g, x, y :
          /\ a = paid[i] /\ b = paid'[i] /\ c = Cash(i, P) /\ g = Got(i, A)
          /\ x = Cash(i, N) /\ y = Got(i, M)
    OBVIOUS
  <2>7. a \in Int /\ c \in Nat /\ g \in Nat /\ x \in Nat /\ y \in Nat
    BY <1>3, <2>2, <2>3, <2>6
  <2>8. b = c + g /\ b = a + x + y
    <3>1. b = c + g - 0
      BY <2>2, <2>4, <2>6
    <3>2. b = a + x + y - 0
      BY <2>3, <2>5, <2>6
    <3> QED
      BY <2>7, <3>1, <3>2
  <2>9. 0 <= b /\ a <= b
    BY <2>7, <2>8
  <2> QED
    BY <2>4, <2>6, <2>9
<1>5. ASSUME NEW i \in Papers, TotalOf(i) < 0
      PROVE  TotalOf(i) <= paid'[i] /\ paid'[i] <= 0 /\ paid'[i] <= paid[i]
  <2>1. TotalOf(i) <= 0 /\ TotalOf(i) \in Int
    BY <1>3, <1>5
  <2>2. /\ SettledIn(i, P, A) = Cash(i, P) + Got(i, A) - Gave(i, A)
        /\ Cash(i, P) = 0 /\ Got(i, A) = 0 /\ Gave(i, A) \in Nat
    <3>1. GoodPayments(P) /\ GoodAllocations(A) /\ i \in Papers
      BY <1>1, <1>5
    <3>2. /\ SettledIn(i, P, A) = Cash(i, P) + Got(i, A) - Gave(i, A)
          /\ Gave(i, A) \in Nat
          /\ TotalOf(i) <= 0 => Cash(i, P) = 0 /\ Got(i, A) = 0
      BY <1>2, <3>1, SettledPartsBySign, ZenonT(60)
    <3> QED
      BY <2>1, <3>2
  <2>3. Cash(i, N) = 0 /\ Got(i, M) = 0 /\ Gave(i, M) \in Nat
    BY <1>2, <1>5, <2>1, SettledParts
  <2>4. paid'[i] = SettledIn(i, P, A) /\ TotalOf(i) <= SettledIn(i, P, A)
    BY <1>5 DEF InBounds
  <2>5. paid'[i] = paid[i] + Cash(i, N) + Got(i, M) - Gave(i, M)
    BY <1>1, <1>3, <1>5, <2>4
  <2>6. PICK a, b, v, y :
          a = paid[i] /\ b = paid'[i] /\ v = Gave(i, A) /\ y = Gave(i, M)
    OBVIOUS
  <2>7. a \in Int /\ v \in Nat /\ y \in Nat
    BY <1>3, <2>2, <2>3, <2>6
  <2>8. b = -v /\ b = a - y
    BY <2>2, <2>3, <2>4, <2>5, <2>6, <2>7
  <2>9. b <= 0 /\ b <= a
    BY <2>7, <2>8
  <2> QED
    BY <2>4, <2>6, <2>9
<1>6. PICK before, after, move, less :
        /\ before = [i \in Papers |-> paid[i]] /\ after = [i \in Papers |-> paid'[i]]
        /\ less = [i \in Papers |-> -paid[i]]
        /\ move = [i \in Papers |-> paid'[i] - paid[i]]
  OBVIOUS
<1>7. Sum(move, Papers) >= 0
  <2>1. PICK C, D : /\ C = {p \in payments : p.invoice \in Papers}
                    /\ D = {p \in N : p.invoice \in Papers}
    OBVIOUS
  <2>2. /\ C \subseteq Payment /\ IsFiniteSet(C) /\ D \subseteq Payment /\ IsFiniteSet(D)
        /\ C \cap D = {} /\ {p \in P : p.invoice \in Papers} = C \cup D
    BY <1>2, <2>1, FS_Subset DEF GoodPayments
  <2>3. /\ \A i \in Papers : before[i] = SettledIn(i, payments, allocations)
        /\ \A i \in Papers : after[i] = SettledIn(i, P, A)
    BY <1>3, <1>6
  <2>4. Sum(before, Papers) = RowSum(C)
    BY <1>2, <2>1, <2>3, CreditsCancel
  <2>5. Sum(after, Papers) = RowSum(C \cup D)
    BY <1>1, <1>2, <2>2, <2>3, CreditsCancel
  <2>6. RowSum(C \cup D) = RowSum(C) + RowSum(D)
    BY <2>2, RowsGrow
  <2>7. RowSum(C) \in Nat /\ RowSum(D) \in Nat
    BY <2>2, RowsCount
  <2>8. IsFiniteSet(Papers)
    BY InvoicesAssumption, FS_Subset DEF Papers
  <2>9. \A i \in Papers : /\ before[i] \in Int /\ after[i] \in Int /\ less[i] = -before[i]
                          /\ less[i] \in Int /\ move[i] = after[i] + less[i]
    BY <1>3, <1>6
  <2>10. Sum(less, Papers) = -Sum(before, Papers)
    BY <2>8, <2>9, SumNegative
  <2>11. Sum(move, Papers) = Sum(after, Papers) + Sum(less, Papers)
    BY <2>8, <2>9, SumOfSums
  <2> QED
    BY <2>4, <2>5, <2>6, <2>7, <2>10, <2>11
<1>8. Book!Moved = move
  BY <1>6 DEF Book!Moved, Papers
<1>9. Book!Net(Book!Moved) >= 0
  BY <1>7, <1>8, BookNet
<1>10. /\ Book!Bills = {i \in Papers : TotalOf(i) > 0}
       /\ Book!Notes = {i \in Papers : TotalOf(i) < 0}
  BY DEF Book!Bills, Book!Notes, Papers, TotalOf
<1>11. Book!Within([i \in Papers |-> paid'[i]])
  BY <1>4, <1>5, <1>10 DEF Book!Within, Papers, TotalOf
<1> QED
  BY <1>4, <1>5, <1>9, <1>10, <1>11 DEF Book!Settle, Book!Within, Papers, TotalOf

\* Payments of one invoice, or of none
LEMMA OnePayment ==
  ASSUME NEW p \in Payment, NEW i
  PROVE  Cash(i, {p}) = IF p.invoice = i THEN p.amount ELSE 0
<1>1. p.amount \in Int
  BY DEF Payment
<1>2. CASE p.invoice = i
  <2>1. {q \in {p} : q.invoice = i} = {p}
    BY <1>2
  <2>2. Cash(i, {p}) = RowSum({p})
    BY <2>1, Zenon DEF Cash
  <2> QED
    BY <1>1, <1>2, <2>2, OneRow
<1>3. CASE p.invoice # i
  <2>1. {q \in {p} : q.invoice = i} = {}
    BY <1>3
  <2>2. Cash(i, {p}) = RowSum({})
    BY <2>1, Zenon DEF Cash
  <2> QED
    BY <1>3, <2>2, RowSumEmpty
<1> QED
  BY <1>2, <1>3

LEMMA OneAllocation ==
  ASSUME NEW a \in Allocation, NEW i
  PROVE  /\ Got(i, {a}) = IF a.invoice = i THEN a.amount ELSE 0
         /\ Gave(i, {a}) = IF a.note = i THEN a.amount ELSE 0
<1>1. a.amount \in Int
  BY DEF Allocation
<1>2. RowSum({a}) = a.amount /\ RowSum({}) = 0
  BY <1>1, OneRow, RowSumEmpty
<1>3. PICK S, T : S = {q \in {a} : q.invoice = i} /\ T = {q \in {a} : q.note = i}
  OBVIOUS
<1>4. /\ S = IF a.invoice = i THEN {a} ELSE {}
      /\ T = IF a.note = i THEN {a} ELSE {}
  BY <1>3
<1>5. Got(i, {a}) = RowSum(S) /\ Gave(i, {a}) = RowSum(T)
  BY <1>3, Zenon DEF Got, Gave
<1> QED
  BY <1>2, <1>4, <1>5

LEMMA NoRows ==
  ASSUME NEW i
  PROVE  /\ GoodPayments({}) /\ GoodAllocations({})
         /\ Cash(i, {}) = 0 /\ Got(i, {}) = 0 /\ Gave(i, {}) = 0
<1>1. GoodPayments({}) /\ GoodAllocations({})
  BY FS_EmptySet DEF GoodPayments, GoodAllocations
<1>2. PICK S, T : S = {q \in {} : q.invoice = i} /\ T = {q \in {} : q.note = i}
  OBVIOUS
<1>3. S = {} /\ T = {}
  BY <1>2
<1>4. Cash(i, {}) = RowSum(S) /\ Got(i, {}) = RowSum(S) /\ Gave(i, {}) = RowSum(T)
  BY <1>2, Zenon DEF Cash, Got, Gave
<1> QED
  BY <1>1, <1>3, <1>4, RowSumEmpty

\* The invariant after a step
LEMMA BookAfter ==
  ASSUME BookInv, doc' = doc, NEW P, NEW A, payments' = P, allocations' = A,
         GoodPayments(P), GoodAllocations(A), \A r \in P \cup A : r.tx < serial',
         \A u \in Users : req'[u].op = "pay" => req'[u].invoice \in Payable,
         paid' \in [Invoices -> Int],
         \A i \in Papers : /\ paid'[i] = SettledIn(i, P, A)
                           /\ InBounds(i, SettledIn(i, P, A))
  PROVE  BookInv'
<1>1. \A i \in Papers : SettledIn(i, payments, allocations)' = SettledIn(i, P, A)
  BY DEF SettledIn, PaymentsOf
<1>2. \A i \in Papers : /\ paid'[i] = SettledIn(i, payments, allocations)'
                        /\ InBounds(i, SettledIn(i, payments, allocations)')
  BY <1>1
<1>3. /\ doc' = Given /\ GoodPayments(payments') /\ GoodAllocations(allocations')
      /\ \A r \in payments' \cup allocations' : r.tx < serial'
  BY DEF BookInv
<1> QED
  BY <1>2, <1>3 DEF BookInv

\* What leaves the rows and the cache alone
LEMMA QuietBook ==
  ASSUME BookInv, UNCHANGED <<doc, paid, payments, allocations, serial>>,
         \A u \in Users : req'[u].op = "pay" => req'[u].invoice \in Payable
  PROVE  BookInv' /\ [Book!BookNext]_[i \in Invoices \ Legacy |-> paid[i]]
<1>1. \A r \in payments \cup allocations : r.tx < serial'
  BY DEF BookInv
<1>2. BookInv'
  BY <1>1, BookAfter DEF BookInv
<1>3. [i \in Invoices \ Legacy |-> paid'[i]] = [i \in Invoices \ Legacy |-> paid[i]]
  OBVIOUS
<1> QED
  BY <1>2, <1>3

\* A payment keeps within its invoice
LEMMA BookPayment ==
  ASSUME IInv, BookInv, IInv', NEW u \in Users, CommitPayment(u),
         \A i \in Payable \ Legacy : TotalOf(i) >= 0
  PROVE  BookInv' /\ Book!Settle
<1>1. PICK r : r = req[u]
  OBVIOUS
<1>2. PICK p : p = [tx |-> serial, invoice |-> r.invoice,
                    amount |-> r.amount, ccy |-> doc[r.invoice].ccy]
  OBVIOUS
<1>3. /\ pc[u] = "write" /\ r.op = "pay"
      /\ payments' = payments \cup {p} /\ serial' = serial + 1
      /\ Recompute({r.invoice}, payments \cup {p}, allocations)
      /\ End(u) /\ UNCHANGED <<doc, attached, allocations>>
  BY <1>1, <1>2 DEF CommitPayment, Writes
<1>4. r.invoice \in Invoices /\ r.amount \in Amounts /\ r.invoice \in Payable
  BY <1>1, <1>3 DEF IInv, Types, Request, NoRequest, BookInv
<1>5. p \in Payment /\ serial \in Nat /\ doc = Given
  <2>1. doc = Given /\ serial \in Nat
    BY DEF IInv, Types, BookInv
  <2>2. doc[r.invoice].ccy \in STRING
    BY <1>4, DocumentsAssumption DEF IInv, Types
  <2>3. r.amount \in Nat \ {0}
    BY <1>4, AmountsAssumption
  <2> QED
    BY <1>2, <1>4, <2>1, <2>2, <2>3 DEF Payment
<1>6. PaymentAccepted(r.invoice, r.amount)
  BY <1>1, <1>3 DEF IInv, ChecksHold, Accepted
<1>7. r.amount \in Nat \ {0} /\ TotalOf(r.invoice) \in Int
  <2>1. Given[r.invoice] \in Documents
    BY <1>4, GivenAssumption
  <2>2. Given[r.invoice].total \in Int
    BY <2>1, DocumentsAssumption
  <2> QED
    BY <1>4, <2>2, AmountsAssumption DEF TotalOf
<1>8. PICK s : s = SettledIn(r.invoice, payments, allocations)
  OBVIOUS
<1>9. r.invoice \in Papers => s \in Int /\ s + r.amount <= TotalOf(r.invoice)
                              /\ TotalOf(r.invoice) > 0
  <2>1. SUFFICES ASSUME r.invoice \in Papers
                 PROVE  s \in Int /\ s + r.amount <= TotalOf(r.invoice)
                        /\ TotalOf(r.invoice) > 0
    OBVIOUS
  <2>2. s \in Int
    BY <1>8, <2>1, SettledParts DEF BookInv
  <2>3. Abs(s) + r.amount <= Abs(TotalOf(r.invoice))
    BY <1>5, <1>6, <1>8 DEF PaymentAccepted, Settled, TotalOf
  <2>4. TotalOf(r.invoice) >= 0
    BY <1>4, <2>1 DEF Papers
  <2> QED
    BY <1>7, <2>2, <2>3, <2>4 DEF Abs
<1>10. GoodPayments({p}) /\ payments \cap {p} = {}
  <2>1. p.ccy = Given[p.invoice].ccy /\ (p.invoice \in Papers => TotalOf(p.invoice) > 0)
    BY <1>2, <1>5, <1>9
  <2>2. p \notin payments
    BY <1>2, <1>5 DEF BookInv
  <2> QED
    BY <1>5, <2>1, <2>2, FS_Singleton DEF GoodPayments
<1>11. PICK P, A : P = payments \cup {p} /\ A = allocations \cup {}
  OBVIOUS
<1>12. GoodAllocations({}) /\ allocations \cap {} = {}
  BY NoRows
<1>13. /\ GoodPayments(P) /\ GoodAllocations(A)
       /\ \A i \in Papers : SettledIn(i, P, A) = SettledIn(i, payments, allocations)
                                + Cash(i, {p}) + Got(i, {}) - Gave(i, {})
  BY <1>10, <1>11, <1>12, MoreIsSettled
<1>14. ASSUME NEW i \in Papers PROVE InBounds(i, SettledIn(i, P, A))
  <2>1. /\ SettledIn(i, P, A) = SettledIn(i, payments, allocations) + Cash(i, {p}) + 0 - 0
        /\ Cash(i, {p}) = IF r.invoice = i THEN r.amount ELSE 0
    BY <1>2, <1>5, <1>13, NoRows, OnePayment
  <2>2. SettledIn(i, payments, allocations) \in Int
    BY SettledParts DEF BookInv
  <2>3. CASE r.invoice = i
    BY <1>7, <1>8, <1>9, <2>1, <2>2, <2>3 DEF InBounds
  <2>4. CASE r.invoice # i
    <3>1. SettledIn(i, P, A) = SettledIn(i, payments, allocations)
      BY <2>1, <2>2, <2>4
    <3> QED
      BY <3>1 DEF BookInv
  <2> QED
    BY <2>3, <2>4
<1>15. /\ paid' \in [Invoices -> Int]
       /\ \A i \in Papers : paid'[i] = SettledIn(i, P, A)
  <2>1. payments' = P /\ allocations' = A /\ TouchedBy(req[u]) = {r.invoice}
    BY <1>1, <1>3, <1>11 DEF TouchedBy
  <2>2. ASSUME NEW i \in Invoices \ TouchedBy(req[u]) PROVE SameRows(i)
    BY <1>2, <1>3, <2>1, <2>2 DEF SameRows, PaymentsOf
  <2>3. Recompute(TouchedBy(req[u]), P, A)
    BY <1>3, <1>11, <2>1
  <2> QED
    BY <1>3, <1>13, <2>1, <2>2, <2>3, PaidFollows
<1>16. Book!Settle
  BY <1>10, <1>11, <1>12, <1>14, <1>15, AddingSettles
<1>17. \A q \in P \cup A : q.tx < serial'
  BY <1>2, <1>3, <1>5, <1>11 DEF BookInv, IInv, Types, Payment, Allocation
<1>18. \A v \in Users : req'[v].op = "pay" => req'[v].invoice \in Payable
  BY <1>3 DEF End, BookInv, NoRequest, IInv, Types
<1>19. BookInv'
  BY <1>3, <1>11, <1>13, <1>14, <1>15, <1>17, <1>18, BookAfter
<1> QED
  BY <1>16, <1>19

\* The credits of a batch and the rows they become amount to the same
LEMMA CreditRowsAmount ==
  ASSUME IInv, NEW b \in Batches, NEW S, S \subseteq b.credits,
         NEW T, T = {[tx |-> serial, note |-> c.note, invoice |-> c.invoice,
                      amount |-> c.amount, ccy |-> doc[c.invoice].ccy] : c \in S}
  PROVE  IsFiniteSet(T) /\ RowSum(T) = RowSum(S)
<1>1. PICK f : f = [c \in S |->
                     [tx |-> serial, note |-> c.note, invoice |-> c.invoice,
                      amount |-> c.amount, ccy |-> doc[c.invoice].ccy]]
  OBVIOUS
<1>2. S \subseteq [note : Invoices, invoice : Invoices, amount : Int]
  BY BatchesAssumption
<1>3. IsFiniteSet(S)
  BY BatchesAssumption, FS_Subset
<1>4. \A c \in S : c.amount \in Int /\ f[c].amount = c.amount /\ f[c] \in T
  BY <1>1, <1>2
<1>5. ASSUME NEW c \in S, NEW d \in S, f[c] = f[d] PROVE c = d
  <2>1. c.note = d.note /\ c.invoice = d.invoice /\ c.amount = d.amount
    BY <1>1, <1>5
  <2> QED
    BY <1>2, <2>1
<1>6. f \in [S -> T] /\ \A t \in T : \E c \in S : f[c] = t
  BY <1>1, <1>4
<1>7. f \in Bijection(S, T)
  BY <1>5, <1>6 DEF Bijection, Injection, Surjection, IsInjective
<1> QED
  BY <1>3, <1>4, <1>7, RowSumImage

\* The rows of a batch that is accepted
LEMMA BatchRowsGood ==
  ASSUME IInv, BookInv, NEW b \in Batches, BatchAccepted(b)
  PROVE  /\ GoodPayments(CashRows(b)) /\ payments \cap CashRows(b) = {}
         /\ GoodAllocations(CreditRows(b)) /\ allocations \cap CreditRows(b) = {}
<1>1. /\ doc = Given /\ serial \in Nat /\ Lines(b) \subseteq Invoices
      /\ \A i \in Lines(b) : b.cash[i] \in Int
      /\ \A c \in b.credits : /\ c.note \in Invoices /\ c.invoice \in Invoices
                              /\ c.amount \in Int
  BY BatchesAssumption DEF BookInv, IInv, Types, Lines
<1>2. \A i \in Invoices : doc[i].ccy \in STRING
  BY DocumentsAssumption DEF IInv, Types
<1>3. \A i \in Lines(b) : LineAccepted(b, i)
  BY DEF BatchAccepted
<1>4. \A i \in Lines(b) : i \in Papers /\ TotalOf(i) > 0
  BY <1>1, <1>3 DEF LineAccepted, Open, Papers, TotalOf
<1>5. \A c \in b.credits : CreditAccepted(b, c)
  BY DEF BatchAccepted
<1>6. \A c \in b.credits :
        /\ c.invoice \in Lines(b) /\ c.note \in Papers /\ TotalOf(c.note) < 0
        /\ doc[c.note].ccy = doc[c.invoice].ccy /\ c.amount > 0
  BY <1>1, <1>5 DEF CreditAccepted, Open, Papers, TotalOf
<1>7. CashRows(b) \subseteq Payment
  BY <1>1, <1>2 DEF CashRows, CashLines, Payment
<1>8. CreditRows(b) \subseteq Allocation
  BY <1>1, <1>2, <1>6 DEF CreditRows, Allocation
<1>9. IsFiniteSet(CashRows(b))
  <2>1. PICK S, f : /\ S = CashLines(b)
                    /\ f = [i \in S |-> [tx |-> serial, invoice |-> i,
                                         amount |-> b.cash[i], ccy |-> doc[i].ccy]]
    OBVIOUS
  <2>2. IsFiniteSet(S)
    BY <1>1, <2>1, InvoicesAssumption, FS_Subset DEF CashLines
  <2>3. CashRows(b) = {f[i] : i \in S}
    BY <2>1 DEF CashRows
  <2>4. f \in Surjection(S, CashRows(b))
    BY <2>1, <2>3 DEF Surjection
  <2> QED
    BY <2>2, <2>4, FS_Surjection
<1>10. IsFiniteSet(CreditRows(b))
  BY CreditRowsAmount DEF CreditRows
<1>11. GoodPayments(CashRows(b))
  <2>1. \A p \in CashRows(b) : /\ p.ccy = Given[p.invoice].ccy
                               /\ TotalOf(p.invoice) > 0
    BY <1>1, <1>4 DEF CashRows, CashLines
  <2> QED
    BY <1>7, <1>9, <2>1 DEF GoodPayments
<1>12. GoodAllocations(CreditRows(b))
  <2>1. \A a \in CreditRows(b) :
          /\ a.note \in Papers /\ a.invoice \in Papers
          /\ TotalOf(a.note) < 0 /\ TotalOf(a.invoice) > 0
          /\ a.ccy = Given[a.note].ccy /\ a.ccy = Given[a.invoice].ccy
    BY <1>1, <1>4, <1>6 DEF CreditRows
  <2> QED
    BY <1>8, <1>10, <2>1 DEF GoodAllocations
<1>13. /\ \A p \in CashRows(b) : p.tx = serial
       /\ \A a \in CreditRows(b) : a.tx = serial
  BY DEF CashRows, CreditRows
<1>14. payments \cap CashRows(b) = {} /\ allocations \cap CreditRows(b) = {}
  <2>1. \A r \in payments \cup allocations : r.tx < serial
    BY DEF BookInv
  <2>2. \A r \in payments \cup allocations : r.tx # serial
    BY <1>1, <2>1
  <2> QED
    BY <1>13, <2>2
<1> QED
  BY <1>11, <1>12, <1>14

\* ... give each invoice its cash and its credits, and take each note's share
LEMMA BatchRowsAmount ==
  ASSUME IInv, BookInv, NEW b \in Batches, BatchAccepted(b), NEW i \in Invoices
  PROVE  /\ Cash(i, CashRows(b)) = IF i \in CashLines(b) THEN b.cash[i] ELSE 0
         /\ Got(i, CreditRows(b)) = Applied(b, i)
         /\ Gave(i, CreditRows(b)) = Used(b, i)
<1>1. Cash(i, CashRows(b)) = IF i \in CashLines(b) THEN b.cash[i] ELSE 0
  <2>1. PICK S : S = {p \in CashRows(b) : p.invoice = i}
    OBVIOUS
  <2>2. Cash(i, CashRows(b)) = RowSum(S)
    BY <2>1, Zenon DEF Cash
  <2>3. CASE i \notin CashLines(b)
    <3>1. S = {}
      BY <2>1, <2>3 DEF CashRows
    <3> QED
      BY <2>2, <2>3, <3>1, RowSumEmpty
  <2>4. CASE i \in CashLines(b)
    <3>1. PICK p : p = [tx |-> serial, invoice |-> i,
                        amount |-> b.cash[i], ccy |-> doc[i].ccy]
      OBVIOUS
    <3>2. S = {p}
      BY <2>1, <2>4, <3>1 DEF CashRows
    <3>3. p.amount = b.cash[i] /\ b.cash[i] \in Int
      BY <2>4, <3>1, BatchesAssumption DEF CashLines, Lines
    <3> QED
      BY <2>2, <2>4, <3>2, <3>3, OneRow
  <2> QED
    BY <2>3, <2>4
<1>2. Got(i, CreditRows(b)) = Applied(b, i)
  <2>1. PICK S, T : /\ S = {c \in b.credits : c.invoice = i}
                    /\ T = {a \in CreditRows(b) : a.invoice = i}
    OBVIOUS
  <2>2. S \subseteq b.credits /\
        T = {[tx |-> serial, note |-> c.note, invoice |-> c.invoice,
              amount |-> c.amount, ccy |-> doc[c.invoice].ccy] : c \in S}
    BY <2>1 DEF CreditRows
  <2>3. RowSum(T) = RowSum(S)
    BY <2>2, CreditRowsAmount
  <2>4. Got(i, CreditRows(b)) = RowSum(T)
    BY <2>1, Zenon DEF Got
  <2>5. Applied(b, i) = AmountOf(S)
    BY <2>1, Zenon DEF Applied
  <2>6. AmountOf(S) = RowSum(S)
    BY DEF AmountOf, RowSum
  <2> QED
    BY <2>3, <2>4, <2>5, <2>6
<1>3. Gave(i, CreditRows(b)) = Used(b, i)
  <2>1. PICK S, T : /\ S = {c \in b.credits : c.note = i}
                    /\ T = {a \in CreditRows(b) : a.note = i}
    OBVIOUS
  <2>2. S \subseteq b.credits /\
        T = {[tx |-> serial, note |-> c.note, invoice |-> c.invoice,
              amount |-> c.amount, ccy |-> doc[c.invoice].ccy] : c \in S}
    BY <2>1 DEF CreditRows
  <2>3. RowSum(T) = RowSum(S)
    BY <2>2, CreditRowsAmount
  <2>4. Gave(i, CreditRows(b)) = RowSum(T)
    BY <2>1, Zenon DEF Gave
  <2>5. Used(b, i) = AmountOf(S)
    BY <2>1, Zenon DEF Used
  <2>6. AmountOf(S) = RowSum(S)
    BY DEF AmountOf, RowSum
  <2> QED
    BY <2>3, <2>4, <2>5, <2>6
<1> QED
  BY <1>1, <1>2, <1>3

\* A batch keeps within its invoices and within what its notes have left
LEMMA BookBatch ==
  ASSUME IInv, BookInv, IInv', NEW u \in Users, CommitBatch(u)
  PROVE  BookInv' /\ Book!Settle
<1>1. PICK b \in Batches :
        /\ b = req[u].batch /\ BatchAccepted(b)
        /\ payments' = payments \cup CashRows(b)
        /\ allocations' = allocations \cup CreditRows(b)
        /\ Recompute(Touched(b), payments \cup CashRows(b), allocations \cup CreditRows(b))
  BY BatchWrites
<1>2. /\ req[u].op = "batch" /\ serial' = serial + 1 /\ End(u) /\ UNCHANGED doc
  BY BatchWrites
<1>3. TouchedBy(req[u]) = Touched(b)
  BY <1>1, <1>2 DEF TouchedBy
<1>4. PICK N, M, P, A : /\ N = CashRows(b) /\ M = CreditRows(b)
                        /\ P = payments \cup N /\ A = allocations \cup M
  OBVIOUS
<1>5. /\ GoodPayments(N) /\ payments \cap N = {}
      /\ GoodAllocations(M) /\ allocations \cap M = {}
  BY <1>1, <1>4, BatchRowsGood
<1>6. /\ GoodPayments(P) /\ GoodAllocations(A)
      /\ \A i \in Papers : SettledIn(i, P, A) = SettledIn(i, payments, allocations)
                               + Cash(i, N) + Got(i, M) - Gave(i, M)
  BY <1>4, <1>5, MoreIsSettled
<1>7. ASSUME NEW i \in Papers PROVE InBounds(i, SettledIn(i, P, A))
  <2>1. PICK s, c, g, v, t :
          /\ s = SettledIn(i, payments, allocations) /\ t = TotalOf(i)
          /\ c = Cash(i, N) /\ g = Got(i, M) /\ v = Gave(i, M)
    OBVIOUS
  <2>2. i \in Invoices /\ doc = Given /\ doc[i].total = t
    BY <2>1 DEF Papers, BookInv, TotalOf
  <2>3. SettledIn(i, P, A) = s + c + g - v
    BY <1>6, <2>1
  <2>4. InBounds(i, s) /\ s \in Int /\ t \in Int /\ c \in Nat /\ g \in Nat /\ v \in Nat
    <3>1. InBounds(i, s)
      BY <2>1 DEF BookInv
    <3>2. s \in Int
      BY <2>1, SettledParts DEF BookInv
    <3>3. c \in Nat /\ g \in Nat /\ v \in Nat
      BY <1>5, <2>1, <2>2, SettledParts
    <3>4. t \in Int
      BY <2>1, <2>2, GivenAssumption, DocumentsAssumption DEF TotalOf
    <3> QED
      BY <3>1, <3>2, <3>3, <3>4
  <2>5. /\ c = IF i \in CashLines(b) THEN b.cash[i] ELSE 0
        /\ g = Applied(b, i) /\ v = Used(b, i)
    BY <1>1, <1>4, <2>1, <2>2, BatchRowsAmount
  <2>6. t >= 0 => v = 0
    BY <1>5, <2>1, <2>2, SettledParts
  <2>7. t <= 0 => c = 0 /\ g = 0
    BY <1>5, <2>1, <2>2, SettledParts
  <2>8. Settled(i) = s
    BY <2>1 DEF Settled
  <2>9. CASE t > 0 /\ i \in Lines(b)
    <3>1. LineAccepted(b, i)
      BY <1>1, <2>9 DEF BatchAccepted
    <3>2. b.cash[i] \in Int /\ b.cash[i] >= 0 /\ s + b.cash[i] + g <= t
      BY <2>2, <2>5, <2>8, <2>9, <3>1, BatchesAssumption DEF LineAccepted, Lines
    <3>3. c = b.cash[i]
      <4>1. b.cash[i] > 0 => i \in CashLines(b)
        BY <2>9 DEF CashLines
      <4>2. i \in CashLines(b) => c = b.cash[i]
        BY <2>5
      <4>3. i \notin CashLines(b) => c = 0
        BY <2>5
      <4> QED
        BY <3>2, <4>1, <4>2, <4>3
    <3> QED
      BY <2>1, <2>3, <2>4, <2>6, <2>9, <3>2, <3>3 DEF InBounds
  <2>10. CASE t > 0 /\ i \notin Lines(b)
    <3>1. c = 0
      BY <2>5, <2>10 DEF CashLines
    <3>2. g = 0
      <4>1. PICK S : S = {x \in b.credits : x.invoice = i}
        OBVIOUS
      <4>2. \A x \in b.credits : x.invoice \in Lines(b)
        BY <1>1 DEF BatchAccepted, CreditAccepted
      <4>3. S = {}
        BY <2>10, <4>1, <4>2
      <4>4. g = AmountOf(S)
        BY <2>5, <4>1, Zenon DEF Applied
      <4> QED
        BY <4>3, <4>4, NothingIsNil
    <3> QED
      BY <2>1, <2>3, <2>4, <2>6, <2>10, <3>1, <3>2 DEF InBounds
  <2>11. CASE t < 0 /\ i \in NotesOf(b)
    <3>1. NoteLasts(b, i)
      BY <1>1, <2>11 DEF BatchAccepted
    <3>2. v <= Abs(t) - Abs(s)
      BY <2>2, <2>5, <2>8, <3>1 DEF NoteLasts
    <3> QED
      BY <2>1, <2>3, <2>4, <2>7, <2>11, <3>2 DEF InBounds, Abs
  <2>12. CASE t < 0 /\ i \notin NotesOf(b)
    <3>1. v = 0
      <4>1. PICK S : S = {x \in b.credits : x.note = i}
        OBVIOUS
      <4>2. S = {}
        BY <2>12, <4>1 DEF NotesOf
      <4>3. v = AmountOf(S)
        BY <2>5, <4>1, Zenon DEF Used
      <4> QED
        BY <4>2, <4>3, NothingIsNil
    <3> QED
      BY <2>1, <2>3, <2>4, <2>7, <2>12, <3>1 DEF InBounds
  <2>13. CASE t = 0
    BY <2>1, <2>13 DEF InBounds
  <2> QED
    BY <2>4, <2>9, <2>10, <2>11, <2>12, <2>13
<1>8. /\ paid' \in [Invoices -> Int]
      /\ \A i \in Papers : paid'[i] = SettledIn(i, P, A)
  <2>1. payments' = P /\ allocations' = A /\ Recompute(TouchedBy(req[u]), P, A)
    BY <1>1, <1>3, <1>4
  <2>2. ASSUME NEW i \in Invoices \ TouchedBy(req[u]) PROVE SameRows(i)
    <3>1. \A p \in CashRows(b) : p.invoice # i
      BY <1>3 DEF CashRows, CashLines, Touched
    <3>2. \A a \in CreditRows(b) : a.invoice # i /\ a.note # i
      BY <1>3 DEF CreditRows, Touched, NotesOf
    <3> QED
      BY <1>1, <3>1, <3>2 DEF SameRows, PaymentsOf
  <2> QED
    BY <1>2, <1>6, <2>1, <2>2, PaidFollows
<1>9. Book!Settle
  BY <1>4, <1>5, <1>7, <1>8, AddingSettles
<1>10. \A r \in P \cup A : r.tx < serial'
  <2>1. serial \in Nat /\ \A r \in payments \cup allocations : r.tx \in Nat /\ r.tx < serial
    BY DEF IInv, Types, BookInv, Payment, Allocation
  <2>2. \A r \in N \cup M : r.tx = serial
    BY <1>4 DEF CashRows, CreditRows
  <2> QED
    BY <1>2, <1>4, <2>1, <2>2
<1>11. \A v \in Users : req'[v].op = "pay" => req'[v].invoice \in Payable
  BY <1>2 DEF End, BookInv, NoRequest, IInv, Types
<1>12. BookInv'
  BY <1>1, <1>2, <1>4, <1>6, <1>7, <1>8, <1>10, <1>11, BookAfter
<1> QED
  BY <1>9, <1>12

\* Nothing settled, nothing moved
LEMMA BookStill ==
  ASSUME BookInv, NEW u \in Users, doc' = doc, End(u), serial' = serial,
         payments' = payments, allocations' = allocations, paid' \in [Invoices -> Int],
         \A i \in Papers : paid'[i] = SettledIn(i, payments, allocations)
  PROVE  BookInv' /\ [Book!BookNext]_[i \in Invoices \ Legacy |-> paid[i]]
<1>1. \A v \in Users : req'[v].op = "pay" => req'[v].invoice \in Payable
  BY DEF End, BookInv, NoRequest
<1>2. BookInv'
  BY <1>1, BookAfter DEF BookInv
<1>3. \A i \in Papers : paid'[i] = paid[i]
  BY DEF BookInv
<1>4. [i \in Invoices \ Legacy |-> paid'[i]] = [i \in Invoices \ Legacy |-> paid[i]]
  BY <1>3 DEF Papers
<1> QED
  BY <1>2, <1>4

\* A payment that is removed takes back what it paid
LEMMA BookUnpay ==
  ASSUME IInv, BookInv, IInv', NEW u \in Users, CommitRemovePayment(u)
  PROVE  BookInv' /\ [Book!BookNext]_[i \in Invoices \ Legacy |-> paid[i]]
<1>1. PICK p, P, A : p = req[u].row /\ P = payments \ {p} /\ A = allocations
  OBVIOUS
<1>2. /\ req[u].op = "unpay" /\ payments' = P /\ allocations' = A
      /\ Recompute({p.invoice}, P, A)
      /\ End(u) /\ doc' = doc /\ serial' = serial
  BY <1>1 DEF CommitRemovePayment, Writes
<1>3. TouchedBy(req[u]) = {p.invoice}
  BY <1>1, <1>2 DEF TouchedBy
<1>4. /\ GoodPayments(payments) /\ GoodAllocations(A) /\ doc = Given /\ GoodPayments(P)
  BY <1>1, FS_Subset DEF BookInv, GoodPayments
<1>5. /\ paid' \in [Invoices -> Int]
      /\ \A i \in Papers : paid'[i] = SettledIn(i, P, A)
  <2>1. ASSUME NEW i \in Invoices \ TouchedBy(req[u]) PROVE SameRows(i)
    BY <1>1, <1>2, <1>3 DEF SameRows, PaymentsOf
  <2>2. Recompute(TouchedBy(req[u]), P, A)
    BY <1>2, <1>3
  <2> QED
    BY <1>2, <1>4, <2>1, <2>2, PaidFollows
<1>6. CASE p \notin payments
  <2>1. P = payments
    BY <1>1, <1>6
  <2> QED
    BY <1>1, <1>2, <1>5, <2>1, BookStill
<1>7. CASE p \in payments
  <2>1. /\ p \in Payment /\ GoodPayments({p}) /\ P \cap {p} = {} /\ payments = P \cup {p}
    <3>1. p \in Payment /\ P \cap {p} = {} /\ payments = P \cup {p}
      BY <1>1, <1>7 DEF BookInv, GoodPayments
    <3>2. GoodPayments({p})
      BY <1>4, <1>7, FS_Singleton DEF GoodPayments
    <3> QED
      BY <3>1, <3>2
  <2>2. ASSUME NEW i \in Papers
        PROVE  /\ SettledIn(i, payments, allocations)
                    = SettledIn(i, P, A) + (IF p.invoice = i THEN p.amount ELSE 0)
               /\ SettledIn(i, P, A) \in Int
               /\ TotalOf(i) > 0 => 0 <= SettledIn(i, P, A)
    <3>1. /\ SettledIn(i, payments, allocations)
               = Cash(i, payments) + Got(i, A) - Gave(i, A)
          /\ Cash(i, payments) \in Nat /\ Got(i, A) \in Nat /\ Gave(i, A) \in Nat
      BY <1>1, <1>4, SettledParts
    <3>2. /\ SettledIn(i, P, A) = Cash(i, P) + Got(i, A) - Gave(i, A)
          /\ Cash(i, P) \in Nat
          /\ TotalOf(i) >= 0 => Gave(i, A) = 0
      BY <1>4, SettledParts
    <3>3. Cash(i, payments) = Cash(i, P) + Cash(i, {p})
      BY <1>4, <2>1, CashGrows
    <3>4. Cash(i, {p}) = IF p.invoice = i THEN p.amount ELSE 0
      BY <2>1, OnePayment
    <3>5. p.amount \in Nat
      BY <2>1 DEF Payment
    <3>6. TotalOf(i) \in Int
      BY GivenAssumption, DocumentsAssumption DEF TotalOf, Papers
    <3>7. PICK c, d, g, v, x : /\ c = Cash(i, payments) /\ d = Cash(i, P) /\ g = Got(i, A)
                               /\ v = Gave(i, A) /\ x = Cash(i, {p})
      OBVIOUS
    <3>8. /\ SettledIn(i, payments, allocations) = c + g - v
          /\ SettledIn(i, P, A) = d + g - v /\ c = d + x
          /\ d \in Nat /\ g \in Nat /\ v \in Nat /\ x \in Nat
      BY <3>1, <3>2, <3>3, <3>4, <3>5, <3>7
    <3>9. /\ SettledIn(i, payments, allocations) = SettledIn(i, P, A) + x
          /\ SettledIn(i, P, A) \in Int
      BY <3>8
    <3>10. TotalOf(i) > 0 => 0 <= SettledIn(i, P, A)
      BY <3>2, <3>6, <3>7, <3>8
    <3> QED
      BY <3>4, <3>7, <3>9, <3>10
  <2>3. ASSUME NEW i \in Papers PROVE InBounds(i, SettledIn(i, P, A))
    <3>1. InBounds(i, SettledIn(i, payments, allocations))
      BY DEF BookInv
    <3>2. CASE p.invoice # i
      BY <2>2, <3>1, <3>2
    <3>3. CASE p.invoice = i
      <4>1. TotalOf(i) > 0 /\ TotalOf(i) \in Int /\ p.amount \in Nat
        BY <1>4, <1>7, <2>1, <3>3, GivenAssumption, DocumentsAssumption
           DEF GoodPayments, TotalOf, Papers, Payment
      <4> QED
        BY <2>2, <3>1, <3>3, <4>1 DEF InBounds
    <3> QED
      BY <3>2, <3>3
  <2>4. BookInv'
    <3>1. \A r \in P \cup A : r.tx < serial'
      BY <1>1, <1>2 DEF BookInv
    <3>2. \A v \in Users : req'[v].op = "pay" => req'[v].invoice \in Payable
      BY <1>2 DEF End, BookInv, NoRequest
    <3> QED
      BY <1>2, <1>4, <1>5, <2>3, <3>1, <3>2, BookAfter
  <2>5. \A i \in Papers : /\ paid[i] = SettledIn(i, payments, allocations)
                          /\ paid'[i] = SettledIn(i, P, A)
    BY <1>5 DEF BookInv
  <2>6. CASE p.invoice \notin Papers
    <3>1. \A i \in Papers : paid'[i] = paid[i]
      BY <2>2, <2>5, <2>6
    <3>2. [i \in Invoices \ Legacy |-> paid'[i]] = [i \in Invoices \ Legacy |-> paid[i]]
      BY <3>1 DEF Papers
    <3> QED
      BY <2>4, <3>2
  <2>7. CASE p.invoice \in Papers
    <3>1. PICK i : i = p.invoice
      OBVIOUS
    <3>2. i \in Papers /\ TotalOf(i) > 0 /\ p.amount \in Nat \ {0}
      BY <1>4, <1>7, <2>1, <2>7, <3>1 DEF GoodPayments, Payment
    <3>3. 0 <= paid'[i] /\ paid'[i] < paid[i]
      BY <2>2, <2>5, <3>1, <3>2
    <3>4. \A j \in Papers \ {i} : paid'[j] = paid[j]
      BY <2>2, <2>5, <3>1
    <3>5. i \in Book!Bills
      BY <3>2 DEF Book!Bills, Papers, TotalOf
    <3>6. Book!TakeBack
      BY <3>2, <3>3, <3>4, <3>5 DEF Book!TakeBack, Papers
    <3> QED
      BY <2>4, <3>6 DEF Book!BookNext
  <2> QED
    BY <2>6, <2>7
<1> QED
  BY <1>6, <1>7

\* An application that is removed gives back to its note what it took from its bill
LEMMA BookUnapply ==
  ASSUME IInv, BookInv, IInv', NEW u \in Users, CommitRemoveAllocation(u)
  PROVE  BookInv' /\ [Book!BookNext]_[i \in Invoices \ Legacy |-> paid[i]]
<1>1. PICK a, P, A : a = req[u].row /\ P = payments /\ A = allocations \ {a}
  OBVIOUS
<1>2. /\ req[u].op = "unapply" /\ payments' = P /\ allocations' = A
      /\ Recompute({a.note, a.invoice}, P, A)
      /\ End(u) /\ doc' = doc /\ serial' = serial
  BY <1>1 DEF CommitRemoveAllocation, Writes
<1>3. TouchedBy(req[u]) = {a.note, a.invoice}
  BY <1>1, <1>2 DEF TouchedBy
<1>4. /\ GoodPayments(P) /\ GoodAllocations(allocations) /\ doc = Given
      /\ GoodAllocations(A)
  BY <1>1, FS_Subset DEF BookInv, GoodAllocations
<1>5. /\ paid' \in [Invoices -> Int]
      /\ \A i \in Papers : paid'[i] = SettledIn(i, P, A)
  <2>1. ASSUME NEW i \in Invoices \ TouchedBy(req[u]) PROVE SameRows(i)
    BY <1>1, <1>2, <1>3 DEF SameRows, PaymentsOf
  <2>2. Recompute(TouchedBy(req[u]), P, A)
    BY <1>2, <1>3
  <2> QED
    BY <1>2, <1>4, <2>1, <2>2, PaidFollows
<1>6. CASE a \notin allocations
  <2>1. A = allocations
    BY <1>1, <1>6
  <2> QED
    BY <1>1, <1>2, <1>5, <2>1, BookStill
<1>7. CASE a \in allocations
  <2>1. PICK n, i, m : n = a.note /\ i = a.invoice /\ m = a.amount
    OBVIOUS
  <2>2. /\ a \in Allocation /\ A \cap {a} = {} /\ allocations = A \cup {a}
        /\ m \in Nat \ {0} /\ n \in Papers /\ i \in Papers
        /\ TotalOf(n) < 0 /\ TotalOf(i) > 0
    BY <1>1, <1>4, <1>7, <2>1 DEF GoodAllocations, Allocation
  <2>3. GoodAllocations({a})
    BY <1>4, <1>7, FS_Singleton DEF GoodAllocations
  <2>4. TotalOf(n) \in Int /\ TotalOf(i) \in Int
    BY <2>2, GivenAssumption, DocumentsAssumption DEF TotalOf, Papers
  <2>5. n # i
    BY <2>2, <2>4
  <2>6. ASSUME NEW j \in Papers
        PROVE  /\ SettledIn(j, payments, allocations) =
                    SettledIn(j, P, A) + (IF i = j THEN m ELSE 0) - (IF n = j THEN m ELSE 0)
               /\ SettledIn(j, P, A) \in Int
               /\ TotalOf(j) > 0 => 0 <= SettledIn(j, P, A)
               /\ TotalOf(j) < 0 => SettledIn(j, P, A) <= 0
    <3>1. /\ SettledIn(j, payments, allocations)
               = Cash(j, P) + Got(j, allocations) - Gave(j, allocations)
      BY <1>1, <1>4, SettledParts
    <3>2. /\ SettledIn(j, P, A) = Cash(j, P) + Got(j, A) - Gave(j, A)
          /\ Cash(j, P) \in Nat /\ Got(j, A) \in Nat /\ Gave(j, A) \in Nat
          /\ TotalOf(j) >= 0 => Gave(j, A) = 0
          /\ TotalOf(j) <= 0 => Cash(j, P) = 0 /\ Got(j, A) = 0
      BY <1>4, SettledParts
    <3>3. /\ Got(j, allocations) = Got(j, A) + Got(j, {a})
          /\ Gave(j, allocations) = Gave(j, A) + Gave(j, {a})
      BY <1>4, <2>2, <2>3, CreditGrows
    <3>4. /\ Got(j, {a}) = IF i = j THEN m ELSE 0
          /\ Gave(j, {a}) = IF n = j THEN m ELSE 0
      BY <2>1, <2>2, OneAllocation
    <3>5. TotalOf(j) \in Int
      BY GivenAssumption, DocumentsAssumption DEF TotalOf, Papers
    <3>6. PICK c, g, v, x, y : /\ c = Cash(j, P) /\ g = Got(j, A) /\ v = Gave(j, A)
                               /\ x = Got(j, {a}) /\ y = Gave(j, {a})
      OBVIOUS
    <3>7. /\ SettledIn(j, payments, allocations) = c + (g + x) - (v + y)
          /\ SettledIn(j, P, A) = c + g - v
          /\ c \in Nat /\ g \in Nat /\ v \in Nat
          /\ x = (IF i = j THEN m ELSE 0) /\ y = (IF n = j THEN m ELSE 0)
      BY <3>1, <3>2, <3>3, <3>4, <3>6
    <3>8. x \in Nat /\ y \in Nat
      BY <2>2, <3>7
    <3>9. /\ SettledIn(j, payments, allocations) = SettledIn(j, P, A) + x - y
          /\ SettledIn(j, P, A) \in Int
      BY <3>7, <3>8
    <3>10. TotalOf(j) > 0 => 0 <= SettledIn(j, P, A)
      BY <3>2, <3>5, <3>6, <3>7
    <3>11. TotalOf(j) < 0 => SettledIn(j, P, A) <= 0
      BY <3>2, <3>5, <3>6, <3>7
    <3> QED
      BY <3>7, <3>9, <3>10, <3>11
  <2>7. ASSUME NEW j \in Papers PROVE InBounds(j, SettledIn(j, P, A))
    <3>1. InBounds(j, SettledIn(j, payments, allocations))
      BY DEF BookInv
    <3>2. PICK s, t : s = SettledIn(j, P, A) /\ t = SettledIn(j, payments, allocations)
      OBVIOUS
    <3>3. /\ t = s + (IF i = j THEN m ELSE 0) - (IF n = j THEN m ELSE 0)
          /\ s \in Int /\ InBounds(j, t)
      BY <2>6, <3>1, <3>2
    <3>4. CASE j = i
      BY <2>2, <2>4, <2>5, <3>2, <3>3, <3>4 DEF InBounds
    <3>5. CASE j = n
      BY <2>2, <2>4, <2>5, <3>2, <3>3, <3>5 DEF InBounds
    <3>6. CASE j # i /\ j # n
      BY <3>2, <3>3, <3>6
    <3> QED
      BY <3>4, <3>5, <3>6
  <2>8. BookInv'
    <3>1. \A r \in P \cup A : r.tx < serial'
      BY <1>1, <1>2 DEF BookInv
    <3>2. \A v \in Users : req'[v].op = "pay" => req'[v].invoice \in Payable
      BY <1>2 DEF End, BookInv, NoRequest
    <3> QED
      BY <1>2, <1>4, <1>5, <2>7, <3>1, <3>2, BookAfter
  <2>9. \A j \in Papers : /\ paid[j] = SettledIn(j, payments, allocations)
                          /\ paid'[j] = SettledIn(j, P, A)
    BY <1>5 DEF BookInv
  <2>10. \A j \in Papers \ {n, i} : paid'[j] = paid[j]
    BY <2>6, <2>9
  <2>11. paid[i] = paid'[i] + m /\ paid'[i] \in Int /\ 0 <= paid'[i]
    <3>1. /\ paid[i] = paid'[i] + m - 0 /\ paid'[i] \in Int
          /\ TotalOf(i) > 0 => 0 <= paid'[i]
      BY <2>2, <2>5, <2>6, <2>9
    <3> QED
      BY <2>2, <3>1
  <2>12. paid[n] = paid'[n] - m /\ paid'[n] \in Int /\ paid'[n] <= 0
    <3>1. /\ paid[n] = paid'[n] + 0 - m /\ paid'[n] \in Int
          /\ TotalOf(n) < 0 => paid'[n] <= 0
      BY <2>2, <2>5, <2>6, <2>9
    <3> QED
      BY <2>2, <3>1
  <2>13. /\ paid'[i] < paid[i]
         /\ paid'[n] - paid[n] = paid[i] - paid'[i]
    BY <2>2, <2>11, <2>12
  <2>14. n \in Book!Notes /\ i \in Book!Bills
    BY <2>2 DEF Book!Notes, Book!Bills, Papers, TotalOf
  <2>15. Book!GiveBack
    BY <2>2, <2>10, <2>11, <2>12, <2>13, <2>14 DEF Book!GiveBack, Papers
  <2> QED
    BY <2>8, <2>15 DEF Book!BookNext
<1> QED
  BY <1>6, <1>7

----------------------------------------------------------------------------
(* The payments implement the book *)

\* Every step is a step of the book or leaves it as it is
LEMMA BookStep ==
  ASSUME Editable = {}, \A i \in Payable \ Legacy : TotalOf(i) >= 0,
         IInv, BookInv, IInv', [Next]_vars
  PROVE  BookInv' /\ [Book!BookNext]_[i \in Invoices \ Legacy |-> paid[i]]
<1>1. CASE UNCHANGED vars
  <2>1. UNCHANGED <<doc, paid, payments, allocations, serial>> /\ req' = req
    BY <1>1 DEF vars, paperVars, rowVars, requestVars
  <2>2. \A u \in Users : req'[u].op = "pay" => req'[u].invoice \in Payable
    BY <2>1 DEF BookInv
  <2> QED
    BY <2>1, <2>2, QuietBook
<1>2. CASE Next
  <2>1. PICK u \in Users : Begin(u) \/ Continue(u)
    BY <1>2 DEF Next
  <2>2. CASE CommitPayment(u)
    BY <2>2, BookPayment DEF Book!BookNext
  <2>3. CASE CommitBatch(u)
    BY <2>3, BookBatch DEF Book!BookNext
  <2>4. CASE CommitRemovePayment(u)
    BY <2>4, BookUnpay
  <2>5. CASE CommitRemoveAllocation(u)
    BY <2>5, BookUnapply
  <2>6. CASE EnterInvoice(u)
    <3>1. PICK i \in Invoices : doc' = [doc EXCEPT ![i] = Given[i]]
      BY <2>6 DEF EnterInvoice
    <3>2. doc' = doc
      BY <3>1, GivenAssumption DEF BookInv
    <3>3. UNCHANGED <<paid, payments, allocations, serial>> /\ req' = req
      BY <2>6 DEF EnterInvoice, rowVars, requestVars
    <3>4. \A v \in Users : req'[v].op = "pay" => req'[v].invoice \in Payable
      BY <3>3 DEF BookInv
    <3> QED
      BY <3>2, <3>3, <3>4, QuietBook
  <2>7. CASE BeginPayment(u)
    <3>1. PICK i \in Payable, amount \in Amounts :
            /\ Start(u, [op |-> "pay", invoice |-> i, amount |-> amount], {i})
            /\ UNCHANGED <<paperVars, attached, rowVars>>
      BY <2>7 DEF BeginPayment
    <3>2. \A v \in Users : req'[v].op = "pay" => req'[v].invoice \in Payable
      BY <3>1 DEF Start, BookInv, IInv, Types
    <3> QED
      BY <3>1, <3>2, QuietBook DEF paperVars, rowVars
  <2>8. CASE BeginBatch(u) \/ BeginRemovePayment(u) \/ BeginRemoveAllocation(u)
    <3>1. UNCHANGED <<doc, paid, payments, allocations, serial>>
      BY <2>8 DEF BeginBatch, BeginRemovePayment, BeginRemoveAllocation, paperVars, rowVars
    <3>2. \E r, S : r.op # "pay" /\ Start(u, r, S)
      <4>1. CASE BeginBatch(u)
        <5>1. PICK b \in Batches : Start(u, [op |-> "batch", batch |-> b], Touched(b))
          BY <4>1 DEF BeginBatch
        <5> QED
          BY <5>1
      <4>2. CASE BeginRemovePayment(u)
        <5>1. PICK p \in payments : Start(u, [op |-> "unpay", row |-> p], {p.invoice})
          BY <4>2 DEF BeginRemovePayment
        <5> QED
          BY <5>1
      <4>3. CASE BeginRemoveAllocation(u)
        <5>1. PICK a \in allocations :
                Start(u, [op |-> "unapply", row |-> a], {a.note, a.invoice})
          BY <4>3 DEF BeginRemoveAllocation
        <5> QED
          BY <5>1
      <4> QED
        BY <2>8, <4>1, <4>2, <4>3
    <3>3. PICK r, S : r.op # "pay" /\ Start(u, r, S)
      BY <3>2
    <3>4. \A v \in Users : req'[v].op = "pay" => req'[v].invoice \in Payable
      BY <3>3 DEF Start, BookInv, IInv, Types
    <3> QED
      BY <3>1, <3>4, QuietBook
  <2>9. CASE BeginRemoveInvoice(u)
    <3>1. PICK i \in Removable :
            /\ req' = [req EXCEPT ![u] = [op |-> "delete", invoice |-> i]]
            /\ UNCHANGED <<paperVars, attached, rowVars, wanted, held>>
      BY <2>9 DEF BeginRemoveInvoice
    <3>2. \A v \in Users : req'[v].op = "pay" => req'[v].invoice \in Payable
      BY <3>1 DEF BookInv, IInv, Types
    <3> QED
      BY <3>1, <3>2, QuietBook DEF paperVars, rowVars
  <2>10. CASE AttachFile(u) \/ Lock(u) \/ Check(u) \/ DeleteAttachments(u)
    <3>1. UNCHANGED <<doc, paid, payments, allocations, serial>> /\ req' = req
      BY <2>10 DEF AttachFile, Lock, Check, DeleteAttachments, paperVars, rowVars, requestVars
    <3>2. \A v \in Users : req'[v].op = "pay" => req'[v].invoice \in Payable
      BY <3>1 DEF BookInv
    <3> QED
      BY <3>1, <3>2, QuietBook
  <2>11. CASE Refuse(u) \/ DeleteInvoice(u) \/ ConnectionLost(u)
    <3>1. UNCHANGED <<doc, paid, payments, allocations, serial>> /\ End(u)
      BY <2>11 DEF Refuse, DeleteInvoice, ConnectionLost, paperVars, rowVars
    <3>2. \A v \in Users : req'[v].op = "pay" => req'[v].invoice \in Payable
      BY <3>1 DEF End, BookInv, NoRequest
    <3> QED
      BY <3>1, <3>2, QuietBook
  <2>12. CASE EditInvoice(u)
    BY <2>12 DEF EditInvoice
  <2> QED
    BY <2>1, <2>2, <2>3, <2>4, <2>5, <2>6, <2>7, <2>8, <2>9, <2>10, <2>11, <2>12
       DEF Begin, Continue
<1> QED
  BY <1>1, <1>2

\* Nothing is settled before the first invoice is entered
LEMMA BookStart == Init => BookInv /\ Book!BookInit
<1> SUFFICES ASSUME Init PROVE BookInv /\ Book!BookInit
  OBVIOUS
<1>1. \A i \in Papers : /\ paid[i] = 0 /\ SettledIn(i, {}, {}) = 0
                        /\ InBounds(i, 0)
  <2>1. TAKE i \in Papers
  <2>2. paid[i] = 0
    BY DEF Init, Papers
  <2>3. SettledIn(i, {}, {}) = 0
    <3>1. /\ SettledIn(i, {}, {}) = Cash(i, {}) + Got(i, {}) - Gave(i, {})
      BY NoRows, SettledParts DEF Init
    <3> QED
      BY <3>1, NoRows
  <2>4. TotalOf(i) \in Int
    BY GivenAssumption, DocumentsAssumption DEF TotalOf, Papers
  <2> QED
    BY <2>2, <2>3, <2>4 DEF InBounds
<1>2. paid \in [Invoices -> Int]
  <2>1. \A i \in Invoices : Given[i].total \in Int
    BY GivenAssumption, DocumentsAssumption
  <2> QED
    BY <2>1 DEF Init
<1>3. GoodPayments(payments) /\ GoodAllocations(allocations)
  BY NoRows DEF Init
<1>4. BookInv
  BY <1>1, <1>2, <1>3 DEF Init, BookInv, NoRequest
<1>5. Book!BookInit
  BY <1>1 DEF Book!BookInit, Papers
<1> QED
  BY <1>4, <1>5

\* What the paid amounts of the invoices show, of any number of invoices, notes,
\* batches and requests, is the book of whole settlements: no invoice beyond its
\* total, no note beyond what it is for, every batch in one step, and every
\* removal that of one payment or of one application (payments.service.ts:59-180).
\* It is proved where no invoice is edited (an edit does not derive the cache
\* again, invoices.service.ts:87-98) and where single payments are sent for
\* invoices only (a note's payment is accepted: the run payments_note)
THEOREM PaymentsImplementBook ==
  ASSUME Editable = {}, \A i \in Payable \ Legacy : Given[i].total >= 0
  PROVE  Spec => ImplementsBook
<1>1. \A i \in Payable \ Legacy : TotalOf(i) >= 0
  BY DEF TotalOf
<1>2. Init => BookInv /\ Book!BookInit
  BY BookStart
<1>3. IInv /\ BookInv /\ IInv' /\ [Next]_vars
        => BookInv' /\ [Book!BookNext]_[i \in Invoices \ Legacy |-> paid[i]]
  BY <1>1, BookStep
<1> QED
  BY <1>2, <1>3, Invariant, PTL DEF Spec, ImplementsBook, Book!BookSpec

----------------------------------------------------------------------------
(* The reports: the rows they add up *)

\* Rows are finitely many, an application joins two papers, neither of them closed,
\* and a paid amount is a whole number of cents
RowsAddUp ==
  /\ IsFiniteSet(payments) /\ IsFiniteSet(allocations)
  /\ \A a \in allocations : a.note # a.invoice /\ a.note \notin Legacy /\ a.invoice \notin Legacy
  /\ paid \in [Invoices -> Int]

\* What rows give an invoice is a whole number
LEMMA SettledWhole ==
  ASSUME NEW P, P \subseteq Payment, IsFiniteSet(P),
         NEW A, A \subseteq Allocation, IsFiniteSet(A), NEW i
  PROVE  SettledIn(i, P, A) \in Int
<1>1. PICK C, G, V : /\ C = {r \in {p \in P : p.invoice = i} : r.ccy = doc[i].ccy}
                     /\ G = {r \in {a \in A : a.invoice = i} : r.ccy = doc[i].ccy}
                     /\ V = {r \in {a \in A : a.note = i} : r.ccy = doc[i].ccy}
  OBVIOUS
<1>2. SettledIn(i, P, A) = RowSum(C) + RowSum(G) - RowSum(V)
  BY <1>1, Zenon DEF SettledIn, PaymentsOf, AmountOf, RowSum
<1>3. C \subseteq P /\ G \subseteq A /\ V \subseteq A
  BY <1>1
<1>4. IsFiniteSet(C) /\ IsFiniteSet(G) /\ IsFiniteSet(V)
  BY <1>3, FS_Subset
<1>5. RowSum(C) \in Nat /\ RowSum(G) \in Nat /\ RowSum(V) \in Nat
  BY <1>3, <1>4, RowsCount
<1> QED
  BY <1>2, <1>5

\* Deriving from finitely many rows leaves whole numbers
LEMMA DerivedWhole ==
  ASSUME RowsAddUp, NEW S, NEW P, P \subseteq Payment, IsFiniteSet(P),
         NEW A, A \subseteq Allocation, IsFiniteSet(A), Recompute(S, P, A)
  PROVE  paid' \in [Invoices -> Int]
<1>1. \A i \in Invoices : SettledIn(i, P, A) \in Int
  BY SettledWhole
<1>2. \A i \in Invoices : paid[i] \in Int
  BY DEF RowsAddUp
<1> QED
  BY <1>1, <1>2 DEF Recompute

\* A batch writes finitely many rows, and joins papers that are open
LEMMA BatchAdds ==
  ASSUME IInv, RowsAddUp, NEW u \in Users, CommitBatch(u)
  PROVE  RowsAddUp'
<1>1. PICK b \in Batches :
        /\ b = req[u].batch /\ BatchAccepted(b)
        /\ payments' = payments \cup CashRows(b)
        /\ allocations' = allocations \cup CreditRows(b)
        /\ Recompute(Touched(b), payments', allocations')
  BY BatchWrites
<1>2. /\ Lines(b) \subseteq Invoices
      /\ \A c \in b.credits : c.note \in Invoices /\ c.invoice \in Invoices
  BY BatchesAssumption DEF Lines
<1>3. IsFiniteSet(CashRows(b))
  <2>1. PICK S, f : /\ S = CashLines(b)
                    /\ f = [i \in S |-> [tx |-> serial, invoice |-> i,
                                         amount |-> b.cash[i], ccy |-> doc[i].ccy]]
    OBVIOUS
  <2>2. IsFiniteSet(S)
    BY <1>2, <2>1, InvoicesAssumption, FS_Subset DEF CashLines
  <2>3. CashRows(b) = {f[i] : i \in S}
    BY <2>1 DEF CashRows
  <2>4. f \in Surjection(S, CashRows(b))
    BY <2>1, <2>3 DEF Surjection
  <2> QED
    BY <2>2, <2>4, FS_Surjection
<1>4. IsFiniteSet(CreditRows(b))
  <2>1. PICK f : f = [c \in b.credits |->
                        [tx |-> serial, note |-> c.note, invoice |-> c.invoice,
                         amount |-> c.amount, ccy |-> doc[c.invoice].ccy]]
    OBVIOUS
  <2>2. CreditRows(b) = {f[c] : c \in b.credits}
    BY <2>1 DEF CreditRows
  <2>3. f \in Surjection(b.credits, CreditRows(b))
    BY <2>1, <2>2 DEF Surjection
  <2>4. IsFiniteSet(b.credits)
    BY BatchesAssumption
  <2> QED
    BY <2>3, <2>4, FS_Surjection
<1>5. IsFiniteSet(payments') /\ IsFiniteSet(allocations')
  BY <1>1, <1>3, <1>4, FS_Union DEF RowsAddUp
<1>6. \A a \in CreditRows(b) :
        a.note # a.invoice /\ a.note \notin Legacy /\ a.invoice \notin Legacy
  <2>1. ASSUME NEW c \in b.credits
        PROVE  c.note # c.invoice /\ c.note \notin Legacy /\ c.invoice \notin Legacy
    <3>1. CreditAccepted(b, c)
      BY <1>1 DEF BatchAccepted
    <3>2. LineAccepted(b, c.invoice)
      BY <1>1, <3>1 DEF BatchAccepted, CreditAccepted
    <3>3. doc[c.note].total < 0 /\ doc[c.invoice].total > 0
      BY <3>1, <3>2 DEF CreditAccepted, LineAccepted
    <3>4. doc[c.note].total \in Int
      BY <1>2, DocumentsAssumption DEF IInv, Types
    <3> QED
      BY <3>1, <3>2, <3>3, <3>4 DEF CreditAccepted, LineAccepted, Open
  <2> QED
    BY <2>1 DEF CreditRows
<1>7. IInv'
  BY KeepsCommitBatch
<1>8. payments' \subseteq Payment /\ allocations' \subseteq Allocation
  BY <1>7 DEF IInv, Types, Payment, Allocation
<1>9. paid' \in [Invoices -> Int]
  BY <1>1, <1>5, <1>8, DerivedWhole
<1> QED
  BY <1>1, <1>5, <1>6, <1>9 DEF RowsAddUp

\* One row more, or one less
LEMMA RowAdds ==
  ASSUME IInv, RowsAddUp, NEW u \in Users,
         CommitPayment(u) \/ CommitRemovePayment(u) \/ CommitRemoveAllocation(u)
  PROVE  RowsAddUp'
<1>1. IInv'
  BY KeepsCommitPayment, KeepsCommitRemovePayment, KeepsCommitRemoveAllocation
<1>2. payments' \subseteq Payment /\ allocations' \subseteq Allocation
  BY <1>1 DEF IInv, Types, Payment, Allocation
<1>3. /\ \E p : payments' \subseteq payments \cup {p}
      /\ allocations' \subseteq allocations
      /\ \E S : Recompute(S, payments', allocations')
  <2>1. CASE CommitPayment(u)
    BY <2>1 DEF CommitPayment
  <2>2. CASE CommitRemovePayment(u)
    BY <2>2 DEF CommitRemovePayment
  <2>3. CASE CommitRemoveAllocation(u)
    BY <2>3 DEF CommitRemoveAllocation
  <2> QED
    BY <2>1, <2>2, <2>3
<1>4. IsFiniteSet(payments') /\ IsFiniteSet(allocations')
  <2>1. PICK p : payments' \subseteq payments \cup {p}
    BY <1>3
  <2>2. IsFiniteSet(payments \cup {p})
    BY FS_AddElement DEF RowsAddUp
  <2> QED
    BY <1>3, <2>1, <2>2, FS_Subset DEF RowsAddUp
<1>5. paid' \in [Invoices -> Int]
  BY <1>2, <1>3, <1>4, DerivedWhole
<1> QED
  BY <1>3, <1>4, <1>5 DEF RowsAddUp

\* Every step, and the first state
LEMMA AddingStep == IInv /\ RowsAddUp /\ [Next]_vars => RowsAddUp'
<1> SUFFICES ASSUME IInv, RowsAddUp, [Next]_vars PROVE RowsAddUp'
  OBVIOUS
<1>1. CASE UNCHANGED <<payments, allocations, paid>>
  BY <1>1 DEF RowsAddUp
<1>2. CASE Next
  <2>1. PICK u \in Users : Begin(u) \/ Continue(u)
    BY <1>2 DEF Next
  <2>2. CASE CommitBatch(u)
    BY <2>2, BatchAdds
  <2>3. CASE CommitPayment(u) \/ CommitRemovePayment(u) \/ CommitRemoveAllocation(u)
    BY <2>3, RowAdds
  <2>4. CASE /\ ~CommitBatch(u)
             /\ ~(CommitPayment(u) \/ CommitRemovePayment(u) \/ CommitRemoveAllocation(u))
    <3>1. UNCHANGED <<payments, allocations, paid>>
      BY <2>1, <2>4 DEF Begin, Continue, BeginPayment, BeginBatch, BeginRemovePayment,
         BeginRemoveAllocation, EnterInvoice, EditInvoice, AttachFile,
         BeginRemoveInvoice, Lock, Check, Refuse, DeleteAttachments, DeleteInvoice,
         ConnectionLost, rowVars, paperVars
    <3> QED
      BY <1>1, <3>1
  <2> QED
    BY <2>2, <2>3, <2>4
<1> QED
  BY <1>1, <1>2 DEF vars, paperVars, rowVars

LEMMA AddingStart == Init => RowsAddUp
BY GivenAssumption, DocumentsAssumption, SubsetsAssumption, FS_EmptySet DEF Init, RowsAddUp

----------------------------------------------------------------------------
\* The reports add up as the laws of sums do
LEMMA SumOverIsSum ==
  ASSUME NEW S, NEW F, DOMAIN F = S
  PROVE  SumOver(F) = Sum(F, S)
BY Zenon DEF SumOver, Sum

\* What the audit adds up for an invoice is what the payments service adds up
LEMMA AuditAddsTheRows ==
  ASSUME Types, RowsAddUp, NEW i \in Invoices
  PROVE  /\ ViaPms(i) \in Int /\ CreditOn(i) \in Int
         /\ Settled(i) = ViaPms(i) + CreditOn(i)
         /\ AmountOf(PaymentsOf(i, payments)) \in Int
         /\ ViaPms(i) <= AmountOf(PaymentsOf(i, payments))
         /\ PaymentsOf(i, payments) = {} => ViaPms(i) = 0
         /\ i \in Legacy => CreditOn(i) = 0
         /\ \E G, V : /\ G = {r \in {a \in allocations : a.invoice = i} : r.ccy = doc[i].ccy}
                      /\ V = {r \in {a \in allocations : a.note = i} : r.ccy = doc[i].ccy}
                      /\ CreditOn(i) = RowSum(G) - RowSum(V)
<1>1. PICK C, G, V : /\ C = {r \in {p \in payments : p.invoice = i} : r.ccy = doc[i].ccy}
                     /\ G = {r \in {a \in allocations : a.invoice = i} : r.ccy = doc[i].ccy}
                     /\ V = {r \in {a \in allocations : a.note = i} : r.ccy = doc[i].ccy}
  OBVIOUS
<1>2. Settled(i) = RowSum(C) + RowSum(G) - RowSum(V)
  BY <1>1, Zenon DEF Settled, SettledIn, PaymentsOf, AmountOf, RowSum
<1>3. /\ payments \subseteq Payment /\ allocations \subseteq Allocation
      /\ IsFiniteSet(payments) /\ IsFiniteSet(allocations)
  BY DEF Types, RowsAddUp
<1>4. /\ C \subseteq payments /\ G \subseteq allocations /\ V \subseteq allocations
      /\ IsFiniteSet(C) /\ IsFiniteSet(G) /\ IsFiniteSet(V)
  BY <1>1, <1>3, FS_Subset
<1>5. RowSum(C) \in Nat /\ RowSum(G) \in Nat /\ RowSum(V) \in Nat
  BY <1>3, <1>4, RowsCount
<1>6. ViaPms(i) = RowSum(C)
  <2>1. OwnPayments(i) = C
    BY <1>1, Zenon DEF OwnPayments, PaymentsOf
  <2> QED
    BY <2>1, Zenon DEF ViaPms, AmountOf, RowSum
<1>7. CreditOn(i) = RowSum(G) - RowSum(V)
  <2>1. PICK U, F : /\ U = {a \in allocations : a.ccy = doc[i].ccy /\ i \in {a.invoice, a.note}}
                    /\ F = [a \in U |-> IF a.invoice = i THEN a.amount ELSE -a.amount]
    OBVIOUS
  <2>2. CreditOn(i) = Sum(F, U)
    BY <2>1, SumOverIsSum DEF CreditOn
  <2>3. U = G \cup V /\ G \cap V = {} /\ \A a \in V : a.invoice # i
    BY <1>1, <2>1 DEF RowsAddUp
  <2>4. \A a \in U : a.amount \in Int
    BY <1>3, <2>1 DEF Allocation
  <2>5. PICK N : N = [a \in V |-> a.amount]
    OBVIOUS
  <2>6. /\ \A a \in U : F[a] \in Int
        /\ \A a \in G : F[a] = a.amount
        /\ \A a \in V : N[a] \in Int /\ N[a] = a.amount /\ F[a] = -N[a]
    BY <1>1, <2>1, <2>3, <2>4, <2>5
  <2>7. Sum(F, U) = Sum(F, G) + Sum(F, V)
    BY <1>4, <2>3, <2>6, SumUnion
  <2>8. Sum(F, G) = RowSum(G)
    BY <1>4, <2>6, RowSumIsSum
  <2>9. Sum(F, V) = -RowSum(V)
    BY <1>4, <2>6, RowSumIsSum, SumNegative
  <2> QED
    BY <1>5, <2>2, <2>7, <2>8, <2>9
<1>8. PICK A, D : A = PaymentsOf(i, payments) /\ D = A \ C
  OBVIOUS
<1>9. AmountOf(A) = RowSum(C) + RowSum(D) /\ RowSum(D) \in Nat
  <2>1. A \subseteq payments /\ C \subseteq A
    BY <1>1, <1>8 DEF PaymentsOf
  <2>2. A = C \cup D /\ C \cap D = {} /\ IsFiniteSet(D) /\ D \subseteq payments
    BY <1>3, <1>8, <2>1, FS_Subset
  <2>3. \A r \in C \cup D : r.amount \in Int
    BY <1>3, <2>1, <2>2 DEF Payment
  <2>4. RowSum(A) = RowSum(C) + RowSum(D)
    BY <1>4, <2>2, <2>3, RowSumUnion
  <2>5. RowSum(D) \in Nat
    BY <1>3, <2>2, RowsCount
  <2>6. AmountOf(A) = RowSum(A)
    BY Zenon DEF AmountOf, RowSum
  <2> QED
    BY <2>4, <2>5, <2>6
<1>10. A = {} => ViaPms(i) = 0
  <2>1. A = {} => C = {}
    BY <1>1, <1>8 DEF PaymentsOf
  <2> QED
    BY <1>6, <2>1, RowSumEmpty
<1>11. i \in Legacy => CreditOn(i) = 0
  <2>1. i \in Legacy => G = {} /\ V = {}
    BY <1>1 DEF RowsAddUp
  <2> QED
    BY <1>7, <2>1, RowSumEmpty
<1>12. \E X, Y : /\ X = {r \in {a \in allocations : a.invoice = i} : r.ccy = doc[i].ccy}
                 /\ Y = {r \in {a \in allocations : a.note = i} : r.ccy = doc[i].ccy}
                 /\ CreditOn(i) = RowSum(X) - RowSum(Y)
  BY <1>1, <1>7, Zenon
<1> QED
  BY <1>2, <1>5, <1>6, <1>7, <1>8, <1>9, <1>10, <1>11, <1>12

\* ... and its status is derived alike
LEMMA ActualIsSettled ==
  ASSUME Types, RowsAddUp, NEW i \in Invoices
  PROVE  /\ Actual(i) = Settled(i) /\ Settled(i) \in Int
         /\ Total(i) \in Int /\ Remaining(i) \in Int /\ paid[i] \in Int
         /\ DerivedStatus(i) = PaymentState(Total(i), Settled(i))
         /\ ~HasEvidence(i) => Settled(i) = 0
<1>1. Actual(i) = ViaPms(i) + CreditOn(i)
  BY DEF Actual, ViaPms
<1>2. Actual(i) = Settled(i) /\ Settled(i) \in Int
  BY <1>1, AuditAddsTheRows
<1>3. Total(i) \in Int /\ paid[i] \in Int
  BY DocumentsAssumption DEF Types, RowsAddUp, Total
<1>4. DerivedStatus(i) = PaymentState(Total(i), Settled(i))
  BY <1>2 DEF DerivedStatus, PaymentState
<1>5. ~HasEvidence(i) => Settled(i) = 0
  BY AuditAddsTheRows DEF HasEvidence
<1> QED
  BY <1>2, <1>3, <1>4, <1>5 DEF Remaining
----------------------------------------------------------------------------
(* Findings *)

\* The rules on an invoice raise what they say they raise
LEMMA Raising ==
  ASSUME NEW i
  PROVE  /\ \A f \in InvoiceFindings(i) :
              f = Finding(f.rule, i, doc[i].ccy, f.exposure, {})
         /\ (\E f \in InvoiceFindings(i) : f.rule = "paid_amount_mismatch") <=>
              i \notin Legacy /\ paid[i] # Actual(i)
         /\ (\E f \in InvoiceFindings(i) : f.rule = "status_inconsistent") <=>
              status[i] \notin {"cancelled", DerivedStatus(i)}
                /\ ~(status[i] = "paid" /\ ~HasEvidence(i))
         /\ (\E f \in InvoiceFindings(i) : f.rule = "paid_without_payments") <=>
              i \notin Legacy /\ status[i] = "paid" /\ ~HasEvidence(i)
<1>1. \A f \in InvoiceFindings(i) : f = Finding(f.rule, i, doc[i].ccy, f.exposure, {})
  BY DEF InvoiceFindings, Finding
<1>2. \A f \in InvoiceFindings(i) :
        /\ f.rule = "paid_amount_mismatch" => i \notin Legacy /\ paid[i] # Actual(i)
        /\ f.rule = "status_inconsistent" =>
             status[i] \notin {"cancelled", DerivedStatus(i)}
               /\ ~(status[i] = "paid" /\ ~HasEvidence(i))
        /\ f.rule = "paid_without_payments" =>
             i \notin Legacy /\ status[i] = "paid" /\ ~HasEvidence(i)
  BY DEF InvoiceFindings, Finding
<1>3. PICK f : f = Finding("paid_amount_mismatch", i, doc[i].ccy, Abs(paid[i] - Actual(i)), {})
  OBVIOUS
<1>4. /\ f.rule = "paid_amount_mismatch"
      /\ i \notin Legacy /\ paid[i] # Actual(i) => f \in InvoiceFindings(i)
  BY <1>3 DEF InvoiceFindings, Finding
<1>5. PICK g : g = Finding("status_inconsistent", i, doc[i].ccy, 0, {})
  OBVIOUS
<1>6. /\ g.rule = "status_inconsistent"
      /\ (status[i] \notin {"cancelled", DerivedStatus(i)}
            /\ ~(status[i] = "paid" /\ ~HasEvidence(i))) => g \in InvoiceFindings(i)
  BY <1>5 DEF InvoiceFindings, Finding
<1>7. PICK h : h = Finding("paid_without_payments", i, doc[i].ccy, Abs(paid[i]), {})
  OBVIOUS
<1>8. /\ h.rule = "paid_without_payments"
      /\ i \notin Legacy /\ status[i] = "paid" /\ ~HasEvidence(i) => h \in InvoiceFindings(i)
  BY <1>7 DEF InvoiceFindings, Finding
<1> QED
  BY <1>1, <1>2, <1>4, <1>6, <1>8, Zenon

\* ... by how much the cache is off
LEMMA MismatchShown ==
  ASSUME NEW i, i \notin Legacy, paid[i] # Actual(i)
  PROVE  Finding("paid_amount_mismatch", i, doc[i].ccy, Abs(paid[i] - Actual(i)), {})
           \in InvoiceFindings(i)
BY DEF InvoiceFindings, Finding

\* No exposure is negative
LEMMA ExposuresCount ==
  ASSUME Types, RowsAddUp, NEW i \in Invoices, NEW f \in InvoiceFindings(i)
  PROVE  f.exposure \in Nat
<1>1. /\ Actual(i) \in Int /\ paid[i] \in Int /\ Total(i) \in Int
      /\ Remaining(i) = Total(i) - Actual(i)
  BY ActualIsSettled DEF Remaining
<1> QED
  BY <1>1 DEF InvoiceFindings, Finding, Abs

----------------------------------------------------------------------------
\* A rule about the cache is raised on an invoice by the findings on that invoice
LEMMA RaisedOn ==
  ASSUME NEW i \in Entered,
         NEW rule \in {"paid_amount_mismatch", "status_inconsistent", "paid_without_payments"}
  PROVE  rule \in Raised(i) <=> \E f \in InvoiceFindings(i) : f.rule = rule
<1>1. ASSUME rule \in Raised(i) PROVE \E f \in InvoiceFindings(i) : f.rule = rule
  <2>1. PICK f \in Findings : f.rule = rule /\ f.invoice = i
    BY <1>1 DEF Raised
  <2>2. f \notin OrphanFindings
    BY <2>1 DEF OrphanFindings, Finding
  <2>3. PICK j \in Entered : f \in InvoiceFindings(j) \cup PaymentFindings(j)
    BY <2>1, <2>2 DEF Findings
  <2>4. f \notin PaymentFindings(j)
    BY <2>1 DEF PaymentFindings, Finding
  <2>5. f = Finding(f.rule, j, doc[j].ccy, f.exposure, {})
    BY <2>3, <2>4, Raising
  <2>6. j = i
    BY <2>1, <2>5 DEF Finding
  <2> QED
    BY <2>1, <2>3, <2>4, <2>6
<1>2. ASSUME NEW f \in InvoiceFindings(i), f.rule = rule PROVE rule \in Raised(i)
  <2>1. f \in Findings
    BY <1>2 DEF Findings
  <2>2. f = Finding(f.rule, i, doc[i].ccy, f.exposure, {})
    BY <1>2, Raising
  <2>3. f.invoice = i
    BY <2>2 DEF Finding
  <2> QED
    BY <1>2, <2>1, <2>3 DEF Raised
<1> QED
  BY <1>1, <1>2

\* What the audit and the list of what is unpaid say of one invoice
LEMMA InvoiceIsRead ==
  ASSUME Types, RowsAddUp, NEW i \in Entered \ Legacy
  PROVE  /\ Sound(i) <=> Raised(i) \cap {"paid_amount_mismatch", "status_inconsistent",
                                         "paid_without_payments"} = {}
         /\ Sound(i) =>
              (i \in Unpaid(doc[i].supplier) <=>
                 Settled(i) = 0 \/ Abs(Settled(i)) < Abs(Total(i)))
<1>1. i \in Invoices /\ i \in Entered /\ i \notin Legacy /\ status[i] \in Statuses
  BY DEF Entered, Types
<1>2. /\ Actual(i) = Settled(i) /\ Settled(i) \in Int /\ Total(i) \in Int /\ paid[i] \in Int
      /\ DerivedStatus(i) = PaymentState(Total(i), Settled(i))
      /\ ~HasEvidence(i) => Settled(i) = 0
  BY <1>1, ActualIsSettled
<1>3. /\ "paid_amount_mismatch" \in Raised(i) <=> paid[i] # Settled(i)
      /\ "status_inconsistent" \in Raised(i) <=>
           /\ status[i] \notin {"cancelled", PaymentState(Total(i), Settled(i))}
           /\ ~(status[i] = "paid" /\ ~HasEvidence(i))
      /\ "paid_without_payments" \in Raised(i) <=> status[i] = "paid" /\ ~HasEvidence(i)
  BY <1>1, <1>2, RaisedOn, Raising
<1>4. ~HasEvidence(i) => PaymentState(Total(i), Settled(i)) = "unpaid"
  BY <1>2 DEF PaymentState
<1>5. Sound(i) <=> Raised(i) \cap {"paid_amount_mismatch", "status_inconsistent",
                                   "paid_without_payments"} = {}
  <2>1. Sound(i) => status[i] # "paid" \/ HasEvidence(i)
    BY <1>4 DEF Sound
  <2>2. status[i] # "cancelled"
    BY <1>1 DEF Statuses, Entered, Exists
  <2> QED
    BY <1>3, <2>1, <2>2 DEF Sound
<1>6. ASSUME Sound(i)
      PROVE  i \in Unpaid(doc[i].supplier) <=>
               Settled(i) = 0 \/ Abs(Settled(i)) < Abs(Total(i))
  <2>1. i \in Unpaid(doc[i].supplier) <=>
          PaymentState(Total(i), Settled(i)) \in {"unpaid", "partial"}
    BY <1>1, <1>6 DEF Unpaid, Sound
  <2>2. Abs(Settled(i)) \in Int /\ Abs(Total(i)) \in Int
    BY <1>2 DEF Abs
  <2> QED
    BY <2>1, <2>2 DEF PaymentState
<1> QED
  BY <1>5, <1>6

\* A few findings are finitely many
LEMMA FourAreFinite ==
  ASSUME NEW a, NEW b, NEW c, NEW d
  PROVE  IsFiniteSet({a, b, c, d})
<1>1. IsFiniteSet({a}) /\ IsFiniteSet({b}) /\ IsFiniteSet({c}) /\ IsFiniteSet({d})
  BY FS_Singleton
<1>2. IsFiniteSet({a} \cup {b}) /\ IsFiniteSet({c} \cup {d})
  BY <1>1, FS_Union
<1>3. IsFiniteSet(({a} \cup {b}) \cup ({c} \cup {d}))
  BY <1>2, FS_Union
<1>4. ({a} \cup {b}) \cup ({c} \cup {d}) = {a, b, c, d}
  OBVIOUS
<1> QED
  BY <1>3, <1>4

----------------------------------------------------------------------------
\* There are finitely many findings, and none has a negative exposure
LEMMA FindingsCount ==
  ASSUME Types, RowsAddUp
  PROVE  IsFiniteSet(Findings) /\ \A f \in Findings : f.exposure \in Nat
<1>1. /\ Entered \subseteq Invoices /\ IsFiniteSet(Entered)
      /\ payments \subseteq Payment /\ IsFiniteSet(payments)
  BY InvoicesAssumption, FS_Subset DEF Entered, Types, RowsAddUp
<1>2. IsFiniteSet(OrphanFindings) /\ \A f \in OrphanFindings : f.exposure \in Nat
  <2>1. PICK P, g : /\ P = {x \in payments : ~Exists(x.invoice)}
                    /\ g = [p \in P |->
                             Finding("orphan_payment", 0, p.ccy, p.amount, {p})]
    OBVIOUS
  <2>2. OrphanFindings = {g[p] : p \in P}
    BY <2>1 DEF OrphanFindings
  <2>3. g \in Surjection(P, OrphanFindings) /\ IsFiniteSet(P)
    BY <1>1, <2>1, <2>2, FS_Subset DEF Surjection
  <2>4. \A p \in P : g[p].exposure \in Nat
    BY <1>1, <2>1 DEF Finding, Payment
  <2> QED
    BY <2>2, <2>3, <2>4, FS_Surjection
<1>3. ASSUME NEW i \in Entered
      PROVE  /\ IsFiniteSet(InvoiceFindings(i) \cup PaymentFindings(i))
             /\ \A f \in InvoiceFindings(i) \cup PaymentFindings(i) : f.exposure \in Nat
  <2>1. \A f \in InvoiceFindings(i) : f.exposure \in Nat
    BY <1>1, ExposuresCount
  <2>2. IsFiniteSet(InvoiceFindings(i))
    <3>1. PICK few, some, others :
            /\ few = {
                 Finding("legacy_settled", i, doc[i].ccy, 0, {}),
                 Finding("legacy_credit_note", i, doc[i].ccy, 0, {}),
                 Finding("paid_without_payments", i, doc[i].ccy, Abs(paid[i]), {}),
                 Finding("approval_paid_no_evidence", i, doc[i].ccy, Remaining(i), {})}
            /\ some = {
                 Finding("overpaid", i, doc[i].ccy, paid[i] - Total(i), {}),
                 Finding("negative_remaining", i, doc[i].ccy, Abs(Remaining(i)), {}),
                 Finding("negative_paid_amount", i, doc[i].ccy, Abs(paid[i]), {}),
                 Finding("paid_amount_mismatch", i, doc[i].ccy, Abs(paid[i] - Actual(i)), {})}
            /\ others = {
                 Finding("status_inconsistent", i, doc[i].ccy, 0, {}),
                 Finding("fully_paid_not_marked", i, doc[i].ccy, 0, {}),
                 Finding("invoice_without_vessel", i, doc[i].ccy, 0, {}),
                 Finding("invoice_without_vessel", i, doc[i].ccy, 0, {})}
      OBVIOUS
    <3>2. InvoiceFindings(i) \subseteq few \cup some \cup others
      BY <3>1 DEF InvoiceFindings
    <3>3. IsFiniteSet(few) /\ IsFiniteSet(some) /\ IsFiniteSet(others)
      BY <3>1, FourAreFinite
    <3>4. IsFiniteSet(few \cup some \cup others)
      BY <3>3, FS_Union
    <3> QED
      BY <3>2, <3>4, FS_Subset
  <2>3. PICK F, D : /\ F = ForeignPayments(i)
                    /\ D = {x \in PaymentsOf(i, payments) :
                              \E y \in PaymentsOf(i, payments) :
                                y.tx < x.tx /\ y.amount = x.amount /\ y.ccy = x.ccy}
    OBVIOUS
  <2>4. /\ F \subseteq payments /\ IsFiniteSet(F)
        /\ D \subseteq payments /\ IsFiniteSet(D)
    BY <1>1, <2>3, FS_Subset DEF ForeignPayments, PaymentsOf
  <2>5. PICK g, h : /\ g = [p \in F |->
                         Finding("payment_currency_mismatch", i, p.ccy, p.amount, {p})]
                    /\ h = [p \in D |->
                         Finding("duplicate_payment", i, p.ccy, p.amount, {p})]
    OBVIOUS
  <2>6. PaymentFindings(i) = {g[p] : p \in F} \cup {h[p] : p \in D}
    BY <2>3, <2>5 DEF PaymentFindings
  <2>7. PICK R, S : R = {g[p] : p \in F} /\ S = {h[p] : p \in D}
    OBVIOUS
  <2>8. g \in Surjection(F, R) /\ h \in Surjection(D, S)
    BY <2>5, <2>7 DEF Surjection
  <2>9. IsFiniteSet(R) /\ IsFiniteSet(S)
    BY <2>4, <2>8, FS_Surjection
  <2>10. \A f \in R \cup S : f.exposure \in Nat
    BY <1>1, <2>4, <2>5, <2>7 DEF Finding, Payment
  <2> QED
    BY <2>1, <2>2, <2>6, <2>7, <2>9, <2>10, FS_Union
<1>4. PICK B : B = [i \in Entered |-> InvoiceFindings(i) \cup PaymentFindings(i)]
  OBVIOUS
<1>5. PICK K : K = {B[i] : i \in Entered}
  OBVIOUS
<1>6. B \in Surjection(Entered, K)
  BY <1>4, <1>5 DEF Surjection
<1>7. IsFiniteSet(K) /\ \A S \in K : IsFiniteSet(S)
  BY <1>1, <1>3, <1>4, <1>5, <1>6, FS_Surjection
<1>8. IsFiniteSet(UNION K)
  BY <1>7, FS_UNION
<1>9. Findings = OrphanFindings \cup UNION K
  BY <1>4, <1>5 DEF Findings
<1>10. \A f \in UNION K : f.exposure \in Nat
  BY <1>3, <1>4, <1>5
<1> QED
  BY <1>2, <1>8, <1>9, <1>10, FS_Union

----------------------------------------------------------------------------
(* Exposures *)

\* The invoices that are in operation, by currency, and by what each cache is off
Operational(c) == {i \in Entered \ Legacy : doc[i].ccy = c}
Off(c) == [i \in Operational(c) |-> Abs(paid[i] - Settled(i))]
FoundIn(c) == {f \in Findings : f.ccy = c}
SubjectsIn(c) == {Subject(f) : f \in FoundIn(c)}
OfSubject(s, c) == {f \in FoundIn(c) : Subject(f) = s}

\* The greatest exposure of a subject is that of a finding on it, and covers each
LEMMA GreatestCovers ==
  ASSUME Types, RowsAddUp, NEW c, NEW s \in SubjectsIn(c),
         NEW F, F = [f \in FoundIn(c) |-> f.exposure]
  PROVE  /\ Greatest(s, c) \in Nat
         /\ \A f \in OfSubject(s, c) : f.exposure <= Greatest(s, c)
         /\ Greatest(s, c) <= Sum(F, OfSubject(s, c)) /\ Sum(F, OfSubject(s, c)) \in Nat
<1>1. PICK P : P = OfSubject(s, c)
  OBVIOUS
<1>2. P \subseteq FoundIn(c) /\ P \subseteq Findings /\ IsFiniteSet(P) /\ P # {}
  <2>1. P \subseteq FoundIn(c) /\ P \subseteq Findings /\ P # {}
    BY <1>1 DEF OfSubject, SubjectsIn, FoundIn
  <2> QED
    BY <2>1, FindingsCount, FS_Subset
<1>3. \A f \in P : F[f] = f.exposure /\ F[f] \in Int /\ F[f] >= 0
  BY <1>2, FindingsCount
<1>4. Sum(F, P) \in Nat /\ \A f \in P : F[f] <= Sum(F, P)
  BY <1>2, <1>3, SumBounds
<1>5. PICK E : E = {f.exposure : f \in P}
  OBVIOUS
<1>6. E \subseteq 0..Sum(F, P) /\ E # {}
  BY <1>2, <1>3, <1>4, <1>5
<1>7. Max(E) \in E /\ \A x \in E : Max(E) >= x
  BY <1>4, <1>6, MaxIsGreatest
<1>8. Greatest(s, c) = Max(E)
  <2>1. {f \in {g \in Findings : g.ccy = c} : Subject(f) = s} = P
    BY <1>1 DEF OfSubject, FoundIn
  <2>2. {f.exposure : f \in {g \in Findings : Subject(g) = s /\ g.ccy = c}} = E
    BY <1>1, <1>5 DEF OfSubject, FoundIn
  <2> QED
    BY <2>2, Zenon DEF Greatest
<1>9. PICK n, m : n = Sum(F, P) /\ m = Max(E)
  OBVIOUS
<1>10. m \in 0..n /\ n \in Nat
  BY <1>4, <1>6, <1>7, <1>9
<1>11. m \in Nat /\ m <= n
  BY <1>10
<1>12. \A f \in P : f.exposure \in Nat /\ f.exposure <= m
  BY <1>3, <1>4, <1>5, <1>7, <1>9
<1> QED
  BY <1>1, <1>8, <1>9, <1>10, <1>11, <1>12

\* What takes an invoice's greatest exposure is not more than what adds them all
LEMMA NetWithinRaw ==
  ASSUME Types, RowsAddUp, NEW c
  PROVE  NetExposure(c) <= RawExposure(c)
<1>1. PICK F, K, N, key, part, G :
        /\ F = [f \in FoundIn(c) |-> f.exposure]
        /\ K = SubjectsIn(c)
        /\ N = [s \in K |-> Greatest(s, c)]
        /\ key = [f \in FoundIn(c) |-> Subject(f)]
        /\ part = [s \in K |-> OfSubject(s, c)]
        /\ G = [s \in K |-> Sum(F, part[s])]
  OBVIOUS
<1>2. IsFiniteSet(FoundIn(c)) /\ \A f \in FoundIn(c) : F[f] \in Int
  BY <1>1, FindingsCount, FS_Subset DEF FoundIn
<1>3. IsFiniteSet(K)
  <2>1. key \in Surjection(FoundIn(c), K)
    BY <1>1 DEF Surjection, SubjectsIn
  <2> QED
    BY <1>2, <2>1, FS_Surjection
<1>4. /\ \A f \in FoundIn(c) : key[f] \in K
      /\ \A s \in K : part[s] = {f \in FoundIn(c) : key[f] = s}
  BY <1>1 DEF SubjectsIn, OfSubject
<1>5. \A s \in K : G[s] = Sum(F, part[s])
  BY <1>1
<1>6. Sum(G, K) = Sum(F, FoundIn(c))
  BY <1>2, <1>3, <1>4, <1>5, SumByKey
<1>7. \A s \in K : N[s] \in Int /\ G[s] \in Int /\ N[s] <= G[s]
  BY <1>1, GreatestCovers
<1>8. Sum(N, K) <= Sum(G, K)
  BY <1>3, <1>7, SumMonotone
<1>9. NetExposure(c) = Sum(N, K)
  BY <1>1, SumOverIsSum DEF NetExposure, SubjectsIn, FoundIn
<1>10. RawExposure(c) = Sum(F, FoundIn(c))
  BY <1>1, SumOverIsSum DEF RawExposure, FoundIn
<1> QED
  BY <1>6, <1>8, <1>9, <1>10

\* ... and not less than what the caches are off
LEMMA OffWithinNet ==
  ASSUME Types, RowsAddUp, NEW c
  PROVE  Sum(Off(c), Operational(c)) <= NetExposure(c)
<1>1. PICK J, O, W, K, N, b, T :
        /\ J = Operational(c)
        /\ O = Off(c)
        /\ W = {i \in J : paid[i] # Settled(i)}
        /\ K = SubjectsIn(c)
        /\ N = [s \in K |-> Greatest(s, c)]
        /\ b = [i \in W |-> IF i # 0 THEN <<i>> ELSE <<0, {}>>]
        /\ T = {b[i] : i \in W}
  OBVIOUS
<1>2. /\ J \subseteq Entered /\ J \subseteq Invoices /\ J \cap Legacy = {}
      /\ W \subseteq J /\ IsFiniteSet(J) /\ IsFiniteSet(W)
      /\ \A i \in J : doc[i].ccy = c
  BY <1>1, InvoicesAssumption, FS_Subset DEF Operational, Entered
<1>3. \A i \in J : /\ paid[i] \in Int /\ Settled(i) \in Int /\ Actual(i) = Settled(i)
                   /\ O[i] = Abs(paid[i] - Settled(i)) /\ O[i] \in Int /\ O[i] >= 0
  BY <1>1, <1>2, ActualIsSettled DEF Off, Abs
<1>4. Sum(O, J) = Sum(O, W)
  <2>1. \A i \in J \ W : O[i] = 0
    BY <1>1, <1>3 DEF Abs
  <2> QED
    BY <1>2, <1>3, <2>1, SumPart
<1>5. ASSUME NEW i \in W
      PROVE  b[i] \in K /\ O[i] <= N[b[i]]
  <2>1. PICK f : f = Finding("paid_amount_mismatch", i, c, O[i], {})
    OBVIOUS
  <2>2. f \in Findings
    <3>1. f \in InvoiceFindings(i)
      BY <1>1, <1>2, <1>3, <2>1, MismatchShown
    <3> QED
      BY <1>2, <3>1 DEF Findings
  <2>3. f \in FoundIn(c) /\ f.exposure = O[i] /\ f.invoice = i /\ f.payment = {}
    BY <2>1, <2>2 DEF FoundIn, Finding
  <2>4. Subject(f) = b[i]
    BY <1>1, <2>3 DEF Subject
  <2>5. b[i] \in K /\ f \in OfSubject(b[i], c)
    BY <1>1, <2>3, <2>4 DEF SubjectsIn, OfSubject
  <2>6. PICK F : F = [g \in FoundIn(c) |-> g.exposure]
    OBVIOUS
  <2> QED
    BY <1>1, <2>3, <2>5, <2>6, GreatestCovers
<1>6. b \in Bijection(W, T) /\ T \subseteq K
  <2>1. \A i, j \in W : b[i] = b[j] => i = j
    BY <1>1
  <2>2. b \in [W -> T] /\ \A y \in T : \E i \in W : b[i] = y
    BY <1>1
  <2>3. b \in Surjection(W, T) /\ b \in Injection(W, T)
    BY <2>1, <2>2 DEF Surjection, Injection, IsInjective
  <2> QED
    BY <1>1, <1>5, <2>3 DEF Bijection
<1>7. IsFiniteSet(K)
  <2>1. PICK key : key = [f \in FoundIn(c) |-> Subject(f)]
    OBVIOUS
  <2>2. key \in Surjection(FoundIn(c), K)
    BY <1>1, <2>1 DEF Surjection, SubjectsIn
  <2>3. IsFiniteSet(FoundIn(c))
    BY FindingsCount, FS_Subset DEF FoundIn
  <2> QED
    BY <2>2, <2>3, FS_Surjection
<1>8. \A s \in K : N[s] \in Int /\ N[s] >= 0
  <2>1. PICK F : F = [f \in FoundIn(c) |-> f.exposure]
    OBVIOUS
  <2>2. \A s \in K : Greatest(s, c) \in Nat
    BY <1>1, <2>1, GreatestCovers
  <2> QED
    BY <1>1, <2>2
<1>9. PICK M : M = [i \in W |-> N[b[i]]]
  OBVIOUS
<1>10. \A i \in W : /\ O[i] \in Int /\ M[i] \in Int /\ O[i] <= M[i] /\ M[i] = N[b[i]]
  BY <1>2, <1>3, <1>5, <1>8, <1>9
<1>11. Sum(O, W) <= Sum(M, W)
  BY <1>2, <1>10, SumMonotone
<1>12. Sum(M, W) = Sum(N, T)
  BY <1>2, <1>6, <1>10, SumImage
<1>13. Sum(N, T) <= Sum(N, K)
  BY <1>6, <1>7, <1>8, SumBounds
<1>14. NetExposure(c) = Sum(N, K)
  BY <1>1, SumOverIsSum DEF NetExposure, SubjectsIn, FoundIn
<1>15. Sum(O, W) \in Int /\ Sum(N, T) \in Int /\ Sum(N, K) \in Int
  BY <1>2, <1>6, <1>7, <1>8, <1>10, SumInt, FS_Subset
<1> QED
  BY <1>1, <1>4, <1>11, <1>12, <1>13, <1>14, <1>15

----------------------------------------------------------------------------
(* Totals *)

\* If nothing is off, every cache is what the rows give
LEMMA NothingOff ==
  ASSUME Types, RowsAddUp, NEW c, Sum(Off(c), Operational(c)) = 0
  PROVE  \A i \in Operational(c) : paid[i] = ViaPms(i) + CreditOn(i)
<1>1. PICK J, O : J = Operational(c) /\ O = Off(c)
  OBVIOUS
<1>2. J \subseteq Invoices /\ IsFiniteSet(J)
  BY <1>1, InvoicesAssumption, FS_Subset DEF Operational, Entered
<1>3. \A i \in J : /\ paid[i] \in Int /\ Settled(i) \in Int
                   /\ O[i] = Abs(paid[i] - Settled(i)) /\ O[i] \in Int /\ O[i] >= 0
  BY <1>1, <1>2, ActualIsSettled DEF Off, Abs
<1>4. \A i \in J : O[i] <= 0
  BY <1>1, <1>2, <1>3, SumBounds
<1>5. \A i \in J : paid[i] = Settled(i)
  BY <1>3, <1>4 DEF Abs
<1> QED
  BY <1>1, <1>2, <1>5, AuditAddsTheRows

\* What the notes of a supplier gave is what its invoices got
LEMMA CreditCancels ==
  ASSUME Types, RowsAddUp, NoOrphans, Together, NEW c, NEW s,
         NEW S, S = {j \in Operational(c) : doc[j].supplier = s},
         NEW G, G = [i \in S |-> CreditOn(i)]
  PROVE  Sum(G, S) = 0
<1>1. PICK A, F : /\ A = {a \in allocations : a.ccy = c /\ a.invoice \in S}
                /\ F = [a \in A |-> a.amount]
  OBVIOUS
<1>2. S \subseteq Invoices /\ IsFiniteSet(S) /\ \A i \in S : doc[i].ccy = c
  BY InvoicesAssumption, FS_Subset DEF Operational, Entered
<1>3. /\ A \subseteq allocations /\ IsFiniteSet(A) /\ allocations \subseteq Allocation
      /\ \A a \in A : F[a] = a.amount /\ F[a] \in Int
  BY <1>1, FS_Subset DEF RowsAddUp, Types, Allocation
<1>4. \A a \in allocations : a.note \in S <=> a.invoice \in S
  <2>1. \A a \in allocations :
          /\ a.note \in Entered \ Legacy /\ a.invoice \in Entered \ Legacy
          /\ doc[a.note].supplier = doc[a.invoice].supplier
          /\ doc[a.note].ccy = doc[a.invoice].ccy
    BY <1>3 DEF RowsAddUp, NoOrphans, Together, Entered, Allocation
  <2> QED
    BY <2>1 DEF Operational
<1>5. PICK got, gave, PI, PN, GI, GN, N :
        /\ got = [a \in A |-> a.invoice] /\ gave = [a \in A |-> a.note]
        /\ PI = [i \in S |-> {a \in A : got[a] = i}] /\ PN = [i \in S |-> {a \in A : gave[a] = i}]
        /\ GI = [i \in S |-> Sum(F, PI[i])] /\ GN = [i \in S |-> Sum(F, PN[i])]
        /\ N = [i \in S |-> -GN[i]]
  OBVIOUS
<1>6. Sum(GI, S) = Sum(F, A)
  <2>1. (\A a \in A : got[a] \in S) /\ (\A i \in S : PI[i] = {a \in A : got[a] = i})
        /\ \A i \in S : GI[i] = Sum(F, PI[i])
    BY <1>1, <1>5
  <2> QED
    BY <1>2, <1>3, <2>1, SumByKey
<1>7. Sum(GN, S) = Sum(F, A)
  <2>1. (\A a \in A : gave[a] \in S) /\ (\A i \in S : PN[i] = {a \in A : gave[a] = i})
        /\ \A i \in S : GN[i] = Sum(F, PN[i])
    BY <1>1, <1>4, <1>5
  <2> QED
    BY <1>2, <1>3, <2>1, SumByKey
<1>8. ASSUME NEW i \in S
      PROVE  GI[i] \in Int /\ GN[i] \in Int /\ N[i] \in Int /\ N[i] = -GN[i]
             /\ G[i] = GI[i] + N[i]
  <2>1. PICK X, Y : /\ X = {r \in {a \in allocations : a.invoice = i} : r.ccy = doc[i].ccy}
                    /\ Y = {r \in {a \in allocations : a.note = i} : r.ccy = doc[i].ccy}
                    /\ CreditOn(i) = RowSum(X) - RowSum(Y)
    BY <1>2, AuditAddsTheRows
  <2>2. X = PI[i] /\ Y = PN[i]
    BY <1>1, <1>2, <1>4, <1>5, <2>1
  <2>3. X \subseteq A /\ Y \subseteq A /\ IsFiniteSet(X) /\ IsFiniteSet(Y)
    BY <1>3, <1>5, <2>2, FS_Subset
  <2>4. RowSum(X) = Sum(F, X) /\ RowSum(Y) = Sum(F, Y)
    BY <1>3, <2>3, RowSumIsSum
  <2>5. Sum(F, X) \in Int /\ Sum(F, Y) \in Int
    BY <1>3, <2>3, SumInt
  <2>6. GI[i] = Sum(F, X) /\ GN[i] = Sum(F, Y) /\ N[i] = -GN[i] /\ G[i] = CreditOn(i)
    BY <1>5, <2>2
  <2> QED
    BY <2>1, <2>4, <2>5, <2>6
<1>9. Sum(G, S) = Sum(GI, S) + Sum(N, S)
  BY <1>2, <1>8, SumOfSums
<1>10. Sum(N, S) = -Sum(GN, S)
  BY <1>2, <1>8, SumNegative
<1>11. Sum(F, A) \in Int
  BY <1>3, SumInt
<1> QED
  BY <1>6, <1>7, <1>9, <1>10, <1>11

\* A supplier shows nothing without evidence, ...
LEMMA SupplierResidual ==
  ASSUME Types, RowsAddUp, NoOrphans, Together, NEW c, NEW s,
         Sum(Off(c), Operational(c)) = 0
  PROVE  SupplierTotals(s, c).unevidencedResidual = 0
<1>1. PICK S, F, G : /\ S = {j \in Operational(c) : doc[j].supplier = s}
                     /\ F = [i \in S |-> paid[i] - ViaPms(i)]
                     /\ G = [i \in S |-> CreditOn(i)]
  OBVIOUS
<1>2. S \subseteq Invoices /\ S \subseteq Operational(c)
  BY <1>1 DEF Operational, Entered
<1>3. \A i \in S : F[i] = G[i]
  BY <1>1, <1>2, NothingOff, AuditAddsTheRows
<1>4. F = G
  BY <1>1, <1>3
<1>5. {i \in Entered : doc[i].supplier = s /\ doc[i].ccy = c} \ Legacy = S
  BY <1>1 DEF Operational
<1>6. SupplierTotals(s, c).unevidencedResidual = SumOver(F)
  BY <1>1, <1>5 DEF SupplierTotals
<1>7. SumOver(F) = Sum(F, S)
  BY <1>1, SumOverIsSum
<1>8. Sum(G, S) = 0
  BY <1>1, CreditCancels
<1> QED
  BY <1>4, <1>6, <1>7, <1>8

\* ... and neither does a vessel
LEMMA VesselResidual ==
  ASSUME Types, RowsAddUp, NEW c, Sum(Off(c), Operational(c)) = 0,
         \A i \in Legacy : PaymentsOf(i, payments) = {}
  PROVE  VesselTotals(c).unevidencedResidual = 0
<1>1. PICK S, L, P, V, C, Z, R :
        /\ S = {i \in Entered \cap Aboard : doc[i].ccy = c}
        /\ L = S \cap Legacy
        /\ P = [i \in S |-> paid[i]]
        /\ V = [i \in S |-> ViaPms(i)]
        /\ C = [i \in S |-> CreditOn(i)]
        /\ Z = [i \in S |-> IF i \in Legacy THEN paid[i] ELSE 0]
        /\ R = [i \in S |-> V[i] + C[i]]
  OBVIOUS
<1>2. S \subseteq Invoices /\ IsFiniteSet(S) /\ L \in SUBSET S /\ IsFiniteSet(L)
      /\ S \ Legacy \subseteq Operational(c)
  BY <1>1, InvoicesAssumption, FS_Subset DEF Entered, Operational
<1>3. ASSUME NEW i \in S
      PROVE  /\ P[i] \in Int /\ V[i] \in Int /\ C[i] \in Int /\ Z[i] \in Int
             /\ R[i] \in Int /\ R[i] = V[i] + C[i] /\ P[i] = Z[i] + R[i]
             /\ i \notin L => Z[i] = 0
             /\ i \in L => P[i] = Z[i]
  <2>1. ViaPms(i) \in Int /\ CreditOn(i) \in Int /\ paid[i] \in Int
    BY <1>2, AuditAddsTheRows, ActualIsSettled
  <2>2. i \in Legacy => ViaPms(i) = 0 /\ CreditOn(i) = 0
    BY <1>2, AuditAddsTheRows
  <2>3. i \notin Legacy => paid[i] = ViaPms(i) + CreditOn(i)
    BY <1>2, NothingOff
  <2> QED
    BY <1>1, <2>1, <2>2, <2>3
<1>4. Sum(P, S) = Sum(Z, S) + Sum(R, S)
  BY <1>2, <1>3, SumOfSums
<1>5. Sum(R, S) = Sum(V, S) + Sum(C, S)
  BY <1>2, <1>3, SumOfSums
<1>6. Sum(Z, S) = Sum(Z, L)
  <2>1. (\A i \in S : Z[i] \in Int) /\ \A i \in S \ L : Z[i] = 0
    BY <1>3
  <2> QED
    BY <1>2, <2>1, SumPart
<1>7. Sum(Z, L) = Sum(P, L)
  BY <1>2, <1>3, SumEqual
<1>8. PICK Q : Q = [i \in L |-> paid[i]]
  OBVIOUS
<1>9. Sum(P, L) = Sum(Q, L)
  BY <1>1, <1>2, <1>8, SumEqual
<1>10. /\ Sum(V, S) \in Int /\ Sum(C, S) \in Int /\ Sum(Q, L) \in Int
  BY <1>1, <1>2, <1>3, <1>8, SumInt
<1>11. /\ SumOver(P) = Sum(P, S) /\ SumOver(V) = Sum(V, S)
       /\ SumOver(C) = Sum(C, S) /\ SumOver(Q) = Sum(Q, L)
  BY <1>1, <1>8, SumOverIsSum
<1>12. VesselTotals(c).unevidencedResidual
         = SumOver(P) - SumOver(V) - SumOver(Q) - SumOver(C)
  BY <1>1, <1>8 DEF VesselTotals
<1> QED
  BY <1>4, <1>5, <1>6, <1>7, <1>9, <1>10, <1>11, <1>12

----------------------------------------------------------------------------
\* The audit, the totals and the list of what is unpaid, whatever was edited
LEMMA ReportsRead == Types /\ RowsAddUp /\ NoOrphans => ReportsFollowTheRows
<1> SUFFICES ASSUME Types, RowsAddUp, NoOrphans PROVE ReportsFollowTheRows
  OBVIOUS
<1>1. ASSUME NEW c \in Currencies
      PROVE  LET own == {i \in Entered \ Legacy : doc[i].ccy = c}
                 off == SumOver([i \in own |-> Abs(paid[i] - Settled(i))]) IN
             /\ off <= NetExposure(c) /\ NetExposure(c) <= RawExposure(c)
             /\ (off = 0 /\ \A i \in Legacy : PaymentsOf(i, payments) = {}) =>
                  VesselTotals(c).unevidencedResidual = 0
             /\ (off = 0 /\ Together) =>
                  \A s \in Suppliers : SupplierTotals(s, c).unevidencedResidual = 0
  <2>1. SumOver([i \in Operational(c) |-> Abs(paid[i] - Settled(i))])
          = Sum(Off(c), Operational(c))
    BY SumOverIsSum DEF Off
  <2>2. {i \in Entered \ Legacy : doc[i].ccy = c} = Operational(c)
    BY DEF Operational
  <2> QED
    BY <2>1, <2>2, NetWithinRaw, OffWithinNet, SupplierResidual, VesselResidual
<1> QED
  BY <1>1, InvoiceIsRead DEF ReportsFollowTheRows

\* Whatever is paid, applied, removed or edited, the reports follow the rows
\* (audit.service.ts, the totals of suppliers and vessels, what is still unpaid)
THEOREM ReportsFollow == Spec => []ReportsFollowTheRows
<1>1. Init => RowsAddUp
  BY AddingStart
<1>2. IInv /\ RowsAddUp /\ [Next]_vars => RowsAddUp'
  BY AddingStep
<1>3. IInv /\ RowsAddUp => ReportsFollowTheRows
  BY ReportsRead DEF IInv
<1> QED
  BY <1>1, <1>2, <1>3, Invariant, PTL DEF Spec
=============================================================================
