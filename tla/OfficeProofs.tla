---------------------------- MODULE OfficeProofs ----------------------------
(***************************************************************************)
(* What stands of six desks of the office, for any requests, files and     *)
(* bounds: the migration of the old invoices, the costs of a vessel from   *)
(* the company's books, the profit card of Monte, the two screens over a   *)
(* shared sheet, and the account of the fund.  At each of them something   *)
(* is checked or read in one step and used in a later one, and the         *)
(* argument is about what may not have moved in between.                   *)
(***************************************************************************)
EXTENDS LegacyMigration, CostImports, MonteCard, FleetCache, VoyageSheets, StoneFund,
        SumLaws, WellFoundedInduction

----------------------------------------------------------------------------
(* The migration *)

\* Every row keeps its columns, and is closed as something exactly if it is in the
\* batch
RowsAreSound ==
  /\ invoices = [i \in Archive |-> invoices[i]]
  /\ \A i \in Archive :
       /\ DOMAIN invoices[i] = RowFields
       /\ invoices[i].basis \in {"none", "pre_system_settled", "credit_note"}
       /\ invoices[i].batch = (invoices[i].basis # "none")

\* From the ALTER TABLE on nobody is inside, and what the gates saw still holds
LockHolds ==
  /\ "step" \in DOMAIN migration
  /\ migration.step \in {"altered", "gated"} => NobodyInside
  /\ migration.step = "gated" => Gates

MigrationInv == RowsAreSound /\ LockHolds

\* What the steps do to the rows: a document or what is derived changes, the closing
\* and its undoing change how a row is closed
Alike(r, q) == r.basis = q.basis /\ r.batch = q.batch
Edited(i, r) ==
  /\ DOMAIN r = RowFields /\ Alike(r, invoices[i])
  /\ invoices[i].basis # "none" => r.paid = invoices[i].paid /\ r.status = invoices[i].status
EditedAlone == \E i, r : Edited(i, r) /\ invoices' = [invoices EXCEPT ![i] = r]

LEMMA DerivingEdits ==
  ASSUME RowsAreSound, NEW i, NEW P, NEW rows, rows = RecomputeOpen(i, P)
  PROVE  rows = invoices
         \/ \E r : i \in Archive /\ Edited(i, r) /\ rows = [invoices EXCEPT ![i] = r]
<1>1. CASE i \in Archive /\ invoices[i].basis # "none"
  BY <1>1 DEF RecomputeOpen, RowsAreSound
<1>2. CASE i \in Archive /\ invoices[i].basis = "none"
  <2>1. RecomputeOpen(i, P) = [invoices EXCEPT ![i] = DerivedFor(i, P)]
    BY <1>2 DEF RecomputeOpen
  <2>2. PICK a, s : DerivedFor(i, P) = [invoices[i] EXCEPT !.paid = a, !.status = s]
    BY DEF DerivedFor
  <2>3. Edited(i, DerivedFor(i, P))
    BY <1>2, <2>2 DEF Edited, Alike, RowsAreSound, RowFields
  <2> QED
    BY <1>2, <2>1, <2>3
<1>3. CASE i \notin Archive
  <2>1. \A r : [invoices EXCEPT ![i] = r] = invoices
    BY <1>3 DEF RowsAreSound
  <2> QED
    BY <2>1 DEF RecomputeOpen
<1> QED
  BY <1>1, <1>2, <1>3

LEMMA StepsOnRows ==
  ASSUME RowsAreSound, [MigrationNext]_migrationVars
  PROVE  UNCHANGED invoices \/ EditedAlone \/ Commit \/ Rollback
<1>1. CASE \/ \E dry \in BOOLEAN : BeginRun(dry)
           \/ TakeSnapshot \/ AlterTables \/ PassGates \/ Abort
           \/ UNCHANGED migrationVars
  BY <1>1 DEF BeginRun, TakeSnapshot, AlterTables, PassGates, Abort, Moves, migrationVars
<1>2. ASSUME NEW c \in Clients, NEW p \in Transfers, BeginPayment(c, p)
      PROVE  UNCHANGED invoices
  BY <1>2 DEF BeginPayment
<1>3. ASSUME NEW c \in Clients, CommitPayment(c)
      PROVE  UNCHANGED invoices \/ EditedAlone
  BY <1>3, DerivingEdits DEF CommitPayment, EditedAlone
<1>4. ASSUME NEW c \in Clients, NEW p \in Transfers, UndoPayment(c, p)
      PROVE  UNCHANGED invoices \/ EditedAlone
  BY <1>4, DerivingEdits DEF UndoPayment, EditedAlone
<1>5. ASSUME NEW c \in Clients, NEW i \in Archive, NEW d, EditInvoice(c, i, d)
      PROVE  EditedAlone
  <2>1. PICK r : r = [invoices[i] EXCEPT !.ccy = d.ccy, !.total = d.total]
    OBVIOUS
  <2>2. invoices' = [invoices EXCEPT ![i] = r]
    BY <1>5, <2>1 DEF EditInvoice, RowsAreSound
  <2>3. Edited(i, r)
    BY <2>1 DEF Edited, Alike, RowsAreSound, RowFields
  <2> QED
    BY <2>2, <2>3 DEF EditedAlone
<1> QED
  BY <1>1, <1>2, <1>3, <1>4, <1>5 DEF MigrationNext

\* The closing: a row of the manifest in the batch as what it is to be closed, any
\* other as it was; what it shows does not move
LEMMA Closes ==
  ASSUME RowsAreSound, Commit
  PROVE  /\ invoices' = [i \in Archive |-> invoices'[i]]
         /\ \A i \in Archive :
              /\ DOMAIN invoices'[i] = RowFields
              /\ invoices'[i].ccy = invoices[i].ccy /\ invoices'[i].total = invoices[i].total
              /\ invoices'[i].paid = invoices[i].paid /\ invoices'[i].status = invoices[i].status
              /\ \/ Alike(invoices'[i], invoices[i])
                 \/ i \in InManifest /\ invoices'[i].basis = Basis[i] /\ invoices'[i].batch = TRUE
<1>1. invoices' = Tagged /\ invoices' = [i \in Archive |-> invoices'[i]]
  BY DEF Commit, Tagged
<1>2. ASSUME NEW i \in Archive
      PROVE  \/ invoices'[i] = invoices[i]
             \/ /\ i \in InManifest
                /\ invoices'[i] = [invoices[i] EXCEPT !.origin = "migrated", !.basis = Basis[i],
                                                      !.batch = TRUE]
  BY <1>1 DEF Tagged
<1>3. ASSUME NEW i \in Archive
      PROVE  /\ DOMAIN invoices'[i] = RowFields
             /\ invoices'[i].ccy = invoices[i].ccy /\ invoices'[i].total = invoices[i].total
             /\ invoices'[i].paid = invoices[i].paid /\ invoices'[i].status = invoices[i].status
             /\ \/ Alike(invoices'[i], invoices[i])
                \/ i \in InManifest /\ invoices'[i].basis = Basis[i] /\ invoices'[i].batch = TRUE
  <2>1. DOMAIN invoices[i] = RowFields
    BY DEF RowsAreSound
  <2>2. CASE invoices'[i] = invoices[i]
    BY <2>1, <2>2 DEF Alike
  <2>3. CASE /\ i \in InManifest
             /\ invoices'[i] = [invoices[i] EXCEPT !.origin = "migrated", !.basis = Basis[i],
                                                   !.batch = TRUE]
    BY <2>1, <2>3 DEF RowFields
  <2> QED
    BY <1>2, <2>2, <2>3
<1> QED
  BY <1>1, <1>3

LEMMA Reopens ==
  ASSUME RowsAreSound, Rollback
  PROVE  /\ invoices' = [i \in Archive |-> invoices'[i]]
         /\ \A i \in Archive :
              /\ DOMAIN invoices'[i] = RowFields
              /\ invoices'[i].paid = invoices[i].paid /\ invoices'[i].status = invoices[i].status
              /\ invoices'[i].basis = "none" /\ invoices'[i].batch = FALSE
<1>1. invoices' = [i \in Archive |->
        IF invoices[i].batch
        THEN [invoices[i] EXCEPT !.origin = "operational", !.basis = "none", !.batch = FALSE]
        ELSE invoices[i]]
  BY DEF Rollback
<1>2. ASSUME NEW i \in Archive
      PROVE  /\ DOMAIN invoices'[i] = RowFields
             /\ invoices'[i].paid = invoices[i].paid /\ invoices'[i].status = invoices[i].status
             /\ invoices'[i].basis = "none" /\ invoices'[i].batch = FALSE
  <2>1. DOMAIN invoices[i] = RowFields /\ invoices[i].batch = (invoices[i].basis # "none")
    BY DEF RowsAreSound
  <2>2. CASE invoices[i].batch
    BY <1>1, <2>1, <2>2 DEF RowFields
  <2>3. CASE ~invoices[i].batch
    BY <1>1, <2>1, <2>3
  <2> QED
    BY <2>2, <2>3
<1> QED
  BY <1>1, <1>2

LEMMA RowsStaySound ==
  ASSUME RowsAreSound, [MigrationNext]_migrationVars PROVE RowsAreSound'
<1>1. CASE UNCHANGED invoices
  BY <1>1 DEF RowsAreSound
<1>2. CASE EditedAlone
  BY <1>2 DEF EditedAlone, Edited, Alike, RowsAreSound
<1>3. CASE Commit
  <2>1. ASSUME NEW i \in Archive
        PROVE  /\ DOMAIN invoices'[i] = RowFields
               /\ invoices'[i].basis \in {"none", "pre_system_settled", "credit_note"}
               /\ invoices'[i].batch = (invoices'[i].basis # "none")
    <3>1. DOMAIN invoices'[i] = RowFields
      BY <1>3, Closes
    <3>2. CASE Alike(invoices'[i], invoices[i])
      BY <3>1, <3>2 DEF Alike, RowsAreSound
    <3>3. CASE i \in InManifest /\ invoices'[i].basis = Basis[i] /\ invoices'[i].batch = TRUE
      <4>1. Basis[i] \in {"pre_system_settled", "credit_note"}
        BY <3>3, ArchiveAssumption DEF InManifest
      <4> QED
        BY <3>1, <3>3, <4>1
    <3> QED
      BY <1>3, <3>2, <3>3, Closes
  <2> QED
    BY <1>3, <2>1, Closes DEF RowsAreSound
<1>4. CASE Rollback
  BY <1>4, Reopens DEF RowsAreSound
<1> QED
  BY <1>1, <1>2, <1>3, <1>4, StepsOnRows

\* From its lock to its commit the run is alone
LEMMA LockHoldsOn ==
  ASSUME LockHolds, [MigrationNext]_migrationVars PROVE LockHolds'
<1>1. CASE UNCHANGED migrationVars
  BY <1>1 DEF LockHolds, migrationVars, NobodyInside, Gates, PaymentsOn, Document, SignatureOf
<1>2. CASE \/ \E dry \in BOOLEAN : BeginRun(dry)
           \/ TakeSnapshot \/ Abort \/ Commit \/ Rollback
  <2>1. "step" \in DOMAIN migration' /\ migration'.step \in {"begun", "snapshot", "off"}
    <3>1. CASE \E dry \in BOOLEAN : BeginRun(dry)
      BY <3>1 DEF BeginRun, Moves
    <3>2. CASE TakeSnapshot
      BY <3>2 DEF TakeSnapshot, Moves
    <3>3. CASE Abort \/ Commit \/ Rollback
      <4>1. migration' = Off
        BY <3>3 DEF Abort, Commit, Rollback, Moves
      <4> QED
        BY <4>1 DEF Off
    <3> QED
      BY <1>2, <3>1, <3>2, <3>3
  <2> QED
    BY <2>1 DEF LockHolds
<1>3. CASE AlterTables
  <2>1. "step" \in DOMAIN migration' /\ migration'.step = "altered"
    BY <1>3 DEF AlterTables, Moves, LockHolds
  <2>2. NobodyInside'
    BY <1>3 DEF AlterTables, Moves, NobodyInside
  <2> QED
    BY <2>1, <2>2 DEF LockHolds
<1>4. CASE PassGates
  <2>1. "step" \in DOMAIN migration' /\ migration'.step = "gated"
    BY <1>4 DEF PassGates, Moves, LockHolds
  <2>2. NobodyInside' /\ Gates'
    BY <1>4 DEF PassGates, Moves, NobodyInside, LockHolds, Gates, PaymentsOn, Document,
                SignatureOf
  <2> QED
    BY <2>1, <2>2 DEF LockHolds
<1>5. CASE \E c \in Clients :
             \/ \E p \in Transfers : BeginPayment(c, p) \/ UndoPayment(c, p)
             \/ \E i \in Archive : \E d \in Edits[i] : EditInvoice(c, i, d)
             \/ CommitPayment(c)
  <2>1. UNCHANGED migration /\ (Accessible \/ ~NobodyInside)
    <3>1. ASSUME NEW c \in Clients, NEW p, BeginPayment(c, p) \/ UndoPayment(c, p)
          PROVE  UNCHANGED migration /\ Accessible
      BY <3>1 DEF BeginPayment, UndoPayment
    <3>2. ASSUME NEW c \in Clients, NEW i, NEW d, EditInvoice(c, i, d)
          PROVE  UNCHANGED migration /\ Accessible
      BY <3>2 DEF EditInvoice
    <3>3. ASSUME NEW c \in Clients, CommitPayment(c)
          PROVE  UNCHANGED migration /\ ~NobodyInside
      <4>1. UNCHANGED migration /\ clients[c].step = "pay"
        BY <3>3 DEF CommitPayment
      <4>2. clients[c] # NoRequest
        BY <4>1 DEF NoRequest
      <4> QED
        BY <4>1, <4>2 DEF NobodyInside
    <3> QED
      BY <1>5, <3>1, <3>2, <3>3
  <2> QED
    BY <2>1 DEF LockHolds, Accessible
<1> QED
  BY <1>1, <1>2, <1>3, <1>4, <1>5 DEF MigrationNext

\* What the fingerprint counts does not move
LEMMA SameMoney ==
  ASSUME \A i \in Archive :
           /\ invoices'[i].ccy = invoices[i].ccy /\ invoices'[i].total = invoices[i].total
           /\ invoices'[i].paid = invoices[i].paid /\ invoices'[i].status = invoices[i].status
  PROVE  Fingerprint' = Fingerprint
<1>1. /\ [i \in Archive |-> invoices'[i].total] = [i \in Archive |-> invoices[i].total]
      /\ [i \in Archive |-> invoices'[i].paid] = [i \in Archive |-> invoices[i].paid]
  OBVIOUS
<1>2. {invoices'[i].ccy : i \in Archive} = {invoices[i].ccy : i \in Archive}
  OBVIOUS
<1> DEFINE
  of(rows, k) == {i \in Archive : rows[i].status = k[1] /\ rows[i].ccy = k[2]}
  counted(rows, k) ==
    [n |-> Cardinality(of(rows, k)),
     total |-> SumOf([i \in Archive |-> rows[i].total], of(rows, k)),
     paid |-> SumOf([i \in Archive |-> rows[i].paid], of(rows, k))]
  keys(rows) == {"unpaid", "partial", "paid"} \X {rows[i].ccy : i \in Archive}
  shown(rows) == [k \in keys(rows) |-> counted(rows, k)]
<1>3. \A k : of(invoices', k) = of(invoices, k)
  OBVIOUS
<1>4. \A k : counted(invoices', k) = counted(invoices, k)
  <2> HIDE DEF of
  <2> QED
    BY <1>1, <1>3
<1>5. keys(invoices') = keys(invoices)
  BY <1>2
<1>6. shown(invoices') = shown(invoices)
  <2> HIDE DEF counted, keys
  <2> QED
    BY <1>4, <1>5
<1>7. Fingerprint = shown(invoices) /\ Fingerprint' = shown(invoices')
  BY DEF Fingerprint
<1> QED
  BY <1>6, <1>7

ClosedAsApproved ==
  (\E i \in Archive : invoices[i].basis = "none" /\ invoices'[i].basis # "none") =>
    /\ {i \in Archive : invoices'[i].basis # "none"} = InManifest
    /\ \A i \in InManifest :
         /\ Document(i)' = Manifest[i] /\ PaymentsOn(i)' = {}
         /\ invoices'[i].basis = Basis[i]
    /\ Fingerprint' = Fingerprint
StaysClosed ==
  \A i \in Archive :
    (invoices[i].basis # "none" /\ invoices'[i].basis # "none") =>
      /\ invoices'[i].paid = invoices[i].paid
      /\ invoices'[i].status = invoices[i].status

LEMMA Closing ==
  ASSUME MigrationInv, [MigrationNext]_migrationVars PROVE ClosedAsApproved /\ StaysClosed
<1>1. RowsAreSound /\ LockHolds
  BY DEF MigrationInv
<1>2. CASE UNCHANGED invoices
  BY <1>2 DEF ClosedAsApproved, StaysClosed
<1>3. CASE EditedAlone
  BY <1>1, <1>3 DEF EditedAlone, Edited, Alike, RowsAreSound, ClosedAsApproved, StaysClosed
<1>4. CASE Rollback
  BY <1>1, <1>4, Reopens DEF ClosedAsApproved, StaysClosed
<1>5. CASE Commit
  <2>1. Gates /\ Valid(migration) /\ invoices' = Tagged /\ UNCHANGED payments
    BY <1>1, <1>5 DEF Commit, LockHolds
  <2>2. RowsAreSound'
    BY <1>1, <1>5, RowsStaySound DEF MigrationNext
  <2>3. {i \in Archive : invoices'[i].basis # "none"} = InManifest
    <3>1. {i \in Archive : invoices'[i].batch} = InManifest
      BY <2>1 DEF Valid
    <3> QED
      BY <2>2, <3>1 DEF RowsAreSound
  <2>4. ASSUME NEW i \in InManifest
        PROVE  /\ Document(i)' = Manifest[i] /\ PaymentsOn(i)' = {}
               /\ invoices'[i].basis = Basis[i]
    <3>1. i \in Archive /\ Document(i) = Manifest[i] /\ PaymentsOn(i) = {}
      BY <2>1, <2>3 DEF Gates
    <3>2. Document(i)' = Document(i)
      BY <1>1, <1>5, <3>1, Closes DEF Document
    <3>3. PaymentsOn(i)' = PaymentsOn(i)
      BY <2>1 DEF PaymentsOn
    <3>4. invoices'[i].basis = Basis[i]
      BY <2>1 DEF Valid
    <3> QED
      BY <3>1, <3>2, <3>3, <3>4
  <2>5. Fingerprint' = Fingerprint
    BY <1>1, <1>5, Closes, SameMoney
  <2> QED
    BY <1>1, <1>5, <2>3, <2>4, <2>5, Closes DEF ClosedAsApproved, StaysClosed
<1> QED
  BY <1>1, <1>2, <1>3, <1>4, <1>5, StepsOnRows

\* What the migration closes is the manifest as it was approved, all of it at once,
\* with no payment on it and no figure moved, for any invoices, manifest, payments
\* and clients that pay and edit between the steps of the run; a closed invoice keeps
\* what it shows
THEOREM MigrationStands == MigrationSpec => LegacySettlementsStand
<1>1. MigrationInit => MigrationInv
  <2> SUFFICES ASSUME MigrationInit PROVE MigrationInv
    OBVIOUS
  <2>1. RowsAreSound
    BY ArchiveAssumption DEF MigrationInit, RowsAreSound
  <2>2. LockHolds
    BY DEF MigrationInit, LockHolds, Off
  <2> QED
    BY <2>1, <2>2 DEF MigrationInv
<1>2. MigrationInv /\ [MigrationNext]_migrationVars => MigrationInv'
  BY RowsStaySound, LockHoldsOn DEF MigrationInv
<1>3. MigrationInv /\ [MigrationNext]_migrationVars
        => [ClosedAsApproved /\ StaysClosed]_migrationVars
  BY Closing
<1> QED
  BY <1>1, <1>2, <1>3, PTL DEF MigrationSpec, LegacySettlementsStand, ClosedAsApproved,
                               StaysClosed

----------------------------------------------------------------------------
(* The costs of a vessel *)

CostFields ==
  {"id", "key", "code", "doc", "amount", "date", "source", "category", "charged", "months"}
SameLine(r, s) == Line(r) = Line(s) /\ r.source = s.source /\ r.date = s.date
Follows(r) ==
  r.code \in DOMAIN rules =>
    r.category = rules[r.code].category /\ r.charged = rules[r.code].charged

\* The rows that an admin has classified again and not yet saved
Reapplying(a) == admin[a] # Unset /\ admin[a].op = "reapply"
Held(a) == IF Reapplying(a) THEN admin[a].rows ELSE {}
Known == costs \cup UNION {Held(a) : a \in Admins}

\* A row, in the table or in hand, is a line under an identifier that was given; no
\* two lines ever have the same one
Sound(r) ==
  /\ DOMAIN r = CostFields
  /\ r.id \in Nat /\ r.id <= numbers
  /\ r.key = Line(r)
  /\ r.source = "quickbooks" /\ ~r.charged => r.months = Unset
CostsAreSound ==
  /\ numbers \in Nat
  /\ \A r \in Known : Sound(r)
  /\ \A r, s \in Known : r.id = s.id => SameLine(r, s)
Once ==
  /\ \A r, s \in costs : r.id = s.id \/ r.key = s.key => r = s
  /\ \A a \in Admins : \A r, s \in Held(a) : r.id = s.id => r = s

\* What a plan is: the lines of its file that were not there
Plans ==
  /\ admin = [a \in Admins |-> admin[a]]
  /\ \A a \in Admins : admin[a] # Unset /\ admin[a].op = "commit" =>
       /\ admin[a].file \in Files
       /\ admin[a].new = {k \in DOMAIN admin[a].file.lines :
            /\ InTime(admin[a].file, admin[a].file.lines[k])
            /\ dedupeKey(admin[a].file.lines[k]) \notin admin[a].had}

\* While rows are classified again, what is not in hand follows the rules already
Ruling ==
  \A a \in Admins :
    /\ \A r \in Held(a) : r.source = "quickbooks" /\ Follows(r)
    /\ Reapplying(a) =>
         \A r \in costs : r.source = "quickbooks" =>
           Follows(r) \/ \E s \in Held(a) : s.id = r.id

CostInv == CostsAreSound /\ Once /\ Plans /\ Ruling

\* New rows: each under an identifier of its own, by the rules of the program
Fresh(rows) ==
  /\ \A r \in rows :
       /\ DOMAIN r = CostFields
       /\ r.id \in Nat /\ numbers < r.id /\ r.key = Line(r)
       /\ r.source = "quickbooks" => Follows(r) /\ (~r.charged => r.months = Unset)
  /\ \A r, s \in rows : r.id = s.id => r = s
  /\ \E n \in Nat : \A r \in rows : r.id <= n

LEMMA Inserting ==
  ASSUME CostInv, NEW a \in Admins, NEW rows, Fresh(rows), ~Reapplying(a), Insert(a, rows)
  PROVE  CostInv' /\ \A r \in costs, s \in costs' : r.id = s.id => SameLine(r, s)
<1>1. /\ costs' = costs \/ (Admits(rows) /\ costs' = costs \cup rows)
      /\ numbers' = Max({numbers} \cup {r.id : r \in rows})
      /\ admin' = [admin EXCEPT ![a] = Unset] /\ rules' = rules
  BY DEF Insert, Done
<1>2. numbers \in Nat
  BY DEF CostInv, CostsAreSound
<1>3. numbers' \in Nat /\ numbers <= numbers' /\ \A r \in rows : r.id <= numbers'
  <2>1. PICK n \in Nat : \A r \in rows : r.id <= n
    BY DEF Fresh
  <2>2. PICK S : S = {numbers} \cup {r.id : r \in rows}
    OBVIOUS
  <2>3. S # {} /\ S \subseteq 0..(n + numbers)
    BY <1>2, <2>1, <2>2 DEF Fresh
  <2>4. Max(S) \in S /\ \A x \in S : Max(S) >= x
    <3>1. PICK m \in Nat : m = n + numbers
      BY <1>2
    <3> QED
      BY <2>3, <3>1, MaxIsGreatest
  <2> QED
    BY <1>1, <1>2, <2>2, <2>3, <2>4
<1>4. \A b \in Admins : admin'[b] = IF b = a THEN Unset ELSE admin[b]
  BY <1>1 DEF CostInv, Plans
<1>5. \A b \in Admins : /\ Held(b)' = Held(b)
                        /\ Reapplying(b)' => Reapplying(b)
  BY <1>4 DEF Held, Reapplying
<1>6. Known' \subseteq Known \cup rows /\ Known \subseteq Known'
  BY <1>1, <1>5 DEF Known
<1>7. CostsAreSound'
  <2>1. ASSUME NEW r \in Known' PROVE Sound(r)'
    <3>1. CASE r \in Known
      BY <1>2, <1>3, <3>1 DEF CostInv, CostsAreSound, Sound, Line
    <3>2. CASE r \in rows
      BY <1>2, <1>3, <3>2 DEF Fresh, Sound, Line
    <3> QED
      BY <1>6, <3>1, <3>2
  <2>2. ASSUME NEW r \in Known', NEW s \in Known', r.id = s.id PROVE SameLine(r, s)
    <3>1. CASE r \in Known /\ s \in Known
      BY <2>2, <3>1 DEF CostInv, CostsAreSound
    <3>2. CASE r \in rows /\ s \in rows
      BY <2>2, <3>2 DEF Fresh, SameLine
    <3>3. ASSUME NEW q \in Known, NEW w \in rows PROVE q.id # w.id
      BY <1>2, <3>3 DEF CostInv, CostsAreSound, Sound, Fresh
    <3> QED
      BY <1>6, <2>2, <3>1, <3>2, <3>3
  <2> QED
    BY <1>3, <2>1, <2>2 DEF CostsAreSound, SameLine, Line
<1>8. Once'
  <2>1. ASSUME NEW r \in costs', NEW s \in costs', r.id = s.id \/ r.key = s.key PROVE r = s
    <3>1. CASE costs' = costs
      BY <2>1, <3>1 DEF CostInv, Once
    <3>2. CASE Admits(rows) /\ costs' = costs \cup rows
      <4>1. \A q \in costs, w \in rows : q.id # w.id
        BY <1>2 DEF CostInv, CostsAreSound, Sound, Fresh, Known
      <4>2. r.id = s.id
        BY <2>1, <3>2 DEF Admits
      <4>3. CASE r \in costs /\ s \in costs
        BY <4>2, <4>3 DEF CostInv, Once
      <4>4. CASE r \in rows /\ s \in rows
        BY <4>2, <4>4 DEF Fresh
      <4> QED
        BY <3>2, <4>1, <4>2, <4>3, <4>4
    <3> QED
      BY <1>1, <3>1, <3>2
  <2> QED
    BY <1>5, <2>1 DEF CostInv, Once
<1>9. Plans'
  BY <1>1, <1>4 DEF CostInv, Plans, InTime, dedupeKey
<1>10. Ruling'
  <2>1. ASSUME NEW r PROVE Follows(r)' = Follows(r)
    BY <1>1 DEF Follows
  <2> QED
    BY <1>1, <1>5, <2>1 DEF CostInv, Ruling, Fresh
<1>11. \A r \in costs, s \in costs' : r.id = s.id => SameLine(r, s)
  <2>1. costs \subseteq Known' /\ costs' \subseteq Known'
    BY <1>6 DEF Known
  <2> QED
    BY <1>7, <2>1 DEF CostsAreSound, SameLine, Line
<1> QED
  BY <1>7, <1>8, <1>9, <1>10, <1>11 DEF CostInv

\* A line becomes a row by the rules
LEMMA CostByRule ==
  ASSUME NEW n, NEW line, NEW r, r = Cost(n, line, "quickbooks", classify(line))
  PROVE  /\ DOMAIN r = CostFields /\ r.id = n /\ r.key = Line(r) /\ r.key = dedupeKey(line)
         /\ Follows(r) /\ (~r.charged => r.months = Unset)
<1>1. /\ r.id = n /\ r.key = dedupeKey(line) /\ DOMAIN r = CostFields
      /\ r.code = line.code /\ r.doc = line.doc /\ r.amount = line.amount
      /\ r.category = classify(line).category /\ r.charged = classify(line).charged
      /\ r.months = classify(line).months
  BY DEF Cost, CostFields
<1>2. CASE line.code \notin DOMAIN rules
  BY <1>1, <1>2 DEF classify, Follows, Line, dedupeKey
<1>3. CASE line.code \in DOMAIN rules
  <2>1. /\ r.category = rules[line.code].category /\ r.charged = rules[line.code].charged
        /\ r.months = IF rules[line.code].charged THEN line.months ELSE Unset
    BY <1>1, <1>3 DEF classify
  <2> QED
    BY <1>1, <2>1 DEF Follows, Line, dedupeKey
<1> QED
  BY <1>2, <1>3

LEMMA DraftedFresh ==
  ASSUME CostInv, NEW a \in Admins, admin[a] # Unset, admin[a].op = "commit"
  PROVE  Fresh(Drafted(a))
<1>1. PICK lines : lines = admin[a].file.lines
  OBVIOUS
<1>2. DOMAIN lines = 1..Len(lines) /\ Len(lines) \in Nat /\ admin[a].new \subseteq DOMAIN lines
  <2>1. admin[a].file \in Files /\ admin[a].new \subseteq DOMAIN lines
    BY <1>1 DEF CostInv, Plans
  <2>2. lines \in Seq({lines[k] : k \in DOMAIN lines})
    BY <1>1, <2>1, CostAssumption
  <2> QED
    BY <2>1, <2>2
<1>3. numbers \in Nat
  BY DEF CostInv, CostsAreSound
<1>4. ASSUME NEW r \in Drafted(a)
      PROVE  \E k \in admin[a].new :
               /\ r.id = numbers + k
               /\ r = Cost(numbers + k, lines[k], "quickbooks", classify(lines[k]))
               /\ DOMAIN r = CostFields /\ r.key = Line(r)
               /\ Follows(r) /\ (~r.charged => r.months = Unset)
  <2>1. PICK k \in admin[a].new :
          r = Cost(numbers + k, lines[k], "quickbooks", classify(lines[k]))
    BY <1>1 DEF Drafted
  <2> QED
    BY <2>1, CostByRule
<1>5. \A r \in Drafted(a) :
        /\ DOMAIN r = CostFields /\ r.id \in Nat /\ numbers < r.id /\ r.key = Line(r)
        /\ r.source = "quickbooks" => Follows(r) /\ (~r.charged => r.months = Unset)
        /\ r.id <= numbers + Len(lines)
  BY <1>2, <1>3, <1>4
<1>6. ASSUME NEW r \in Drafted(a), NEW s \in Drafted(a), r.id = s.id PROVE r = s
  <2>1. PICK j \in admin[a].new :
          r.id = numbers + j /\ r = Cost(numbers + j, lines[j], "quickbooks", classify(lines[j]))
    BY <1>4
  <2>2. PICK k \in admin[a].new :
          s.id = numbers + k /\ s = Cost(numbers + k, lines[k], "quickbooks", classify(lines[k]))
    BY <1>4
  <2>3. j = k
    <3>1. j \in Nat /\ k \in Nat
      BY <1>2
    <3>2. numbers + j = numbers + k
      BY <1>6, <2>1, <2>2
    <3>3. \A l, m, n \in Nat : l + m = l + n => m = n
      OBVIOUS
    <3> QED
      BY <1>3, <3>1, <3>2, <3>3
  <2> QED
    BY <2>1, <2>2, <2>3
<1>7. PICK n \in Nat : n = numbers + Len(lines)
  BY <1>2, <1>3
<1> QED
  BY <1>5, <1>6, <1>7 DEF Fresh

LEMMA ManualFresh ==
  ASSUME CostInv, NEW line, NEW c
  PROVE  Fresh({Cost(numbers + 1, line, "manual", c)})
<1>1. PICK r : r = Cost(numbers + 1, line, "manual", c)
  OBVIOUS
<1>2. /\ DOMAIN r = CostFields /\ r.id = numbers + 1 /\ r.source = "manual"
      /\ r.key = Line(r)
  BY <1>1 DEF Cost, CostFields, Line, dedupeKey
<1>3. numbers \in Nat /\ numbers + 1 \in Nat
  BY DEF CostInv, CostsAreSound
<1> QED
  BY <1>1, <1>2, <1>3 DEF Fresh

\* Classifying a row again leaves the line it is
LEMMA ReclassifiedRow ==
  ASSUME CostInv, NEW r \in Books, NEW s, s = Reclassified(r)
  PROVE  /\ Sound(s) /\ s.id = r.id /\ SameLine(r, s)
         /\ s.source = "quickbooks" /\ Follows(s)
<1>1. r \in costs /\ r.source = "quickbooks" /\ Sound(r)
  BY DEF Books, CostInv, CostsAreSound, Known
<1>2. CASE ~Ruled(r)
  BY <1>1, <1>2 DEF Reclassified, Ruled, Follows, SameLine
<1>3. CASE Ruled(r)
  <2>1. s = [r EXCEPT !.category = rules[r.code].category, !.charged = rules[r.code].charged,
                 !.months = IF rules[r.code].charged THEN @ ELSE Unset]
    BY <1>3 DEF Reclassified
  <2>2. DOMAIN r = CostFields
    BY <1>1 DEF Sound
  <2>3. /\ DOMAIN s = CostFields /\ s.id = r.id /\ s.key = r.key /\ s.code = r.code
        /\ s.doc = r.doc /\ s.amount = r.amount /\ s.source = r.source /\ s.date = r.date
    BY <2>1, <2>2 DEF CostFields
  <2>4. /\ s.category = rules[r.code].category /\ s.charged = rules[r.code].charged
        /\ s.months = IF rules[r.code].charged THEN r.months ELSE Unset
    BY <2>1, <2>2 DEF CostFields
  <2> QED
    BY <1>1, <2>3, <2>4 DEF Sound, Follows, SameLine, Line
<1> QED
  BY <1>2, <1>3

\* A request is taken up: it holds what it has read
LEMMA TakingUp ==
  ASSUME CostInv, NEW a \in Admins, BeginCommit(a) \/ BeginManual(a) \/ BeginReapply(a)
  PROVE  CostInv'
<1>1. PICK q : /\ Accept(a, q)
               /\ \/ /\ q.op = "commit" /\ q.file \in Files
                     /\ q.new = New(q.file) /\ q.had = KeysOf(costs)
                  \/ q.op = "manual"
                  \/ q.op = "reapply" /\ q.rows = {Reclassified(r) : r \in Books}
  <2>1. CASE BeginCommit(a)
    <3>1. PICK file \in Files :
            Accept(a, [op |-> "commit", file |-> file, new |-> New(file), had |-> KeysOf(costs)])
      BY <2>1 DEF BeginCommit
    <3> QED
      BY <3>1
  <2>2. CASE BeginManual(a)
    <3>1. PICK line : Accept(a, [op |-> "manual", line |-> line])
      BY <2>2 DEF BeginManual
    <3> QED
      BY <3>1
  <2>3. CASE BeginReapply(a)
    <3>1. Accept(a, [op |-> "reapply", rows |-> {Reclassified(r) : r \in Books}])
      BY <2>3 DEF BeginReapply
    <3> QED
      BY <3>1
  <2> QED
    BY <2>1, <2>2, <2>3
<1>2. /\ admin[a] = Unset /\ admin' = [admin EXCEPT ![a] = q]
      /\ costs' = costs /\ rules' = rules /\ numbers' = numbers
  BY <1>1 DEF Accept, Resting
<1>3. \A b \in Admins : admin'[b] = IF b = a THEN q ELSE admin[b]
  BY <1>2 DEF CostInv, Plans
<1>4. /\ \A b \in Admins \ {a} : Held(b)' = Held(b) /\ Reapplying(b)' = Reapplying(b)
      /\ Held(a)' = {} \/ Held(a)' = {Reclassified(r) : r \in Books}
      /\ Reapplying(a)' => Held(a)' = {Reclassified(r) : r \in Books}
  BY <1>1, <1>3 DEF Held, Reapplying
<1>5. ASSUME NEW s \in Held(a)'
      PROVE  \E r \in Books : /\ s = Reclassified(r) /\ Sound(s) /\ s.id = r.id /\ SameLine(r, s)
                              /\ s.source = "quickbooks" /\ Follows(s)
  BY <1>4, <1>5, ReclassifiedRow
<1>6. \A r : Sound(r)' = Sound(r) /\ Follows(r)' = Follows(r)
  BY <1>2 DEF Sound, Follows, Line
<1>7. \A s \in Known' : s \in Known \/ s \in Held(a)'
  BY <1>2, <1>4 DEF Known
<1>8. CostsAreSound'
  <2>1. \A s \in Known' : \E r \in Known : Sound(s) /\ r.id = s.id /\ SameLine(r, s)
    BY <1>5, <1>7 DEF CostInv, CostsAreSound, Known, Books, SameLine
  <2> QED
    BY <1>2, <1>6, <2>1 DEF CostInv, CostsAreSound, SameLine, Line
<1>9. Once'
  <2>1. \A r, s \in Held(a)' : r.id = s.id => r = s
    BY <1>5 DEF CostInv, Once, Books
  <2> QED
    BY <1>2, <1>4, <2>1 DEF CostInv, Once
<1>10. Plans'
  BY <1>1, <1>2, <1>3, SMTT(60) DEF CostInv, Plans, New, InTime, dedupeKey
<1>11. Ruling'
  <2>1. \A s \in Held(a)' : s.source = "quickbooks" /\ Follows(s)
    BY <1>5
  <2>2. Reapplying(a)' =>
          \A r \in costs : r.source = "quickbooks" => \E s \in Held(a)' : s.id = r.id
    <3>1. ASSUME Reapplying(a)', NEW r \in costs, r.source = "quickbooks"
          PROVE  \E s \in Held(a)' : s.id = r.id
      <4>1. r \in Books /\ Reclassified(r) \in Held(a)'
        BY <1>4, <3>1 DEF Books
      <4> QED
        BY <4>1, ReclassifiedRow
    <3> QED
      BY <3>1
  <2> QED
    BY <1>2, <1>4, <1>6, <2>1, <2>2 DEF CostInv, Ruling
<1> QED
  BY <1>8, <1>9, <1>10, <1>11 DEF CostInv

\* Rows that were in hand go back to the table
LEMMA Saving ==
  ASSUME CostInv, NEW a \in Admins, WriteReapply(a)
  PROVE  /\ CostInv'
         /\ \A r \in costs, s \in costs' : r.id = s.id => SameLine(r, s)
         /\ costs' # costs => \A r \in costs' : r.source = "quickbooks" => Follows(r)
<1>1. PICK rows : rows = admin[a].rows
  OBVIOUS
<1>2. /\ Reapplying(a) /\ Held(a) = rows
      /\ \/ costs' = costs
         \/ Admits(rows) /\ costs' = {r \in costs : \A s \in rows : s.id # r.id} \cup rows
      /\ admin' = [admin EXCEPT ![a] = Unset] /\ rules' = rules /\ numbers' = numbers
  BY <1>1 DEF WriteReapply, Resting, Reapplying, Held, Done
<1>3. \A b \in Admins : admin'[b] = IF b = a THEN Unset ELSE admin[b]
  BY <1>2 DEF CostInv, Plans
<1>4. \A b \in Admins : /\ Reapplying(b)' => Reapplying(b) /\ Held(b)' = Held(b)
                        /\ Held(b)' = {} \/ Held(b)' = Held(b)
  BY <1>3 DEF Held, Reapplying
<1>5. Known' \subseteq Known /\ costs \subseteq Known
  BY <1>2, <1>4 DEF Known
<1>6. \A r : Sound(r)' = Sound(r) /\ Follows(r)' = Follows(r)
  BY <1>2 DEF Sound, Follows, Line
<1>7. CostsAreSound'
  BY <1>2, <1>5, <1>6 DEF CostInv, CostsAreSound, SameLine, Line
<1>8. Once'
  <2>1. ASSUME NEW r \in costs', NEW s \in costs', r.id = s.id \/ r.key = s.key PROVE r = s
    <3>1. CASE costs' = costs
      BY <2>1, <3>1 DEF CostInv, Once
    <3>2. CASE Admits(rows) /\ costs' = {q \in costs : \A w \in rows : w.id # q.id} \cup rows
      <4>1. r.id = s.id \/ r = s
        BY <2>1, <3>2 DEF Admits
      <4>2. CASE r \in costs /\ s \in costs
        BY <4>1, <4>2 DEF CostInv, Once
      <4>3. CASE r \in rows /\ s \in rows
        BY <1>2, <4>1, <4>3 DEF CostInv, Once
      <4> QED
        BY <3>2, <4>1, <4>2, <4>3
    <3> QED
      BY <1>2, <3>1, <3>2
  <2>2. \A b \in Admins : \A r, s \in Held(b)' : r.id = s.id => r = s
    BY <1>4 DEF CostInv, Once
  <2> QED
    BY <2>1, <2>2 DEF Once
<1>9. Plans'
  BY <1>2, <1>3 DEF CostInv, Plans, InTime, dedupeKey
<1>10. \A r \in rows : r.source = "quickbooks" /\ Follows(r)
  BY <1>2 DEF CostInv, Ruling
<1>11. costs' # costs => \A r \in costs' : r.source = "quickbooks" => Follows(r)
  BY <1>2, <1>10 DEF CostInv, Ruling
<1>12. Ruling'
  <2>1. ASSUME NEW b \in Admins, NEW r \in Held(b)' PROVE r.source = "quickbooks" /\ Follows(r)'
    BY <1>4, <1>6, <2>1 DEF CostInv, Ruling
  <2>2. ASSUME NEW b \in Admins, Reapplying(b)', NEW r \in costs', r.source = "quickbooks"
        PROVE  Follows(r)' \/ \E s \in Held(b)' : s.id = r.id
    BY <1>4, <1>6, <1>11, <2>2 DEF CostInv, Ruling
  <2> QED
    BY <2>1, <2>2 DEF Ruling
<1>13. \A r \in costs, s \in costs' : r.id = s.id => SameLine(r, s)
  <2>1. costs' \subseteq Known
    BY <1>5 DEF Known
  <2> QED
    BY <1>5, <2>1 DEF CostInv, CostsAreSound
<1> QED
  BY <1>7, <1>8, <1>9, <1>11, <1>12, <1>13 DEF CostInv

\* Rows go, or the rules change and every request with them
LEMMA Going ==
  ASSUME CostInv, RemoveCost \/ Deploy \/ UNCHANGED costVars
  PROVE  CostInv' /\ \A r \in costs, s \in costs' : r.id = s.id => SameLine(r, s)
<1>1. /\ costs' \subseteq costs /\ numbers' = numbers
      /\ \/ admin' = admin /\ rules' = rules
         \/ admin' = [b \in Admins |-> Unset]
  BY DEF RemoveCost, Deploy, costVars
<1>2. \A b \in Admins : /\ admin'[b] = Unset \/ (admin'[b] = admin[b] /\ rules' = rules)
                        /\ admin' = [c \in Admins |-> admin'[c]]
  BY <1>1 DEF CostInv, Plans
<1>3. \A b \in Admins : /\ Reapplying(b)' => Reapplying(b) /\ Held(b)' = Held(b) /\ rules' = rules
                        /\ Held(b)' = {} \/ (Held(b)' = Held(b) /\ rules' = rules)
  BY <1>2 DEF Held, Reapplying
<1>4. Known' \subseteq Known
  BY <1>1, <1>3 DEF Known
<1>5. \A r : Sound(r)' = Sound(r) /\ (rules' = rules => Follows(r)' = Follows(r))
  BY <1>1 DEF Sound, Follows, Line
<1>6. CostsAreSound'
  BY <1>1, <1>4, <1>5 DEF CostInv, CostsAreSound, SameLine, Line
<1>7. Once'
  BY <1>1, <1>3 DEF CostInv, Once
<1>8. Plans'
  BY <1>1, <1>2 DEF CostInv, Plans, InTime, dedupeKey
<1>9. Ruling'
  BY <1>1, <1>3, <1>5 DEF CostInv, Ruling
<1>10. \A r \in costs, s \in costs' : r.id = s.id => SameLine(r, s)
  <2>1. costs \subseteq Known
    BY DEF Known
  <2> QED
    BY <1>1, <2>1 DEF CostInv, CostsAreSound
<1> QED
  BY <1>6, <1>7, <1>8, <1>9, <1>10 DEF CostInv

\* Where a row may come from, and what every step keeps
LEMMA CostsStay ==
  ASSUME CostInv, [CostNext]_costVars
  PROVE  CostInv' /\ \A r \in costs, s \in costs' : r.id = s.id => SameLine(r, s)
<1>1. ASSUME NEW a \in Admins, BeginCommit(a) \/ BeginManual(a) \/ BeginReapply(a)
      PROVE  CostInv' /\ \A r \in costs, s \in costs' : r.id = s.id => SameLine(r, s)
  <2>1. CostInv'
    BY <1>1, TakingUp
  <2>2. costs' = costs
    BY <1>1 DEF BeginCommit, BeginManual, BeginReapply, Accept
  <2> QED
    BY <2>1, <2>2 DEF CostInv, CostsAreSound, Known
<1>2. ASSUME NEW a \in Admins, WriteCommit(a)
      PROVE  CostInv' /\ \A r \in costs, s \in costs' : r.id = s.id => SameLine(r, s)
  <2>1. admin[a] # Unset /\ admin[a].op = "commit" /\ Insert(a, Drafted(a))
    BY <1>2 DEF WriteCommit, Resting
  <2>2. Fresh(Drafted(a)) /\ ~Reapplying(a)
    BY <2>1, DraftedFresh DEF Reapplying
  <2> QED
    BY <2>1, <2>2, Inserting
<1>3. ASSUME NEW a \in Admins, WriteManual(a)
      PROVE  CostInv' /\ \A r \in costs, s \in costs' : r.id = s.id => SameLine(r, s)
  <2>1. PICK rows : Fresh(rows) /\ Insert(a, rows)
    BY <1>3, ManualFresh DEF WriteManual
  <2>2. ~Reapplying(a)
    BY <1>3 DEF WriteManual, Reapplying
  <2> QED
    BY <2>1, <2>2, Inserting
<1> QED
  BY <1>1, <1>2, <1>3, Saving, Going DEF CostNext

RowsStandOnce ==
  /\ \A r, s \in costs' : Line(r) = Line(s) => r = s
  /\ \A r \in costs, s \in costs' : r.id = s.id =>
       Line(r) = Line(s) /\ r.source = s.source /\ r.date = s.date
  /\ \A r \in costs' : r.source = "quickbooks" /\ ~r.charged => r.months = Unset
CommitAdds ==
  \A a \in Admins : Finished(a, "commit") =>
    /\ costs \subseteq costs' /\ \A r \in Vanished(admin[a].file) : r \in costs'
    /\ costs' # costs =>
         \A k \in DOMAIN admin[a].file.lines :
           LET line == admin[a].file.lines[k] IN
           InTime(admin[a].file, line) =>
             dedupeKey(line) \in KeysOf(costs') \cup admin[a].had
ReapplyRules ==
  \A a \in Admins : Finished(a, "reapply") /\ costs' # costs =>
    \A r \in costs' : r.source = "quickbooks" /\ r.code \in DOMAIN rules =>
      r.category = rules[r.code].category /\ r.charged = rules[r.code].charged

\* Which step finishes a request
LEMMA WhoFinishes ==
  ASSUME CostInv, [CostNext]_costVars, NEW a \in Admins, NEW op, Finished(a, op)
  PROVE  /\ op = "commit" => WriteCommit(a)
         /\ op = "reapply" => WriteReapply(a)
<1>1. admin[a] # Unset /\ admin[a].op = op /\ admin'[a] = Unset /\ rules' = rules
  BY DEF Finished
<1>2. ASSUME NEW b \in Admins, NEW q, admin' = [admin EXCEPT ![b] = q] PROVE a = b
  BY <1>1, <1>2
<1>3. ~(RemoveCost \/ Deploy \/ UNCHANGED costVars)
  BY <1>1 DEF RemoveCost, Deploy, costVars
<1>4. ASSUME NEW b \in Admins PROVE ~(BeginCommit(b) \/ BeginManual(b) \/ BeginReapply(b))
  BY <1>1, <1>2 DEF BeginCommit, BeginManual, BeginReapply, Accept, Resting
<1>5. ASSUME NEW b \in Admins, WriteCommit(b) \/ WriteManual(b) \/ WriteReapply(b) PROVE a = b
  BY <1>2, <1>5 DEF WriteCommit, WriteManual, WriteReapply, Insert, Done
<1>6. /\ WriteCommit(a) => admin[a].op = "commit"
      /\ WriteManual(a) => admin[a].op = "manual"
      /\ WriteReapply(a) => admin[a].op = "reapply"
  BY DEF WriteCommit, WriteManual, WriteReapply
<1> QED
  BY <1>1, <1>3, <1>4, <1>5, <1>6 DEF CostNext

LEMMA RowsStand ==
  ASSUME CostInv, [CostNext]_costVars PROVE RowsStandOnce
<1>1. CostInv' /\ \A r \in costs, s \in costs' : r.id = s.id => SameLine(r, s)
  BY CostsStay
<1>2. \A r \in costs' : Sound(r)'
  BY <1>1 DEF CostInv, CostsAreSound, Known
<1> QED
  BY <1>1, <1>2 DEF RowsStandOnce, CostInv, Once, Sound, SameLine, Line

LEMMA CommitsAdd ==
  ASSUME CostInv, [CostNext]_costVars PROVE CommitAdds
<1>1. SUFFICES ASSUME NEW a \in Admins, Finished(a, "commit")
               PROVE  /\ costs \subseteq costs' /\ \A r \in Vanished(admin[a].file) : r \in costs'
                      /\ costs' # costs =>
                           \A k \in DOMAIN admin[a].file.lines :
                             InTime(admin[a].file, admin[a].file.lines[k]) =>
                               dedupeKey(admin[a].file.lines[k])
                                 \in KeysOf(costs') \cup admin[a].had
  BY DEF CommitAdds
<1>2. admin[a] # Unset /\ admin[a].op = "commit" /\ Insert(a, Drafted(a))
  BY <1>1, WhoFinishes DEF WriteCommit, Finished
<1>3. costs' = costs \/ costs' = costs \cup Drafted(a)
  BY <1>2 DEF Insert
<1>4. Vanished(admin[a].file) \subseteq costs
  BY DEF Vanished, Books
<1>5. ASSUME costs' # costs, NEW k \in DOMAIN admin[a].file.lines,
             InTime(admin[a].file, admin[a].file.lines[k]),
             dedupeKey(admin[a].file.lines[k]) \notin admin[a].had
      PROVE  dedupeKey(admin[a].file.lines[k]) \in KeysOf(costs')
  <2>1. k \in admin[a].new
    BY <1>2, <1>5 DEF CostInv, Plans
  <2>2. PICK r : r = Cost(numbers + k, admin[a].file.lines[k], "quickbooks",
                          classify(admin[a].file.lines[k]))
    OBVIOUS
  <2>3. r \in costs'
    BY <1>3, <1>5, <2>1, <2>2 DEF Drafted
  <2>4. r.key = dedupeKey(admin[a].file.lines[k])
    BY <2>2 DEF Cost
  <2> QED
    BY <2>3, <2>4 DEF KeysOf
<1> QED
  BY <1>3, <1>4, <1>5

\* The costs of a vessel stand once, each under its line, whatever files come again
\* and whatever is entered, removed and classified between the reading and the
\* writing of a request, for any files, rules and admins: from the invariant CostInv
THEOREM CostsStand == CostSpec => CostsStandOnce
<1>1. CostInit => CostInv
  <2> SUFFICES ASSUME CostInit PROVE CostInv
    OBVIOUS
  <2>1. \A a \in Admins : ~Reapplying(a) /\ Held(a) = {}
    BY DEF CostInit, Reapplying, Held
  <2>2. Known = {}
    BY <2>1 DEF CostInit, Known
  <2> QED
    BY <2>1, <2>2 DEF CostInit, CostInv, CostsAreSound, Once, Plans, Ruling
<1>2. CostInv /\ [CostNext]_costVars => CostInv'
  BY CostsStay
<1>3. CostInv /\ [CostNext]_costVars => [RowsStandOnce /\ CommitAdds /\ ReapplyRules]_costVars
  <2> SUFFICES ASSUME CostInv, [CostNext]_costVars
               PROVE  RowsStandOnce /\ CommitAdds /\ ReapplyRules
    OBVIOUS
  <2>1. ReapplyRules
    BY WhoFinishes, Saving DEF ReapplyRules, Follows
  <2> QED
    BY <2>1, RowsStand, CommitsAdd
<1>4. [RowsStandOnce /\ CommitAdds /\ ReapplyRules]_costVars
        => [/\ \A r, s \in costs' : Line(r) = Line(s) => r = s
            /\ \A r \in costs, s \in costs' : r.id = s.id =>
                 Line(r) = Line(s) /\ r.source = s.source /\ r.date = s.date
            /\ CommitAdds /\ ReapplyRules
            /\ \A r \in costs' :
                 r.source = "quickbooks" /\ ~r.charged => r.months = Unset]_costVars
  BY DEF RowsStandOnce
<1> QED
  BY <1>1, <1>2, <1>3, <1>4, PTL DEF CostSpec, CostsStandOnce, CommitAdds, ReapplyRules

----------------------------------------------------------------------------
(* The card of Monte *)

\* The months of a package that is let in come to its voyages: month by month, when
\* no month is there twice
LEMMA MonthsApart ==
  ASSUME NEW p \in Packages, Cardinality(Months(p)) = Len(p.monthly)
  PROVE  \A i, j \in DOMAIN p.monthly :
           p.monthly[i].month = p.monthly[j].month => i = j
<1>1. PICK all, M, f : /\ all = DOMAIN p.monthly /\ M = Months(p)
                       /\ f = [k \in all |-> p.monthly[k].month]
  OBVIOUS
<1>2. all = 1..Len(p.monthly) /\ Len(p.monthly) \in Nat
  <2>1. p.monthly \in Seq({p.monthly[k] : k \in DOMAIN p.monthly})
    BY CardAssumption
  <2> QED
    BY <1>1, <2>1
<1>3. IsFiniteSet(all) /\ Cardinality(all) = Len(p.monthly)
  BY <1>2, FS_Interval
<1>4. f \in Surjection(all, M)
  BY <1>1 DEF Surjection, Months
<1>5. f \in Injection(all, M)
  BY <1>1, <1>3, <1>4, FS_SurjSameCardinalityImpliesInj
<1> QED
  BY <1>1, <1>5 DEF Injection, IsInjective

LEMMA ItemsCome ==
  ASSUME NEW p \in Packages, NEW v, v \in DOMAIN p.voyages, NEW kind
  PROVE  ItemTotal(p.voyages[v], kind) \in Int
<1>1. PICK items, F, S : /\ items = p.voyages[v].items
                         /\ F = [k \in DOMAIN items |-> items[k].usd]
                         /\ S = CountedItems(p.voyages[v], kind)
  OBVIOUS
<1>2. /\ items \in Seq({items[i] : i \in DOMAIN items})
      /\ \A i \in DOMAIN items : items[i].usd \in Int
  <2>1. /\ p.voyages[v].items \in Seq({p.voyages[v].items[i] : i \in DOMAIN p.voyages[v].items})
        /\ \A i \in DOMAIN p.voyages[v].items : p.voyages[v].items[i].usd \in Int
    BY CardAssumption
  <2> QED
    BY <1>1, <2>1
<1>3. IsFiniteSet(DOMAIN items) /\ S \subseteq DOMAIN items
  <2>1. DOMAIN items = 1..Len(items) /\ Len(items) \in Nat
    BY <1>2
  <2> QED
    BY <1>1, <2>1, FS_Interval DEF CountedItems
<1>4. IsFiniteSet(S) /\ \A i \in S : F[i] \in Int
  BY <1>1, <1>2, <1>3, FS_Subset
<1>5. Sum(F, S) \in Int
  BY <1>4, SumInt
<1> QED
  BY <1>1, <1>5 DEF ItemTotal, AddUp, Sum

LEMMA MonthsCome ==
  ASSUME NEW p \in Packages, validateMontePackage(p) PROVE AddsUp(p)
<1>1. SUFFICES ASSUME Cardinality(Months(p)) = Len(p.monthly) PROVE AddsUp(p)
  BY DEF AddsUp
<1>2. PICK all, S, N, V, R, D, A :
        /\ all = DOMAIN p.monthly /\ S = Shown(p)
        /\ N = [k \in all |-> p.monthly[k].net]
        /\ V = [k \in all |-> NetIn(p, p.monthly[k].month)]
        /\ R = [k \in all |-> p.monthly[k].pos + p.monthly[k].fixed]
        /\ D = [k \in S |-> ItemTotal(p.voyages[k], "rev") + ItemTotal(p.voyages[k], "cost")]
        /\ A = [k \in S |-> Net(p.voyages[k])]
  OBVIOUS
<1>3. IsFiniteSet(all) /\ IsFiniteSet(S) /\ S \subseteq DOMAIN p.voyages
  <2>1. /\ p.monthly \in Seq({p.monthly[k] : k \in DOMAIN p.monthly})
        /\ p.voyages \in Seq({p.voyages[k] : k \in DOMAIN p.voyages})
    BY CardAssumption
  <2>2. /\ DOMAIN p.monthly = 1..Len(p.monthly) /\ Len(p.monthly) \in Nat
        /\ DOMAIN p.voyages = 1..Len(p.voyages) /\ Len(p.voyages) \in Nat
    BY <2>1
  <2>3. IsFiniteSet(DOMAIN p.monthly) /\ IsFiniteSet(DOMAIN p.voyages)
    BY <2>2, FS_Interval, SMTT(60)
  <2> QED
    BY <1>2, <2>3, FS_Subset DEF Shown
<1>4. \A k \in S : D[k] \in Int /\ A[k] = D[k]
  <2>1. TAKE k \in S
  <2>2. PICK a, b : a = ItemTotal(p.voyages[k], "rev") /\ b = ItemTotal(p.voyages[k], "cost")
    OBVIOUS
  <2>3. a \in Int /\ b \in Int
    BY <1>3, <2>2, ItemsCome
  <2>4. p.voyages[k].rev = a /\ p.voyages[k].cost = -b
    BY <1>2, <2>2 DEF validateMontePackage, VoyageAgrees
  <2>5. A[k] = a - (-b) /\ D[k] = a + b
    BY <1>2, <2>2, <2>4 DEF Net
  <2> QED
    BY <2>3, <2>5
<1>5. A = D
  BY <1>2, <1>4
<1>6. PICK key : key = [x \in S |-> CHOOSE j \in all : p.monthly[j].month = p.voyages[x].month]
  OBVIOUS
<1>7. \A x \in S : key[x] \in all /\ p.monthly[key[x]].month = p.voyages[x].month
  <2>1. \A x \in S : \E j \in all : p.monthly[j].month = p.voyages[x].month
    BY <1>2 DEF validateMontePackage, Months
  <2> QED
    BY <1>6, <2>1
<1>8. PICK part : part = [j \in all |-> In(p, p.monthly[j].month)]
  OBVIOUS
<1>9. \A j \in all : part[j] = {x \in S : key[x] = j}
  BY <1>1, <1>2, <1>7, <1>8, MonthsApart DEF In
<1>10. \A j \in all : V[j] = Sum(A, part[j])
  BY <1>2, <1>8 DEF NetIn, AddUp, Sum
<1>11. Sum(V, all) = Sum(D, S)
  BY <1>3, <1>4, <1>5, <1>7, <1>9, <1>10, SumByKey
<1>12. \A j \in all : V[j] \in Int /\ R[j] \in Int /\ N[j] = V[j] + R[j]
  <2>1. TAKE j \in all
  <2>2. V[j] \in Int
    <3>1. IsFiniteSet(part[j]) /\ \A x \in part[j] : A[x] \in Int
      BY <1>3, <1>4, <1>9, FS_Subset
    <3> QED
      BY <1>10, <3>1, SumInt
  <2>3. p.monthly[j].pos \in Int /\ p.monthly[j].fixed \in Int
    BY <1>2, CardAssumption
  <2>4. p.monthly[j].net = V[j] + p.monthly[j].pos + p.monthly[j].fixed
    BY <1>2 DEF validateMontePackage, MonthAgrees
  <2> QED
    BY <1>2, <2>2, <2>3, <2>4
<1>13. Sum(N, all) = Sum(V, all) + Sum(R, all)
  BY <1>3, <1>12, SumOfSums
<1>14. Sum(N, all) = Sum(D, S) + Sum(R, all)
  BY <1>11, <1>13
<1> QED
  BY <1>2, <1>14 DEF AddsUp, AddUp, Sum

----------------------------------------------------------------------------
LetIn(p) == p \in Packages /\ validateMontePackage(p)
Listed(s) ==
  /\ s \in Seq(TeamInputs)
  /\ \A k \in DOMAIN s : s[k].id <= minted
  /\ Orderly(s) /\ Named(s)
CardSound(c) ==
  /\ c \in Cards /\ LetIn(c.package)
  /\ c.inputs = Absent \/ Listed(c.inputs)

\* A request that has the row locked has read what the row holds
HandSound(u) ==
  /\ hand[u].read = Absent \/ CardSound(hand[u].read)
  /\ hand[u].locks => hand[u].read = card
  /\ hand[u].op = "ingest" => LetIn(hand[u].package)
  /\ hand[u].op = "save" => CardSound(hand[u].body)
  /\ hand[u].op \in {"ingest", "add", "void"} =>
       hand[u].read = Absent \/ hand[u].locks

CardInv ==
  /\ minted \in Nat
  /\ open = [u \in Team |-> open[u]] /\ hand = [u \in Team |-> hand[u]]
  /\ card = Absent \/ CardSound(card)
  /\ \A u \in Team : open[u] = Absent \/ CardSound(open[u])
  /\ \A u \in Team : hand[u] # Absent => HandSound(u)

LEMMA IdsGiven ==
  ASSUME NEW s, Listed(s)
  PROVE  s \in Seq(TeamInputs) /\ \A k \in DOMAIN s : s[k].id \in Nat /\ s[k].id <= minted
<1>1. s \in Seq(TeamInputs) /\ \A k \in DOMAIN s : s[k].id <= minted
  BY DEF Listed
<1>2. \A k \in DOMAIN s : s[k] \in TeamInputs
  BY <1>1
<1> QED
  BY <1>1, <1>2 DEF TeamInputs

\* A list stays one when more is given out
LEMMA ListedOn ==
  ASSUME NEW s, Listed(s), minted \in Nat, minted' \in Nat, minted <= minted'
  PROVE  Listed(s)'
<1>1. s \in Seq(TeamInputs) /\ \A k \in DOMAIN s : s[k].id \in Nat /\ s[k].id <= minted
  BY IdsGiven
<1>2. \A k \in DOMAIN s : s[k].id <= minted'
  BY <1>1
<1>3. Orderly(s) /\ Named(s)
  BY DEF Listed
<1> QED
  BY <1>1, <1>2, <1>3 DEF Listed, TeamInputs, Orderly, Named

LEMMA CardSoundOn ==
  ASSUME NEW c, CardSound(c), minted \in Nat, minted' \in Nat, minted <= minted'
  PROVE  CardSound(c)'
BY ListedOn DEF CardSound, LetIn, validateMontePackage

\* What comes last on a list
LEMMA Appending ==
  ASSUME NEW s, Listed(s), minted \in Nat, minted' = minted + 1,
         NEW target, target = Absent \/ Voidable(s, target),
         NEW t, t = Append(s, [id |-> minted + 1, target |-> target])
  PROVE  Listed(t)'
<1>1. PICK e : e = [id |-> minted + 1, target |-> target]
  OBVIOUS
<1>3. s \in Seq(TeamInputs) /\ \A k \in DOMAIN s : s[k].id \in Nat /\ s[k].id <= minted
  BY IdsGiven
<1>2. e \in TeamInputs /\ e.id = minted + 1 /\ e.target = target
  <2>1. target \in Nat \cup {Absent}
    BY <1>3 DEF Voidable
  <2> QED
    BY <1>1, <2>1 DEF TeamInputs
<1>4. /\ t \in Seq(TeamInputs) /\ Len(s) \in Nat /\ DOMAIN s = 1..Len(s)
      /\ DOMAIN t = 1..(Len(s) + 1) /\ t[Len(s) + 1] = e
      /\ \A k \in 1..Len(s) : t[k] = s[k]
  BY <1>1, <1>2, <1>3
<1>5. \A k \in DOMAIN t : t[k].id <= minted'
  <2>1. ASSUME NEW k \in DOMAIN t PROVE t[k].id <= minted'
    <3>1. CASE k \in DOMAIN s
      BY <1>3, <1>4, <3>1
    <3>2. CASE k = Len(s) + 1
      BY <1>2, <1>4, <3>2
    <3> QED
      BY <1>4, <3>1, <3>2
  <2> QED
    BY <2>1
<1>6. Orderly(t)
  <2>1. ASSUME NEW i \in DOMAIN t, NEW k \in DOMAIN t, i < k
        PROVE  /\ t[i].id < t[k].id
               /\ t[i].target # Absent => t[i].target # t[k].target
               /\ t[i].target # t[k].id
    <3>1. i \in DOMAIN s /\ t[i] = s[i]
      BY <1>4, <2>1
    <3>2. CASE k \in DOMAIN s
      BY <1>4, <2>1, <3>1, <3>2 DEF Listed, Orderly
    <3>3. CASE k = Len(s) + 1
      <4>1. t[k].id = minted + 1 /\ t[k].target = target
        BY <1>2, <1>4, <3>3
      <4>2. s[i].id \in Nat /\ s[i].id <= minted
        BY <1>3, <3>1
      <4>3. s[i].target # Absent => s[i].target # target
        BY <3>1 DEF Voidable, Voided
      <4>4. s[i].target # minted + 1
        <5>1. CASE s[i].target = Absent
          BY <5>1, CardAssumption
        <5>2. CASE s[i].target # Absent
          <6>1. PICK j \in 1..(i - 1) : s[j].id = s[i].target
            BY <3>1, <5>2 DEF Listed, Named
          <6>2. j \in DOMAIN s
            BY <1>4, <3>1, <6>1
          <6> QED
            BY <1>3, <6>1, <6>2
        <5> QED
          BY <5>1, <5>2
      <4> QED
        BY <3>1, <4>1, <4>2, <4>3, <4>4
    <3> QED
      BY <1>4, <3>2, <3>3
  <2> QED
    BY <2>1 DEF Orderly
<1>7. Named(t)
  <2>1. ASSUME NEW k \in DOMAIN t, t[k].target # Absent
        PROVE  \E i \in 1..(k - 1) : t[i].id = t[k].target /\ t[i].target = Absent
    <3>1. CASE k \in DOMAIN s
      <4>1. PICK i \in 1..(k - 1) : s[i].id = s[k].target /\ s[i].target = Absent
        BY <1>4, <2>1, <3>1 DEF Listed, Named
      <4>2. t[i] = s[i] /\ t[k] = s[k]
        BY <1>4, <3>1, <4>1
      <4> QED
        BY <4>1, <4>2
    <3>2. CASE k = Len(s) + 1
      <4>1. t[k].target = target /\ Voidable(s, target)
        BY <1>2, <1>4, <2>1, <3>2
      <4>2. PICK i \in DOMAIN s : s[i].id = target /\ s[i].target = Absent
        BY <4>1 DEF Voidable
      <4> QED
        BY <1>4, <3>2, <4>1, <4>2
    <3> QED
      BY <1>4, <3>1, <3>2
  <2> QED
    BY <2>1 DEF Named
<1> QED
  BY <1>4, <1>5, <1>6, <1>7 DEF Listed, TeamInputs, Orderly, Named

LEMMA AppendingExtends ==
  ASSUME NEW S, NEW s \in Seq(S), NEW e
  PROVE  IsPrefix(s, Append(s, e))
<1>1. PICK t : t = Append(s, e)
  OBVIOUS
<1>2. Len(s) \in Nat /\ Len(t) = Len(s) + 1 /\ \A k \in 1..Len(s) : t[k] = s[k]
  BY <1>1
<1>3. SubSeq(s, 1, Len(s)) = SubSeq(t, 1, Len(s))
  BY <1>2
<1> QED
  BY <1>1, <1>2, <1>3 DEF IsPrefix

LEMMA NothingIsPrefix ==
  ASSUME NEW S, NEW t \in Seq(S) PROVE IsPrefix(<<>>, t)
<1>1. Len(<<>>) = 0 /\ Len(t) \in Nat
  OBVIOUS
<1>2. SubSeq(<<>>, 1, 0) = <<>> /\ SubSeq(t, 1, 0) = <<>>
  OBVIOUS
<1> QED
  BY <1>1, <1>2 DEF IsPrefix

LEMMA PrefixOfItself ==
  ASSUME NEW S, NEW s \in Seq(S) PROVE IsPrefix(s, s)
BY DEF IsPrefix

LEMMA InputsListed ==
  ASSUME NEW c, c = Absent \/ CardSound(c) PROVE Listed(InputsOf(c))
<1>1. Listed(<<>>)
  BY DEF Listed, Orderly, Named
<1> QED
  BY <1>1 DEF InputsOf, CardSound

\* What is written on a row
LEMMA Repackaged ==
  ASSUME NEW c, CardSound(c), NEW p, LetIn(p), NEW d, d = [c EXCEPT !.package = p]
  PROVE  CardSound(d) /\ d.package = p /\ InputsOf(d) = InputsOf(c)
<1>1. d \in Cards /\ d.package = p /\ d.inputs = c.inputs
  BY DEF CardSound, Cards, LetIn
<1>2. d # Absent /\ c # Absent
  BY <1>1, CardAssumption DEF CardSound
<1> QED
  BY <1>1, <1>2 DEF CardSound, InputsOf

LEMMA FirstPackage ==
  ASSUME NEW p, LetIn(p), NEW d, d = [Empty EXCEPT !.package = p]
  PROVE  CardSound(d) /\ d.package = p /\ InputsOf(d) = <<>>
<1>1. d = [package |-> p, inputs |-> Absent]
  BY DEF Empty
<1>2. d \in Cards /\ d.package = p /\ d.inputs = Absent
  <2>1. PICK S : S = {Absent} \cup Seq(TeamInputs)
    OBVIOUS
  <2>2. p \in Packages /\ Absent \in S
    BY <2>1 DEF LetIn
  <2>3. [package |-> p, inputs |-> Absent] \in [package : Packages, inputs : S]
    BY <2>2
  <2>5. d.package = p /\ d.inputs = Absent
    BY <1>1
  <2>4. Cards = [package : Packages, inputs : S]
    BY <2>1 DEF Cards
  <2> QED
    BY <1>1, <2>3, <2>4, <2>5
<1> QED
  BY <1>2 DEF CardSound, InputsOf

LEMMA Relisted ==
  ASSUME NEW c, CardSound(c), NEW s, Listed(s)', NEW d, d = [c EXCEPT !.inputs = s],
         minted \in Nat, minted' \in Nat, minted <= minted'
  PROVE  CardSound(d)' /\ d.package = c.package /\ InputsOf(d) = s
<1>1. s \in Seq(TeamInputs)
  BY DEF Listed
<1>2. d \in Cards /\ d.package = c.package /\ d.inputs = s
  BY <1>1 DEF CardSound, Cards
<1>3. d # Absent /\ s # Absent
  BY <1>1, <1>2, CardAssumption
<1> QED
  BY <1>2, <1>3 DEF CardSound, LetIn, InputsOf, validateMontePackage

Kept == card # Absent => card' # Absent

\* A step is of one user, who has no request or the lock is not another's when the row
\* changes
LEMMA HandsKeep ==
  ASSUME CardInv, NEW u \in Team, NEW q, hand' = [hand EXCEPT ![u] = q],
         hand'[u] = Absent \/ HandSound(u)',
         minted' \in Nat, minted <= minted',
         open' = open \/ (card # Absent /\ open' = [open EXCEPT ![u] = card]),
         card' = card \/ (RowFree(u) /\ CardSound(card)')
  PROVE  CardInv' /\ Kept
<1>1. minted \in Nat
  BY DEF CardInv
<1>2. \A c : CardSound(c) => CardSound(c)'
  BY <1>1, CardSoundOn
<1>3. card' = Absent \/ CardSound(card)'
  BY <1>2 DEF CardInv
<1>4. /\ open' = [v \in Team |-> open'[v]] /\ hand' = [v \in Team |-> hand'[v]]
      /\ \A v \in Team : open'[v] = open[v] \/ (card # Absent /\ open'[v] = card)
      /\ \A v \in Team \ {u} : hand'[v] = hand[v]
  BY DEF CardInv
<1>5. ASSUME NEW v \in Team PROVE open'[v] = Absent \/ CardSound(open[v])'
  BY <1>2, <1>4 DEF CardInv
<1>6. ASSUME NEW v \in Team, hand'[v] # Absent PROVE HandSound(v)'
  <2>1. CASE v = u
    BY <1>6, <2>1
  <2>2. CASE v # u
    <3>1. hand'[v] = hand[v] /\ hand[v] # Absent /\ HandSound(v)
      BY <1>4, <1>6, <2>2 DEF CardInv
    <3>2. hand[v].locks => card' = card
      BY <2>2, <3>1 DEF RowFree
    <3>3. PICK h : h = hand[v]
      OBVIOUS
    <3>4. /\ h.read = Absent \/ CardSound(h.read)'
          /\ h.locks => h.read = card
          /\ h.op = "ingest" => LetIn(h.package)
          /\ h.op = "save" => CardSound(h.body)'
          /\ h.op \in {"ingest", "add", "void"} => h.read = Absent \/ h.locks
      BY <1>2, <3>1, <3>3 DEF HandSound
    <3>5. LetIn(h.package) => LetIn(h.package)'
      BY DEF LetIn
    <3> QED
      BY <3>1, <3>2, <3>3, <3>4, <3>5 DEF HandSound
  <2> QED
    BY <2>1, <2>2
<1>7. Kept
  BY CardAssumption DEF Kept, CardSound
<1> QED
  BY <1>3, <1>4, <1>5, <1>6, <1>7 DEF CardInv

\* What a step does to the inputs, and to the package when one was pushed
Grows == IsPrefix(InputsOf(card), InputsOf(card)')
NotOlder == card # Absent => ~Older(card'.package, card.package)

LEMMA Unwritten ==
  ASSUME CardInv, card' = card PROVE Grows /\ NotOlder /\ Kept
<1>1. Listed(InputsOf(card)) /\ InputsOf(card)' = InputsOf(card)
  <2>1. Listed(InputsOf(card))
    BY InputsListed DEF CardInv
  <2> QED
    BY <2>1 DEF InputsOf
<1>2. Grows
  <2>1. InputsOf(card) \in Seq(TeamInputs)
    BY <1>1 DEF Listed
  <2> QED
    BY <1>1, <2>1, PrefixOfItself DEF Grows
<1>4. Kept
  BY DEF Kept
<1>3. NotOlder
  <2>1. SUFFICES ASSUME card # Absent, Older(card.package, card.package) PROVE FALSE
    BY DEF NotOlder
  <2>2. PICK x : x = card.package.at
    OBVIOUS
  <2>3. x # Absent /\ x < x
    BY <2>1, <2>2 DEF Older
  <2>4. card.package \in Packages
    BY <2>1 DEF CardInv, CardSound, LetIn
  <2>5. x \in Int
    BY <2>2, <2>3, <2>4, CardAssumption
  <2> QED
    BY <2>3, <2>5
<1> QED
  BY <1>2, <1>3, <1>4

LEMMA Beginning ==
  ASSUME CardInv, NEW u \in Team, OpenCard(u) \/ BeginLocked(u) \/ BeginSave(u) \/ Lose(u)
  PROVE  CardInv' /\ Kept /\ Grows /\ NotOlder
<1>1. card' = card /\ minted' = minted
  BY DEF OpenCard, BeginLocked, BeginSave, Lose, TakeUp, Stays
<1>2. minted \in Nat /\ minted' \in Nat /\ minted <= minted'
  BY <1>1 DEF CardInv
<1>3. CASE OpenCard(u)
  <2>1. hand' = [hand EXCEPT ![u] = Absent] /\ card # Absent /\ open' = [open EXCEPT ![u] = card]
    BY <1>3 DEF OpenCard, EmptyHanded, CardInv
  <2>2. hand'[u] = Absent
    BY <2>1 DEF CardInv
  <2>9. CardInv' /\ Kept
    BY <1>1, <1>2, <2>1, <2>2, HandsKeep
  <2> QED
    BY <1>1, <2>9, Unwritten
<1>4. CASE Lose(u)
  <2>1. hand' = [hand EXCEPT ![u] = Absent] /\ open' = open
    BY <1>4 DEF Lose, PutDown, Stays
  <2>2. hand'[u] = Absent
    BY <2>1 DEF CardInv
  <2>9. CardInv' /\ Kept
    BY <1>1, <1>2, <2>1, <2>2, HandsKeep
  <2> QED
    BY <1>1, <2>9, Unwritten
<1>5. CASE BeginLocked(u) \/ BeginSave(u)
  <2>1. PICK q : /\ TakeUp(u, q) /\ q.read = card
                 /\ \/ q.op = "ingest" /\ q.locks = (card # Absent) /\ LetIn(q.package)
                    \/ q.op \in {"add", "void"} /\ q.locks = (card # Absent)
                    \/ q.op = "save" /\ CardSound(q.body)
    <3>1. CASE BeginLocked(u)
      <4>1. CASE \E p \in Packages :
                   /\ validateMontePackage(p)
                   /\ TakeUp(u, [op |-> "ingest", read |-> card, locks |-> card # Absent,
                                 package |-> p])
        <5>1. PICK p \in Packages :
                   /\ validateMontePackage(p)
                   /\ TakeUp(u, [op |-> "ingest", read |-> card, locks |-> card # Absent,
                                 package |-> p])
          BY <4>1
        <5> QED
          BY <5>1 DEF LetIn
      <4>2. CASE \E e \in Entries :
                   TakeUp(u, [op |-> "add", read |-> card, locks |-> card # Absent, entry |-> e])
        <5>1. PICK e : TakeUp(u, [op |-> "add", read |-> card, locks |-> card # Absent,
                                  entry |-> e])
          BY <4>2
        <5> QED
          BY <5>1
      <4>3. CASE \E k \in 1..minted :
                   TakeUp(u, [op |-> "void", read |-> card, locks |-> card # Absent,
                              target |-> k])
        <5>1. PICK k : TakeUp(u, [op |-> "void", read |-> card, locks |-> card # Absent,
                                  target |-> k])
          BY <4>3
        <5> QED
          BY <5>1
      <4> QED
        BY <3>1, <4>1, <4>2, <4>3 DEF BeginLocked
    <3>2. CASE BeginSave(u)
      <4>1. PICK p : /\ p = open[u].package \/ LetIn(p)
                     /\ TakeUp(u, [op |-> "save", read |-> card, locks |-> FALSE,
                                   body |-> [open[u] EXCEPT !.package = p]])
                     /\ open[u] # Absent
        BY <3>2 DEF BeginSave, LetIn
      <4>2. CardSound(open[u]) /\ LetIn(p)
        BY <4>1 DEF CardInv, CardSound
      <4>3. CardSound([open[u] EXCEPT !.package = p])
        BY <4>2, Repackaged
      <4> QED
        BY <4>1, <4>3
    <3> QED
      BY <1>5, <3>1, <3>2
  <2>2. hand' = [hand EXCEPT ![u] = q] /\ open' = open /\ hand'[u] = q
    BY <2>1 DEF TakeUp, CardInv
  <2>3. \A c : CardSound(c) => CardSound(c)'
    BY <1>1, <1>2, CardSoundOn
  <2>4. HandSound(u)'
    BY <1>1, <2>1, <2>2, <2>3 DEF HandSound, CardInv, LetIn, validateMontePackage
  <2>9. CardInv' /\ Kept
    BY <1>1, <1>2, <2>2, <2>4, HandsKeep
  <2> QED
    BY <1>1, <2>9, Unwritten
<1> QED
  BY <1>3, <1>4, <1>5

\* A request that works under the lock writes on what the row holds, or it is the
\* first to write, or it writes nothing
LEMMA LockedReading ==
  ASSUME CardInv, NEW u \in Team, hand[u] # Absent, hand[u].op \in {"ingest", "add", "void"}
  PROVE  \/ hand[u].read = Absent /\ Read(u) = Empty
         \/ /\ hand[u].read # Absent /\ hand[u].read = card /\ Read(u) = card
            /\ CardSound(card)
BY DEF CardInv, HandSound, Read

LEMMA Ingesting ==
  ASSUME CardInv, NEW u \in Team, Ingest(u)
  PROVE  CardInv' /\ Kept /\ Grows /\ NotOlder
<1>1. /\ hand[u] # Absent /\ hand[u].op = "ingest"
      /\ hand' = [hand EXCEPT ![u] = Absent] /\ minted' = minted /\ open' = open
  BY DEF Ingest, EmptyHanded, PutDown, Stays
<1>2. minted \in Nat /\ minted' \in Nat /\ minted <= minted' /\ hand'[u] = Absent
  BY <1>1 DEF CardInv
<1>3. PICK p : p = hand[u].package /\ LetIn(p)
  BY <1>1 DEF CardInv, HandSound
<1>4. CASE card' = card
  <2>1. CardInv' /\ Kept
    BY <1>1, <1>2, <1>4, HandsKeep
  <2> QED
    BY <1>4, <2>1, Unwritten
<1>5. CASE card' # card
  <2>1. /\ RowFree(u) /\ card' = [Read(u) EXCEPT !.package = p]
        /\ ~(hand[u].read = Absent /\ card # Absent)
        /\ Read(u).package = Absent \/ ~Older(p, Read(u).package)
    BY <1>3, <1>5 DEF Ingest, Stays, Write
  <2>2. CASE hand[u].read = Absent
    <3>1. card = Absent /\ card' = [Empty EXCEPT !.package = p]
      BY <1>1, <2>1, <2>2, LockedReading
    <3>2. PICK d : d = card'
      OBVIOUS
    <3>3. CardSound(d) /\ InputsOf(d) = <<>>
      BY <1>3, <3>1, <3>2, FirstPackage
    <3>4. InputsOf(card) = <<>>
      BY <3>1 DEF InputsOf
    <3>5. CardSound(card)' /\ InputsOf(card)' = <<>>
      <4>1. CardSound(d)'
        BY <1>2, <3>3, CardSoundOn
      <4> QED
        BY <3>2, <3>3, <4>1 DEF InputsOf
    <3>6. CardInv' /\ Kept
      BY <1>1, <1>2, <2>1, <3>5, HandsKeep
    <3>7. Grows
      <4>1. <<>> \in Seq(TeamInputs)
        OBVIOUS
      <4> QED
        BY <3>4, <3>5, <4>1, NothingIsPrefix DEF Grows
    <3> QED
      BY <3>1, <3>6, <3>7 DEF NotOlder
  <2>3. CASE hand[u].read # Absent
    <3>1. Read(u) = card /\ CardSound(card) /\ card' = [card EXCEPT !.package = p]
      BY <1>1, <2>1, <2>3, LockedReading
    <3>2. PICK d : d = card'
      OBVIOUS
    <3>3. CardSound(d) /\ d.package = p /\ InputsOf(d) = InputsOf(card)
      BY <1>3, <3>1, <3>2, Repackaged
    <3>4. CardSound(card)' /\ InputsOf(card)' = InputsOf(card) /\ card'.package = p
      <4>1. CardSound(d)'
        BY <1>2, <3>3, CardSoundOn
      <4> QED
        BY <3>2, <3>3, <4>1 DEF InputsOf
    <3>5. CardInv' /\ Kept
      BY <1>1, <1>2, <2>1, <3>4, HandsKeep
    <3>6. Grows
      <4>1. InputsOf(card) \in Seq(TeamInputs)
        BY <3>1, InputsListed DEF Listed
      <4> QED
        BY <3>4, <4>1, PrefixOfItself DEF Grows
    <3>7. NotOlder
      <4>1. card.package # Absent
        BY <3>1, CardAssumption DEF CardSound, LetIn
      <4> QED
        BY <2>1, <3>1, <3>4, <4>1 DEF NotOlder
    <3> QED
      BY <3>5, <3>6, <3>7
  <2> QED
    BY <2>2, <2>3
<1> QED
  BY <1>4, <1>5

LEMMA Listing ==
  ASSUME CardInv, NEW u \in Team, AddInput(u) \/ VoidInput(u)
  PROVE  CardInv' /\ Kept /\ Grows
<1>1. /\ hand[u] # Absent /\ hand[u].op \in {"add", "void"}
      /\ hand' = [hand EXCEPT ![u] = Absent] /\ open' = open
      /\ minted' = minted \/ minted' = minted + 1
  BY DEF AddInput, VoidInput, EmptyHanded, PutDown, Append1, Stays
<1>2. minted \in Nat /\ minted' \in Nat /\ minted <= minted' /\ hand'[u] = Absent
  BY <1>1 DEF CardInv
<1>3. CASE card' = card
  <2>1. CardInv' /\ Kept
    BY <1>1, <1>2, <1>3, HandsKeep
  <2> QED
    BY <1>3, <2>1, Unwritten
<1>4. CASE card' # card
  <2>1. PICK target : /\ Append1(u, target)
                      /\ \/ target = Absent /\ Read(u).package # Absent
                         \/ Voidable(InputsOf(Read(u)), target)
    BY <1>4 DEF AddInput, VoidInput, Stays
  <2>2. Read(u) = card /\ CardSound(card)
    <3>1. ~(Read(u) = Empty)
      <4>1. SUFFICES ASSUME Read(u) = Empty PROVE FALSE
        OBVIOUS
      <4>2. InputsOf(Empty) = <<>> /\ Empty.package = Absent
        BY DEF Empty, InputsOf
      <4>3. ~Voidable(<<>>, target)
        BY DEF Voidable
      <4> QED
        BY <2>1, <4>1, <4>2, <4>3
    <3> QED
      BY <1>1, <3>1, LockedReading
  <2>3. PICK s, e, t : s = InputsOf(card) /\ e = [id |-> minted + 1, target |-> target]
                       /\ t = Append(s, e)
    OBVIOUS
  <2>4. /\ RowFree(u) /\ card' = [card EXCEPT !.inputs = t] /\ minted' = minted + 1
    BY <1>4, <2>1, <2>2, <2>3 DEF Append1, Write, Input
  <2>5. Listed(s) /\ s \in Seq(TeamInputs)
    BY <2>2, <2>3, InputsListed DEF Listed
  <2>6. Listed(t)'
    BY <1>2, <2>1, <2>2, <2>3, <2>4, <2>5, Appending
  <2>7. PICK d : d = card'
    OBVIOUS
  <2>8. CardSound(d)' /\ InputsOf(d) = t
    BY <1>2, <2>2, <2>4, <2>6, <2>7, Relisted
  <2>9. CardSound(card)' /\ InputsOf(card)' = t
    BY <2>7, <2>8 DEF InputsOf
  <2>10. CardInv' /\ Kept
    BY <1>1, <1>2, <2>4, <2>9, HandsKeep
  <2>11. Grows
    BY <2>3, <2>5, <2>9, AppendingExtends DEF Grows
  <2> QED
    BY <2>10, <2>11
<1> QED
  BY <1>3, <1>4

LEMMA SavingCard ==
  ASSUME CardInv, NEW u \in Team, SaveCard(u)
  PROVE  CardInv' /\ Kept /\ (~Overtaken(u) => Grows)
<1>1. /\ hand[u] # Absent /\ hand[u].op = "save"
      /\ hand' = [hand EXCEPT ![u] = Absent] /\ minted' = minted /\ open' = open
      /\ card' = card \/ (RowFree(u) /\ card' = Merged(u))
  BY DEF SaveCard, EmptyHanded, PutDown, Write
<1>2. minted \in Nat /\ minted' \in Nat /\ minted <= minted' /\ hand'[u] = Absent
  BY <1>1 DEF CardInv
<1>3. CASE card' = card
  <2>1. CardInv' /\ Kept
    BY <1>1, <1>2, <1>3, HandsKeep
  <2> QED
    BY <1>3, <2>1, Unwritten
<1>4. CASE card' # card
  <2>1. PICK body, R : body = hand[u].body /\ R = hand[u].read /\ CardSound(body)
                       /\ (R = Absent \/ CardSound(R))
    BY <1>1 DEF CardInv, HandSound
  <2>2. PICK d : d = card'
    OBVIOUS
  <2>3. RowFree(u) /\ d = Merged(u)
    BY <1>1, <1>4, <2>2
  <2>4. CASE R = Absent \/ R.inputs = Absent
    <3>1. Read(u).inputs = Absent
      BY <2>1, <2>4 DEF Read, Empty
    <3>2. d = body
      BY <2>1, <2>3, <3>1 DEF Merged
    <3>3. CardSound(card)'
      BY <1>2, <2>1, <2>2, <3>2, CardSoundOn
    <3>4. CardInv' /\ Kept
      BY <1>1, <1>2, <2>3, <3>3, HandsKeep
    <3>5. ASSUME ~Overtaken(u) PROVE Grows
      <4>1. InputsOf(card) = <<>>
        BY <1>1, <2>1, <2>4, <3>5 DEF Overtaken, InputsOf
      <4>2. InputsOf(card)' = InputsOf(d)
        BY <2>2 DEF InputsOf
      <4>3. InputsOf(d) \in Seq(TeamInputs)
        BY <2>1, <3>2, InputsListed DEF Listed
      <4> QED
        BY <4>1, <4>2, <4>3, NothingIsPrefix DEF Grows
    <3> QED
      BY <3>4, <3>5
  <2>5. CASE R # Absent /\ R.inputs # Absent
    <3>1. CardSound(R) /\ Read(u) = R
      BY <2>1, <2>5 DEF Read
    <3>2. d = [body EXCEPT !.inputs = R.inputs]
      BY <2>1, <2>3, <2>5, <3>1 DEF Merged
    <3>3. Listed(R.inputs)'
      <4>1. Listed(R.inputs)
        BY <2>5, <3>1 DEF CardSound
      <4> QED
        BY <1>2, <4>1, ListedOn
    <3>4. CardSound(d)' /\ InputsOf(d) = R.inputs
      BY <1>2, <2>1, <3>2, <3>3, Relisted
    <3>5. CardSound(card)' /\ InputsOf(card)' = R.inputs
      BY <2>2, <3>4 DEF InputsOf
    <3>6. CardInv' /\ Kept
      BY <1>1, <1>2, <2>3, <3>5, HandsKeep
    <3>7. ASSUME ~Overtaken(u) PROVE Grows
      <4>1. InputsOf(card) = R.inputs
        BY <1>1, <2>1, <2>5, <3>7 DEF Overtaken, InputsOf
      <4>2. R.inputs \in Seq(TeamInputs)
        BY <3>1, <2>5 DEF CardSound, Listed
      <4> QED
        BY <3>5, <4>1, <4>2, PrefixOfItself DEF Grows
    <3> QED
      BY <3>6, <3>7
  <2> QED
    BY <2>4, <2>5
<1> QED
  BY <1>3, <1>4

InputsGrow == (~\E u \in Team : Ended(u, "save") /\ Overtaken(u)) => Grows
NewestStays == \A u \in Team : Ended(u, "ingest") => NotOlder

\* Which step ends a request
LEMMA WhoEnds ==
  ASSUME CardInv, NEW u \in Team, NEW v \in Team, NEW op, Ended(v, op),
         hand' = [hand EXCEPT ![u] = Absent]
  PROVE  u = v
BY DEF Ended, CardInv

LEMMA CardSteps ==
  ASSUME CardInv, [CardNext]_cardVars PROVE CardInv' /\ Kept /\ InputsGrow /\ NewestStays
<1>1. CASE UNCHANGED cardVars
  <2>1. CardInv'
    <3>1. \A c : CardSound(c) => CardSound(c)'
      BY <1>1, CardSoundOn DEF CardInv, cardVars
    <3>2. \A u \in Team : hand[u] # Absent => HandSound(u)'
      BY <1>1, <3>1 DEF cardVars, CardInv, HandSound, LetIn, validateMontePackage
    <3> QED
      BY <1>1, <3>1, <3>2 DEF cardVars, CardInv
  <2> QED
    BY <1>1, <2>1, Unwritten DEF cardVars, InputsGrow, NewestStays
<1>2. ASSUME NEW u \in Team,
             OpenCard(u) \/ BeginLocked(u) \/ BeginSave(u) \/ Lose(u) \/ Ingest(u)
      PROVE  CardInv' /\ Kept /\ InputsGrow /\ NewestStays
  BY <1>2, Beginning, Ingesting DEF InputsGrow, NewestStays
<1>3. ASSUME NEW u \in Team, AddInput(u) \/ VoidInput(u)
      PROVE  CardInv' /\ Kept /\ InputsGrow /\ NewestStays
  <2>1. hand' = [hand EXCEPT ![u] = Absent] /\ hand[u].op # "ingest"
    BY <1>3 DEF AddInput, VoidInput, PutDown
  <2>2. \A v \in Team : ~Ended(v, "ingest")
    BY <2>1, WhoEnds DEF Ended
  <2> QED
    BY <1>3, <2>2, Listing DEF InputsGrow, NewestStays
<1>4. ASSUME NEW u \in Team, SaveCard(u)
      PROVE  CardInv' /\ Kept /\ InputsGrow /\ NewestStays
  <2>1. /\ hand' = [hand EXCEPT ![u] = Absent] /\ hand[u] # Absent /\ hand[u].op = "save"
        /\ hand'[u] = Absent
    BY <1>4 DEF SaveCard, PutDown, EmptyHanded, CardInv
  <2>2. \A v \in Team : ~Ended(v, "ingest")
    BY <2>1, WhoEnds DEF Ended
  <2>3. Ended(u, "save")
    BY <2>1 DEF Ended
  <2> QED
    BY <1>4, <2>2, <2>3, SavingCard DEF InputsGrow, NewestStays
<1> QED
  BY <1>1, <1>2, <1>3, <1>4 DEF CardNext

InputsInOrder == Orderly(InputsOf(card)) /\ Named(InputsOf(card))
MonthsComeOut == card # Absent => AddsUp(card.package)

\* The inputs of the team are a record that only grows, whatever packages are pushed and
\* whoever saves an open card: only a save that another write has overtaken takes one
\* away; and what is pushed is not older than what it replaces, and its months come to
\* its voyages: for any packages, inputs and users, from the invariant CardInv
THEOREM CardStands == CardSpec => TeamInputsStand
<1>1. CardInit => CardInv
  BY DEF CardInit, CardInv
<1>2. CardInv /\ [CardNext]_cardVars => CardInv'
  BY CardSteps
<1>3. CardInv => InputsInOrder /\ MonthsComeOut
  BY InputsListed, MonthsCome DEF CardInv, InputsInOrder, MonthsComeOut, Listed, CardSound, LetIn
<1>4. CardInv /\ [CardNext]_cardVars => [InputsGrow /\ NewestStays /\ Kept]_cardVars
  BY CardSteps
<1>5. [](InputsInOrder /\ MonthsComeOut) /\ [][InputsGrow /\ NewestStays /\ Kept]_cardVars
        => TeamInputsStand
  <2>1. (InputsInOrder /\ MonthsComeOut)' /\ [InputsGrow /\ NewestStays /\ Kept]_cardVars
        => [/\ Orderly(InputsOf(card)') /\ Named(InputsOf(card)')
            /\ (~\E u \in Team : Ended(u, "save") /\ Overtaken(u)) =>
                 IsPrefix(InputsOf(card), InputsOf(card)')
            /\ \A u \in Team : Ended(u, "ingest") /\ card # Absent =>
                 ~Older(card'.package, card.package)
            /\ (card # Absent /\ card'.package # Absent) => AddsUp(card'.package)]_cardVars
    BY DEF InputsInOrder, MonthsComeOut, InputsGrow, NewestStays, Grows, NotOlder, Kept
  <2> QED
    BY <2>1, PTL DEF TeamInputsStand
<1> QED
  BY <1>1, <1>2, <1>3, <1>4, <1>5, PTL DEF CardSpec

----------------------------------------------------------------------------
(* The fleet: what a tab gives, and what the cache may still say of a sheet *)

\* The contents of the sheet follow each other in time
SheetContents == [book : Workbooks, from : Int, imported : Int \cup {Nil}]
SheetsFollow ==
  /\ clock \in Nat
  /\ sheets \in Seq(SheetContents)
  /\ Len(sheets) > 0
  /\ \A n \in 1..Len(sheets) : sheets[n].from <= clock

\* A request brings what was in the sheet after it was made, within its timeout
Brings(f) ==
  /\ f = [since |-> f.since, got |-> f.got]
  /\ f.since \in Int /\ clock - f.since \in 0..Timeout
  /\ f.got # Nil => f.got \in 1..Len(sheets) /\ f.since <= LastSeen(f.got)
FetchesBring ==
  /\ fetching = [r \in Readers |-> fetching[r]]
  /\ \A r \in Readers : fetching[r] # Nil => Brings(fetching[r])

\* Read at a moment from content n
ReadFrom(data, n, moment) ==
  /\ moment - LastSeen(n) <= Timeout
  /\ Accounted(data.monthly, sheets[n].book.monthly)
  /\ Accounted(data.voyages, sheets[n].book.voyages)
  /\ ~data.importStale => sheets[n].imported # Nil /\ moment - sheets[n].imported <= ImportLimit
ReadAt(data, moment) ==
  /\ data # Nil /\ data.monthly.rows # {}
  /\ \E n \in 1..Len(sheets) : ReadFrom(data, n, moment)
CacheIsRead ==
  cached # Nil => /\ cached.at \in Int /\ cached.at <= clock
                  /\ ReadAt(cached.data, cached.at)

FleetInv == SheetsFollow /\ FetchesBring /\ CacheIsRead

\* A figure of a tab is that of a cell, or its column is reported missing
LEMMA ParsedAccounts ==
  ASSUME NEW tab, NEW words, NEW labels, NEW month, NEW part,
         part = Parsed(tab, words, labels, month)
  PROVE  Accounted(part, tab)
<1>1. SUFFICES ASSUME NEW shown \in part.rows
      PROVE  tab # Nil /\ \E row \in tab.rows : \A l \in DOMAIN shown.figures :
               IF l \in part.missing THEN shown.figures[l] = 0
               ELSE l \in tab.columns /\ shown.figures[l] = num(row[l])
  BY DEF Accounted
<1>2. tab # Nil /\ HeaderFound(tab, words)
  BY <1>1 DEF Parsed, Unread
<1>3. /\ part.missing = Missing(tab, labels)
      /\ part.rows = {[vessel |-> norm(CellOf(tab, row, "vessel")), month |-> month[row],
            line |-> norm(CellOf(tab, row, "line")),
            figures |-> [l \in labels \ Words |-> num(CellOf(tab, row, l))]] :
             row \in {r \in tab.rows : norm(CellOf(tab, r, "vessel")) # "" /\ month[r] # Nil}}
  BY <1>2 DEF Parsed
<1>4. PICK row \in tab.rows : shown.figures = [l \in labels \ Words |-> num(CellOf(tab, row, l))]
  <2>1. PICK row \in tab.rows : shown =
          [vessel |-> norm(CellOf(tab, row, "vessel")), month |-> month[row],
           line |-> norm(CellOf(tab, row, "line")),
           figures |-> [l \in labels \ Words |-> num(CellOf(tab, row, l))]]
    BY <1>1, <1>3, Zenon
  <2> QED
    BY <2>1
<1>5. ASSUME NEW l \in DOMAIN shown.figures
      PROVE  IF l \in part.missing THEN shown.figures[l] = 0
             ELSE l \in tab.columns /\ shown.figures[l] = num(row[l])
  <2>1. l \in labels /\ shown.figures[l] = num(CellOf(tab, row, l))
    BY <1>4, <1>5
  <2>2. CASE l \in tab.columns
    BY <1>3, <2>1, <2>2 DEF Missing, Has, CellOf
  <2>3. CASE l \notin tab.columns
    <3>1. CellOf(tab, row, l) = [form |-> "blank"]
      BY <2>3 DEF CellOf, Has
    <3>2. num([form |-> "blank"]) = 0
      BY DEF num
    <3> QED
      BY <1>3, <2>1, <2>3, <3>1, <3>2 DEF Missing, Has
  <2> QED
    BY <2>2, <2>3
<1> QED
  BY <1>2, <1>5

LEMMA DashboardAccounts ==
  ASSUME NEW book, NEW stale, NEW data, data = Dashboard(book, stale)
  PROVE  /\ Accounted(data.monthly, book.monthly) /\ Accounted(data.voyages, book.voyages)
         /\ data.importStale = stale
<1>1. /\ data.monthly = parseMonthly(book.monthly) /\ data.voyages = parseVoyages(book.voyages)
      /\ data.importStale = stale
  BY DEF Dashboard
<1>2. Accounted(parseMonthly(book.monthly), book.monthly)
  BY ParsedAccounts DEF parseMonthly
<1>3. Accounted(parseVoyages(book.voyages), book.voyages)
  BY ParsedAccounts DEF parseVoyages
<1> QED
  BY <1>1, <1>2, <1>3

LEMMA SheetAt ==
  ASSUME SheetsFollow, NEW n \in 1..Len(sheets)
  PROVE  /\ Len(sheets) \in Nat /\ sheets[n] \in SheetContents
         /\ sheets[n].book \in Workbooks /\ sheets[n].from \in Int /\ sheets[n].from <= clock
         /\ sheets[n].imported \in Int \cup {Nil} /\ clock \in Int /\ LastSeen(n) \in Int
<1>1. Len(sheets) \in Nat /\ \A i \in 1..Len(sheets) : sheets[i] \in SheetContents
  BY DEF SheetsFollow
<1>2. \A e \in SheetContents : e.book \in Workbooks /\ e.from \in Int
                                /\ e.imported \in Int \cup {Nil}
  BY DEF SheetContents
<1>3. clock \in Int /\ sheets[n].from <= clock
  BY DEF SheetsFollow
<1>4. n # Len(sheets) => n + 1 \in 1..Len(sheets)
  BY <1>1
<1>5. LastSeen(n) \in Int
  BY <1>1, <1>2, <1>3, <1>4 DEF LastSeen
<1> QED
  BY <1>1, <1>2, <1>3, <1>5

\* Contents stay as they were, and are seen for no shorter
SheetsGo(n) == sheets'[n] = sheets[n] /\ LastSeen(n) \in Int /\ LastSeen(n)' \in Int
               /\ LastSeen(n) <= LastSeen(n)' /\ n \in 1..Len(sheets)'
LEMMA SheetsFollowOn ==
  ASSUME SheetsFollow, [FleetNext]_fleetVars
  PROVE  SheetsFollow' /\ clock <= clock' /\ \A n \in 1..Len(sheets) : SheetsGo(n)
<1>1. clock \in Int /\ \A n \in 1..Len(sheets) : LastSeen(n) \in Int /\ sheets[n].from \in Int
  BY SheetAt DEF SheetsFollow
<1>2. ASSUME UNCHANGED sheets, clock' \in {clock, clock + 1}
      PROVE  SheetsFollow' /\ clock <= clock' /\ \A n \in 1..Len(sheets) : SheetsGo(n)
  <2>1. clock <= clock' /\ clock' \in Nat
    BY <1>2 DEF SheetsFollow
  <2>2. SheetsFollow'
    BY <1>1, <1>2, <2>1 DEF SheetsFollow
  <2>3. ASSUME NEW n \in 1..Len(sheets) PROVE SheetsGo(n)
    <3>1. CASE n = Len(sheets)
      BY <1>1, <1>2, <2>1, <3>1 DEF SheetsGo, LastSeen
    <3>2. CASE n # Len(sheets)
      BY <1>1, <1>2, <2>1, <3>2 DEF SheetsGo, LastSeen
    <3> QED
      BY <3>1, <3>2
  <2> QED
    BY <2>1, <2>2, <2>3
<1>3. ASSUME NEW book \in Workbooks, Change(book)
      PROVE  SheetsFollow' /\ clock <= clock' /\ \A n \in 1..Len(sheets) : SheetsGo(n)
  <2>1. PICK e : /\ e = [book |-> book, from |-> clock,
                     imported |-> IF book.imported THEN clock ELSE sheets[Len(sheets)].imported]
                 /\ sheets' = Append(sheets, e)
    BY <1>3 DEF Change
  <2>2. UNCHANGED clock
    BY <1>3 DEF Change
  <2>3. e \in SheetContents /\ e.from = clock
    <3>1. sheets[Len(sheets)].imported \in Int \cup {Nil}
      BY SheetAt DEF SheetsFollow
    <3> QED
      BY <1>1, <2>1, <3>1 DEF SheetContents
  <2>4. /\ sheets' \in Seq(SheetContents) /\ Len(sheets') = Len(sheets) + 1
        /\ sheets'[Len(sheets) + 1] = e /\ \A n \in 1..Len(sheets) : sheets'[n] = sheets[n]
        /\ Len(sheets) \in Nat
    BY <2>1, <2>3 DEF SheetsFollow
  <2>5. SheetsFollow'
    <3>1. \A n \in 1..Len(sheets') : sheets'[n].from <= clock
      BY <1>1, <2>3, <2>4 DEF SheetsFollow
    <3> QED
      BY <2>2, <2>4, <3>1 DEF SheetsFollow
  <2>6. ASSUME NEW n \in 1..Len(sheets) PROVE SheetsGo(n)
    <3>1. LastSeen(n)' = sheets'[n + 1].from /\ n \in 1..Len(sheets')
      BY <2>4 DEF LastSeen
    <3>2. LastSeen(n)' = LastSeen(n)
      <4>1. CASE n = Len(sheets)
        BY <2>3, <2>4, <3>1, <4>1 DEF LastSeen
      <4>2. CASE n # Len(sheets)
        BY <2>3, <2>4, <3>1, <4>2 DEF LastSeen
      <4> QED
        BY <4>1, <4>2
    <3> QED
      BY <1>1, <2>4, <3>1, <3>2 DEF SheetsGo
  <2> QED
    BY <1>1, <2>2, <2>5, <2>6
<1>4. CASE UNCHANGED fleetVars \/ Tick \/ Restart
  BY <1>2, <1>4 DEF fleetVars, Tick, Restart
<1>5. ASSUME NEW r \in Readers,
             (\E refresh \in BOOLEAN : Ask(r, refresh)) \/ Export(r) \/ Arrive(r) \/ Fail(r)
      PROVE  UNCHANGED <<sheets, clock>>
  BY <1>5 DEF Ask, Export, Arrive, Fail
<1> QED
  BY <1>2, <1>3, <1>4, <1>5 DEF FleetNext

\* What was read stays read: the sheet has only been seen for longer
LEMMA ReadStays ==
  ASSUME SheetsFollow, [FleetNext]_fleetVars, NEW data, NEW moment \in Int, ReadAt(data, moment)
  PROVE  ReadAt(data, moment)'
<1>1. PICK n \in 1..Len(sheets) : ReadFrom(data, n, moment)
  BY DEF ReadAt
<1>2. SheetsGo(n)
  BY SheetsFollowOn
<1>3. moment - LastSeen(n)' <= Timeout
  BY <1>1, <1>2, FleetAssumption DEF ReadFrom, SheetsGo
<1>4. ReadFrom(data, n, moment)'
  BY <1>1, <1>2, <1>3 DEF ReadFrom, SheetsGo
<1> QED
  BY <1>2, <1>4 DEF ReadAt, SheetsGo

LEMMA FetchesBringOn ==
  ASSUME SheetsFollow, FetchesBring, [FleetNext]_fleetVars
  PROVE  FetchesBring'
<1>0. clock \in Nat /\ clock' \in Nat /\ \A n \in 1..Len(sheets) : SheetsGo(n)
  BY SheetsFollowOn DEF SheetsFollow
<1>1. ASSUME NEW f, Brings(f), clock' - f.since \in 0..Timeout
      PROVE  Brings(f)'
  BY <1>0, <1>1 DEF Brings, SheetsGo
<1>2. ASSUME fetching' = [r \in Readers |-> fetching'[r]],
             \A r \in Readers : fetching'[r] \in {fetching[r], Nil},
             \A r \in Readers : fetching[r] # Nil => clock' - fetching[r].since \in 0..Timeout
      PROVE  FetchesBring'
  <2>1. ASSUME NEW r \in Readers, fetching'[r] # Nil PROVE Brings(fetching[r])'
    <3>1. PICK f : f = fetching[r]
      OBVIOUS
    <3>2. fetching'[r] = f /\ f # Nil /\ Brings(f)
      BY <1>2, <2>1, <3>1 DEF FetchesBring
    <3>3. Brings(f)'
      BY <1>1, <1>2, <3>1, <3>2
    <3> QED
      BY <3>2, <3>3 DEF Brings
  <2> QED
    BY <1>2, <2>1 DEF FetchesBring
<1>3. \A r \in Readers : fetching[r] # Nil =>
        fetching[r].since \in Int /\ clock - fetching[r].since \in 0..Timeout
  BY DEF FetchesBring, Brings
<1>4. CASE UNCHANGED <<clock, fetching>>
  BY <1>2, <1>3, <1>4 DEF FetchesBring
<1>5. CASE Tick
  <2>1. ASSUME NEW r \in Readers, fetching[r] # Nil
        PROVE  clock' - fetching[r].since \in 0..Timeout
    BY <1>0, <1>3, <1>5, <2>1, FleetAssumption DEF Tick
  <2>2. UNCHANGED fetching
    BY <1>5 DEF Tick
  <2> QED
    BY <1>2, <2>1, <2>2 DEF FetchesBring
<1>6. CASE Restart
  BY <1>6 DEF Restart, FetchesBring
<1>7. ASSUME NEW r \in Readers, NEW f, fetching' = [fetching EXCEPT ![r] = f], Brings(f)',
             UNCHANGED clock
      PROVE  FetchesBring'
  <2>1. fetching' = [x \in Readers |-> fetching'[x]] /\ fetching'[r] = f
        /\ \A x \in Readers : x # r => fetching'[x] = fetching[x]
    BY <1>7 DEF FetchesBring
  <2>2. ASSUME NEW x \in Readers, fetching'[x] # Nil PROVE Brings(fetching[x])'
    <3>1. CASE x = r
      BY <1>7, <2>1, <3>1 DEF Brings
    <3>2. CASE x # r
      <4>1. PICK g : g = fetching[x]
        OBVIOUS
      <4>2. fetching'[x] = g /\ Brings(g) /\ clock' - g.since \in 0..Timeout
        BY <1>3, <1>7, <2>1, <2>2, <3>2, <4>1 DEF FetchesBring
      <4>3. Brings(g)'
        BY <1>1, <4>2
      <4> QED
        BY <4>2, <4>3 DEF Brings
    <3> QED
      BY <3>1, <3>2
  <2> QED
    BY <2>1, <2>2 DEF FetchesBring
<1>8. ASSUME NEW r \in Readers, (\E refresh \in BOOLEAN : Ask(r, refresh))
      PROVE  FetchesBring'
  <2>1. UNCHANGED clock /\ (UNCHANGED fetching
          \/ fetching' = [fetching EXCEPT ![r] = [since |-> clock, got |-> Nil]])
    BY <1>8 DEF Ask
  <2>2. PICK f : f = [since |-> clock, got |-> Nil]
    OBVIOUS
  <2>3. Brings(f)'
    <3>1. clock' - f.since \in 0..Timeout /\ f.since \in Int
      BY <1>0, <2>1, <2>2, FleetAssumption
    <3> QED
      BY <2>2, <3>1 DEF Brings
  <2> QED
    BY <1>4, <1>7, <2>1, <2>2, <2>3
<1>9. ASSUME NEW r \in Readers, Export(r)
      PROVE  FetchesBring'
  <2>1. UNCHANGED <<clock, sheets>> /\ fetching' = [fetching EXCEPT ![r].got = Len(sheets)]
        /\ fetching[r] # Nil
    BY <1>9 DEF Export
  <2>2. PICK s : s = fetching[r].since /\ s \in Int /\ clock - s \in 0..Timeout
                 /\ fetching[r] = [since |-> s, got |-> fetching[r].got]
    BY <1>3, <2>1 DEF FetchesBring, Brings
  <2>3. PICK f : f = [since |-> s, got |-> Len(sheets)]
    OBVIOUS
  <2>4. fetching' = [fetching EXCEPT ![r] = f]
    <3>1. f = [fetching[r] EXCEPT !.got = Len(sheets)]
      BY <2>2, <2>3
    <3> QED
      BY <2>1, <3>1, Zenon
  <2>5. Len(sheets) \in 1..Len(sheets)' /\ LastSeen(Len(sheets)) = clock /\ s <= clock
    BY <1>0, <2>1, <2>2, FleetAssumption DEF LastSeen, SheetsFollow
  <2>6. LastSeen(f.got)' = clock
    BY <2>1, <2>3 DEF LastSeen
  <2>7. Brings(f)'
    BY <2>1, <2>2, <2>3, <2>5, <2>6 DEF Brings
  <2> QED
    BY <1>7, <2>1, <2>4, <2>7
<1>10. ASSUME NEW r \in Readers, Arrive(r) \/ Fail(r)
      PROVE  FetchesBring'
  <2>1. UNCHANGED clock /\ fetching' = [fetching EXCEPT ![r] = Nil]
    BY <1>10 DEF Arrive, Fail
  <2>2. \A x \in Readers : fetching'[x] \in {fetching[x], Nil}
    BY <2>1 DEF FetchesBring
  <2>3. \A x \in Readers : fetching[x] # Nil => clock' - fetching[x].since \in 0..Timeout
    BY <1>3, <2>1
  <2>4. fetching' = [x \in Readers |-> fetching'[x]]
    BY <2>1 DEF FetchesBring
  <2> QED
    BY <1>2, <2>2, <2>3, <2>4
<1>11. ASSUME NEW book \in Workbooks, Change(book)
      PROVE  FetchesBring'
  BY <1>4, <1>11 DEF Change
<1> QED
  BY <1>4, <1>5, <1>6, <1>8, <1>9, <1>10, <1>11 DEF FleetNext, fleetVars

\* What a request brings was in the sheet since it was made
LEMMA Arriving ==
  ASSUME FleetInv, NEW r \in Readers, fetching[r] # Nil, fetching[r].got # Nil,
         NEW data, data = DashboardOf(fetching[r].got), Usable(data)
  PROVE  ReadAt(data, clock)
<1>1. PICK n \in 1..Len(sheets) : n = fetching[r].got /\ clock - LastSeen(n) <= Timeout
  <2>1. PICK n : n = fetching[r].got
    OBVIOUS
  <2>2. n \in 1..Len(sheets) /\ fetching[r].since <= LastSeen(n) /\ fetching[r].since \in Int
        /\ clock - fetching[r].since <= Timeout
    BY <2>1, FleetAssumption DEF FleetInv, FetchesBring, Brings
  <2>3. LastSeen(n) \in Int /\ clock \in Int
    BY <2>2, SheetAt DEF FleetInv
  <2> QED
    BY <2>1, <2>2, <2>3, FleetAssumption
<1>2. data = Dashboard(sheets[n].book, importStale(n))
  BY <1>1 DEF DashboardOf
<1>3. sheets[n].book \in Workbooks /\ importStale(n) \in BOOLEAN
  BY SheetAt DEF FleetInv, importStale
<1>4. data # Nil /\ data.monthly.rows # {}
  BY <1>2, <1>3, FleetAssumption DEF Usable
<1>5. Accounted(data.monthly, sheets[n].book.monthly)
      /\ Accounted(data.voyages, sheets[n].book.voyages) /\ data.importStale = importStale(n)
  BY <1>2, DashboardAccounts
<1>6. ~data.importStale => sheets[n].imported # Nil /\ clock - sheets[n].imported <= ImportLimit
  <2>1. PICK moment : moment = sheets[n].imported /\ moment \in Int \cup {Nil} /\ clock \in Int
    BY SheetAt DEF FleetInv
  <2>2. ~data.importStale => moment # Nil /\ ~(clock - moment > ImportLimit)
    BY <1>5, <2>1, Zenon DEF importStale
  <2> QED
    BY <2>1, <2>2, FleetAssumption
<1> QED
  BY <1>1, <1>4, <1>5, <1>6 DEF ReadAt, ReadFrom

LEMMA CacheIsReadOn ==
  ASSUME FleetInv, [FleetNext]_fleetVars
  PROVE  CacheIsRead'
<1>0. clock \in Nat /\ clock' \in Nat /\ clock <= clock'
  BY SheetsFollowOn DEF FleetInv, SheetsFollow
<1>1. CASE UNCHANGED cached
  <2>1. SUFFICES ASSUME cached # Nil
        PROVE  cached.at <= clock' /\ ReadAt(cached.data, cached.at)'
    BY <1>1 DEF FleetInv, CacheIsRead
  <2>2. cached.at \in Int /\ cached.at <= clock /\ ReadAt(cached.data, cached.at)
    BY <2>1 DEF FleetInv, CacheIsRead
  <2>3. PICK data, moment : data = cached.data /\ moment = cached.at
    OBVIOUS
  <2>4. ReadAt(data, moment)'
    BY <2>2, <2>3, ReadStays DEF FleetInv
  <2> QED
    BY <1>0, <1>1, <2>2, <2>3, <2>4
<1>2. CASE cached' = Nil
  BY <1>2 DEF CacheIsRead
<1>3. ASSUME NEW r \in Readers, Arrive(r)
      PROVE  CacheIsRead'
  <2>1. PICK data : /\ data = DashboardOf(fetching[r].got)
                    /\ IF Usable(data) THEN cached' = [data |-> data, at |-> clock]
                       ELSE UNCHANGED cached
    BY <1>3 DEF Arrive
  <2>2. UNCHANGED <<clock, sheets>> /\ fetching[r] # Nil /\ fetching[r].got # Nil
    BY <1>3 DEF Arrive
  <2>3. CASE Usable(data)
    <3>1. ReadAt(data, clock)
      BY <2>1, <2>2, <2>3, Arriving
    <3>2. PICK moment : moment = clock
      OBVIOUS
    <3>3. ReadAt(data, moment)'
      BY <1>0, <3>1, <3>2, ReadStays DEF FleetInv
    <3>4. cached' = [data |-> data, at |-> clock] /\ moment' = clock
      BY <2>1, <2>3, <3>2
    <3> QED
      BY <1>0, <2>2, <3>2, <3>3, <3>4 DEF CacheIsRead
  <2> QED
    BY <1>1, <2>1, <2>3
<1>4. CASE UNCHANGED fleetVars \/ Tick \/ Restart
  BY <1>1, <1>2, <1>4 DEF fleetVars, Tick, Restart
<1>5. ASSUME NEW r \in Readers,
             (\E refresh \in BOOLEAN : Ask(r, refresh)) \/ Export(r) \/ Fail(r)
      PROVE  UNCHANGED cached
  BY <1>5 DEF Ask, Export, Fail
<1>6. ASSUME NEW book \in Workbooks, Change(book)
      PROVE  UNCHANGED cached
  BY <1>6 DEF Change
<1> QED
  BY <1>1, <1>3, <1>4, <1>5, <1>6 DEF FleetNext

\* An answer not marked as old was read not long ago
AnswerIsRead ==
  (answered # Nil /\ ~answered.stale) =>
    \E moment \in Int : clock - moment < CacheTime /\ ReadAt(answered.data, moment)

LEMMA AnswerIsReadOn ==
  ASSUME FleetInv, FleetInv', AnswerIsRead, [FleetNext]_fleetVars
  PROVE  AnswerIsRead'
<1>1. ASSUME UNCHANGED fleetVars PROVE AnswerIsRead'
  BY <1>1 DEF fleetVars, AnswerIsRead, ReadAt, ReadFrom, LastSeen
<1>2. ASSUME answered' = Nil \/ answered'.stale = TRUE PROVE AnswerIsRead'
  BY <1>2 DEF AnswerIsRead
<1>3. ASSUME NEW data, NEW moment \in Int, ReadAt(data, moment)', clock' - moment < CacheTime,
             answered'.data = data
      PROVE  AnswerIsRead'
  <2>1. ReadAt(answered.data, moment)'
    BY <1>3 DEF ReadAt, ReadFrom
  <2> QED
    BY <1>3, <2>1 DEF AnswerIsRead
<1>4. ASSUME Tick \/ Restart PROVE AnswerIsRead'
  BY <1>2, <1>4 DEF Tick, Restart
<1>5. ASSUME NEW book \in Workbooks, Change(book) PROVE AnswerIsRead'
  BY <1>2, <1>5 DEF Change
<1>6. ASSUME NEW r \in Readers, Export(r) \/ Fail(r) PROVE AnswerIsRead'
  <2>1. answered' = Nil \/ FallBack
    BY <1>6 DEF Export, Fail
  <2>2. FallBack => answered'.stale = TRUE
    BY DEF FallBack, Answer
  <2> QED
    BY <1>2, <2>1, <2>2
<1>7. ASSUME NEW r \in Readers, Arrive(r) PROVE AnswerIsRead'
  <2>1. CASE Usable(DashboardOf(fetching[r].got))
    <3>1. PICK data, moment : data = DashboardOf(fetching[r].got) /\ moment = clock
      OBVIOUS
    <3>2. answered' = [data |-> data, stale |-> FALSE] /\ clock' = moment
          /\ fetching[r] # Nil /\ fetching[r].got # Nil
      BY <1>7, <2>1, <3>1 DEF Arrive, Answer
    <3>3. ReadAt(data, moment)
      BY <2>1, <3>1, <3>2, Arriving
    <3>4. moment \in Int /\ ReadAt(data, moment)'
      BY <3>1, <3>3, ReadStays DEF FleetInv, SheetsFollow
    <3> QED
      BY <1>3, <3>2, <3>4, FleetAssumption
  <2>2. CASE ~Usable(DashboardOf(fetching[r].got))
    <3>1. FallBack
      BY <1>7, <2>2 DEF Arrive
    <3>2. answered'.stale = TRUE
      BY <3>1 DEF FallBack, Answer
    <3> QED
      BY <1>2, <3>2
  <2> QED
    BY <2>1, <2>2
<1>8. ASSUME NEW r \in Readers, NEW refresh \in BOOLEAN, Ask(r, refresh)
      PROVE  AnswerIsRead'
  <2>1. CASE ~Current(refresh)
    BY <1>2, <1>8, <2>1 DEF Ask
  <2>2. CASE Current(refresh)
    <3>1. PICK data, moment : data = cached.data /\ moment = cached.at
      OBVIOUS
    <3>2. answered' = [data |-> data, stale |-> FALSE] /\ UNCHANGED clock
      BY <1>8, <2>2, <3>1 DEF Ask, Answer
    <3>3. moment \in Int /\ ReadAt(data, moment) /\ clock \in Int /\ clock - moment < CacheTime
      BY <2>2, <3>1, FleetAssumption DEF Current, FleetInv, SheetsFollow, CacheIsRead
    <3>4. ReadAt(data, moment)'
      BY <3>3, ReadStays DEF FleetInv
    <3> QED
      BY <1>3, <3>2, <3>3, <3>4
  <2> QED
    BY <2>1, <2>2
<1> QED
  BY <1>1, <1>4, <1>5, <1>6, <1>7, <1>8 DEF FleetNext

LEMMA ReadIsShown ==
  ASSUME FleetInv, AnswerIsRead
  PROVE  ShownAsWhatItIs
<1>1. SUFFICES ASSUME answered # Nil, ~answered.stale PROVE ShownAsWhatItIs
  BY DEF ShownAsWhatItIs
<1>2. PICK moment \in Int : clock - moment < CacheTime /\ ReadAt(answered.data, moment)
  BY <1>1 DEF AnswerIsRead
<1>3. PICK n \in 1..Len(sheets) : ReadFrom(answered.data, n, moment)
  BY <1>2 DEF ReadAt
<1>4. LastSeen(n) \in Int /\ clock \in Int /\ sheets[n].imported \in Int \cup {Nil}
  BY SheetAt DEF FleetInv
<1>5. clock - LastSeen(n) < CacheTime + Timeout
  BY <1>2, <1>3, <1>4, FleetAssumption DEF ReadFrom
<1>6. ~answered.data.importStale => sheets[n].imported # Nil
        /\ clock - sheets[n].imported < ImportLimit + CacheTime
  <2>1. PICK i : i = sheets[n].imported /\ i \in Int \cup {Nil}
    BY <1>4
  <2>2. ~answered.data.importStale => i # Nil /\ moment - i <= ImportLimit
    BY <1>3, <2>1 DEF ReadFrom
  <2>3. ~answered.data.importStale => i # Nil /\ clock - i < ImportLimit + CacheTime
    BY <1>2, <1>4, <2>1, <2>2, FleetAssumption
  <2> QED
    BY <2>1, <2>3
<1> QED
  BY <1>2, <1>3, <1>5, <1>6 DEF ShownAsWhatItIs, ReadAt, ReadFrom

\* The dashboard shows the sheet of a while ago at most, with every figure of a cell,
\* unless it says that it is old (getDashboard, stamp, report, lastImport_).
THEOREM FleetStands == FleetSpec => []ShownAsWhatItIs
<1>1. FleetInit => FleetInv /\ AnswerIsRead
  <2> SUFFICES ASSUME FleetInit PROVE FleetInv /\ AnswerIsRead
    OBVIOUS
  <2>1. PICK book \in Workbooks : sheets = <<[book |-> book, from |-> 0,
          imported |-> IF book.imported THEN 0 ELSE Nil]>>
    BY DEF FleetInit
  <2>2. PICK e : sheets = <<e>> /\ e \in SheetContents /\ e.from = 0
    BY <2>1 DEF SheetContents
  <2>3. SheetsFollow
    BY <2>2 DEF FleetInit, SheetsFollow
  <2> QED
    BY <2>3 DEF FleetInit, FleetInv, FetchesBring, CacheIsRead, AnswerIsRead
<1>2. FleetInv /\ AnswerIsRead /\ [FleetNext]_fleetVars => FleetInv' /\ AnswerIsRead'
  BY SheetsFollowOn, FetchesBringOn, CacheIsReadOn, AnswerIsReadOn DEF FleetInv
<1> QED
  BY <1>1, <1>2, ReadIsShown, PTL DEF FleetSpec

----------------------------------------------------------------------------
(* The voyages: what a reading says of the rows it was read from *)

LEMMA EightAreFinite ==
  ASSUME NEW a, NEW b, NEW c, NEW d, NEW e, NEW f, NEW g, NEW h
  PROVE  IsFiniteSet({a, b, c, d, e, f, g, h})
<1>1. IsFiniteSet({a})
  BY FS_Singleton
<1>2. IsFiniteSet({a} \cup {b})
  BY <1>1, FS_AddElement
<1>3. IsFiniteSet({a} \cup {b} \cup {c})
  BY <1>2, FS_AddElement
<1>4. IsFiniteSet({a} \cup {b} \cup {c} \cup {d})
  BY <1>3, FS_AddElement
<1>5. IsFiniteSet({a} \cup {b} \cup {c} \cup {d} \cup {e})
  BY <1>4, FS_AddElement
<1>6. IsFiniteSet({a} \cup {b} \cup {c} \cup {d} \cup {e} \cup {f})
  BY <1>5, FS_AddElement
<1>7. IsFiniteSet({a} \cup {b} \cup {c} \cup {d} \cup {e} \cup {f} \cup {g})
  BY <1>6, FS_AddElement
<1>8. IsFiniteSet({a} \cup {b} \cup {c} \cup {d} \cup {e} \cup {f} \cup {g} \cup {h})
  BY <1>7, FS_AddElement
<1>9. {a, b, c, d, e, f, g, h}
        = {a} \cup {b} \cup {c} \cup {d} \cup {e} \cup {f} \cup {g} \cup {h}
  OBVIOUS
<1> QED
  BY <1>8, <1>9

LEMMA LineFieldsAreFinite ==
  IsFiniteSet(LINE_REV) /\ IsFiniteSet(LINE_COMM) /\ IsFiniteSet(LINE_EXP)
<1>1. IsFiniteSet(LINE_REV)
  <2>1. LINE_REV = {"tr", "vh", "px", "dord", "furn", "minT", "hzr", "othInc"} \cup {"dis"}
    BY DEF LINE_REV
  <2> QED
    BY <2>1, EightAreFinite, FS_AddElement
<1>2. IsFiniteSet(LINE_COMM)
  <2>1. LINE_COMM = {"cTR", "cPA", "cDord", "cAfsh", "aa", "ab", "ac", "ad"}
                      \cup {"ae", "r", "s", "t", "fz", "fz", "fz", "fz"}
    BY DEF LINE_COMM
  <2> QED
    BY <2>1, EightAreFinite, FS_Union
<1>3. IsFiniteSet(LINE_EXP)
  <2>1. PICK first, second, third :
          /\ first = {"bnk", "portA", "oth", "exFurn", "cater", "agency", "wht", "opex"}
          /\ second = {"adv", "vesEx", "quar", "fw", "tips", "exHzr", "spray", "retPas"}
          /\ third = {"tel", "hire", "sd", "eb", "brk", "pk", "pg", "crn"}
    OBVIOUS
  <2>2. LINE_EXP = (first \cup second) \cup third
    BY <2>1 DEF LINE_EXP
  <2>3. IsFiniteSet(first) /\ IsFiniteSet(second) /\ IsFiniteSet(third)
    BY <2>1, EightAreFinite
  <2> QED
    BY <2>2, <2>3, FS_Union
<1> QED
  BY <1>1, <1>2, <1>3

LEMMA TotalInt ==
  ASSUME NEW row \in Voyages, NEW fields, IsFiniteSet(fields), NEW leg
  PROVE  Total(row, fields, leg) \in Int
<1>1. PICK F : F = side(row, fields, leg)
  OBVIOUS
<1>2. Total(row, fields, leg) = Sum(F, fields)
  BY <1>1 DEF Total, Sum
<1>3. \A f \in fields : F[f] \in Int
  BY <1>1, SheetsAssumption DEF side, n0
<1> QED
  BY <1>2, <1>3, SumInt

\* Months that are there are months
LEMMA MonthsThere ==
  ASSUME NEW row, MonthOf(row) # Untyped
  PROVE  MonthOf(row).year \in 1900..2099 /\ MonthOf(row).month \in 1..12
  BY SMTT(60) DEF MonthOf, monthOf

LEMMA MonthIsFound ==
  ASSUME NEW row, NEW date \in {row.exp, row.imp} \ {Untyped},
         date.year \in 1900..2099, date.month \in 1..12
  PROVE  MonthOf(row) # Untyped
  BY DEF MonthOf, monthOf

\* The voyages of a reading are those of rows
DubaRow(row, key, v) ==
  row.vessel = Duba[key].vessel /\ v.ref = row.ref /\ v.month = MonthOf(row)
  /\ MonthOf(row) # Untyped
JeddahRow(row, key, v) ==
  row.vessel = Jeddah[key].vessel /\ row.line = Jeddah[key].line /\ v.ref = row.ref
  /\ v.month = MonthOf(row) /\ v.net = row.net /\ v.gap = Gap(row) /\ MonthOf(row) # Untyped
LEMMA DubaRows ==
  ASSUME NEW rows, NEW key, NEW v \in voyagesFromData(rows, key)
  PROVE  \E row \in rows : DubaRow(row, key, v)
<1>1. PICK row \in {r \in rows : /\ r.readable /\ r.vessel = Duba[key].vessel
                                  /\ MonthOf(r) # Untyped} :
        v = toSheetVoyage(row, Duba[key])
  BY Zenon DEF voyagesFromData
<1>2. v.ref = row.ref /\ v.month = MonthOf(row)
  BY <1>1 DEF toSheetVoyage
<1> QED
  BY <1>1, <1>2 DEF DubaRow
LEMMA JeddahRows ==
  ASSUME NEW rows, NEW key, NEW v \in lineVoyagesFromData(rows, key)
  PROVE  \E row \in rows : JeddahRow(row, key, v)
<1>1. PICK row \in {r \in rows : /\ r.readable /\ MonthOf(r) # Untyped
                           /\ r.vessel = Jeddah[key].vessel /\ r.line = Jeddah[key].line
                           /\ (r.income # 0 \/ r.net # 0 \/ r.man # 0)} :
        v = toLineVoyage(row)
  BY Zenon DEF lineVoyagesFromData
<1>2. v.ref = row.ref /\ v.month = MonthOf(row) /\ v.net = row.net /\ v.gap = Gap(row)
  BY <1>1 DEF toLineVoyage
<1> QED
  BY <1>1, <1>2 DEF JeddahRow

LEMMA ReadingParts ==
  ASSUME NEW rows, NEW read, read = ReadingOf(rows)
  PROVE  /\ \A key \in DOMAIN Duba : read.duba[key] = voyagesFromData(rows, key)
         /\ \A key \in DOMAIN Jeddah : read.jeddah[key] = lineVoyagesFromData(rows, key)
  BY DEF ReadingOf

LEMMA ShownRows ==
  ASSUME NEW rows, NEW read, read = ReadingOf(rows), NEW v \in DubaOf(read) \cup JeddahOf(read)
  PROVE  \E row \in rows : v.ref = row.ref /\ v.month = MonthOf(row) /\ MonthOf(row) # Untyped
<1>1. CASE v \in DubaOf(read)
  <2>1. PICK key \in DOMAIN Duba : v \in voyagesFromData(rows, key)
    BY <1>1, ReadingParts DEF DubaOf
  <2> QED
    BY <2>1, DubaRows DEF DubaRow
<1>2. CASE v \in JeddahOf(read)
  <2>1. PICK key \in DOMAIN Jeddah : v \in lineVoyagesFromData(rows, key)
    BY <1>2, ReadingParts DEF JeddahOf
  <2> QED
    BY <2>1, JeddahRows DEF JeddahRow
<1> QED
  BY <1>1, <1>2

\* Each row that can be shown is shown on one screen, of one vessel
LEMMA OneScreen ==
  ASSUME NEW rows, NEW read, read = ReadingOf(rows)
  PROVE  OnOneScreen(rows, read)
<1>1. \A v \in DubaOf(read) \cup JeddahOf(read) : \E row \in rows : row.ref = v.ref
  BY ShownRows
<1>2. ASSUME NEW row \in rows, row.readable, row.net # 0,
             \/ row.vessel \in {Duba[key].vessel : key \in DOMAIN Duba}
             \/ <<row.vessel, row.line>>
                  \in {<<Jeddah[key].vessel, Jeddah[key].line>> : key \in DOMAIN Jeddah},
             \E date \in {row.exp, row.imp} \ {Untyped} :
               date.year \in 1900..2099 /\ date.month \in 1..12,
             NEW keys, keys = {key \in DOMAIN Duba :
                 \E v \in read.duba[key] : v.ref = row.ref /\ Duba[key].vessel = row.vessel},
             NEW lines, lines = {key \in DOMAIN Jeddah : \E v \in read.jeddah[key] :
                       v.ref = row.ref /\ Jeddah[key].vessel = row.vessel
                       /\ Jeddah[key].line = row.line}
      PROVE  Cardinality(keys) + Cardinality(lines) = 1
  <2>1. MonthOf(row) # Untyped
    BY <1>2, MonthIsFound
  <2>2. keys = {key \in DOMAIN Duba : Duba[key].vessel = row.vessel}
    <3>1. ASSUME NEW key \in DOMAIN Duba, Duba[key].vessel = row.vessel
          PROVE  \E v \in read.duba[key] : v.ref = row.ref
      <4>1. PICK v : v = toSheetVoyage(row, Duba[key])
        OBVIOUS
      <4>2. v \in voyagesFromData(rows, key)
        <5>1. PICK T : T = {r \in rows : r.readable /\ r.vessel = Duba[key].vessel
                                          /\ MonthOf(r) # Untyped}
          OBVIOUS
        <5>2. row \in T
          BY <1>2, <2>1, <3>1, <5>1
        <5>3. voyagesFromData(rows, key) = {toSheetVoyage(r, Duba[key]) : r \in T}
          BY <5>1 DEF voyagesFromData
        <5> QED
          BY <4>1, <5>2, <5>3
      <4>3. v.ref = row.ref
        BY <4>1 DEF toSheetVoyage
      <4> QED
        BY <4>2, <4>3, ReadingParts
    <3> QED
      BY <1>2, <3>1
  <2>3. lines = {key \in DOMAIN Jeddah :
                   Jeddah[key].vessel = row.vessel /\ Jeddah[key].line = row.line}
    <3>1. ASSUME NEW key \in DOMAIN Jeddah, Jeddah[key].vessel = row.vessel,
                 Jeddah[key].line = row.line
          PROVE  \E v \in read.jeddah[key] : v.ref = row.ref
      <4>1. PICK v : v = toLineVoyage(row)
        OBVIOUS
      <4>2. v \in lineVoyagesFromData(rows, key)
        <5>1. PICK T : T = {r \in rows : /\ r.readable /\ MonthOf(r) # Untyped
                           /\ r.vessel = Jeddah[key].vessel /\ r.line = Jeddah[key].line
                           /\ (r.income # 0 \/ r.net # 0 \/ r.man # 0)}
          OBVIOUS
        <5>2. row \in T
          BY <1>2, <2>1, <3>1, <5>1
        <5>3. lineVoyagesFromData(rows, key) = {toLineVoyage(r) : r \in T}
          BY <5>1 DEF lineVoyagesFromData
        <5> QED
          BY <4>1, <5>2, <5>3
      <4>3. v.ref = row.ref
        BY <4>1 DEF toLineVoyage
      <4> QED
        BY <4>2, <4>3, ReadingParts
    <3> QED
      BY <1>2, <3>1
  <2>4. CASE row.vessel \in {Duba[key].vessel : key \in DOMAIN Duba}
    <3>1. PICK key \in DOMAIN Duba : Duba[key].vessel = row.vessel
      BY <2>4
    <3>2. keys = {key} /\ lines = {}
      BY <2>2, <2>3, <3>1, SheetsAssumption
    <3> QED
      <4>1. Cardinality(keys) = 1
        BY <3>2, FS_Singleton
      <4>2. Cardinality(lines) = 0
        BY <3>2, FS_EmptySet
      <4> QED
        BY <4>1, <4>2
  <2>5. CASE row.vessel \notin {Duba[key].vessel : key \in DOMAIN Duba}
    <3>1. PICK key \in DOMAIN Jeddah :
            Jeddah[key].vessel = row.vessel /\ Jeddah[key].line = row.line
      BY <1>2, <2>5
    <3>2. lines = {key} /\ keys = {}
      BY <2>2, <2>3, <2>5, <3>1, SheetsAssumption
    <3> QED
      <4>1. Cardinality(lines) = 1
        BY <3>2, FS_Singleton
      <4>2. Cardinality(keys) = 0
        BY <3>2, FS_EmptySet
      <4> QED
        BY <4>1, <4>2
  <2> QED
    BY <2>4, <2>5
<1> QED
  BY <1>1, <1>2 DEF OnOneScreen

LEMMA SizesAdd ==
  ASSUME NEW x \in Int, NEW y \in Int, NEW z \in Int, NEW w \in Int
  PROVE  Size(x) + Size(y) + Size(z) + Size(w) >= Size(x - y - z + w)
<1>1. \A a \in Int : Size(a) \in Int /\ Size(a) >= a /\ Size(a) >= -a
  BY DEF Size
<1>2. Size(x - y - z + w) \in {x - y - z + w, -(x - y - z + w)}
  BY DEF Size
<1> QED
  BY <1>1, <1>2

LEMMA GapsTell ==
  ASSUME NEW rows \in SUBSET Voyages, NEW read, read = ReadingOf(rows)
  PROVE  GapTells(rows, read)
<1>1. SUFFICES ASSUME NEW key \in DOMAIN Jeddah, NEW v \in read.jeddah[key]
      PROVE  \E row \in rows : row.ref = v.ref /\ row.vessel = Jeddah[key].vessel /\
        v.gap >= Size(Revenue(row) - Total(row, LINE_COMM, "-")
                      - Total(row, LINE_EXP, "-") - v.net)
  BY DEF GapTells
<1>2. PICK row \in rows : JeddahRow(row, key, v)
  BY <1>1, ReadingParts, JeddahRows
<1>3. row \in Voyages
  OBVIOUS
<1>4. PICK C, M : C = Total(row, LINE_COMM, "-") /\ M = Total(row, LINE_EXP, "-")
                  /\ C \in Int /\ M \in Int
  BY <1>3, TotalInt, LineFieldsAreFinite
<1>5. PICK R : R = Revenue(row) /\ R \in Int
  <2>1. Total(row, LINE_REV, "E") \in Int /\ Total(row, LINE_REV, "I") \in Int
    BY <1>3, TotalInt, LineFieldsAreFinite
  <2> QED
    BY <2>1 DEF Revenue
<1>6. PICK i, c, m, n : i = row.income /\ c = row.comm /\ m = row.man /\ n = row.net
                        /\ i \in Int /\ c \in Int /\ m \in Int /\ n \in Int
  BY <1>3, SheetsAssumption
<1>7. Gap(row) = Size(R - i) + Size(C - c) + Size(M - m) + Size(i - c - m - n)
  BY <1>4, <1>5, <1>6 DEF Gap
<1>8. Size(R - i) + Size(C - c) + Size(M - m) + Size(i - c - m - n) >= Size(R - C - M - n)
  <2>1. PICK x, y, z, w : /\ x = R - i /\ y = C - c /\ z = M - m /\ w = i - c - m - n
                          /\ x \in Int /\ y \in Int /\ z \in Int /\ w \in Int
    BY <1>4, <1>5, <1>6
  <2>2. R - C - M - n = x - y - z + w
    BY <1>4, <1>5, <1>6, <2>1
  <2>3. Size(x) + Size(y) + Size(z) + Size(w) >= Size(x - y - z + w)
    BY <2>1, SizesAdd
  <2> QED
    BY <2>1, <2>2, <2>3
<1> QED
  BY <1>2, <1>4, <1>5, <1>6, <1>7, <1>8 DEF JeddahRow

LEMMA ReadingsShowWhatWasTyped ==
  ASSUME NEW rows \in SUBSET Voyages, NEW read, read = ReadingOf(rows)
  PROVE  OnOneScreen(rows, read) /\ MonthsAreMonths(read) /\ GapTells(rows, read)
<1>1. MonthsAreMonths(read)
  BY ShownRows, MonthsThere DEF MonthsAreMonths
<1> QED
  BY <1>1, OneScreen, GapsTell
----------------------------------------------------------------------------
(* The voyages: what the copy may still say of the sheet *)

\* The contents of the sheet follow each other in time
TableContents == [rows : SUBSET Voyages, from : Int]
TablesFollow ==
  /\ hours \in Nat
  /\ tables \in Seq(TableContents)
  /\ Len(tables) > 0
  /\ \A n \in 1..Len(tables) : tables[n].from <= hours

\* A request brings what was in the sheet after it was made, within its timeout
Loads(f) ==
  /\ f = [since |-> f.since, got |-> f.got]
  /\ f.since \in Int /\ hours - f.since \in 0..LoadTime
  /\ f.got # 0 => f.got \in 1..Len(tables) /\ f.since <= LastTyped(f.got)
LoadsBring ==
  /\ loading = [r \in Viewers |-> loading[r]]
  /\ \A r \in Viewers : loading[r] # Untyped => Loads(loading[r])

\* A reading of what was in the sheet around a moment
ReadOf(read, moment) ==
  \E n \in 1..Len(tables) :
    moment - LastTyped(n) <= LoadTime /\ read = ReadingOf(tables[n].rows)
CopyIsRead ==
  copy # Untyped => copy.at \in Int /\ copy.at <= hours /\ ReadOf(copy.read, copy.at)

\* An answer was read not long ago
ScreenIsRead ==
  screen # Untyped =>
    \E moment \in Int : hours - moment <= CopyTime /\ ReadOf(screen.read, moment)

SheetInv == TablesFollow /\ LoadsBring /\ CopyIsRead /\ ScreenIsRead

LEMMA TableAt ==
  ASSUME TablesFollow, NEW n \in 1..Len(tables)
  PROVE  /\ Len(tables) \in Nat /\ tables[n] \in TableContents
         /\ tables[n].rows \in SUBSET Voyages /\ tables[n].from \in Int
         /\ tables[n].from <= hours /\ hours \in Int /\ LastTyped(n) \in Int
<1>1. Len(tables) \in Nat /\ \A i \in 1..Len(tables) : tables[i] \in TableContents
  BY DEF TablesFollow
<1>2. \A e \in TableContents : e.rows \in SUBSET Voyages /\ e.from \in Int
  BY DEF TableContents
<1>3. hours \in Int /\ tables[n].from <= hours
  BY DEF TablesFollow
<1>4. n # Len(tables) => n + 1 \in 1..Len(tables)
  BY <1>1
<1>5. LastTyped(n) \in Int
  BY <1>1, <1>2, <1>3, <1>4 DEF LastTyped
<1> QED
  BY <1>1, <1>2, <1>3, <1>5

\* Contents stay as they were, and are seen for no shorter
TablesGo(n) == tables'[n] = tables[n] /\ LastTyped(n) \in Int /\ LastTyped(n)' \in Int
               /\ LastTyped(n) <= LastTyped(n)' /\ n \in 1..Len(tables)'
LEMMA TablesFollowOn ==
  ASSUME TablesFollow, [SheetNext]_sheetVars
  PROVE  TablesFollow' /\ hours <= hours' /\ \A n \in 1..Len(tables) : TablesGo(n)
<1>1. hours \in Int /\ \A n \in 1..Len(tables) : LastTyped(n) \in Int /\ tables[n].from \in Int
  BY TableAt DEF TablesFollow
<1>2. ASSUME UNCHANGED tables, hours' \in {hours, hours + 1}
      PROVE  TablesFollow' /\ hours <= hours' /\ \A n \in 1..Len(tables) : TablesGo(n)
  <2>1. hours <= hours' /\ hours' \in Nat
    BY <1>2 DEF TablesFollow
  <2>2. TablesFollow'
    BY <1>1, <1>2, <2>1 DEF TablesFollow
  <2>3. ASSUME NEW n \in 1..Len(tables) PROVE TablesGo(n)
    <3>1. CASE n = Len(tables)
      BY <1>1, <1>2, <2>1, <3>1 DEF TablesGo, LastTyped
    <3>2. CASE n # Len(tables)
      BY <1>1, <1>2, <2>1, <3>2 DEF TablesGo, LastTyped
    <3> QED
      BY <3>1, <3>2
  <2> QED
    BY <2>1, <2>2, <2>3
<1>3. CASE EditSheet
  <2>1. PICK row, rows :
          /\ row \in Voyages
          /\ rows = tables[Len(tables)].rows
          /\ tables' = Append(tables,
               [from |-> hours, rows |-> IF row \in rows THEN rows \ {row} ELSE rows \cup {row}])
    BY <1>3 DEF EditSheet
  <2>2. UNCHANGED hours
    BY <1>3 DEF EditSheet
  <2>3. PICK e : tables' = Append(tables, e) /\ e \in TableContents /\ e.from = hours
    <3>1. rows \in SUBSET Voyages
      BY <2>1, TableAt DEF TablesFollow
    <3>2. PICK after : after = IF row \in rows THEN rows \ {row} ELSE rows \cup {row}
      OBVIOUS
    <3>3. after \in SUBSET Voyages
      BY <2>1, <3>1, <3>2
    <3>4. [from |-> hours, rows |-> after] \in TableContents
      BY <1>1, <3>3 DEF TableContents
    <3> QED
      BY <2>1, <3>2, <3>4
  <2>4. /\ tables' \in Seq(TableContents) /\ Len(tables') = Len(tables) + 1
        /\ tables'[Len(tables) + 1] = e /\ \A n \in 1..Len(tables) : tables'[n] = tables[n]
        /\ Len(tables) \in Nat
    BY <2>3 DEF TablesFollow
  <2>5. TablesFollow'
    <3>1. \A n \in 1..Len(tables') : tables'[n].from <= hours
      BY <1>1, <2>3, <2>4 DEF TablesFollow
    <3> QED
      BY <2>2, <2>4, <3>1 DEF TablesFollow
  <2>6. ASSUME NEW n \in 1..Len(tables) PROVE TablesGo(n)
    <3>1. LastTyped(n)' = tables'[n + 1].from /\ n \in 1..Len(tables')
      BY <2>4 DEF LastTyped
    <3>2. LastTyped(n)' = LastTyped(n)
      <4>1. CASE n = Len(tables)
        BY <2>3, <2>4, <3>1, <4>1 DEF LastTyped
      <4>2. CASE n # Len(tables)
        BY <2>3, <2>4, <3>1, <4>2 DEF LastTyped
      <4> QED
        BY <4>1, <4>2
    <3> QED
      BY <1>1, <2>4, <3>1, <3>2 DEF TablesGo
  <2> QED
    BY <1>1, <2>2, <2>5, <2>6
<1>4. CASE UNCHANGED sheetVars \/ HourPasses
  BY <1>2, <1>4 DEF sheetVars, HourPasses
<1>5. ASSUME NEW r \in Viewers,
             AskSheet(r) \/ ExportSheet(r) \/ SheetArrives(r) \/ SheetFails(r)
      PROVE  UNCHANGED <<tables, hours>>
  BY <1>5 DEF AskSheet, ExportSheet, SheetArrives, SheetFails
<1> QED
  BY <1>2, <1>3, <1>4, <1>5 DEF SheetNext

LEMMA LoadsBringOn ==
  ASSUME TablesFollow, LoadsBring, [SheetNext]_sheetVars
  PROVE  LoadsBring'
<1>0. hours \in Nat /\ hours' \in Nat /\ \A n \in 1..Len(tables) : TablesGo(n)
  BY TablesFollowOn DEF TablesFollow
<1>1. ASSUME NEW f, Loads(f), hours' - f.since \in 0..LoadTime
      PROVE  Loads(f)'
  BY <1>0, <1>1 DEF Loads, TablesGo
<1>2. ASSUME loading' = [r \in Viewers |-> loading'[r]],
             \A r \in Viewers : loading'[r] \in {loading[r], Untyped},
             \A r \in Viewers : loading[r] # Untyped => hours' - loading[r].since \in 0..LoadTime
      PROVE  LoadsBring'
  <2>1. ASSUME NEW r \in Viewers, loading'[r] # Untyped PROVE Loads(loading[r])'
    <3>1. PICK f : f = loading[r]
      OBVIOUS
    <3>2. loading'[r] = f /\ f # Untyped /\ Loads(f)
      BY <1>2, <2>1, <3>1 DEF LoadsBring
    <3>3. Loads(f)'
      BY <1>1, <1>2, <3>1, <3>2
    <3> QED
      BY <3>2, <3>3 DEF Loads
  <2> QED
    BY <1>2, <2>1 DEF LoadsBring
<1>3. \A r \in Viewers : loading[r] # Untyped =>
        loading[r].since \in Int /\ hours - loading[r].since \in 0..LoadTime
  BY DEF LoadsBring, Loads
<1>4. CASE UNCHANGED <<hours, loading>>
  BY <1>2, <1>3, <1>4 DEF LoadsBring
<1>5. CASE HourPasses
  <2>1. ASSUME NEW r \in Viewers, loading[r] # Untyped
        PROVE  hours' - loading[r].since \in 0..LoadTime
    BY <1>0, <1>3, <1>5, <2>1, SheetsAssumption DEF HourPasses
  <2>2. UNCHANGED loading
    BY <1>5 DEF HourPasses
  <2> QED
    BY <1>2, <2>1, <2>2 DEF LoadsBring
<1>6. ASSUME NEW r \in Viewers, NEW f, loading' = [loading EXCEPT ![r] = f], Loads(f)',
             UNCHANGED hours
      PROVE  LoadsBring'
  <2>1. loading' = [x \in Viewers |-> loading'[x]] /\ loading'[r] = f
        /\ \A x \in Viewers : x # r => loading'[x] = loading[x]
    BY <1>6 DEF LoadsBring
  <2>2. ASSUME NEW x \in Viewers, loading'[x] # Untyped PROVE Loads(loading[x])'
    <3>1. CASE x = r
      BY <1>6, <2>1, <3>1 DEF Loads
    <3>2. CASE x # r
      <4>1. PICK g : g = loading[x]
        OBVIOUS
      <4>2. loading'[x] = g /\ Loads(g) /\ hours' - g.since \in 0..LoadTime
        BY <1>3, <1>6, <2>1, <2>2, <3>2, <4>1 DEF LoadsBring
      <4>3. Loads(g)'
        BY <1>1, <4>2
      <4> QED
        BY <4>2, <4>3 DEF Loads
    <3> QED
      BY <3>1, <3>2
  <2> QED
    BY <2>1, <2>2 DEF LoadsBring
<1>7. ASSUME NEW r \in Viewers, AskSheet(r)
      PROVE  LoadsBring'
  <2>1. UNCHANGED hours /\ (UNCHANGED loading
          \/ loading' = [loading EXCEPT ![r] = [since |-> hours, got |-> 0]])
    BY <1>7 DEF AskSheet
  <2>2. PICK f : f = [since |-> hours, got |-> 0]
    OBVIOUS
  <2>3. Loads(f)'
    <3>1. hours' - f.since \in 0..LoadTime /\ f.since \in Int
      BY <1>0, <2>1, <2>2, SheetsAssumption
    <3> QED
      BY <2>2, <3>1 DEF Loads
  <2> QED
    BY <1>4, <1>6, <2>1, <2>2, <2>3
<1>8. ASSUME NEW r \in Viewers, ExportSheet(r)
      PROVE  LoadsBring'
  <2>1. UNCHANGED <<hours, tables>> /\ loading' = [loading EXCEPT ![r].got = Len(tables)]
        /\ loading[r] # Untyped
    BY <1>8 DEF ExportSheet
  <2>2. PICK s : s = loading[r].since /\ s \in Int /\ hours - s \in 0..LoadTime
                 /\ loading[r] = [since |-> s, got |-> loading[r].got]
    BY <1>3, <2>1 DEF LoadsBring, Loads
  <2>3. PICK f : f = [since |-> s, got |-> Len(tables)]
    OBVIOUS
  <2>4. loading' = [loading EXCEPT ![r] = f]
    <3>1. f = [loading[r] EXCEPT !.got = Len(tables)]
      BY <2>2, <2>3
    <3> QED
      BY <2>1, <3>1, Zenon
  <2>5. Len(tables) \in 1..Len(tables)' /\ LastTyped(Len(tables)) = hours /\ s <= hours
    BY <1>0, <2>1, <2>2, SheetsAssumption DEF LastTyped, TablesFollow
  <2>6. LastTyped(f.got)' = hours
    BY <2>1, <2>3 DEF LastTyped
  <2>7. Loads(f)'
    BY <2>1, <2>2, <2>3, <2>5, <2>6 DEF Loads
  <2> QED
    BY <1>6, <2>1, <2>4, <2>7
<1>9. ASSUME NEW r \in Viewers, SheetArrives(r) \/ SheetFails(r)
      PROVE  LoadsBring'
  <2>1. UNCHANGED hours /\ loading' = [loading EXCEPT ![r] = Untyped]
    BY <1>9 DEF SheetArrives, SheetFails
  <2>2. \A x \in Viewers : loading'[x] \in {loading[x], Untyped}
    BY <2>1 DEF LoadsBring
  <2>3. \A x \in Viewers : loading[x] # Untyped => hours' - loading[x].since \in 0..LoadTime
    BY <1>3, <2>1
  <2>4. loading' = [x \in Viewers |-> loading'[x]]
    BY <2>1 DEF LoadsBring
  <2> QED
    BY <1>2, <2>2, <2>3, <2>4
<1>10. CASE EditSheet
  BY <1>4, <1>10 DEF EditSheet
<1> QED
  BY <1>4, <1>5, <1>7, <1>8, <1>9, <1>10 DEF SheetNext, sheetVars

\* What was read stays read: the sheet has only stood for longer
LEMMA ReadingStays ==
  ASSUME TablesFollow, [SheetNext]_sheetVars, NEW read, NEW moment \in Int, ReadOf(read, moment)
  PROVE  ReadOf(read, moment)'
<1>1. PICK n \in 1..Len(tables) :
        moment - LastTyped(n) <= LoadTime /\ read = ReadingOf(tables[n].rows)
  BY DEF ReadOf
<1>2. TablesGo(n)
  BY TablesFollowOn
<1>3. moment - LastTyped(n)' <= LoadTime
  BY <1>1, <1>2, SheetsAssumption DEF TablesGo
<1>4. read = ReadingOf(tables'[n].rows)
  BY <1>1, <1>2 DEF TablesGo
<1> QED
  BY <1>2, <1>3, <1>4 DEF ReadOf, TablesGo

LEMMA SheetComes ==
  ASSUME SheetInv, NEW r \in Viewers, SheetArrives(r), [SheetNext]_sheetVars
  PROVE  \E read : copy' = [read |-> read, at |-> hours] /\ ReadOf(read, hours)
<1>1. PICK n : n = loading[r].got
  OBVIOUS
<1>2. /\ n \in 1..Len(tables) /\ loading[r].since <= LastTyped(n) /\ loading[r].since \in Int
      /\ hours - loading[r].since <= LoadTime
  BY <1>1, SheetsAssumption DEF SheetArrives, SheetInv, LoadsBring, Loads
<1>3. LastTyped(n) \in Int /\ hours \in Int
  BY <1>2, TableAt DEF SheetInv
<1>4. hours - LastTyped(n) <= LoadTime
  BY <1>2, <1>3, SheetsAssumption
<1> QED
  BY <1>1, <1>2, <1>4 DEF SheetArrives, ReadOf

LEMMA SheetInvOn ==
  ASSUME SheetInv, [SheetNext]_sheetVars
  PROVE  SheetInv'
<1>0. TablesFollow' /\ LoadsBring' /\ hours \in Nat /\ hours' \in Nat /\ hours <= hours'
  BY TablesFollowOn, LoadsBringOn DEF SheetInv, TablesFollow
<1>1. ASSUME NEW read, NEW moment \in Int, ReadOf(read, moment) PROVE ReadOf(read, moment)'
  BY <1>1, ReadingStays DEF SheetInv
<1>2. ASSUME copy # Untyped, UNCHANGED copy PROVE CopyIsRead' /\ ReadOf(copy.read, copy.at)'
  <2>1. PICK read, moment : read = copy.read /\ moment = copy.at
    OBVIOUS
  <2>2. moment \in Int /\ moment <= hours /\ ReadOf(read, moment)
    BY <1>2, <2>1 DEF SheetInv, CopyIsRead
  <2>3. ReadOf(read, moment)'
    BY <1>1, <2>2
  <2>4. read = copy'.read /\ moment = copy'.at
    BY <1>2, <2>1
  <2>5. ReadOf(copy.read, copy.at)'
    BY <2>3, <2>4 DEF ReadOf
  <2> QED
    BY <1>0, <1>2, <2>1, <2>2, <2>5 DEF CopyIsRead
<1>3. ASSUME UNCHANGED copy PROVE CopyIsRead'
  <2>1. CASE copy = Untyped
    BY <1>3, <2>1 DEF CopyIsRead
  <2> QED
    BY <1>2, <1>3, <2>1
<1>4. ASSUME screen' = Untyped PROVE ScreenIsRead'
  BY <1>4 DEF ScreenIsRead
<1>5. CASE UNCHANGED sheetVars
  BY <1>0, <1>3, <1>5 DEF SheetInv, sheetVars, ScreenIsRead, ReadOf, LastTyped
<1>6. CASE EditSheet \/ HourPasses
  BY <1>0, <1>3, <1>4, <1>6 DEF SheetInv, EditSheet, HourPasses
<1>7. ASSUME NEW r \in Viewers, ExportSheet(r) \/ SheetFails(r) PROVE SheetInv'
  BY <1>0, <1>3, <1>4, <1>7 DEF SheetInv, ExportSheet, SheetFails
<1>8. ASSUME NEW r \in Viewers, AskSheet(r) PROVE SheetInv'
  <2>1. UNCHANGED <<copy, hours>> /\ (screen' = Untyped \/ (CopyServes /\ screen' = copy))
    BY <1>8 DEF AskSheet
  <2>2. ASSUME CopyServes, screen' = copy PROVE ScreenIsRead'
    <3>1. copy # Untyped /\ copy.at \in Int /\ hours' - copy.at <= CopyTime
      BY <2>1, <2>2 DEF CopyServes, SheetInv, CopyIsRead
    <3>2. PICK moment : moment = copy.at
      OBVIOUS
    <3>3. ReadOf(screen.read, moment)'
      BY <1>2, <2>1, <2>2, <3>1, <3>2 DEF ReadOf
    <3> QED
      BY <3>1, <3>2, <3>3 DEF ScreenIsRead
  <2> QED
    BY <1>0, <1>3, <1>4, <2>1, <2>2 DEF SheetInv
<1>9. ASSUME NEW r \in Viewers, SheetArrives(r) PROVE SheetInv'
  <2>1. PICK read : copy' = [read |-> read, at |-> hours] /\ ReadOf(read, hours)
    BY <1>9, SheetComes
  <2>2. screen' = copy' /\ hours' = hours
    BY <1>9 DEF SheetArrives
  <2>3. PICK moment \in Int : moment = hours /\ ReadOf(read, moment)
    BY <1>0, <2>1
  <2>4. ReadOf(read, moment)'
    BY <1>1, <2>3
  <2>5. copy'.read = read /\ copy'.at = moment
    BY <2>1, <2>3
  <2>6. CopyIsRead'
    BY <1>0, <2>2, <2>3, <2>4, <2>5 DEF CopyIsRead, ReadOf
  <2>7. ReadOf(screen.read, moment)'
    BY <2>2, <2>4, <2>5 DEF ReadOf
  <2>8. ScreenIsRead'
    BY <1>0, <2>2, <2>3, <2>7, SheetsAssumption DEF ScreenIsRead
  <2> QED
    BY <1>0, <2>6, <2>8 DEF SheetInv
<1> QED
  BY <1>5, <1>6, <1>7, <1>8, <1>9 DEF SheetNext

LEMMA ReadIsAsTyped ==
  ASSUME SheetInv
  PROVE  VoyagesAreAsTyped
<1>1. SUFFICES ASSUME screen # Untyped PROVE VoyagesAreAsTyped
  BY DEF VoyagesAreAsTyped
<1>2. PICK moment \in Int, n \in 1..Len(tables) :
        /\ hours - moment <= CopyTime /\ moment - LastTyped(n) <= LoadTime
        /\ screen.read = ReadingOf(tables[n].rows)
  BY <1>1 DEF SheetInv, ScreenIsRead, ReadOf
<1>3. LastTyped(n) \in Int /\ hours \in Int /\ tables[n].rows \in SUBSET Voyages
  BY TableAt DEF SheetInv
<1>4. hours - LastTyped(n) <= CopyTime + LoadTime
  BY <1>2, <1>3, SheetsAssumption
<1> QED
  BY <1>2, <1>3, <1>4, ReadingsShowWhatWasTyped DEF VoyagesAreAsTyped

\* An answer of the voyages is a whole reading of one content of the sheet, not long
\* gone, and shows what was typed there (loadSheet, voyagesFromData,
\* lineVoyagesFromData).
THEOREM VoyagesStand == SheetSpec => []VoyagesAreAsTyped
<1>1. SheetInit => SheetInv
  <2> SUFFICES ASSUME SheetInit PROVE SheetInv
    OBVIOUS
  <2>1. PICK e : tables = <<e>> /\ e \in TableContents /\ e.from = 0
    <3>1. PICK rows \in SUBSET Voyages : tables = <<[from |-> 0, rows |-> rows]>>
      BY DEF SheetInit
    <3>2. [from |-> 0, rows |-> rows] \in TableContents
      BY DEF TableContents
    <3> QED
      BY <3>1, <3>2
  <2>2. TablesFollow
    BY <2>1 DEF SheetInit, TablesFollow
  <2> QED
    BY <2>2 DEF SheetInit, SheetInv, LoadsBring, CopyIsRead, ScreenIsRead
<1>2. SheetInv /\ [SheetNext]_sheetVars => SheetInv'
  BY SheetInvOn
<1> QED
  BY <1>1, <1>2, ReadIsAsTyped, PTL DEF SheetSpec

----------------------------------------------------------------------------
(* The fund *)

\* A row keeps what it was written with; the one its round is found by is there
RowIsKept(r) ==
  /\ r = [id |-> r.id, table |-> r.table, round |-> r.round, line |-> r.line]
  /\ r.id \in Nat /\ r.id < written_rows
  /\ IsLine(r.line) /\ r.table = r.line.table
  /\ r.table \in {"rounds", "parent", "investment", "reports"} => r.line.amount > 0
  /\ r.table = "rounds" => r.round = NoValue
  /\ r.table \in {"investment", "reports"} => r.round # NoValue
  /\ r.round # NoValue => \E rd \in Table("rounds") : rd.id = r.round
FundTables ==
  /\ IsFiniteSet(fund_rows) /\ written_rows \in Nat
  /\ \A r \in fund_rows : RowIsKept(r)
  /\ \A r, s \in fund_rows : r.id = s.id => r = s

\* A round is written under a name of its own: no two requests give the same, and
\* what hangs on it so far is of the lines its request has written
Hanging(i, line) == {r \in fund_rows : r.round = i /\ r.line = line}
FedBy(i, p, n) ==
  \A line : line \notin EnteredLines =>
    Cardinality(Hanging(i, line)) <= Cardinality({k \in 1..n : p[k] = line})
SeederIsSound(u) ==
  LET s == seeder[u] IN
  /\ "step" \in DOMAIN s
  /\ s.step = "seed" =>
       /\ s = [step |-> "seed", payload |-> s.payload, next |-> s.next, ids |-> s.ids]
       /\ s.payload \in Payloads /\ SoundPayload(s.payload)
       /\ s.next \in 1..(Len(s.payload) + 1)
       /\ s.ids = [no \in DOMAIN s.ids |-> s.ids[no]]
       /\ \A no \in DOMAIN s.ids :
            /\ s.ids[no] \in Nat /\ s.ids[no] < written_rows
            /\ FedBy(s.ids[no], s.payload, s.next - 1)
       /\ \A no, other \in DOMAIN s.ids : s.ids[no] = s.ids[other] => no = other
OwnNames ==
  \A u, v \in Seeders :
    u # v /\ seeder[u].step = "seed" /\ seeder[v].step = "seed" =>
      \A no \in DOMAIN seeder[u].ids, other \in DOMAIN seeder[v].ids :
        seeder[u].ids[no] # seeder[v].ids[other]
EveryRoundIsFed ==
  \A i \in Nat : \E p \in Payloads \cup {<<>>}, n \in Nat : n <= Len(p) /\ FedBy(i, p, n)
FundInv ==
  /\ FundTables
  /\ seeder = [u \in Seeders |-> seeder[u]] /\ \A u \in Seeders : SeederIsSound(u)
  /\ OwnNames /\ EveryRoundIsFed

----------------------------------------------------------------------------
LEMMA SumUpIsSum ==
  ASSUME NEW F
  PROVE  SumUp(F) = Sum(F, DOMAIN F)
BY Zenon DEF SumUp, Sum

\* The money of rows, as the sum of any function that gives their amounts
LEMMA MoneyIsSum ==
  ASSUME NEW S, IsFiniteSet(S), NEW F, \A r \in S : F[r] = r.line.amount
  PROVE  Money(S) = Sum(F, S)
<1>1. PICK G : G = [r \in S |-> r.line.amount]
  OBVIOUS
<1>2. Money(S) = Sum(G, S)
  BY <1>1, SumUpIsSum DEF Money
<1>3. \A r \in S : F[r] = G[r]
  BY <1>1
<1> QED
  BY <1>2, <1>3, SumEqual

\* What a function gives on a finite set is finite
LEMMA FinitelyMany ==
  ASSUME NEW S, IsFiniteSet(S), NEW f, NEW T, \A y \in T : \E x \in S : y = f[x]
  PROVE  IsFiniteSet(T)
<1>1. PICK P : P = {x \in S : f[x] \in T}
  OBVIOUS
<1>2. PICK g : g = [x \in P |-> f[x]]
  OBVIOUS
<1>3. g \in Surjection(P, T)
  BY <1>1, <1>2 DEF Surjection
<1>4. IsFiniteSet(P)
  BY <1>1, FS_Subset
<1> QED
  BY <1>3, <1>4, FS_Surjection

\* A finite set of days has a first and a last
LEMMA FirstAndLast ==
  ASSUME NEW S, IsFiniteSet(S), S \subseteq Int, S # {}
  PROVE  /\ Min(S) \in S /\ \A x \in S : Min(S) <= x
         /\ Max(S) \in S /\ \A x \in S : Max(S) >= x
<1>1. PICK B : B = {T \in SUBSET S : T # {} => \E a, b \in T : \A x \in T : a <= x /\ x <= b}
  OBVIOUS
<1>2. {} \in B
  BY <1>1
<1>3. ASSUME NEW T \in SUBSET S, NEW e \in T, T \ {e} \in B
      PROVE  T \in B
  <2>1. CASE T \ {e} = {}
    <3>1. \A x \in T : x = e /\ e \in Int
      BY <2>1
    <3> QED
      BY <1>1, <3>1
  <2>2. CASE T \ {e} # {}
    <3>1. PICK a, b \in T \ {e} : \A x \in T \ {e} : a <= x /\ x <= b
      BY <1>1, <1>3, <2>2
    <3>2. PICK c, d \in T : c <= a /\ c <= e /\ b <= d /\ e <= d
      <4>1. a \in Int /\ b \in Int /\ e \in Int /\ a \in T /\ b \in T
        OBVIOUS
      <4>2. \E c \in T : c <= a /\ c <= e
        BY <4>1
      <4>3. \E d \in T : b <= d /\ e <= d
        BY <4>1
      <4> QED
        BY <4>2, <4>3
    <3>3. \A x \in T : c <= x /\ x <= d
      <4>1. a \in Int /\ b \in Int /\ e \in Int /\ c \in Int /\ d \in Int /\ T \subseteq Int
        OBVIOUS
      <4>2. ASSUME NEW x \in T PROVE c <= x /\ x <= d
        <5>1. x \in Int /\ (x = e \/ (a <= x /\ x <= b))
          BY <3>1, <4>1
        <5> QED
          BY <3>2, <4>1, <5>1
      <4> QED
        BY <4>2
    <3> QED
      BY <1>1, <3>3
  <2> QED
    BY <2>1, <2>2
<1>4. S \in B
  <2>1. \A T \in SUBSET S : \A e \in T : T \ {e} \in B => T \in B
    BY <1>3
  <2> QED
    BY <1>2, <2>1, ElementInduction
<1>5. PICK a, b \in S : \A x \in S : a <= x /\ x <= b
  BY <1>1, <1>4
<1>6. \A x \in S : b >= x
  BY <1>5
<1> QED
  BY <1>5, <1>6 DEF Min, Max

\* The same amount on every day
LEMMA SumConstant ==
  ASSUME NEW S, IsFiniteSet(S), NEW F, NEW c \in Int, \A x \in S : F[x] = c
  PROVE  Sum(F, S) = c * Cardinality(S)
<1>1. PICK B : B = {T \in SUBSET S : Sum(F, T) = c * Cardinality(T)}
  OBVIOUS
<1>2. {} \in B
  <2>1. Sum(F, {}) = 0 /\ Cardinality({}) = 0
    BY SumEmpty, FS_EmptySet
  <2> QED
    BY <1>1, <2>1
<1>3. ASSUME NEW T \in SUBSET S, NEW e \in T, T \ {e} \in B
      PROVE  T \in B
  <2>1. IsFiniteSet(T) /\ \A x \in T : F[x] \in Int
    BY FS_Subset
  <2>2. Sum(F, T) = F[e] + Sum(F, T \ {e})
    BY <2>1, SumRemove
  <2>3. Sum(F, T \ {e}) = c * Cardinality(T \ {e})
    BY <1>1, <1>3
  <2>4. Cardinality(T) \in Nat /\ Cardinality(T \ {e}) = Cardinality(T) - 1
    BY <2>1, FS_RemoveElement, FS_CardinalityType
  <2>5. c + c * (Cardinality(T) - 1) = c * Cardinality(T)
    BY <2>4
  <2> QED
    BY <1>1, <2>2, <2>3, <2>4, <2>5
<1>4. \A T \in SUBSET S : \A e \in T : T \ {e} \in B => T \in B
  BY <1>3
<1>5. S \in B
  BY <1>2, <1>4, ElementInduction
<1> QED
  BY <1>1, <1>5

----------------------------------------------------------------------------
\* The columns of the tables, and a set of rows is finite
LEMMA ColumnsOfTables ==
  ASSUME FundTables
  PROVE  /\ \A S \in SUBSET fund_rows : IsFiniteSet(S)
         /\ \A name : \A r \in Table(name) :
              /\ r \in fund_rows /\ r.id \in Nat /\ r.table = name /\ r.line.table = name
              /\ name \in {"rounds", "parent", "investment", "reports"} =>
                   r.line.amount \in Int /\ r.line.amount > 0
              /\ name \in {"parent", "terms", "reports"} => r.line.date \in Int
              /\ name = "terms" => r.line.rate \in Int
              /\ name = "reports" => r.line.result \in Int
<1>1. \A S \in SUBSET fund_rows : IsFiniteSet(S)
  BY FS_Subset DEF FundTables
<1> QED
  BY <1>1 DEF FundTables, RowIsKept, IsLine, Table

LEMMA MoneyIsInt ==
  ASSUME FundTables, NEW S \in SUBSET fund_rows, \A r \in S : r.line.amount \in Int
  PROVE  Money(S) \in Int
<1>1. PICK F : F = [r \in S |-> r.line.amount]
  OBVIOUS
<1>2. IsFiniteSet(S) /\ \A r \in S : F[r] = r.line.amount
  BY <1>1, ColumnsOfTables
<1>3. Money(S) = Sum(F, S)
  BY <1>2, MoneyIsSum
<1>4. \A r \in S : F[r] \in Int
  BY <1>2
<1> QED
  BY <1>2, <1>3, <1>4, SumInt

LEMMA LoansAreMoney ==
  ASSUME FundTables, NEW way
  PROVE  /\ Loans(way) \in SUBSET fund_rows
         /\ \A r \in Loans(way) :
              r.line.amount \in Int /\ r.line.amount > 0 /\ r.line.date \in Int
         /\ \A r \in Loans(way) : r \in Table("parent") /\ r.line.date \in LoanDays
<1>1. \A r \in Loans(way) : r \in Table("parent") /\ r.line.kind = "principal"
  BY DEF Loans
<1>2. \A r \in Loans(way) : r.line.date \in LoanDays
  BY <1>1 DEF LoanDays
<1> QED
  BY <1>1, <1>2, ColumnsOfTables

\* Of the terms that have started one holds
LEMMA OneTermHolds ==
  ASSUME FundTables, NEW day, Until(Table("terms"), day) # {}
  PROVE  TermAt(day) \in Table("terms")
<1>1. PICK S : S = Until(Table("terms"), day)
  OBVIOUS
<1>2. S \subseteq Table("terms") /\ S \in SUBSET fund_rows
  BY <1>1 DEF Until, Table
<1>3. \A r \in S : r.line.date \in Int /\ r.id \in Nat
  BY <1>2, ColumnsOfTables
<1>4. IsFiniteSet(S)
  BY <1>2, ColumnsOfTables
<1>5. PICK D : D = {r.line.date : r \in S}
  OBVIOUS
<1>6. IsFiniteSet(D) /\ D \subseteq Int /\ D # {}
  <2>1. IsFiniteSet(D)
    <3>1. PICK f : f = [r \in S |-> r.line.date]
      OBVIOUS
    <3>2. \A d \in D : \E r \in S : d = f[r]
      BY <1>5, <3>1
    <3> QED
      BY <1>4, <3>2, FinitelyMany
  <2> QED
    BY <1>1, <1>3, <1>5, <2>1
<1>7. PICK last : last = Max(D) /\ last \in D /\ \A d \in D : last >= d
  BY <1>6, FirstAndLast
<1>8. PICK T : T = {r \in S : r.line.date = last}
  OBVIOUS
<1>9. PICK I : I = {r.id : r \in T}
  OBVIOUS
<1>10. IsFiniteSet(I) /\ I \subseteq Int /\ I # {}
  <2>1. IsFiniteSet(T)
    BY <1>4, <1>8, FS_Subset
  <2>2. IsFiniteSet(I)
    <3>1. PICK f : f = [r \in T |-> r.id]
      OBVIOUS
    <3>2. \A i \in I : \E r \in T : i = f[r]
      BY <1>9, <3>1
    <3> QED
      BY <2>1, <3>2, FinitelyMany
  <2>3. T # {}
    BY <1>5, <1>7, <1>8
  <2> QED
    BY <1>3, <1>8, <1>9, <2>2, <2>3
<1>11. PICK newest \in I : \A i \in I : newest >= i
  BY <1>10, FirstAndLast
<1>12. PICK t \in T : t.id = newest
  BY <1>9, <1>11
<1>13. \A s \in S : s.line.date < t.line.date \/ (s.line.date = t.line.date /\ s.id <= t.id)
  <2>1. ASSUME NEW s \in S
        PROVE  s.line.date < t.line.date \/ (s.line.date = t.line.date /\ s.id <= t.id)
    <3>1. t \in S /\ t.line.date = last
      BY <1>8, <1>12
    <3>2. s.line.date \in D /\ last >= s.line.date /\ last \in Int /\ s.line.date \in Int
      BY <1>3, <1>5, <1>6, <1>7
    <3>3. CASE s.line.date = last
      <4>1. s.id \in I /\ s.id \in Nat /\ newest \in Int
        BY <1>3, <1>8, <1>9, <1>10, <1>11, <3>3
      <4>2. newest >= s.id
        BY <1>11, <4>1
      <4> QED
        BY <1>12, <3>1, <3>3, <4>1, <4>2
    <3> QED
      BY <3>1, <3>2, <3>3
  <2> QED
    BY <2>1
<1>14. t \in S
  BY <1>8, <1>12
<1>15. TermAt(day) \in S
  BY <1>1, <1>13, <1>14 DEF TermAt
<1> QED
  BY <1>2, <1>15

LEMMA InterestIsInt ==
  ASSUME FundTables, NEW day, Until(Table("terms"), day) # {}
  PROVE  DayInterest(day) \in Int
<1>1. \A way : Money(Until(Loans(way), day)) \in Int
  <2>1. ASSUME NEW way PROVE Money(Until(Loans(way), day)) \in Int
    <3>1. Until(Loans(way), day) \in SUBSET fund_rows
          /\ \A r \in Until(Loans(way), day) : r.line.amount \in Int
      BY LoansAreMoney DEF Until
    <3> QED
      BY <3>1, MoneyIsInt
  <2> QED
    BY <2>1
<1>2. Principal(day) \in Int
  BY <1>1 DEF Principal
<1>3. TermAt(day).line.rate \in Int
  BY OneTermHolds, ColumnsOfTables
<1>4. Daily(TermAt(day)) \in Int
  BY <1>3 DEF Daily
<1>5. \A x, y \in Int : x * y \in Int
  OBVIOUS
<1> QED
  BY <1>2, <1>4, <1>5 DEF DayInterest

\* Between two days on which nothing starts, the interest of a day is the same
LEMMA NothingStarts ==
  ASSUME FundTables, NEW from \in Int, NEW day \in Int, from <= day,
         \A d \in TermDays \cup LoanDays : ~(from < d /\ d <= day)
  PROVE  DayInterest(day) = DayInterest(from)
<1>1. ASSUME NEW S, \A r \in S : r.line.date \in Int /\ r.line.date \in TermDays \cup LoanDays
      PROVE  Until(S, day) = Until(S, from)
  <2>1. ASSUME NEW r \in S PROVE r.line.date <= day <=> r.line.date <= from
    <3>1. r.line.date \in Int /\ ~(from < r.line.date /\ r.line.date <= day)
      BY <1>1
    <3> QED
      BY <3>1
  <2> QED
    BY <2>1 DEF Until
<1>2. \A way : Until(Loans(way), day) = Until(Loans(way), from)
  <2>1. ASSUME NEW way PROVE Until(Loans(way), day) = Until(Loans(way), from)
    <3>1. \A r \in Loans(way) : r.line.date \in Int /\ r.line.date \in TermDays \cup LoanDays
      BY LoansAreMoney
    <3> QED
      BY <1>1, <3>1
  <2> QED
    BY <2>1
<1>3. Until(Table("terms"), day) = Until(Table("terms"), from)
  <2>1. \A r \in Table("terms") : r.line.date \in Int /\ r.line.date \in TermDays \cup LoanDays
    BY ColumnsOfTables DEF TermDays
  <2> QED
    BY <1>1, <2>1
<1>4. Principal(day) = Principal(from)
  BY <1>2 DEF Principal
<1>5. TermAt(day) = TermAt(from)
  BY <1>3 DEF TermAt
<1> QED
  BY <1>4, <1>5 DEF DayInterest

\* The days on which anything starts
LEMMA DaysAreFinite ==
  ASSUME FundTables
  PROVE  /\ IsFiniteSet(TermDays) /\ TermDays \subseteq Int
         /\ IsFiniteSet(LoanDays) /\ LoanDays \subseteq Int
<1>1. PICK f : f = [r \in fund_rows |-> r.line.date]
  OBVIOUS
<1>2. \A d \in TermDays : \E r \in fund_rows : d = f[r]
  BY <1>1, ColumnsOfTables DEF TermDays
<1>3. \A d \in LoanDays : \E r \in fund_rows : d = f[r]
  BY <1>1, ColumnsOfTables DEF LoanDays
<1>4. IsFiniteSet(TermDays) /\ IsFiniteSet(LoanDays)
  BY <1>2, <1>3, FinitelyMany DEF FundTables
<1>5. TermDays \subseteq Int /\ LoanDays \subseteq Int
  BY ColumnsOfTables DEF TermDays, LoanDays
<1> QED
  BY <1>4, <1>5

\* The slices part the days: each day is in the slice of the last cut before it
LEMMA SlicesAddUp ==
  ASSUME FundTables, TermDays # {}, NEW asOf \in Int, Min(TermDays) <= asOf
  PROVE  SumUp([cut \in Cuts(asOf) |-> SliceInterest(cut, asOf)])
           = SumUp([day \in Min(TermDays)..asOf |-> DayInterest(day)])
<1>1. PICK first : first = Min(TermDays)
  OBVIOUS
<1>2. first \in TermDays /\ first \in Int /\ \A d \in TermDays : first <= d
  BY <1>1, DaysAreFinite, FirstAndLast
<1>3. PICK C : C = Cuts(asOf)
  OBVIOUS
<1>4. /\ C \subseteq first..asOf /\ first \in C
      /\ \A d \in TermDays \cup LoanDays : first < d /\ d <= asOf => d \in C
  <2>1. first <= asOf
    BY <1>1
  <2>2. C = {first} \cup {d \in TermDays \cup LoanDays : first < d /\ d <= asOf}
    BY <1>1, <1>3 DEF Cuts
  <2>3. \A d \in TermDays \cup LoanDays : d \in Int
    BY DaysAreFinite
  <2>4. \A d \in C : d \in Int /\ first <= d /\ d <= asOf
    BY <1>2, <2>1, <2>2, <2>3
  <2>5. C \subseteq first..asOf
    BY <1>2, <2>4
  <2>6. first \in C
    BY <2>2
  <2>7. \A d \in TermDays \cup LoanDays : first < d /\ d <= asOf => d \in C
    BY <2>2
  <2> QED
    BY <2>5, <2>6, <2>7
<1>5. PICK Days : Days = first..asOf
  OBVIOUS
<1>6. IsFiniteSet(Days) /\ Days \subseteq Int
  BY <1>2, <1>5, FS_Interval
<1>7. IsFiniteSet(C) /\ C \subseteq Int
  BY <1>4, <1>5, <1>6, FS_Subset
<1>8. \A day \in Days : Until(Table("terms"), day) # {}
  <2>1. PICK t \in Table("terms") : t.line.date = first
    BY <1>2 DEF TermDays
  <2>2. \A day \in Days : t.line.date <= day
    BY <1>5, <2>1
  <2> QED
    BY <2>1, <2>2 DEF Until
<1>9. PICK F : F = [day \in Days |-> DayInterest(day)]
  OBVIOUS
<1>10. \A day \in Days : F[day] = DayInterest(day) /\ F[day] \in Int
  BY <1>8, <1>9, InterestIsInt
<1>11. PICK key : key = [day \in Days |-> Max({c \in C : c <= day})]
  OBVIOUS
<1>12. ASSUME NEW day \in Days
       PROVE  key[day] \in C /\ key[day] <= day /\ \A c \in C : c <= day => c <= key[day]
  <2>1. PICK U : U = {c \in C : c <= day}
    OBVIOUS
  <2>2. IsFiniteSet(U) /\ U \subseteq Int /\ first \in U
    <3>1. first <= day
      BY <1>2, <1>5
    <3>2. IsFiniteSet(U)
      BY <1>7, <2>1, FS_Subset
    <3> QED
      BY <1>4, <1>7, <2>1, <3>1, <3>2
  <2>3. Max(U) \in U /\ \A x \in U : Max(U) >= x
    BY <2>2, FirstAndLast
  <2>4. key[day] = Max(U)
    BY <1>11, <2>1
  <2>5. PICK m : m = Max(U)
    OBVIOUS
  <2>6. m \in C /\ m <= day /\ m \in Int
    BY <1>7, <2>1, <2>3, <2>5
  <2>7. ASSUME NEW c \in C, c <= day PROVE c <= m
    BY <1>7, <2>1, <2>3, <2>5, <2>6, <2>7
  <2> QED
    BY <2>4, <2>5, <2>6, <2>7
<1>13. PICK part : part = [c \in C |-> {day \in Days : key[day] = c}]
  OBVIOUS
<1>14. PICK G : G = [cut \in C |-> SliceInterest(cut, asOf)]
  OBVIOUS
<1>15. ASSUME NEW c \in C
       PROVE  G[c] = Sum(F, part[c])
  <2>1. PICK end : end = SliceEnd(c, asOf)
    OBVIOUS
  <2>2. end \in Int /\ c <= end /\ end <= asOf
        /\ (\A d \in C : ~(c < d /\ d <= end)) /\ (end = asOf \/ end + 1 \in C)
    <3>1. PICK L : L = {d \in C : d > c}
      OBVIOUS
    <3>2. end = IF L = {} THEN asOf ELSE Min(L) - 1
      BY <1>3, <2>1, <3>1 DEF SliceEnd
    <3>3. c \in Int /\ c <= asOf
      BY <1>4, <1>7, <1>2
    <3>4. CASE L = {}
      <4>1. end = asOf
        BY <3>2, <3>4
      <4>2. \A d \in C : ~(d > c) /\ d \in Int
        BY <1>7, <3>1, <3>4
      <4> QED
        BY <3>3, <4>1, <4>2
    <3>5. CASE L # {}
      <4>1. IsFiniteSet(L) /\ L \subseteq Int
        BY <1>7, <3>1, FS_Subset
      <4>2. Min(L) \in L /\ \A x \in L : Min(L) <= x
        BY <3>5, <4>1, FirstAndLast
      <4>3. PICK m : m = Min(L)
        OBVIOUS
      <4>4. m \in Int /\ m \in C /\ m > c /\ m <= asOf /\ end = m - 1
        BY <1>2, <1>4, <3>1, <3>2, <3>5, <4>1, <4>2, <4>3
      <4>5. ASSUME NEW d \in C, c < d PROVE ~(d <= end)
        <5>1. d \in Int /\ d \in L /\ m <= d
          BY <1>7, <3>1, <3>3, <4>2, <4>3, <4>5
        <5> QED
          BY <4>4, <5>1
      <4> QED
        BY <3>3, <4>4, <4>5
    <3> QED
      BY <3>4, <3>5
  <2>3. c \in Int /\ c \in Days /\ first <= c
    BY <1>2, <1>4, <1>5, <1>7
  <2>4. part[c] = c..end
    <3>1. ASSUME NEW day \in Days PROVE key[day] = c <=> (c <= day /\ day <= end)
      <4>1. day \in Int /\ key[day] \in Int /\ day <= asOf
        <5>1. key[day] \in Int
          BY <1>7, <1>12
        <5>2. day \in Int /\ day <= asOf
          BY <1>2, <1>5
        <5> QED
          BY <5>1, <5>2
      <4>2. key[day] = c => c <= day /\ day <= end
        <5>1. SUFFICES ASSUME key[day] = c, end < day PROVE FALSE
          BY <1>12, <2>2, <4>1
        <5>2. end + 1 \in C /\ end + 1 <= day
          BY <2>2, <4>1, <5>1
        <5> QED
          BY <1>12, <2>2, <2>3, <5>1, <5>2
      <4>3. ASSUME c <= day, day <= end PROVE key[day] = c
        <5>1. c <= key[day] /\ key[day] <= day
          BY <1>12, <4>3
        <5>2. ~(c < key[day] /\ key[day] <= end)
          BY <1>12, <2>2
        <5> QED
          BY <2>2, <2>3, <4>1, <4>3, <5>1, <5>2
      <4> QED
        BY <4>2, <4>3
    <3>2. c..end \subseteq Days
      BY <1>2, <1>5, <2>2, <2>3
    <3>3. \A day \in c..end : c <= day /\ day <= end
      BY <2>2, <2>3
    <3>4. \A day \in Days : c <= day /\ day <= end => day \in c..end
      BY <1>6, <2>2, <2>3
    <3>5. part[c] = {day \in Days : key[day] = c}
      BY <1>13
    <3> QED
      BY <3>1, <3>2, <3>3, <3>4, <3>5
  <2>5. \A day \in c..end : F[day] = DayInterest(c)
    <3>1. ASSUME NEW day \in c..end PROVE DayInterest(day) = DayInterest(c)
      <4>1. day \in Int /\ c <= day /\ day <= end
        BY <2>2, <2>3
      <4>2. \A d \in TermDays \cup LoanDays : ~(c < d /\ d <= day)
        <5>1. SUFFICES ASSUME NEW d \in TermDays \cup LoanDays, c < d, d <= day PROVE FALSE
          OBVIOUS
        <5>2. d \in Int /\ first < d /\ d <= asOf /\ d <= end
          BY <1>2, <2>2, <2>3, <4>1, <5>1, DaysAreFinite
        <5> QED
          BY <1>4, <2>2, <5>1, <5>2
      <4> QED
        BY <2>3, <4>1, <4>2, NothingStarts
    <3>2. c..end \subseteq Days
      BY <1>2, <1>5, <2>2, <2>3
    <3> QED
      BY <1>10, <3>1, <3>2
  <2>6. IsFiniteSet(c..end) /\ Cardinality(c..end) = end - c + 1
    BY <2>2, <2>3, FS_Interval
  <2>7. DayInterest(c) \in Int
    BY <1>10, <2>3
  <2>8. PICK S, x : S = c..end /\ x = DayInterest(c)
    OBVIOUS
  <2>9. Sum(F, S) = x * Cardinality(S)
    <3>1. IsFiniteSet(S) /\ x \in Int /\ \A day \in S : F[day] = x
      BY <2>5, <2>6, <2>7, <2>8
    <3> QED
      BY <3>1, SumConstant
  <2>10. G[c] = x * (end - c + 1)
    BY <1>14, <2>1, <2>8 DEF SliceInterest
  <2> QED
    BY <2>4, <2>6, <2>8, <2>9, <2>10
<1>16. Sum(G, C) = Sum(F, Days)
  <2>1. \A day \in Days : key[day] \in C
    BY <1>12
  <2>2. \A c \in C : part[c] = {day \in Days : key[day] = c}
    BY <1>13
  <2>3. \A c \in C : G[c] = Sum(F, part[c])
    BY <1>15
  <2>4. \A day \in Days : F[day] \in Int
    BY <1>10
  <2>5. IsFiniteSet(Days) /\ IsFiniteSet(C)
    BY <1>6, <1>7
  <2> QED
    BY <2>1, <2>2, <2>3, <2>4, <2>5, SumByKey
<1>17. SumUp(G) = Sum(G, C) /\ SumUp(F) = Sum(F, Days)
  BY <1>9, <1>14, SumUpIsSum
<1> QED
  BY <1>1, <1>3, <1>5, <1>9, <1>14, <1>16, <1>17

\* Interest, a day at a time
LEMMA InterestOfEveryDay ==
  ASSUME FundTables, FundAssumption
  PROVE  InterestIsDaily
<1>1. SUFFICES ASSUME NEW asOf \in CardDays
               PROVE  Accrued(asOf) = SumUp([day \in IF TermDays = {} THEN {}
                                             ELSE Min(TermDays)..asOf |-> DayInterest(day)])
  BY DEF InterestIsDaily
<1>2. asOf \in Int
  BY DEF FundAssumption
<1>3. ASSUME NEW F, DOMAIN F = {} PROVE SumUp(F) = 0
  BY <1>3, SumUpIsSum, SumEmpty
<1>4. CASE TermDays = {}
  BY <1>3, <1>4 DEF Accrued
<1>5. CASE TermDays # {} /\ asOf < Min(TermDays)
  <2>1. Min(TermDays) \in Int
    BY <1>5, DaysAreFinite, FirstAndLast
  <2>2. Min(TermDays)..asOf = {}
    BY <1>2, <1>5, <2>1
  <2> QED
    BY <1>3, <1>5, <2>2 DEF Accrued
<1>6. CASE TermDays # {} /\ ~(asOf < Min(TermDays))
  <2>1. Min(TermDays) \in Int
    BY <1>6, DaysAreFinite, FirstAndLast
  <2>2. Min(TermDays) <= asOf
    BY <1>2, <1>6, <2>1
  <2>3. SumUp([cut \in Cuts(asOf) |-> SliceInterest(cut, asOf)])
          = SumUp([day \in Min(TermDays)..asOf |-> DayInterest(day)])
    BY <1>2, <1>6, <2>2, SlicesAddUp
  <2> QED
    BY <1>6, <2>3 DEF Accrued
<1> QED
  BY <1>4, <1>5, <1>6

\* The rows that hang on rounds come to what the rounds come to
LEMMA MoneyByRound ==
  ASSUME FundTables, NEW S \in SUBSET fund_rows, NEW G,
         \A r \in S : r.line.amount \in Int /\ \E rd \in Table("rounds") : rd.id = r.round,
         \A rd \in Table("rounds") : G[rd] = Money(Mine(S, rd))
  PROVE  Sum(G, Table("rounds")) = Money(S)
<1>1. PICK K : K = Table("rounds")
  OBVIOUS
<1>2. IsFiniteSet(K) /\ IsFiniteSet(S) /\ K \subseteq fund_rows
  BY <1>1, ColumnsOfTables DEF Table
<1>3. PICK key : key = [r \in S |-> CHOOSE rd \in K : rd.id = r.round]
  OBVIOUS
<1>4. \A r \in S : key[r] \in K /\ key[r].id = r.round
  BY <1>1, <1>3
<1>5. PICK part : part = [rd \in K |-> Mine(S, rd)]
  OBVIOUS
<1>6. \A rd \in K : part[rd] = {r \in S : key[r] = rd}
  <2>1. ASSUME NEW rd \in K, NEW r \in S PROVE r.round = rd.id <=> key[r] = rd
    BY <1>2, <1>4 DEF FundTables
  <2> QED
    BY <1>5, <2>1 DEF Mine
<1>7. PICK F : F = [r \in S |-> r.line.amount]
  OBVIOUS
<1>8. \A r \in S : F[r] \in Int /\ F[r] = r.line.amount
  BY <1>7
<1>9. ASSUME NEW rd \in K PROVE G[rd] = Sum(F, part[rd])
  <2>1. PICK P : P = part[rd]
    OBVIOUS
  <2>2. IsFiniteSet(P) /\ P \subseteq S
    BY <1>2, <1>6, <2>1, FS_Subset
  <2>3. \A r \in P : F[r] = r.line.amount
    BY <1>8, <2>2
  <2>4. Money(P) = Sum(F, P)
    BY <2>2, <2>3, MoneyIsSum
  <2>5. G[rd] = Money(P)
    BY <1>1, <1>5, <2>1
  <2> QED
    BY <2>1, <2>4, <2>5
<1>10. Sum(G, K) = Sum(F, S)
  <2>1. PICK T, H : T = S /\ H = G
    OBVIOUS
  <2>2. /\ IsFiniteSet(T) /\ IsFiniteSet(K)
        /\ \A r \in T : F[r] \in Int
        /\ \A r \in T : key[r] \in K
    BY <1>2, <1>4, <1>8, <2>1
  <2>3. \A rd \in K : part[rd] = {r \in T : key[r] = rd}
    BY <1>6, <2>1
  <2>4. \A rd \in K : H[rd] = Sum(F, part[rd])
    BY <1>9, <2>1
  <2>5. Sum(H, K) = Sum(F, T)
    BY <2>2, <2>3, <2>4, SumByKey
  <2> QED
    BY <2>1, <2>5
<1>11. Money(S) = Sum(F, S)
  BY <1>2, <1>8, MoneyIsSum
<1> QED
  BY <1>1, <1>10, <1>11

\* What the card is drawn from hangs on rounds that are there
LEMMA DealsHangOnRounds ==
  ASSUME FundTables
  PROVE  /\ \A way : Deals(way) \in SUBSET fund_rows
         /\ Confirmed \in SUBSET fund_rows
         /\ \A way : \A r \in Deals(way) :
              r.line.amount \in Int /\ r.line.amount > 0
                /\ \E rd \in Table("rounds") : rd.id = r.round
         /\ \A r \in Confirmed :
              r.line.amount \in Int /\ r.line.amount > 0
                /\ \E rd \in Table("rounds") : rd.id = r.round
         /\ \A r \in Loans("funding") : r.round # NoValue =>
              \E rd \in Table("rounds") : rd.id = r.round
<1>1. \A r \in Table("investment") : /\ r \in fund_rows
                                     /\ r.line.amount \in Int /\ r.line.amount > 0
                                     /\ \E rd \in Table("rounds") : rd.id = r.round
  <2>1. ASSUME NEW r \in Table("investment") PROVE \E rd \in Table("rounds") : rd.id = r.round
    <3>1. r \in fund_rows /\ r.table = "investment"
      BY DEF Table
    <3> QED
      BY <3>1 DEF FundTables, RowIsKept
  <2> QED
    BY <2>1, ColumnsOfTables
<1>2. /\ \A way : \A r \in Deals(way) : r \in Table("investment")
      /\ \A r \in Confirmed : r \in Table("investment")
  BY DEF Deals, Confirmed
<1>3. \A r \in Loans("funding") : r.round # NoValue => \E rd \in Table("rounds") : rd.id = r.round
  <2>1. \A r \in Loans("funding") : r \in fund_rows
    BY DEF Loans, Table
  <2> QED
    BY <2>1 DEF FundTables, RowIsKept
<1> QED
  BY <1>1, <1>2, <1>3

\* Money of any part of the rows is not negative
LEMMA MoneyIsNatural ==
  ASSUME FundTables, NEW S \in SUBSET fund_rows,
         \A r \in S : r.line.amount \in Int /\ r.line.amount > 0
  PROVE  Money(S) \in Nat
<1>1. PICK F : F = [r \in S |-> r.line.amount]
  OBVIOUS
<1>2. IsFiniteSet(S) /\ \A r \in S : F[r] = r.line.amount
  BY <1>1, ColumnsOfTables
<1>3. Money(S) = Sum(F, S)
  BY <1>2, MoneyIsSum
<1>4. \A r \in S : F[r] \in Int /\ F[r] >= 0
  BY <1>2
<1>5. Sum(F, S) \in Int /\ Sum(F, S) >= 0
  BY <1>2, <1>4, SumInt, SumNonNegative
<1> QED
  BY <1>3, <1>5

\* The share of a round is a number or missing
LEMMA ShareOfRound ==
  ASSUME FundTables, NEW id, NEW commitment \in Int
  PROVE  BookShare(id, commitment) \in Int \cup {NoValue}
<1>1. \A r \in Latest(id) : r.line.result \in Int /\ r.line.amount \in Int /\ r.line.amount > 0
  BY ColumnsOfTables DEF Latest, OfRound
<1>2. \A a, b, c \in Int : c > 0 => (a * b) \div c \in Int
  <2>1. \A a, b \in Int : a * b \in Int
    OBVIOUS
  <2>2. \A a, c \in Int : c > 0 => a \div c \in Int
    OBVIOUS
  <2> QED
    BY <2>1, <2>2
<1>3. PICK one : one = {(r.line.result * commitment) \div r.line.amount : r \in Latest(id)}
  OBVIOUS
<1>4. one \subseteq Int
  BY <1>1, <1>2, <1>3
<1>5. BookShare(id, commitment) = IF one = {} THEN NoValue ELSE CHOOSE x \in one : TRUE
  BY <1>3 DEF BookShare
<1> QED
  BY <1>4, <1>5

\* What a round of the card says
LEMMA RoundSays ==
  ASSUME FundTables, NEW rd \in Table("rounds")
  PROVE  LET row == RoundFigures(rd) IN
         /\ row.contributed = Money(Mine(Deals("contribution"), rd)) /\ row.contributed \in Nat
         /\ row.funded = Money(Mine(Loans("funding"), rd)) /\ row.funded \in Nat
         /\ Money(Mine(Confirmed, rd)) \in Nat
         /\ row.gap = row.contributed - row.funded
         /\ row.gain \in Int /\ row.capital \in Int
         /\ row.capital - row.gain = row.contributed - Money(Mine(Confirmed, rd))
         /\ row.share \in Int \cup {NoValue}
         /\ row.value = IF row.share = NoValue THEN NoValue ELSE row.capital + row.share
<1>1. PICK contributed, confirmed, funded, share :
        /\ contributed = Money(Mine(Deals("contribution"), rd))
        /\ confirmed = Money(Mine(Confirmed, rd))
        /\ funded = Money(Mine(Loans("funding"), rd))
        /\ share = BookShare(rd.id, rd.line.amount)
  OBVIOUS
<1>2. contributed \in Nat /\ confirmed \in Nat /\ funded \in Nat
  <2>1. \A S \in SUBSET fund_rows :
          (\A r \in S : r.line.amount \in Int /\ r.line.amount > 0) => Money(Mine(S, rd)) \in Nat
    <3>1. ASSUME NEW S \in SUBSET fund_rows,
                 \A r \in S : r.line.amount \in Int /\ r.line.amount > 0
          PROVE  Money(Mine(S, rd)) \in Nat
      <4>1. /\ Mine(S, rd) \in SUBSET fund_rows
            /\ \A r \in Mine(S, rd) : r.line.amount \in Int /\ r.line.amount > 0
        BY <3>1 DEF Mine
      <4> QED
        BY <4>1, MoneyIsNatural
    <3> QED
      BY <3>1
  <2> QED
    BY <1>1, <2>1, DealsHangOnRounds, LoansAreMoney
<1>3. share \in Int \cup {NoValue}
  BY <1>1, ShareOfRound, ColumnsOfTables
<1>4. PICK returned : returned = IF confirmed < contributed THEN confirmed ELSE contributed
  OBVIOUS
<1>5. PICK row : row = RoundFigures(rd)
  OBVIOUS
<1>6. /\ row.contributed = contributed /\ row.funded = funded
      /\ row.gap = contributed - funded /\ row.gain = confirmed - returned
      /\ row.capital = contributed - returned /\ row.share = share
      /\ row.value = IF share = NoValue THEN NoValue ELSE contributed - returned + share
  BY <1>1, <1>4, <1>5, Zenon DEF RoundFigures
<1>7. returned \in Int
  BY <1>2, <1>4
<1>8. /\ row.gain \in Int /\ row.capital \in Int
      /\ row.capital - row.gain = contributed - confirmed
  BY <1>2, <1>6, <1>7
<1> QED
  BY <1>1, <1>2, <1>3, <1>5, <1>6, <1>8, Zenon

\* A figure of the card is the sum of what the rounds say
LEMMA FigureIsSum ==
  ASSUME NEW field, NEW F, \A rd \in Table("rounds") : F[rd] = ByRound[rd][field],
         IsFiniteSet(Table("rounds"))
  PROVE  Figure(ByRound, field) = Sum(F, Table("rounds"))
<1>1. PICK K : K = Table("rounds")
  OBVIOUS
<1>2. PICK H : H = [rd \in DOMAIN ByRound |-> ByRound[rd][field]]
  OBVIOUS
<1>3. DOMAIN ByRound = K
  BY <1>1, Zenon DEF ByRound
<1>4. DOMAIN H = K /\ \A rd \in K : F[rd] = H[rd]
  BY <1>1, <1>2, <1>3
<1>5. Figure(ByRound, field) = Sum(H, K)
  BY <1>2, <1>4, SumUpIsSum DEF Figure
<1>6. Sum(F, K) = Sum(H, K)
  BY <1>1, <1>4, SumEqual
<1> QED
  BY <1>1, <1>5, <1>6

\* What the figures of the card come to
LEMMA FiguresOfCard ==
  ASSUME FundTables, FundAssumption
  PROVE  LET lent == Money({r \in Loans("funding") : r.round # NoValue}) IN
         /\ Figure(ByRound, "contributed") = Money(Deals("contribution"))
         /\ Figure(ByRound, "funded") = lent
         /\ Figure(ByRound, "gap") = Money(Deals("contribution")) - lent
         /\ Figure(ByRound, "capital") - Figure(ByRound, "gain")
              = Money(Deals("contribution")) - Money(Confirmed)
         /\ Figure(ByRound, "capital") \in Int
         /\ lent \in Nat
<1>1. PICK K : K = Table("rounds")
  OBVIOUS
<1>2. IsFiniteSet(K)
  BY <1>1, ColumnsOfTables DEF Table
<1>3. PICK row : row = [rd \in K |-> RoundFigures(rd)]
  OBVIOUS
<1>4. ByRound = row
  BY <1>1, <1>3 DEF ByRound
<1>5. PICK paidIn, lentFor, back, gap, gain, capital :
        /\ paidIn = [rd \in K |-> row[rd].contributed]
        /\ lentFor = [rd \in K |-> row[rd].funded]
        /\ back = [rd \in K |-> Money(Mine(Confirmed, rd))]
        /\ gap = [rd \in K |-> row[rd].gap]
        /\ gain = [rd \in K |-> row[rd].gain]
        /\ capital = [rd \in K |-> row[rd].capital]
  OBVIOUS
<1>6. PICK forRounds : forRounds = {r \in Loans("funding") : r.round # NoValue}
  OBVIOUS
<1>7. ASSUME NEW rd \in K
      PROVE  /\ paidIn[rd] = Money(Mine(Deals("contribution"), rd)) /\ paidIn[rd] \in Int
             /\ lentFor[rd] = Money(Mine(Loans("funding"), rd)) /\ lentFor[rd] \in Int
             /\ back[rd] = Money(Mine(Confirmed, rd)) /\ back[rd] \in Int
             /\ gap[rd] = paidIn[rd] - lentFor[rd] /\ gap[rd] \in Int
             /\ gain[rd] \in Int /\ capital[rd] \in Int
             /\ capital[rd] - gain[rd] = paidIn[rd] - back[rd]
  <2>1. PICK one : one = RoundFigures(rd)
    OBVIOUS
  <2>2. row[rd] = one
    BY <1>3, <2>1
  <2>3. /\ one.contributed = Money(Mine(Deals("contribution"), rd)) /\ one.contributed \in Nat
        /\ one.funded = Money(Mine(Loans("funding"), rd)) /\ one.funded \in Nat
        /\ Money(Mine(Confirmed, rd)) \in Nat
        /\ one.gap = one.contributed - one.funded
        /\ one.gain \in Int /\ one.capital \in Int
        /\ one.capital - one.gain = one.contributed - Money(Mine(Confirmed, rd))
    BY <1>1, <2>1, RoundSays
  <2> QED
    BY <1>5, <2>2, <2>3
<1>8. /\ Figure(ByRound, "contributed") = Sum(paidIn, K)
      /\ Figure(ByRound, "funded") = Sum(lentFor, K)
      /\ Figure(ByRound, "gap") = Sum(gap, K)
      /\ Figure(ByRound, "gain") = Sum(gain, K)
      /\ Figure(ByRound, "capital") = Sum(capital, K)
  <2>1. \A rd \in K : /\ paidIn[rd] = ByRound[rd]["contributed"]
                      /\ lentFor[rd] = ByRound[rd]["funded"]
                      /\ gap[rd] = ByRound[rd]["gap"]
                      /\ gain[rd] = ByRound[rd]["gain"]
                      /\ capital[rd] = ByRound[rd]["capital"]
    BY <1>4, <1>5
  <2> QED
    BY <1>1, <1>2, <2>1, FigureIsSum
<1>9. Sum(paidIn, K) = Money(Deals("contribution"))
  <2>1. \A rd \in Table("rounds") : paidIn[rd] = Money(Mine(Deals("contribution"), rd))
    BY <1>1, <1>7
  <2> QED
    BY <1>1, <2>1, DealsHangOnRounds, MoneyByRound
<1>10. Sum(back, K) = Money(Confirmed)
  <2>1. \A rd \in Table("rounds") : back[rd] = Money(Mine(Confirmed, rd))
    BY <1>1, <1>7
  <2> QED
    BY <1>1, <2>1, DealsHangOnRounds, MoneyByRound
<1>11. Sum(lentFor, K) = Money(forRounds) /\ Money(forRounds) \in Nat
  <2>1. \A rd \in K : rd.id # NoValue => Mine(forRounds, rd) = Mine(Loans("funding"), rd)
    BY <1>6 DEF Mine
  <2>2. ASSUME NEW rd \in K, rd.id = NoValue
        PROVE  Mine(forRounds, rd) = Mine(Loans("funding"), rd)
    <3>1. rd.id \in Nat
      BY <1>1, ColumnsOfTables
    <3> QED
      BY <2>2, <3>1 DEF FundAssumption
  <2>3. \A rd \in Table("rounds") : lentFor[rd] = Money(Mine(forRounds, rd))
    BY <1>1, <1>7, <2>1, <2>2
  <2>4. /\ forRounds \in SUBSET fund_rows
        /\ \A r \in forRounds : /\ r.line.amount \in Int /\ r.line.amount > 0
                                /\ \E rd \in Table("rounds") : rd.id = r.round
    BY <1>6, DealsHangOnRounds, LoansAreMoney
  <2>5. Money(forRounds) \in Nat
    BY <2>4, MoneyIsNatural
  <2>6. Sum(lentFor, Table("rounds")) = Money(forRounds)
    BY <2>3, <2>4, MoneyByRound
  <2> QED
    BY <1>1, <2>5, <2>6
<1>12. Sum(paidIn, K) = Sum(gap, K) + Sum(lentFor, K)
  <2>1. \A rd \in K : gap[rd] \in Int /\ lentFor[rd] \in Int /\ paidIn[rd] = gap[rd] + lentFor[rd]
    BY <1>7
  <2> QED
    BY <1>2, <2>1, SumOfSums
<1>13. Sum(capital, K) + Sum(back, K) = Sum(gain, K) + Sum(paidIn, K)
  <2>1. PICK both : both = [rd \in K |-> capital[rd] + back[rd]]
    OBVIOUS
  <2>2. \A rd \in K : capital[rd] \in Int /\ back[rd] \in Int /\ both[rd] = capital[rd] + back[rd]
    BY <1>7, <2>1
  <2>3. \A rd \in K : gain[rd] \in Int /\ paidIn[rd] \in Int /\ both[rd] = gain[rd] + paidIn[rd]
    <3>1. ASSUME NEW rd \in K
          PROVE  gain[rd] \in Int /\ paidIn[rd] \in Int /\ both[rd] = gain[rd] + paidIn[rd]
      <4>1. PICK a, b, c, d : a = capital[rd] /\ b = back[rd] /\ c = gain[rd] /\ d = paidIn[rd]
        OBVIOUS
      <4>2. a \in Int /\ b \in Int /\ c \in Int /\ d \in Int /\ a - c = d - b
        BY <1>7, <4>1
      <4>3. both[rd] = a + b
        BY <2>1, <4>1
      <4>4. a + b = c + d
        BY <4>2
      <4> QED
        BY <4>1, <4>2, <4>3, <4>4
    <3> QED
      BY <3>1
  <2>4. Sum(both, K) = Sum(capital, K) + Sum(back, K)
    BY <1>2, <2>2, SumOfSums
  <2>5. Sum(both, K) = Sum(gain, K) + Sum(paidIn, K)
    BY <1>2, <2>3, SumOfSums
  <2> QED
    BY <2>4, <2>5
<1>14. /\ Sum(paidIn, K) \in Int /\ Sum(gap, K) \in Int /\ Sum(gain, K) \in Int
       /\ Sum(capital, K) \in Int /\ Sum(back, K) \in Int
  BY <1>2, <1>7, SumInt
<1> QED
  BY <1>6, <1>8, <1>9, <1>10, <1>11, <1>12, <1>13, <1>14

\* The book value of the card
LEMMA ValueIsCapitalAndShares ==
  ASSUME FundTables, FundAssumption, Reported(ByRound)
  PROVE  CardHead(ByRound).value = Figure(ByRound, "capital") + Shares(ByRound)
<1>1. PICK K, drawn : K = Table("rounds") /\ drawn = ByRound
  OBVIOUS
<1>2. IsFiniteSet(K)
  BY <1>1, ColumnsOfTables DEF Table
<1>3. DOMAIN drawn = K /\ \A rd \in K : drawn[rd] = RoundFigures(rd)
  BY <1>1 DEF ByRound
<1>4. PICK capital, share, value :
        /\ capital = [rd \in K |-> drawn[rd].capital]
        /\ share = [rd \in K |-> OrElse(drawn[rd].share, 0)]
        /\ value = [rd \in K |-> OrElse(drawn[rd].value, drawn[rd].capital)]
  OBVIOUS
<1>5. ASSUME NEW rd \in K
      PROVE  capital[rd] \in Int /\ share[rd] \in Int /\ value[rd] = capital[rd] + share[rd]
  <2>1. PICK one : one = drawn[rd]
    OBVIOUS
  <2>2. /\ one.capital \in Int /\ one.share \in Int \cup {NoValue}
        /\ one.value = IF one.share = NoValue THEN NoValue ELSE one.capital + one.share
    BY <1>1, <1>3, <2>1, RoundSays
  <2>3. /\ capital[rd] = one.capital /\ share[rd] = OrElse(one.share, 0)
        /\ value[rd] = OrElse(one.value, one.capital)
    BY <1>4, <2>1
  <2>4. NoValue \notin Int
    BY DEF FundAssumption
  <2>5. CASE one.share = NoValue
    BY <2>2, <2>3, <2>5 DEF OrElse
  <2>6. CASE one.share # NoValue
    <3>1. one.share \in Int /\ one.capital + one.share \in Int
      BY <2>2, <2>6
    <3>2. one.value = one.capital + one.share /\ one.value # NoValue
      BY <2>2, <2>4, <2>6, <3>1
    <3> QED
      BY <2>2, <2>3, <2>6, <3>1, <3>2 DEF OrElse
  <2> QED
    BY <2>5, <2>6
<1>6. Sum(value, K) = Sum(capital, K) + Sum(share, K)
  BY <1>2, <1>5, SumOfSums
<1>7. CardHead(drawn).value = SumUp(value) /\ Shares(drawn) = SumUp(share)
  <2>1. Reported(drawn)
    BY <1>1
  <2>2. CardHead(drawn).value
          = SumUp([rd \in DOMAIN drawn |-> OrElse(drawn[rd].value, drawn[rd].capital)])
    BY <2>1, Zenon DEF CardHead
  <2>3. Shares(drawn) = SumUp([rd \in DOMAIN drawn |-> OrElse(drawn[rd].share, 0)])
    BY <2>1, Zenon DEF Shares
  <2> QED
    BY <1>3, <1>4, <2>2, <2>3
<1>8. SumUp(value) = Sum(value, K) /\ SumUp(share) = Sum(share, K)
  BY <1>4, SumUpIsSum
<1>9. Figure(drawn, "capital") = Sum(capital, K)
  <2>1. \A rd \in K : capital[rd] = drawn[rd]["capital"]
    BY <1>4
  <2> QED
    BY <1>1, <1>2, <2>1, FigureIsSum
<1> QED
  BY <1>1, <1>6, <1>7, <1>8, <1>9

LEMMA RoundsAreTheCard ==
  ASSUME FundTables, FundAssumption
  PROVE  RoundsTakeEverything
<1>1. ASSUME CardHead(ByRound).value # NoValue
      PROVE  CardHead(ByRound).value
               = ReportFigures(ByRound).capital + ReportFigures(ByRound).share
  <2>1. Reported(ByRound)
    BY <1>1, Zenon DEF CardHead
  <2>2. CardHead(ByRound).value = Figure(ByRound, "capital") + Shares(ByRound)
    BY <2>1, ValueIsCapitalAndShares
  <2>3. /\ ReportFigures(ByRound).capital = Figure(ByRound, "capital")
        /\ ReportFigures(ByRound).share = Shares(ByRound)
    BY Zenon DEF ReportFigures
  <2> QED
    BY <2>2, <2>3
<1> QED
  BY <1>1, FiguresOfCard DEF RoundsTakeEverything

\* A gap of any round is an alert on that round
LEMMA NoGapGoesUnheard ==
  ASSUME FundTables, FundAssumption
  PROVE  AlertsAreHeard
<1>1. SUFFICES ASSUME \A alert \in Alerts(ByRound) : alert.kind \notin {"no facility", "gap"}
               PROVE  CardHead(ByRound).invested <= CardHead(ByRound).borrowed
  BY DEF AlertsAreHeard
<1>2. PICK K, drawn : K = Table("rounds") /\ drawn = ByRound
  OBVIOUS
<1>3. DOMAIN drawn = K /\ \A rd \in K : drawn[rd] = RoundFigures(rd)
  BY <1>2 DEF ByRound
<1>4. IsFiniteSet(K)
  BY <1>2, ColumnsOfTables DEF Table
<1>5. PICK bare : bare = {rd \in DOMAIN drawn : drawn[rd].contributed > 0 /\ drawn[rd].funded = 0}
  OBVIOUS
<1>6. ASSUME NEW rd \in bare PROVE FALSE
  <2>1. [kind |-> "no facility", of |-> rd] \in Alerts(drawn)
    BY <1>5, Zenon DEF Alerts
  <2>2. [kind |-> "no facility", of |-> rd].kind = "no facility"
    OBVIOUS
  <2> QED
    BY <1>1, <1>2, <2>1, <2>2
<1>7. ASSUME NEW rd \in DOMAIN drawn, drawn[rd].gap > 0 PROVE FALSE
  <2>1. rd \in {x \in DOMAIN drawn \ bare : drawn[x].gap > 0}
    BY <1>6, <1>7
  <2>2. [kind |-> "gap", of |-> rd] \in Alerts(drawn)
    BY <1>5, <2>1, Zenon DEF Alerts
  <2>3. [kind |-> "gap", of |-> rd].kind = "gap"
    OBVIOUS
  <2> QED
    BY <1>1, <1>2, <2>2, <2>3
<1>8. PICK paidIn, lentFor : /\ paidIn = [rd \in K |-> drawn[rd].contributed]
                             /\ lentFor = [rd \in K |-> drawn[rd].funded]
  OBVIOUS
<1>9. ASSUME NEW rd \in K
      PROVE  paidIn[rd] \in Int /\ lentFor[rd] \in Int /\ paidIn[rd] <= lentFor[rd]
  <2>1. PICK one : one = RoundFigures(rd)
    OBVIOUS
  <2>2. one.contributed \in Nat /\ one.funded \in Nat /\ one.gap = one.contributed - one.funded
    BY <1>2, <2>1, RoundSays
  <2>3. paidIn[rd] = one.contributed /\ lentFor[rd] = one.funded /\ ~(one.gap > 0)
    BY <1>3, <1>7, <1>8, <2>1
  <2> QED
    BY <2>2, <2>3
<1>10. Sum(paidIn, K) <= Sum(lentFor, K)
  BY <1>4, <1>9, SumMonotone
<1>11. Figure(drawn, "contributed") = Sum(paidIn, K) /\ Figure(drawn, "funded") = Sum(lentFor, K)
  <2>1. \A rd \in K : paidIn[rd] = drawn[rd]["contributed"] /\ lentFor[rd] = drawn[rd]["funded"]
    BY <1>8
  <2> QED
    BY <1>2, <1>4, <2>1, FigureIsSum
<1>12. PICK forRounds : forRounds = {r \in Loans("funding") : r.round # NoValue}
  OBVIOUS
<1>13. Money(forRounds) <= Money(Loans("funding"))
  <2>1. PICK S : S = Loans("funding")
    OBVIOUS
  <2>2. S \in SUBSET fund_rows /\ forRounds \in SUBSET S
        /\ \A r \in S : r.line.amount \in Int /\ r.line.amount > 0
    BY <1>12, <2>1, LoansAreMoney
  <2>3. IsFiniteSet(S) /\ IsFiniteSet(forRounds)
    BY <2>2, ColumnsOfTables
  <2>4. PICK F : F = [r \in S |-> r.line.amount]
    OBVIOUS
  <2>5. \A r \in S : F[r] = r.line.amount /\ F[r] \in Int /\ F[r] >= 0
    BY <2>2, <2>4
  <2>6. \A r \in forRounds : F[r] = r.line.amount
    BY <2>2, <2>5
  <2>7. Money(S) = Sum(F, S) /\ Money(forRounds) = Sum(F, forRounds)
    BY <2>3, <2>5, <2>6, MoneyIsSum
  <2>8. Sum(F, forRounds) <= Sum(F, S)
    BY <2>2, <2>3, <2>5, SumBounds
  <2> QED
    BY <2>1, <2>7, <2>8
<1>14. /\ CardHead(drawn).invested = Figure(drawn, "contributed")
       /\ CardHead(drawn).borrowed = Money(Loans("funding"))
  BY Zenon DEF CardHead
<1>15. Figure(drawn, "funded") = Money(forRounds) /\ Money(forRounds) \in Nat
  BY <1>2, <1>12, FiguresOfCard
<1>16. Money(Loans("funding")) \in Nat /\ Figure(drawn, "contributed") \in Nat
  <2>1. Money(Loans("funding")) \in Nat
    BY LoansAreMoney, MoneyIsNatural
  <2>2. Money(Deals("contribution")) \in Nat
    BY DealsHangOnRounds, MoneyIsNatural
  <2> QED
    BY <1>2, <2>1, <2>2, FiguresOfCard
<1> QED
  BY <1>2, <1>10, <1>11, <1>13, <1>14, <1>15, <1>16

----------------------------------------------------------------------------
\* A row that may be written: what the routes and the database ask of it
RowFits(line, round) ==
  /\ IsLine(line)
  /\ line.table \in {"rounds", "parent", "investment", "reports"} => line.amount > 0
  /\ line.table = "rounds" => round = NoValue
  /\ line.table \in {"investment", "reports"} => round # NoValue
  /\ round # NoValue => \E rd \in Table("rounds") : rd.id = round

LEMMA WrittenRowIsKept ==
  ASSUME FundTables, NEW line, NEW round, RowFits(line, round), InsertRow(line, round)
  PROVE  FundTables'
<1>1. PICK new : new = [id |-> written_rows, table |-> line.table, round |-> round, line |-> line]
  OBVIOUS
<1>2. fund_rows' = fund_rows \cup {new} /\ written_rows' = written_rows + 1
  BY <1>1 DEF InsertRow
<1>3. IsFiniteSet(fund_rows') /\ written_rows' \in Nat
  BY <1>2, FS_AddElement DEF FundTables
<1>4. \A rd \in Table("rounds") : rd \in Table("rounds")'
  BY <1>2 DEF Table
<1>5. ASSUME NEW r \in fund_rows PROVE RowIsKept(r)'
  <2>1. RowIsKept(r) /\ written_rows \in Nat
    BY DEF FundTables
  <2>2. r.round # NoValue => \E rd \in Table("rounds")' : rd.id = r.round
    BY <1>4, <2>1 DEF RowIsKept
  <2> QED
    BY <1>2, <2>1, <2>2 DEF RowIsKept
<1>6. RowIsKept(new)'
  <2>1. /\ new.id = written_rows /\ new.table = line.table /\ new.round = round
        /\ new.line = line
        /\ new = [id |-> new.id, table |-> new.table, round |-> new.round, line |-> new.line]
    BY <1>1
  <2>2. new.round # NoValue => \E rd \in Table("rounds")' : rd.id = new.round
    BY <1>4, <2>1 DEF RowFits
  <2>3. new.id \in Nat /\ new.id < written_rows'
    BY <1>2, <2>1 DEF FundTables
  <2> QED
    BY <2>1, <2>2, <2>3 DEF RowIsKept, RowFits
<1>7. \A r \in fund_rows : r.id \in Nat /\ r.id < written_rows
  BY DEF FundTables, RowIsKept
<1>8. ASSUME NEW r \in fund_rows', NEW s \in fund_rows', r.id = s.id PROVE r = s
  <2>1. new.id = written_rows /\ written_rows \in Nat
    BY <1>1 DEF FundTables
  <2>2. \A q \in fund_rows : q.id # new.id
    BY <1>7, <2>1
  <2> QED
    BY <1>2, <1>8, <2>2 DEF FundTables
<1> QED
  BY <1>2, <1>3, <1>5, <1>6, <1>8 DEF FundTables

\* Nothing hangs on a round that is not written yet
LEMMA NothingHangsYet ==
  ASSUME FundTables, FundAssumption, NEW line
  PROVE  Hanging(written_rows, line) = {}
<1>1. SUFFICES ASSUME NEW r \in fund_rows, r.round = written_rows PROVE FALSE
  BY DEF Hanging
<1>2. written_rows \in Nat /\ r.round # NoValue
  BY <1>1 DEF FundTables, FundAssumption
<1>3. PICK rd \in Table("rounds") : rd.id = written_rows
  BY <1>1, <1>2 DEF FundTables, RowIsKept
<1> QED
  BY <1>2, <1>3 DEF FundTables, RowIsKept, Table

\* What a payload has up to a line, and up to a later one
LEMMA FedMore ==
  ASSUME NEW i, NEW p, NEW n \in Nat, NEW m \in Nat, n <= m, FedBy(i, p, n),
         IsFiniteSet(fund_rows)
  PROVE  FedBy(i, p, m)
<1>1. SUFFICES ASSUME NEW line, line \notin EnteredLines
               PROVE  Cardinality(Hanging(i, line)) <= Cardinality({k \in 1..m : p[k] = line})
  BY DEF FedBy
<1>2. PICK N, M : N = {k \in 1..n : p[k] = line} /\ M = {k \in 1..m : p[k] = line}
  OBVIOUS
<1>3. IsFiniteSet(1..m)
  BY FS_Interval
<1>4. N \subseteq M /\ IsFiniteSet(M)
  BY <1>2, <1>3, FS_Subset
<1>5. Cardinality(N) <= Cardinality(M) /\ Cardinality(N) \in Nat /\ Cardinality(M) \in Nat
  BY <1>4, FS_Subset, FS_CardinalityType
<1>6. IsFiniteSet(Hanging(i, line))
  BY FS_Subset DEF Hanging
<1>7. Cardinality(Hanging(i, line)) \in Nat
  BY <1>6, FS_CardinalityType
<1>8. Cardinality(Hanging(i, line)) <= Cardinality(N)
  BY <1>1, <1>2 DEF FedBy
<1> QED
  BY <1>2, <1>5, <1>7, <1>8

\* A row for another round, or of a line entered by hand, feeds nothing
LEMMA FedElsewhere ==
  ASSUME FundTables, NEW line, NEW round, InsertRow(line, round),
         NEW i, i # round \/ line \in EnteredLines, NEW p, NEW n, FedBy(i, p, n)
  PROVE  FedBy(i, p, n)'
<1>1. SUFFICES ASSUME NEW l, l \notin EnteredLines
               PROVE  Hanging(i, l)' = Hanging(i, l)
  BY DEF FedBy
<1>2. PICK new : new = [id |-> written_rows, table |-> line.table, round |-> round, line |-> line]
  OBVIOUS
<1>3. fund_rows' = fund_rows \cup {new} /\ new.round = round /\ new.line = line
  BY <1>2 DEF InsertRow
<1> QED
  BY <1>1, <1>3 DEF Hanging

\* A row of the next line of a payload
LEMMA FedTheNext ==
  ASSUME FundTables, NEW line, NEW round, InsertRow(line, round),
         NEW i, NEW p, NEW n \in Nat, FedBy(i, p, n), p[n + 1] = line
  PROVE  FedBy(i, p, n + 1)'
<1>1. SUFFICES ASSUME NEW l, l \notin EnteredLines
               PROVE  Cardinality(Hanging(i, l)') <= Cardinality({k \in 1..(n + 1) : p[k] = l})
  BY DEF FedBy
<1>2. PICK new : new = [id |-> written_rows, table |-> line.table, round |-> round, line |-> line]
  OBVIOUS
<1>3. fund_rows' = fund_rows \cup {new} /\ new.line = line
  BY <1>2 DEF InsertRow
<1>4. PICK H, J, N, M : /\ H = Hanging(i, l) /\ J = Hanging(i, l)'
                        /\ N = {k \in 1..n : p[k] = l} /\ M = {k \in 1..(n + 1) : p[k] = l}
  OBVIOUS
<1>5. IsFiniteSet(H) /\ IsFiniteSet(N) /\ IsFiniteSet(M)
  <2>1. IsFiniteSet(1..n) /\ IsFiniteSet(1..(n + 1))
    BY FS_Interval
  <2> QED
    BY <1>4, <2>1, FS_Subset DEF Hanging, FundTables
<1>6. Cardinality(H) <= Cardinality(N) /\ Cardinality(H) \in Nat /\ Cardinality(N) \in Nat
  BY <1>1, <1>4, <1>5, FS_CardinalityType DEF FedBy
<1>7. CASE l = line
  <2>1. J \subseteq H \cup {new} /\ IsFiniteSet(H \cup {new})
    BY <1>3, <1>4, <1>5, FS_AddElement DEF Hanging
  <2>2. Cardinality(H \cup {new}) <= Cardinality(H) + 1 /\ Cardinality(H \cup {new}) \in Nat
    BY <1>5, <1>6, <2>1, FS_AddElement, FS_CardinalityType
  <2>3. Cardinality(J) <= Cardinality(H \cup {new}) /\ Cardinality(J) \in Nat
    BY <2>1, FS_Subset, FS_CardinalityType
  <2>4. M = N \cup {n + 1} /\ n + 1 \notin N
    BY <1>4, <1>7
  <2>5. Cardinality(M) = Cardinality(N) + 1
    BY <1>5, <2>4, FS_AddElement
  <2> QED
    BY <1>4, <1>6, <2>2, <2>3, <2>5
<1>8. CASE l # line
  <2>1. J = H
    BY <1>3, <1>4, <1>8 DEF Hanging
  <2>2. N \subseteq M
    BY <1>4
  <2>3. Cardinality(N) <= Cardinality(M) /\ Cardinality(M) \in Nat
    BY <1>5, <2>2, FS_Subset, FS_CardinalityType
  <2> QED
    BY <1>4, <1>6, <2>1, <2>3
<1> QED
  BY <1>7, <1>8

----------------------------------------------------------------------------
\* What does not touch the tables does not touch what hangs on a round
LEMMA SameTables ==
  ASSUME FundTables, fund_rows' = fund_rows, written_rows' = written_rows
  PROVE  /\ FundTables'
         /\ \A i, p, n : FedBy(i, p, n) => FedBy(i, p, n)'
         /\ EveryRoundIsFed => EveryRoundIsFed'
<1>1. FundTables'
  BY DEF FundTables, RowIsKept, Table
<1>2. ASSUME NEW i, NEW p, NEW n, FedBy(i, p, n) PROVE FedBy(i, p, n)'
  BY <1>2 DEF FedBy, Hanging
<1> QED
  BY <1>1, <1>2 DEF EveryRoundIsFed

\* A request that stands still keeps what it has
LEMMA OthersStand ==
  ASSUME NEW u, SeederIsSound(u), seeder'[u] = seeder[u],
         written_rows \in Nat, written_rows' \in Nat, written_rows <= written_rows',
         seeder[u].step = "seed" =>
           \A no \in DOMAIN seeder[u].ids :
             FedBy(seeder[u].ids[no], seeder[u].payload, seeder[u].next - 1)
               => FedBy(seeder[u].ids[no], seeder[u].payload, seeder[u].next - 1)'
  PROVE  SeederIsSound(u)'
<1>1. CASE seeder[u].step # "seed"
  BY <1>1 DEF SeederIsSound
<1>2. CASE seeder[u].step = "seed"
  <2>1. PICK s : s = seeder[u]
    OBVIOUS
  <2>2. ASSUME NEW no \in DOMAIN s.ids
        PROVE  /\ s.ids[no] \in Nat /\ s.ids[no] < written_rows'
               /\ FedBy(s.ids[no], s.payload, s.next - 1)'
    <3>1. FedBy(s.ids[no], s.payload, s.next - 1) /\ s.ids[no] \in Nat /\ s.ids[no] < written_rows
      BY <1>2, <2>1, <2>2 DEF SeederIsSound
    <3>2. FedBy(s.ids[no], s.payload, s.next - 1)'
      BY <1>2, <2>1, <2>2, <3>1
    <3> QED
      BY <3>1, <3>2
  <2> QED
    BY <1>2, <2>1, <2>2 DEF SeederIsSound, SoundPayload, LinesFor
<1> QED
  BY <1>1, <1>2

\* A request that is done, refused or cut off
LEMMA RequestStops ==
  ASSUME FundInv, fund_rows' = fund_rows, written_rows' = written_rows, NEW u \in Seeders,
         seeder' = [seeder EXCEPT ![u] = [step |-> "idle"]]
  PROVE  FundInv'
<1>1. FundTables' /\ EveryRoundIsFed' /\ \A i, p, n : FedBy(i, p, n) => FedBy(i, p, n)'
  BY SameTables DEF FundInv
<1>2. \A v \in Seeders : v # u => seeder'[v] = seeder[v]
  BY DEF FundInv
<1>3. seeder'[u] = [step |-> "idle"] /\ seeder' = [v \in Seeders |-> seeder'[v]]
  BY DEF FundInv
<1>4. ASSUME NEW v \in Seeders PROVE SeederIsSound(v)'
  <2>1. CASE v = u
    BY <1>3, <2>1 DEF SeederIsSound
  <2>2. CASE v # u
    <3>1. written_rows \in Nat /\ SeederIsSound(v)
      BY DEF FundInv, FundTables
    <3> QED
      BY <1>1, <1>2, <2>2, <3>1, OthersStand
  <2> QED
    BY <2>1, <2>2
<1>5. OwnNames'
  BY <1>2, <1>3 DEF FundInv, OwnNames
<1> QED
  BY <1>1, <1>3, <1>4, <1>5 DEF FundInv

LEMMA RequestStarts ==
  ASSUME FundInv, NEW u \in Seeders, NEW p \in Payloads, BeginSeed(u, p), FundAssumption
  PROVE  FundInv'
<1>1. fund_rows' = fund_rows /\ written_rows' = written_rows
  BY DEF BeginSeed
<1>2. FundTables' /\ EveryRoundIsFed' /\ \A i, q, n : FedBy(i, q, n) => FedBy(i, q, n)'
  BY <1>1, SameTables DEF FundInv
<1>3. PICK s : s = [step |-> "seed", payload |-> p, next |-> 1, ids |-> <<>>]
  OBVIOUS
<1>4. /\ seeder'[u] = s /\ seeder' = [v \in Seeders |-> seeder'[v]]
      /\ \A v \in Seeders : v # u => seeder'[v] = seeder[v]
  BY <1>3 DEF FundInv, BeginSeed
<1>5. SeederIsSound(u)'
  <2>1. /\ s.step = "seed" /\ s.payload = p /\ s.next = 1 /\ s.ids = <<>> /\ "step" \in DOMAIN s
        /\ s = [step |-> "seed", payload |-> s.payload, next |-> s.next, ids |-> s.ids]
    BY <1>3
  <2>2. DOMAIN s.ids = {} /\ s.ids = [no \in DOMAIN s.ids |-> s.ids[no]]
    BY <2>1
  <2>3. 1 \in 1..(Len(p) + 1)
    BY DEF FundAssumption
  <2>4. SoundPayload(p)
    BY DEF BeginSeed
  <2> QED
    BY <1>4, <2>1, <2>2, <2>3, <2>4 DEF SeederIsSound, SoundPayload, LinesFor
<1>6. ASSUME NEW v \in Seeders, v # u PROVE SeederIsSound(v)'
  <2>1. written_rows \in Nat /\ SeederIsSound(v)
    BY DEF FundInv, FundTables
  <2> QED
    BY <1>1, <1>2, <1>4, <1>6, <2>1, OthersStand
<1>7. OwnNames'
  <2>1. DOMAIN s.ids = {}
    BY <1>3
  <2> QED
    BY <1>4, <2>1 DEF FundInv, OwnNames
<1> QED
  BY <1>2, <1>4, <1>5, <1>6, <1>7 DEF FundInv

\* A line entered by hand is of no payload
LEMMA LineIsEntered ==
  ASSUME FundInv, FundAssumption, NEW line \in EnteredLines, AddLine(line)
  PROVE  FundInv'
<1>1. PICK round : /\ round \in IF line.no = NoValue \/ line.table = "rounds" THEN {NoValue}
                                ELSE {r.id : r \in RoundRows(line.no)}
                   /\ AmountGiven(line) /\ ~RowRefused(line, round) /\ InsertRow(line, round)
                   /\ seeder' = seeder
  BY Zenon DEF AddLine
<1>2. RowFits(line, round)
  <2>1. IsLine(line)
    BY DEF FundAssumption
  <2>2. line.table \in {"rounds", "parent", "investment", "reports"} => line.amount > 0
    BY <1>1, <2>1 DEF IsLine, AmountGiven
  <2>3. line.table = "rounds" => round = NoValue
    BY <1>1
  <2>4. /\ line.table \in {"investment", "reports"} => round # NoValue
        /\ round # NoValue => \E rd \in Table("rounds") : rd.id = round
    BY <1>1 DEF RowRefused
  <2> QED
    BY <2>1, <2>2, <2>3, <2>4 DEF RowFits
<1>3. FundTables' /\ written_rows' = written_rows + 1 /\ written_rows \in Nat
  BY <1>1, <1>2, WrittenRowIsKept DEF FundInv, FundTables, InsertRow
<1>4. \A i, p, n : FedBy(i, p, n) => FedBy(i, p, n)'
  BY <1>1, FedElsewhere DEF FundInv
<1>5. ASSUME NEW u \in Seeders PROVE SeederIsSound(u)'
  <2>1. SeederIsSound(u) /\ seeder'[u] = seeder[u]
    BY <1>1 DEF FundInv
  <2> QED
    BY <1>3, <1>4, <2>1, OthersStand
<1>6. OwnNames' /\ seeder' = [u \in Seeders |-> seeder'[u]]
  BY <1>1 DEF FundInv, OwnNames
<1>7. EveryRoundIsFed'
  BY <1>4 DEF FundInv, EveryRoundIsFed
<1> QED
  BY <1>3, <1>5, <1>6, <1>7 DEF FundInv

\* What is left when a row goes
LEMMA RowGoes ==
  ASSUME FundInv, FundAssumption, NEW r \in fund_rows, RemoveRow(r)
  PROVE  FundInv'
<1>1. PICK left, old : /\ left = {t \in fund_rows \ {r} : t.round # r.id \/ t.table = "parent"}
                       /\ old = [t \in left |-> IF t.round = r.id
                                                THEN [t EXCEPT !.round = NoValue] ELSE t]
  OBVIOUS
<1>2. \A q : q \in fund_rows' <=> \E t \in left : q = old[t]
  BY <1>1 DEF RemoveRow
<1>3. written_rows' = written_rows /\ seeder' = seeder /\ written_rows \in Nat
  BY DEF RemoveRow, FundInv, FundTables
<1>4. IsFiniteSet(left) /\ left \subseteq fund_rows /\ FundTables
  BY <1>1, FS_Subset DEF FundInv, FundTables
<1>5. ASSUME NEW t \in left
      PROVE  /\ old[t].id = t.id /\ old[t].table = t.table /\ old[t].line = t.line
             /\ old[t].round = IF t.round = r.id THEN NoValue ELSE t.round
             /\ old[t] = [id |-> old[t].id, table |-> old[t].table,
                          round |-> old[t].round, line |-> old[t].line]
             /\ t.round = r.id => t.table = "parent"
             /\ t.round # r.id => old[t] = t
  <2>1. t = [id |-> t.id, table |-> t.table, round |-> t.round, line |-> t.line]
    BY <1>4 DEF FundTables, RowIsKept
  <2>2. PICK q : q = old[t]
    OBVIOUS
  <2>3. CASE t.round = r.id
    <3>1. q = [t EXCEPT !.round = NoValue]
      BY <1>1, <2>2, <2>3
    <3>2. q = [id |-> t.id, table |-> t.table, round |-> NoValue, line |-> t.line]
      BY <2>1, <3>1
    <3>3. /\ q.id = t.id /\ q.table = t.table /\ q.line = t.line /\ q.round = NoValue
          /\ q = [id |-> q.id, table |-> q.table, round |-> q.round, line |-> q.line]
      BY <3>2
    <3>4. t.table = "parent"
      BY <1>1, <2>3
    <3> QED
      BY <2>2, <2>3, <3>3, <3>4
  <2>4. CASE t.round # r.id
    <3>1. q = t
      BY <1>1, <2>2, <2>4
    <3> QED
      BY <2>1, <2>2, <2>4, <3>1
  <2> QED
    BY <2>3, <2>4
<1>6. IsFiniteSet(fund_rows')
  BY <1>2, <1>4, FinitelyMany
<1>7. ASSUME NEW t \in left PROVE RowIsKept(old[t])'
  <2>1. PICK q : q = old[t]
    OBVIOUS
  <2>2. /\ q.id = t.id /\ q.table = t.table /\ q.line = t.line
        /\ q.round = IF t.round = r.id THEN NoValue ELSE t.round
        /\ q = [id |-> q.id, table |-> q.table, round |-> q.round, line |-> q.line]
    BY <1>5, <2>1
  <2>3. RowIsKept(t) /\ RowIsKept(r) /\ t # r
    BY <1>1, <1>4 DEF FundTables
  <2>4. q.round # NoValue => \E rd \in Table("rounds")' : rd.id = q.round
    <3>1. SUFFICES ASSUME q.round # NoValue PROVE \E rd \in Table("rounds")' : rd.id = q.round
      OBVIOUS
    <3>2. q.round = t.round /\ t.round # r.id
      BY <2>2, <3>1
    <3>3. PICK rd \in Table("rounds") : rd.id = t.round
      BY <2>3, <3>1, <3>2 DEF RowIsKept
    <3>4. rd \in fund_rows /\ rd.table = "rounds" /\ rd.round = NoValue
      BY <1>4, <3>3 DEF Table, FundTables, RowIsKept
    <3>5. rd # r /\ rd.round # r.id
      BY <2>3, <3>2, <3>3, <3>4 DEF RowIsKept, FundAssumption
    <3>6. rd \in left /\ old[rd] = rd
      BY <1>1, <1>5, <3>4, <3>5
    <3>7. rd \in Table("rounds")'
      BY <1>2, <3>4, <3>6 DEF Table
    <3> QED
      BY <3>2, <3>3, <3>7
  <2>5. q.table \in {"investment", "reports"} => q.round # NoValue
    BY <1>5, <2>2, <2>3 DEF RowIsKept
  <2>6. q.table = "rounds" => q.round = NoValue
    BY <2>2, <2>3 DEF RowIsKept
  <2>7. RowIsKept(q)'
    BY <1>3, <2>2, <2>3, <2>4, <2>5, <2>6 DEF RowIsKept
  <2> QED
    BY <2>1, <2>7
<1>8. FundTables'
  <2>1. \A q \in fund_rows' : RowIsKept(q)'
    BY <1>2, <1>7
  <2>2. ASSUME NEW q \in fund_rows', NEW s \in fund_rows', q.id = s.id PROVE q = s
    <3>1. PICK t \in left, x \in left : q = old[t] /\ s = old[x]
      BY <1>2
    <3>2. t.id = q.id /\ x.id = s.id
      BY <1>5, <3>1
    <3>3. t = x
      BY <1>4, <2>2, <3>2 DEF FundTables
    <3> QED
      BY <3>1, <3>3
  <2> QED
    BY <1>3, <1>6, <2>1, <2>2 DEF FundTables
<1>9. ASSUME NEW i \in Nat, NEW p, NEW n \in Int, FedBy(i, p, n) PROVE FedBy(i, p, n)'
  <2>1. ASSUME NEW l PROVE Hanging(i, l)' \subseteq Hanging(i, l)
    <3>1. SUFFICES ASSUME NEW q \in fund_rows', q.round = i, q.line = l
                   PROVE  q \in fund_rows
      BY DEF Hanging
    <3>2. PICK t \in left : q = old[t]
      BY <1>2
    <3>3. t.round # r.id
      <4>1. q.round = IF t.round = r.id THEN NoValue ELSE t.round
        BY <1>5, <3>2
      <4> QED
        BY <3>1, <4>1 DEF FundAssumption
    <3> QED
      BY <1>4, <1>5, <3>2, <3>3
  <2>2. ASSUME NEW l, l \notin EnteredLines
        PROVE  Cardinality(Hanging(i, l)') <= Cardinality({k \in 1..n : p[k] = l})
    <3>1. PICK H, J, N : H = Hanging(i, l) /\ J = Hanging(i, l)' /\ N = {k \in 1..n : p[k] = l}
      OBVIOUS
    <3>2. IsFiniteSet(H) /\ J \subseteq H
      BY <1>4, <2>1, <3>1, FS_Subset DEF Hanging, FundTables
    <3>3. IsFiniteSet(1..n)
      BY FS_Interval
    <3>4. IsFiniteSet(N)
      BY <3>1, <3>3, FS_Subset
    <3>5. Cardinality(J) <= Cardinality(H) /\ Cardinality(J) \in Nat
          /\ Cardinality(H) \in Nat /\ Cardinality(N) \in Nat
      BY <3>2, <3>4, FS_Subset, FS_CardinalityType
    <3>6. Cardinality(H) <= Cardinality(N)
      BY <1>9, <2>2, <3>1 DEF FedBy
    <3> QED
      BY <3>1, <3>5, <3>6
  <2> QED
    BY <2>2 DEF FedBy
<1>10. ASSUME NEW u \in Seeders PROVE SeederIsSound(u)'
  <2>1. SeederIsSound(u) /\ seeder'[u] = seeder[u]
    BY <1>3 DEF FundInv
  <2>2. ASSUME NEW no \in DOMAIN seeder[u].ids, seeder[u].step = "seed",
               FedBy(seeder[u].ids[no], seeder[u].payload, seeder[u].next - 1)
        PROVE  FedBy(seeder[u].ids[no], seeder[u].payload, seeder[u].next - 1)'
    <3>1. PICK i, p, m : i = seeder[u].ids[no] /\ p = seeder[u].payload /\ m = seeder[u].next - 1
      OBVIOUS
    <3>2. i \in Nat /\ m \in Int
      BY <2>1, <2>2, <3>1 DEF SeederIsSound
    <3>3. FedBy(i, p, m)
      BY <2>2, <3>1
    <3>4. FedBy(i, p, m)'
      BY <1>9, <3>2, <3>3
    <3> QED
      BY <1>3, <3>1, <3>4 DEF FedBy, Hanging
  <2> QED
    BY <1>3, <2>1, <2>2, OthersStand
<1>11. EveryRoundIsFed'
  BY <1>9 DEF EveryRoundIsFed, FundInv
<1>12. OwnNames' /\ seeder' = [u \in Seeders |-> seeder'[u]]
  BY <1>3 DEF FundInv, OwnNames
<1> QED
  BY <1>8, <1>10, <1>11, <1>12 DEF FundInv

\* The next line of a payload is written, on the round its request has written
LEMMA LineIsSeeded ==
  ASSUME FundInv, FundAssumption, NEW u \in Seeders, SeedLine(u)
  PROVE  FundInv'
<1>1. PICK s, p, n, ids : s = seeder[u] /\ p = s.payload /\ n = s.next /\ ids = s.ids
  OBVIOUS
<1>2. /\ s = [step |-> "seed", payload |-> p, next |-> n, ids |-> ids]
      /\ p \in Payloads /\ SoundPayload(p) /\ n \in DOMAIN p /\ DOMAIN p = 1..Len(p)
      /\ Len(p) \in Nat /\ n \in 1..Len(p)
      /\ ids = [no \in DOMAIN ids |-> ids[no]]
      /\ \A no \in DOMAIN ids : /\ ids[no] \in Nat /\ ids[no] < written_rows
                                /\ FedBy(ids[no], p, n - 1)
      /\ \A no, other \in DOMAIN ids : ids[no] = ids[other] => no = other
  BY <1>1 DEF FundInv, SeederIsSound, SeedLine, FundAssumption
<1>3. PICK line, isRound, round : /\ line = p[n] /\ isRound = (line.table = "rounds")
                                  /\ round = IF isRound THEN NoValue ELSE IdFor(u, line.no)
  OBVIOUS
<1>4. \/ /\ seeder' = [seeder EXCEPT ![u] = [step |-> "idle"]]
         /\ UNCHANGED <<fund_rows, written_rows>>
      \/ /\ ~RowRefused(line, round) /\ InsertRow(line, round)
         /\ seeder' = [seeder EXCEPT ![u] =
              [step |-> "seed", payload |-> @.payload, next |-> @.next + 1,
               ids |-> IF isRound THEN WithRound(@.ids, line.no) ELSE @.ids]]
  BY <1>1, <1>3, Zenon DEF SeedLine
<1>5. CASE /\ seeder' = [seeder EXCEPT ![u] = [step |-> "idle"]]
           /\ UNCHANGED <<fund_rows, written_rows>>
  BY <1>5, RequestStops
<1>6. CASE /\ ~RowRefused(line, round) /\ InsertRow(line, round)
           /\ seeder' = [seeder EXCEPT ![u] =
                [step |-> "seed", payload |-> @.payload, next |-> @.next + 1,
                 ids |-> IF isRound THEN WithRound(@.ids, line.no) ELSE @.ids]]
  <2>1. PICK after : after = IF isRound THEN WithRound(ids, line.no) ELSE ids
    OBVIOUS
  <2>2. PICK t : t = [step |-> "seed", payload |-> p, next |-> n + 1, ids |-> after]
    OBVIOUS
  <2>3. /\ seeder'[u] = t /\ seeder' = [v \in Seeders |-> seeder'[v]]
        /\ \A v \in Seeders : v # u => seeder'[v] = seeder[v]
    <3>1. seeder'[u] = t
      BY <1>1, <1>6, <2>1, <2>2 DEF FundInv
    <3> QED
      BY <1>6, <3>1 DEF FundInv
  <2>4. FundTables /\ written_rows \in Nat /\ written_rows' = written_rows + 1
    BY <1>6 DEF FundInv, FundTables, InsertRow
  <2>5. RowFits(line, round)
    <3>1. IsLine(line) /\ line.table \notin {"terms", "reports"}
      BY <1>2, <1>3 DEF FundAssumption
    <3>2. line.table \in {"rounds", "parent", "investment"} => line.amount > 0
      <4>1. line.table \in {"rounds", "parent", "investment"} =>
              n \in LinesFor(p, "rounds") \cup LinesFor(p, "parent")
                      \cup LinesFor(p, "investment")
        BY <1>2, <1>3 DEF LinesFor
      <4>2. \A k \in LinesFor(p, "rounds") \cup LinesFor(p, "parent")
                       \cup LinesFor(p, "investment") : p[k].amount > 0
        BY <1>2, Zenon DEF SoundPayload
      <4> QED
        BY <1>3, <4>1, <4>2
    <3>3. line.table = "rounds" => round = NoValue
      BY <1>3
    <3>4. /\ line.table \in {"investment", "reports"} => round # NoValue
          /\ round # NoValue => \E rd \in Table("rounds") : rd.id = round
      BY <1>6 DEF RowRefused
    <3> QED
      BY <3>1, <3>2, <3>3, <3>4 DEF RowFits
  <2>6. FundTables'
    BY <1>6, <2>4, <2>5, WrittenRowIsKept
  <2>7. NoValue \notin Nat
    BY DEF FundAssumption
  <2>8. round = NoValue \/ (~isRound /\ line.no \in DOMAIN ids /\ round = ids[line.no])
    BY <1>1, <1>3 DEF IdFor
  <2>9. n - 1 \in Nat /\ n \in Nat /\ n <= Len(p) /\ (n - 1) + 1 = n
    BY <1>2
  <2>10. ASSUME NEW no \in DOMAIN ids PROVE FedBy(ids[no], p, n)'
    <3>1. FedBy(ids[no], p, n - 1)
      BY <1>2
    <3>2. PICK m : m = n - 1
      OBVIOUS
    <3>3. m \in Nat /\ m + 1 = n /\ FedBy(ids[no], p, m) /\ p[m + 1] = line
      BY <1>3, <2>9, <3>1, <3>2
    <3>4. FedBy(ids[no], p, m + 1)'
      BY <1>6, <2>4, <3>3, FedTheNext
    <3> QED
      BY <3>3, <3>4
  <2>11. PICK new : new = written_rows
    OBVIOUS
  <2>12. FedBy(new, p, n)'
    <3>1. ASSUME NEW l PROVE Cardinality(Hanging(new, l)) <= Cardinality({k \in 1..n : p[k] = l})
      <4>1. Cardinality(Hanging(new, l)) = 0
        BY <2>4, <2>11, NothingHangsYet, FS_EmptySet
      <4>2. IsFiniteSet(1..n)
        <5>1. n \in Int /\ 1 \in Int
          BY <2>9
        <5> QED
          BY <5>1, FS_Interval
      <4>3. PICK N : N = {k \in 1..n : p[k] = l}
        OBVIOUS
      <4>4. Cardinality(N) \in Nat
        BY <4>2, <4>3, FS_Subset, FS_CardinalityType
      <4> QED
        BY <4>1, <4>3, <4>4
    <3>2. FedBy(new, p, n)
      BY <3>1 DEF FedBy
    <3>3. new # round
      BY <1>2, <2>4, <2>7, <2>8, <2>11
    <3> QED
      BY <1>6, <2>4, <3>2, <3>3, FedElsewhere
  <2>13. ASSUME NEW no \in DOMAIN after
         PROVE  /\ after[no] \in Nat /\ after[no] < written_rows' /\ FedBy(after[no], p, n)'
                /\ after[no] = new \/ (no \in DOMAIN ids /\ after[no] = ids[no])
    <3>1. CASE isRound /\ no = line.no
      <4>1. after[no] = new
        BY <2>1, <2>11, <3>1 DEF WithRound
      <4> QED
        BY <2>4, <2>11, <2>12, <4>1
    <3>2. CASE ~(isRound /\ no = line.no)
      <4>1. no \in DOMAIN ids /\ after[no] = ids[no]
        BY <2>1, <3>2 DEF WithRound
      <4>2. ids[no] \in Nat /\ ids[no] < written_rows
        BY <1>2, <4>1
      <4> QED
        BY <2>4, <2>10, <4>1, <4>2
    <3> QED
      BY <3>1, <3>2
  <2>14. ASSUME NEW no \in DOMAIN after, NEW other \in DOMAIN after, after[no] = after[other]
         PROVE  no = other
    <3>1. \A x \in DOMAIN ids : ids[x] # new
      BY <1>2, <2>4, <2>11
    <3>2. CASE isRound
      <4>1. after = [x \in DOMAIN ids \cup {line.no} |-> IF x = line.no THEN new ELSE ids[x]]
        BY <2>1, <2>11, <3>2 DEF WithRound
      <4> QED
        BY <1>2, <2>14, <3>1, <4>1
    <3>3. CASE ~isRound
      BY <1>2, <2>1, <2>14, <3>3
    <3> QED
      BY <3>2, <3>3
  <2>15. SeederIsSound(u)'
    <3>1. /\ t.step = "seed" /\ t.payload = p /\ t.next = n + 1 /\ t.ids = after
          /\ "step" \in DOMAIN t
          /\ t = [step |-> "seed", payload |-> t.payload, next |-> t.next, ids |-> t.ids]
      BY <2>2
    <3>2. n + 1 \in 1..(Len(p) + 1) /\ (n + 1) - 1 = n
      BY <1>2
    <3>3. after = [no \in DOMAIN after |-> after[no]]
      BY <1>2, <2>1 DEF WithRound
    <3>4. SoundPayload(p)'
      BY <1>2 DEF SoundPayload, LinesFor
    <3>5. \A no \in DOMAIN after : /\ after[no] \in Nat /\ after[no] < written_rows'
                                   /\ FedBy(after[no], p, t.next - 1)'
      BY <2>13, <3>1, <3>2
    <3> QED
      BY <1>2, <2>3, <2>14, <3>1, <3>2, <3>3, <3>4, <3>5 DEF SeederIsSound
  <2>16. ASSUME NEW v \in Seeders, v # u, seeder[v].step = "seed", NEW no \in DOMAIN seeder[v].ids
         PROVE  /\ seeder[v].ids[no] # round /\ seeder[v].ids[no] # new
                /\ \A other \in DOMAIN after : seeder[v].ids[no] # after[other]
    <3>1. PICK i : i = seeder[v].ids[no]
      OBVIOUS
    <3>2. i \in Nat /\ i < written_rows
      BY <2>16, <3>1 DEF FundInv, SeederIsSound
    <3>3. \A other \in DOMAIN ids : i # ids[other]
      <4>1. seeder[u].step = "seed" /\ seeder[u].ids = ids
        BY <1>1, <1>2
      <4> QED
        BY <2>16, <3>1, <4>1 DEF FundInv, OwnNames
    <3>4. i # new
      BY <2>4, <2>11, <3>2
    <3>5. i # round
      BY <2>7, <2>8, <3>2, <3>3
    <3> QED
      BY <2>13, <3>1, <3>3, <3>4, <3>5
  <2>17. ASSUME NEW v \in Seeders, v # u PROVE SeederIsSound(v)'
    <3>1. SeederIsSound(v) /\ seeder'[v] = seeder[v]
      BY <2>3, <2>17 DEF FundInv
    <3>2. ASSUME NEW no \in DOMAIN seeder[v].ids, seeder[v].step = "seed",
                 FedBy(seeder[v].ids[no], seeder[v].payload, seeder[v].next - 1)
          PROVE  FedBy(seeder[v].ids[no], seeder[v].payload, seeder[v].next - 1)'
      <4>1. PICK i, q, m : /\ i = seeder[v].ids[no] /\ q = seeder[v].payload
                           /\ m = seeder[v].next - 1
        OBVIOUS
      <4>2. i # round
        BY <2>16, <2>17, <3>2, <4>1
      <4>3. FedBy(i, q, m)
        BY <3>2, <4>1
      <4>4. FedBy(i, q, m)'
        BY <1>6, <2>4, <4>2, <4>3, FedElsewhere
      <4>5. i = seeder'[v].ids[no] /\ q = seeder'[v].payload /\ m = seeder'[v].next - 1
        BY <3>1, <4>1
      <4> QED
        BY <4>4, <4>5
    <3>3. written_rows' \in Nat /\ written_rows <= written_rows'
      BY <2>4
    <3> QED
      BY <2>4, <3>1, <3>2, <3>3, OthersStand
  <2>18. OwnNames'
    <3>1. SUFFICES ASSUME NEW v \in Seeders, NEW w \in Seeders, v # w,
                          seeder'[v].step = "seed", seeder'[w].step = "seed",
                          NEW no \in DOMAIN seeder'[v].ids, NEW other \in DOMAIN seeder'[w].ids
                   PROVE  seeder'[v].ids[no] # seeder'[w].ids[other]
      BY DEF OwnNames
    <3>2. t.ids = after
      BY <2>2
    <3>3. CASE v = u
      <4>1. seeder'[w] = seeder[w] /\ seeder'[v] = t
        BY <2>3, <3>1, <3>3
      <4> QED
        BY <2>16, <3>1, <3>2, <3>3, <4>1
    <3>4. CASE w = u
      <4>1. seeder'[v] = seeder[v] /\ seeder'[w] = t
        BY <2>3, <3>1, <3>4
      <4> QED
        BY <2>16, <3>1, <3>2, <3>4, <4>1
    <3>5. CASE v # u /\ w # u
      <4>1. seeder'[v] = seeder[v] /\ seeder'[w] = seeder[w]
        BY <2>3, <3>5
      <4> QED
        BY <3>1, <4>1 DEF FundInv, OwnNames
    <3> QED
      BY <3>3, <3>4, <3>5
  <2>19. EveryRoundIsFed'
    <3>1. SUFFICES ASSUME NEW i \in Nat
                   PROVE  \E q \in Payloads \cup {<<>>}, m \in Nat :
                            m <= Len(q) /\ FedBy(i, q, m)'
      BY DEF EveryRoundIsFed
    <3>2. CASE i # round
      <4>1. PICK q \in Payloads \cup {<<>>}, m \in Nat : m <= Len(q) /\ FedBy(i, q, m)
        BY DEF FundInv, EveryRoundIsFed
      <4>2. FedBy(i, q, m)'
        BY <1>6, <2>4, <3>2, <4>1, FedElsewhere
      <4> QED
        BY <4>1, <4>2
    <3>3. CASE i = round
      <4>1. FedBy(i, p, n)'
        BY <2>7, <2>8, <2>10, <3>3
      <4> QED
        BY <1>2, <2>9, <4>1
    <3> QED
      BY <3>2, <3>3
  <2>20. \A v \in Seeders : SeederIsSound(v)'
    BY <2>15, <2>17
  <2> QED
    BY <2>3, <2>6, <2>18, <2>19, <2>20 DEF FundInv
<1> QED
  BY <1>4, <1>5, <1>6

----------------------------------------------------------------------------
LEMMA FundStarts ==
  ASSUME FundInit
  PROVE  FundInv
<1>1. fund_rows = {} /\ written_rows = 0 /\ seeder = [u \in Seeders |-> [step |-> "idle"]]
  BY DEF FundInit
<1>2. FundTables
  BY <1>1, FS_EmptySet DEF FundTables
<1>3. \A u \in Seeders : SeederIsSound(u)
  BY <1>1 DEF SeederIsSound
<1>4. OwnNames /\ seeder = [u \in Seeders |-> seeder[u]]
  BY <1>1 DEF OwnNames
<1>5. EveryRoundIsFed
  <2>1. ASSUME NEW i, NEW line
        PROVE  Cardinality(Hanging(i, line)) <= Cardinality({k \in 1..0 : <<>>[k] = line})
    <3>1. Cardinality(Hanging(i, line)) = 0
      BY <1>1, FS_EmptySet DEF Hanging
    <3>2. {k \in 1..0 : <<>>[k] = line} = {}
      OBVIOUS
    <3> QED
      BY <3>1, <3>2, FS_EmptySet
  <2>2. \A i : FedBy(i, <<>>, 0)
    BY <2>1 DEF FedBy
  <2>3. 0 <= Len(<<>>)
    OBVIOUS
  <2> QED
    BY <2>2, <2>3 DEF EveryRoundIsFed
<1> QED
  BY <1>2, <1>3, <1>4, <1>5 DEF FundInv

LEMMA FundSteps ==
  ASSUME FundInv, FundAssumption, [FundNext]_fundVars
  PROVE  FundInv'
<1>1. ASSUME NEW line \in EnteredLines, AddLine(line) PROVE FundInv'
  BY <1>1, LineIsEntered
<1>2. ASSUME NEW r \in fund_rows, RemoveRow(r) PROVE FundInv'
  BY <1>2, RowGoes
<1>3. ASSUME NEW u \in Seeders, SeedLine(u) PROVE FundInv'
  BY <1>3, LineIsSeeded
<1>4. ASSUME NEW u \in Seeders, EndSeed(u) PROVE FundInv'
  BY <1>4, RequestStops DEF EndSeed
<1>5. ASSUME NEW u \in Seeders, NEW p \in Payloads, BeginSeed(u, p) PROVE FundInv'
  BY <1>5, RequestStarts
<1>6. ASSUME UNCHANGED <<fund_rows, written_rows, seeder>> PROVE FundInv'
  <2>1. /\ FundTables' /\ EveryRoundIsFed' /\ \A i, p, n : FedBy(i, p, n) => FedBy(i, p, n)'
        /\ written_rows \in Nat
    BY <1>6, SameTables DEF FundInv, FundTables
  <2>2. ASSUME NEW u \in Seeders PROVE SeederIsSound(u)'
    <3>1. SeederIsSound(u) /\ seeder'[u] = seeder[u]
      BY <1>6 DEF FundInv
    <3> QED
      BY <1>6, <2>1, <3>1, OthersStand
  <2>3. OwnNames' /\ seeder' = [u \in Seeders |-> seeder'[u]]
    BY <1>6 DEF FundInv, OwnNames
  <2> QED
    BY <2>1, <2>2, <2>3 DEF FundInv
<1>7. CASE \/ AskModel \/ OtherModel \/ ModelFails \/ \E invented \in Invented : Reply(invented)
           \/ CloseReport \/ UNCHANGED fundVars
  <2>1. UNCHANGED <<fund_rows, written_rows, seeder>>
    BY <1>7 DEF AskModel, OtherModel, ModelFails, Reply, CloseReport, Narrate, fundVars
  <2> QED
    BY <1>6, <2>1
<1> QED
  BY <1>1, <1>2, <1>3, <1>4, <1>5, <1>7 DEF FundNext

\* Each round is of one payload
LEMMA RoundIsOfOnePayload ==
  ASSUME FundInv, FundAssumption
  PROVE  SeededOnce
<1>1. SUFFICES ASSUME NEW rd \in Table("rounds")
               PROVE  \E p \in Payloads \cup {<<>>} :
                        \A line \in {r.line : r \in Mine(fund_rows, rd)} \ EnteredLines :
                          Cardinality({r \in Mine(fund_rows, rd) : r.line = line})
                            <= Cardinality({k \in DOMAIN p : p[k] = line})
  BY DEF SeededOnce
<1>2. rd.id \in Nat
  BY ColumnsOfTables DEF FundInv
<1>3. PICK p \in Payloads \cup {<<>>}, n \in Nat : n <= Len(p) /\ FedBy(rd.id, p, n)
  BY <1>2 DEF FundInv, EveryRoundIsFed
<1>4. DOMAIN p = 1..Len(p) /\ Len(p) \in Nat
  BY DEF FundAssumption
<1>5. ASSUME NEW line, line \notin EnteredLines
      PROVE  Cardinality({r \in Mine(fund_rows, rd) : r.line = line})
               <= Cardinality({k \in DOMAIN p : p[k] = line})
  <2>1. {r \in Mine(fund_rows, rd) : r.line = line} = Hanging(rd.id, line)
    BY DEF Mine, Hanging
  <2>2. Cardinality(Hanging(rd.id, line)) <= Cardinality({k \in 1..Len(p) : p[k] = line})
    <3>1. FedBy(rd.id, p, Len(p))
      BY <1>3, <1>4, FedMore DEF FundInv, FundTables
    <3> QED
      BY <1>5, <3>1 DEF FedBy
  <2> QED
    BY <1>4, <2>1, <2>2
<1> QED
  BY <1>5

LEMMA FundInvAddsUp ==
  ASSUME FundInv, FundAssumption
  PROVE  FundAddsUp
BY RoundIsOfOnePayload, InterestOfEveryDay, RoundsAreTheCard, NoGapGoesUnheard
   DEF FundInv, FundAddsUp

\* Whoever seeds, adds and removes in whatever order, every round holds the lines of
\* one payload, the interest is that of every day, and the figures of the card and its
\* alerts are what the rows give.
THEOREM FundStands == FundSpec => []FundAddsUp
<1>1. FundInit => FundInv
  BY FundStarts
<1>2. FundInv /\ [FundNext]_fundVars => FundInv'
  BY FundSteps, FundAssumption
<1>3. FundInv => FundAddsUp
  BY FundInvAddsUp, FundAssumption
<1> QED
  BY <1>1, <1>2, <1>3, PTL DEF FundSpec
=============================================================================
