---------------------------- MODULE CrewBatches ----------------------------
(***************************************************************************)
(* The monthly salaries of the crews: CrewSalariesService with the pure    *)
(* files it calls (crew-salary.assemble.ts, crew-salary.export.ts) and the *)
(* constraints of docs/crew-salaries-up.sql.                               *)
(*                                                                         *)
(* A cycle is the month of one vessel.  Its cases are derived, whenever    *)
(* they are asked for, from the files, links, decisions, rates and bank    *)
(* accounts that stand at that moment.  Complete cases are submitted as a  *)
(* frozen version, a version is approved into entitlements, and approved   *)
(* cases go out in batches of rows.  An export is not a payment: what went *)
(* out and then changed waits for the owner's decision.                    *)
(*                                                                         *)
(* The key of a case is its seafarer and his contract currency.  All       *)
(* cycles of the model are of one month, so every two of them overlap, and *)
(* one rate row serves them all.  One imported item per seafarer, in       *)
(* another currency, stands for all that is imported and reviewed; it is   *)
(* a deduction.  A case stands for its own content hash.                   *)
(***************************************************************************)
EXTENDS Integers, Sequences, FiniteSets, FiniteSetsExt, SequencesExt

CONSTANTS
  Tabs,         \* screens the one approver works at
  Crews,        \* seafarers
  Cycles,       \* vessels, in the one month
  Currencies,   \* of contracts
  Salary,       \* what a seafarer's calculated items come to
  Rates,        \* rates that may be entered for the item's currency
  Accounts,     \* bank accounts that may be approved; 0 is none
  Banked,       \* seafarers whose own account was approved in earlier months
  MaxFiles,     \* bound: files imported into each cycle
  MaxEdits,     \* bound: links, decisions, rates and accounts changed
  MaxVersions,  \* bound: versions of each cycle
  MaxRows       \* bound: rows that go out for each cycle

ASSUME CrewsAssumption == IsFiniteSet(Crews) /\ IsFiniteSet(Currencies)

VARIABLES
  files,     \* crew_salary_files: the standing CFM exports of each cycle and
             \* currency in the order of upload, each the seafarers it lists
  imports,   \* files imported into each cycle so far
  linked,    \* seafarers an unnumbered source row is linked to
  review,    \* decisions on the item of each seafarer of each cycle
  rate,      \* exchange_rates of the month; 0 when there is none
  account,   \* the approved bank account of each seafarer
  cleared,   \* seafarers with a valid authorization for someone else's account
  versions,  \* crew_salary_versions of each cycle, by number
  holder,    \* crew_salary_entitlements: the version that entitles each case
  rows,      \* crew_salary_export_rows of each cycle, in order
  decisions, \* standing batch_resolution decisions of each cycle
  status,    \* crew_salary_cycles.status
  work,      \* approvals between their checks and their commit
  page,      \* what the owner has before him to decide
  edits      \* edits so far

sourceVars == <<files, imports, linked, review, rate, account, cleared>>
recordVars == <<versions, holder, rows, decisions, status>>
crewVars   == <<sourceVars, recordVars, work, page, edits>>

Keys == Crews \X Currencies
Idle == [locks |-> {}]
Blank == [cycle |-> "none"]
Undecided == [action |-> "none"]

----------------------------------------------------------------------------
(* Advisory locks, held to the end of the transaction *)

CycleLock(c) == <<"cycle", c>>
CrewLock(s)  == <<"crew", s>>
RateLock     == <<"fx", "month">>

Held == UNION {work[u].locks : u \in Tabs}
Free(l) == l \notin Held

----------------------------------------------------------------------------
(* The cases of a cycle as they are now: build and snapshot *)

\* the earliest standing export of a currency is read; a second one blocks
Blocked(c) == \E cur \in Currencies : Len(files[c][cur]) > 1
Listed(c, cur) == IF files[c][cur] = <<>> THEN {} ELSE Head(files[c][cur])
Live(c) == {k \in Keys : k[1] \in Listed(c, k[2])}

Accepted(c, s) == s \in linked /\ review[c][s] = "accepted"
Complete(c, s) ==
  s \in linked => \/ review[c][s] = "rejected"
                  \/ (Accepted(c, s) /\ rate # 0)

Cleared(s) == account[s] = 1 \/ (account[s] # 0 /\ s \in cleared)

Case(c, k) ==
  LET s == k[1] IN
  [key      |-> k,
   item     |-> IF s \in linked THEN <<review[c][s], rate>> ELSE <<>>,
   balance  |-> Salary - (IF Accepted(c, s) THEN rate ELSE 0),
   complete |-> Complete(c, s),
   account  |-> <<account[s], Cleared(s)>>,
   payable  |-> Complete(c, s) /\ Cleared(s)]

CaseIn(c, v, k) == CHOOSE e \in versions[c][v].entries : e.key = k

\* approved as it is now: it is not submitted again
Unchanged(c, k) == holder[c][k] # 0 /\ CaseIn(c, holder[c][k], k) = Case(c, k)
Eligible(c) ==
  {k \in Live(c) : Case(c, k).complete /\ ~Unchanged(c, k)}

\* approved cases of the same seafarer whose key is gone from the cycle
Orphans(c, s) ==
  {k \in Keys : k[1] = s /\ holder[c][k] # 0 /\ k \notin Live(c)}

----------------------------------------------------------------------------
(* Status of a cycle *)

Submitted(vs) == {v \in DOMAIN vs : vs[v].status = "submitted"}
Approved(vs)  == {v \in DOMAIN vs : vs[v].status = "approved"}

CycleStatus(vs, rs) ==
  IF Submitted(vs) # {} THEN "submitted"
  ELSE IF Approved(vs) = {} THEN "draft"
  ELSE IF \E i \in DOMAIN rs : rs[i].version = Max(Approved(vs))
  THEN "exported" ELSE "approved"

SetStatus(c) == status' = [status EXCEPT ![c] = CycleStatus(versions'[c], rows'[c])]

----------------------------------------------------------------------------
CrewInit ==
  /\ files = [c \in Cycles |-> [cur \in Currencies |-> <<>>]]
  /\ imports = [c \in Cycles |-> 0]
  /\ linked = {} /\ cleared = {} /\ rate \in Rates \union {0}
  /\ review = [c \in Cycles |-> [s \in Crews |-> "pending"]]
  /\ account = [s \in Crews |-> IF s \in Banked THEN 1 ELSE 0]
  /\ versions = [c \in Cycles |-> <<>>]
  /\ holder = [c \in Cycles |-> [k \in Keys |-> 0]]
  /\ rows = [c \in Cycles |-> <<>>]
  /\ decisions = [c \in Cycles |-> {}]
  /\ status = [c \in Cycles |-> "draft"]
  /\ work = [u \in Tabs |-> Idle]
  /\ page = Blank
  /\ edits = 0

----------------------------------------------------------------------------
(* Sources: every one of these changes the cases of some cycle *)

\* importFile: an export of the same currency supersedes the earlier ones
ImportFile(c, cur, crew) ==
  /\ imports[c] < MaxFiles[c]
  /\ Free(CycleLock(c))
  /\ imports' = [imports EXCEPT ![c] = @ + 1]
  /\ files' = [files EXCEPT ![c][cur] = <<crew>>]
  /\ UNCHANGED <<linked, review, rate, account, cleared, recordVars, work, page, edits>>

\* assignFile locks the cycle the file goes to, not the one it leaves
AssignFile(b, c, cur, order) ==
  /\ edits < MaxEdits /\ edits' = edits + 1
  /\ b # c /\ Len(files[b][cur]) = 1
  /\ Free(CycleLock(c))
  /\ files' = [files EXCEPT ![b][cur] = <<>>, ![c][cur] = order]
  /\ UNCHANGED <<imports, linked, review, rate, account, cleared, recordVars, work, page>>

\* confirmLink, revokeLink: no lock of the cycles the link is used in
Link(s) ==
  /\ edits < MaxEdits /\ edits' = edits + 1
  /\ linked' = IF s \in linked THEN linked \ {s} ELSE linked \union {s}
  /\ UNCHANGED <<files, imports, review, rate, account, cleared, recordVars, work, page>>

\* decide: a later decision supersedes the earlier one
ReviewItem(c, s, d) ==
  /\ edits < MaxEdits /\ edits' = edits + 1
  /\ Free(CycleLock(c))
  /\ review[c][s] # d
  /\ review' = [review EXCEPT ![c][s] = d]
  /\ UNCHANGED <<files, imports, linked, rate, account, cleared, recordVars, work, page>>

\* setFx, and the upsert of the rate card, which saves what it was based on
SetRate(r) ==
  /\ edits < MaxEdits /\ edits' = edits + 1
  /\ Free(RateLock)
  /\ rate # r /\ rate' = r
  /\ UNCHANGED <<files, imports, linked, review, account, cleared, recordVars, work, page>>

\* reviewBankAccount: account 1 is the seafarer's own, the others are not
ReviewAccount(s, a) ==
  /\ edits < MaxEdits /\ edits' = edits + 1
  /\ Free(CrewLock(s))
  /\ account[s] # a
  /\ a > 1 => s \in cleared
  /\ account' = [account EXCEPT ![s] = a]
  /\ UNCHANGED <<files, imports, linked, review, rate, cleared, recordVars, work, page>>

\* reviewAuthorization: approved, or revoked whatever account relies on it
ReviewAuthorization(s) ==
  /\ edits < MaxEdits /\ edits' = edits + 1
  /\ Free(CrewLock(s))
  /\ cleared' = IF s \in cleared THEN cleared \ {s} ELSE cleared \union {s}
  /\ UNCHANGED <<files, imports, linked, review, rate, account, recordVars, work, page>>

----------------------------------------------------------------------------
(* Submission and approval *)

Submit(c, keys) ==
  LET new == [status   |-> "submitted",
              entries  |-> {Case(c, k) : k \in keys},
              replaces |-> UNION {Orphans(c, k[1]) : k \in keys},
              rate     |-> IF \E k \in keys : k[1] \in linked THEN rate ELSE 0]
      old == versions[c]
  IN
  /\ Len(old) < MaxVersions[c]
  /\ Free(CycleLock(c))
  /\ ~Blocked(c)
  /\ keys # {} /\ keys \subseteq Eligible(c)
  /\ \A v \in Submitted(old) :
       old[v].entries # new.entries \/ old[v].rate # new.rate
  /\ versions' = [versions EXCEPT ![c] =
       Append([v \in DOMAIN old |->
                 IF v \in Submitted(old)
                 THEN [old[v] EXCEPT !.status = "superseded"] ELSE old[v]], new)]
  /\ UNCHANGED <<sourceVars, holder, rows, decisions, work, page, edits>>
  /\ SetStatus(c)

OnlyTheCycle(c, v) == {CycleLock(c)} \* mutant: the crews and the rates are not locked
\* cycle, crews and rates are locked before anything is checked
ApprovalLocks(c, v) ==
  {CycleLock(c), RateLock} \union {CrewLock(e.key[1]) : e \in versions[c][v].entries}

\* an entitlement of the same seafarer in another cycle of the month
Overlaps(c, s) ==
  \E d \in Cycles \ {c}, cur \in Currencies : holder[d][<<s, cur>>] # 0

Approvable(c, v) ==
  LET it == versions[c][v] IN
  /\ it.status = "submitted"
  /\ v = Len(versions[c])
  /\ \A e \in it.entries : e.key \in Eligible(c) /\ e = Case(c, e.key)
  /\ it.rate = (IF \E e \in it.entries : e.key[1] \in linked THEN rate ELSE 0)
  /\ \A e \in it.entries : Orphans(c, e.key[1]) \subseteq it.replaces
  /\ it.replaces \intersect Live(c) = {}
  /\ \A e \in it.entries : ~Overlaps(c, e.key[1])

BeginApprove(u, c, v) ==
  /\ work[u] = Idle
  /\ \A l \in ApprovalLocks(c, v) : Free(l)
  /\ Approvable(c, v)
  /\ work' = [work EXCEPT ![u] =
                [locks |-> ApprovalLocks(c, v), cycle |-> c, version |-> v]]
  /\ UNCHANGED <<sourceVars, recordVars, page, edits>>

\* the versions all of whose entitlements were taken over are superseded
AfterApproval(c, v, taken) ==
  LET new == [k \in Keys |-> IF \E e \in versions[c][v].entries : e.key = k THEN v
                             ELSE IF k \in taken THEN 0 ELSE holder[c][k]]
      lost == {holder[c][k] : k \in taken} \ ({new[k] : k \in Keys} \union {0})
  IN  [holder |-> new,
       versions |-> [n \in DOMAIN versions[c] |->
         IF n = v THEN [versions[c][n] EXCEPT !.status = "approved"]
         ELSE IF n \in lost THEN [versions[c][n] EXCEPT !.status = "superseded"]
         ELSE versions[c][n]]]

FinishApprove(u) ==
  LET c == work[u].cycle
      v == work[u].version
      taken == {e.key : e \in versions[c][v].entries} \union versions[c][v].replaces
      after == AfterApproval(c, v, taken)
  IN
  /\ work[u] # Idle
  /\ holder' = [holder EXCEPT ![c] = after.holder]
  /\ versions' = [versions EXCEPT ![c] = after.versions]
  /\ work' = [work EXCEPT ![u] = Idle]
  /\ UNCHANGED <<sourceVars, rows, decisions, page, edits>>
  /\ SetStatus(c)

Reject(c, v) ==
  /\ Free(CycleLock(c))
  /\ versions[c][v].status = "submitted"
  /\ versions' = [versions EXCEPT ![c][v].status = "rejected"]
  /\ UNCHANGED <<sourceVars, holder, rows, decisions, work, page, edits>>
  /\ SetStatus(c)

----------------------------------------------------------------------------
(* Batches: paymentContext and payableEntries *)

Out(c) == {i \in DOMAIN rows[c] : rows[c][i].standing}
Own(c, k) == {i \in Out(c) : rows[c][i].key = k}

OwnOnly(c, k) == Own(c, k) \* mutant: an earlier key is forgotten
\* what went out for the seafarer under a key that is gone counts as earlier
Prior(c, k) ==
  IF Own(c, k) # {} THEN Own(c, k)
  ELSE {i \in Out(c) : /\ rows[c][i].key[1] = k[1]
                       /\ rows[c][i].key \notin Live(c)}

\* what went out was called off by the owner, and nothing stands in its place
CalledOff(c, k) ==
  Own(c, k) = {} /\ \E i \in DOMAIN rows[c] : rows[c][i].key = k

AnyApproval(c, v, k) == TRUE \* mutant: any approved version may go out
Entitled(c, v, k) == holder[c][k] = v

\* decisions on the last row, for the case as it is now
Answers(c, e) ==
  {d \in decisions[c] : d.entry = e /\ d.row = Max(Prior(c, e.key))}

Row(v, e, kind, amount, d) ==
  [key |-> e.key, entry |-> e, version |-> v, kind |-> kind, amount |-> amount,
   decision |-> d, standing |-> TRUE]

\* the rows of a batch, each with the rows it replaces
Fresh(c, v, e) ==
  {[row |-> Row(v, e, "full", e.balance, Undecided), replaces |-> {}] :
     x \in {y \in {e} : /\ Prior(c, e.key) = {} /\ ~CalledOff(c, e.key)
                        /\ e.balance > 0}}
Answered(c, v, e) ==
  {IF d.action = "settle"
   THEN [row |-> Row(v, e, "settlement", d.amount, d), replaces |-> {}]
   ELSE [row |-> Row(v, e, "full", e.balance, d), replaces |-> Prior(c, e.key)] :
     d \in {x \in Answers(c, e) :
              x.action = "settle" \/ (x.action = "replace" /\ e.balance > 0)}}

Batch(c, v, cur) ==
  UNION {IF Prior(c, e.key) = {} THEN Fresh(c, v, e)
         ELSE IF rows[c][Max(Prior(c, e.key))].entry = e THEN {}
         ELSE Answered(c, v, e) :
           e \in {x \in versions[c][v].entries :
                    x.key[2] = cur /\ x.payable /\ Entitled(c, v, x.key)}}

\* UQ_crew_salary_export_rows_resolution: a decision that has brought out a row
\* refuses the whole batch it would come out with again
Unspent(c, batch) ==
  \A b \in batch, i \in DOMAIN rows[c] :
    b.row.decision # Undecided => rows[c][i].decision # b.row.decision

ExportPayments(c, v, cur) ==
  LET batch == Batch(c, v, cur)
      gone  == UNION {b.replaces : b \in batch}
      after == [i \in DOMAIN rows[c] |->
                  IF i \in gone THEN [rows[c][i] EXCEPT !.standing = FALSE]
                  ELSE rows[c][i]]
  IN
  /\ Free(CycleLock(c))
  /\ versions[c][v].status = "approved"
  /\ batch # {} /\ Unspent(c, batch)
  /\ Len(rows[c]) + Cardinality(batch) <= MaxRows[c]
  /\ rows' = [rows EXCEPT ![c] = after \o SetToSeq({b.row : b \in batch})]
  /\ UNCHANGED <<sourceVars, versions, holder, decisions, work, page, edits>>
  /\ SetStatus(c)

----------------------------------------------------------------------------
(* The owner's decision on what went out and then changed *)

\* batchDecisions: what waits for a decision, with the row it is about
Waiting(c) ==
  UNION {{[cycle |-> c, version |-> v, entry |-> e, row |-> Max(Prior(c, e.key))] :
            e \in {x \in versions[c][v].entries :
                     /\ x.payable /\ Entitled(c, v, x.key)
                     /\ Prior(c, x.key) # {}
                     /\ rows[c][Max(Prior(c, x.key))].entry # x}} :
           v \in Approved(versions[c])}

OpenPage(p) ==
  /\ page # p /\ page' = p
  /\ UNCHANGED <<sourceVars, recordVars, work, edits>>

\* the case is still the one shown, in the version shown
AsShown(p) ==
  /\ holder[p.cycle][p.entry.key] = p.version
  /\ CaseIn(p.cycle, p.version, p.entry.key) = p.entry

\* resolveBatch.  How many rows were out tells a decision from the same one taken
\* again after its row was called off
ResolveBatch(action, amount) ==
  LET p == page
      c == p.cycle
      k == p.entry.key
      row == rows[c][p.row]
      void == IF action = "replace" /\ p.entry.balance <= 0
              THEN Own(c, row.key) ELSE {}
      earlier == {d \in decisions[c] : d.entry.key = k /\ d.row = p.row}
  IN
  /\ p # Blank
  /\ Free(CycleLock(c))
  /\ row.standing /\ p.row = Max(Own(c, row.key))
  /\ k # row.key => row.key \notin Live(c) /\ Own(c, k) = {}
  /\ AsShown(p)
  /\ row.entry # p.entry
  /\ action = "settle" => amount \in 1..p.entry.balance
  /\ action # "settle" => amount = 0
  /\ decisions' = [decisions EXCEPT ![c] = (@ \ earlier) \union
       {[entry |-> p.entry, row |-> p.row, action |-> action, amount |-> amount,
         after |-> Len(rows[c])]}]
  /\ rows' = [rows EXCEPT ![c] = [i \in DOMAIN rows[c] |->
                IF i \in void THEN [rows[c][i] EXCEPT !.standing = FALSE]
                ELSE rows[c][i]]]
  /\ page' = Blank
  /\ UNCHANGED <<sourceVars, versions, holder, status, work, edits>>

----------------------------------------------------------------------------
Sources ==
  \/ \E c \in Cycles, cur \in Currencies, crew \in SUBSET Crews :
       ImportFile(c, cur, crew)
  \/ \E b, c \in Cycles, cur \in Currencies :
       \E order \in {files[b][cur] \o files[c][cur], files[c][cur] \o files[b][cur]} :
         AssignFile(b, c, cur, order)
  \/ \E s \in Crews : Link(s) \/ ReviewAuthorization(s)
  \/ \E c \in Cycles, s \in Crews, d \in {"accepted", "rejected"} :
       ReviewItem(c, s, d)
  \/ \E r \in Rates : SetRate(r)
  \/ \E s \in Crews, a \in Accounts : ReviewAccount(s, a)

Records ==
  \/ \E c \in Cycles, keys \in SUBSET Keys : Submit(c, keys)
  \/ \E u \in Tabs, c \in Cycles : \E v \in DOMAIN versions[c] :
       BeginApprove(u, c, v)
  \/ \E u \in Tabs : FinishApprove(u)
  \/ \E c \in Cycles : \E v \in DOMAIN versions[c] :
       \/ Reject(c, v)
       \/ \E cur \in Currencies : ExportPayments(c, v, cur)
  \/ \E c \in Cycles : \E p \in Waiting(c) : OpenPage(p)
  \/ \E action \in {"replace", "settle", "keep"}, amount \in 0..Salary :
       ResolveBatch(action, amount)

CrewNext == Sources \/ Records
CrewSpec == CrewInit /\ [][CrewNext]_crewVars

----------------------------------------------------------------------------
(* Properties *)

\* A seafarer's service of the month is entitled in one cycle only, whoever
\* approves what at the same time: approve looks for an overlap in the other
\* cycles under the seafarer's lock.
ServiceIsPaidOnce ==
  \A s \in Crews, c, d \in Cycles :
    c # d => \A cur, other \in Currencies :
               holder[c][<<s, cur>>] = 0 \/ holder[d][<<s, other>>] = 0

\* No row goes out in full, undecided, while one stands that went out for the
\* same case, or for the seafarer under a key gone from the cycle; and one
\* decision of the owner brings out one row.
NothingGoesOutAgainUndecided ==
  [][\A c \in Cycles : \A i \in DOMAIN rows'[c] \ DOMAIN rows[c] :
       LET r == rows'[c][i] IN
       /\ r.decision = Undecided =>
            \A j \in DOMAIN rows[c] :
              rows[c][j].standing /\ rows[c][j].key[1] = r.key[1] =>
                rows[c][j].key # r.key /\ rows[c][j].key \in Live(c)
       /\ r.decision # Undecided =>
            \A j \in DOMAIN rows[c] : rows[c][j].decision # r.decision]_crewVars

\* What goes out is what stands approved for the case at that moment, and a
\* decision that brings it out was taken on that very content.
RowsAreOfTheStandingApproval ==
  [][\A c \in Cycles : \A i \in DOMAIN rows'[c] \ DOMAIN rows[c] :
       LET r == rows'[c][i] IN
       /\ holder[c][r.key] = r.version
       /\ r.decision # Undecided => r.decision.entry = r.entry]_crewVars

\* "Replace: what went out was not executed, so its rows are called off and the
\* new balance goes out in full" (crew-salary.export.ts): a row that a settlement
\* of the case was added to does not stand beside the case's row in full.
ReplacementCoversWhatWasSettled ==
  [][\A c \in Cycles : \A i \in DOMAIN rows'[c] \ DOMAIN rows[c] :
       LET r == rows'[c][i] IN
       r.kind = "full" =>
         \A j \in DOMAIN rows[c] :
           rows[c][j].key = r.key /\ rows[c][j].kind = "settlement" =>
             ~rows'[c][rows[c][j].decision.row].standing]_crewVars

=============================================================================
