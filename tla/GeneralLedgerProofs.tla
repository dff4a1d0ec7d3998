------------------------- MODULE GeneralLedgerProofs -------------------------
(***************************************************************************)
(* Proofs about GeneralLedger, for every set of requests, entries, years,  *)
(* accounts and rates, by the inductive invariant IInv: the types, the     *)
(* gapless numbers, the pairing of reversals, what a step may never do,    *)
(* and that the posted entries are the pages of LedgerBook.                *)
(***************************************************************************)
EXTENDS GeneralLedger, SequenceTheorems, TLAPS

----------------------------------------------------------------------------
(* Types *)

\* A request that starts, ends or is advanced keeps its type
LEMMA StartType ==
  ASSUME TypeOK, NEW u \in Users, NEW to \in PCs, NEW r \in Request, Start(u, to, r)
  PROVE  pc' \in [Users -> PCs] /\ req' \in [Users -> Request]
BY DEF TypeOK, Start

LEMMA EndType ==
  ASSUME TypeOK, NEW u \in Users, End(u)
  PROVE  pc' \in [Users -> PCs] /\ req' \in [Users -> Request]
<1>1. NoRequest \in Request  BY DEF NoRequest, Request
<1>2. "idle" \in PCs  BY DEF PCs
<1> QED  BY <1>1, <1>2 DEF TypeOK, End

\* What a client's input becomes is a body
LEMMA PreparedType ==
  ASSUME TypeOK, NEW event \in EventTypes \cup {"reversal"},
         NEW source \in Sources \cup {None}, NEW p \in Periods,
         NEW net \in LineSets, NEW r \in Rates \cup {None}
  PROVE  Prepared(event, source, p, net, r) \in Body
<1>1. net \in [Accounts -> Int]  BY LinesAssumption
<1>2. (IF r = None THEN 1 ELSE fx[r].rate) \in Nat  BY DEF TypeOK
<1> QED  BY <1>1, <1>2 DEF Prepared, Body

\* The opposite amounts are amounts, and a reversing entry has a body
LEMMA NegatedType ==
  ASSUME NEW net \in [Accounts -> Int]
  PROVE  Negated(net) \in [Accounts -> Int]
BY DEF Negated

LEMMA ReversalType ==
  ASSUME TypeOK, NEW e \in Entries, body[e] \in Body, NEW q \in Periods
  PROVE  ReversalOf(e, q) \in Body
<1>1. Negated(body[e].net) \in [Accounts -> Int]  BY NegatedType DEF Body
<1> QED  BY <1>1 DEF ReversalOf, Body

\* A request sent on with other fields keeps its type
LEMMA RequestType ==
  /\ NoRequest \in Request
  /\ \A b \in Body : [NoRequest EXCEPT !.body = b] \in Request
  /\ \A e \in Entries, b \in Body :
       [NoRequest EXCEPT !.entry = e, !.body = b] \in Request
  /\ \A a \in Accounts, active \in BOOLEAN :
       [NoRequest EXCEPT !.item = a, !.approved = active] \in Request
  /\ \A r \in Rates, v \in Nat, ok \in BOOLEAN :
       [NoRequest EXCEPT !.item = r, !.rate = v, !.approved = ok] \in Request
  /\ \A r \in Rates, v \in Nat :
       [NoRequest EXCEPT !.item = r, !.rate = v] \in Request
BY DEF NoRequest, Request

LEMMA InitType == Init => TypeOK
<1> SUFFICES ASSUME Init PROVE TypeOK  OBVIOUS
<1>1. req \in [Users -> Request]  BY RequestType DEF Init
<1>2. pc \in [Users -> PCs]  BY DEF Init, PCs
<1>3. fx \in [Rates -> [rate : Nat, approved : BOOLEAN]]  BY DEF Init
<1>4. status \in [Entries -> Statuses] /\ period_status \in [Periods -> PeriodStatuses]
  BY DEF Init, Statuses, PeriodStatuses
<1>5. next_entry_no \in [Years -> Nat \ {0}]  BY DEF Init
<1>6. body \in [Entries -> Body \cup {NoBody}] /\ \A e \in Entries : status[e] = "none"
  BY DEF Init
<1> QED  BY <1>1, <1>2, <1>3, <1>4, <1>5, <1>6 DEF TypeOK, Init

\* The steps of a draft's life
LEMMA TypeBeginCreateDraft ==
  ASSUME TypeOK, NEW u \in Users, BeginCreateDraft(u) PROVE TypeOK'
<1>1. PICK event \in EventTypes, source \in Sources \cup {None}, p \in Periods,
           net \in LineSets, r \in Rates \cup {None} :
        Start(u, "draft_write",
              [NoRequest EXCEPT !.body = Prepared(event, source, p, net, r)])
  BY DEF BeginCreateDraft
<1>2. [NoRequest EXCEPT !.body = Prepared(event, source, p, net, r)] \in Request
  BY PreparedType, RequestType
<1>3. "draft_write" \in PCs  BY DEF PCs
<1>4. pc' \in [Users -> PCs] /\ req' \in [Users -> Request]
  BY <1>1, <1>2, <1>3, StartType
<1> QED  BY <1>4 DEF TypeOK, BeginCreateDraft, entryVars, setupVars

LEMMA TypeBeginUpdateDraft ==
  ASSUME TypeOK, NEW u \in Users, BeginUpdateDraft(u) PROVE TypeOK'
<1>1. PICK e \in Entries, p \in Periods, net \in LineSets, r \in Rates \cup {None} :
        /\ status[e] = "draft"
        /\ Start(u, "edit_write",
                 [NoRequest EXCEPT !.entry = e,
                    !.body = Prepared(body[e].event, body[e].source, p, net, r)])
  BY DEF BeginUpdateDraft
<1>2. body[e].event \in EventTypes \cup {"reversal"} /\ body[e].source \in Sources \cup {None}
  BY <1>1 DEF TypeOK, Body
<1>3. Prepared(body[e].event, body[e].source, p, net, r) \in Body  BY <1>2, PreparedType
<1>4. "edit_write" \in PCs  BY DEF PCs
<1>5. pc' \in [Users -> PCs] /\ req' \in [Users -> Request]
  BY <1>1, <1>3, <1>4, StartType, RequestType
<1> QED  BY <1>5 DEF TypeOK, BeginUpdateDraft, entryVars, setupVars

LEMMA TypeVoidDraft ==
  ASSUME TypeOK, NEW u \in Users, VoidDraft(u) PROVE TypeOK'
BY DEF VoidDraft, TypeOK, Statuses, setupVars

\* The steps of a posting and of a reversal up to their commits
LEMMA TypeBeginPost ==
  ASSUME TypeOK, NEW u \in Users, BeginPost(u) PROVE TypeOK'
<1>1. PICK e \in Entries :
        /\ status[e] = "draft"
        /\ Start(u, "post_number", [NoRequest EXCEPT !.entry = e, !.body = body[e]])
  BY DEF BeginPost, PostingAccepts
<1>2. body[e] \in Body  BY <1>1 DEF TypeOK
<1>3. "post_number" \in PCs  BY DEF PCs
<1>4. pc' \in [Users -> PCs] /\ req' \in [Users -> Request]
  BY <1>1, <1>2, <1>3, StartType, RequestType
<1> QED  BY <1>4 DEF TypeOK, BeginPost, entryVars, setupVars

LEMMA TypeBeginReverse ==
  ASSUME TypeOK, NEW u \in Users, BeginReverse(u) PROVE TypeOK'
<1>1. PICK e \in Entries, q \in Periods :
        /\ status[e] = "posted"
        /\ Start(u, "rev_insert", [NoRequest EXCEPT !.entry = e, !.body = ReversalOf(e, q)])
  BY DEF BeginReverse
<1>2. ReversalOf(e, q) \in Body  BY <1>1, ReversalType DEF TypeOK
<1>3. "rev_insert" \in PCs  BY DEF PCs
<1>4. pc' \in [Users -> PCs] /\ req' \in [Users -> Request]
  BY <1>1, <1>2, <1>3, StartType, RequestType
<1> QED  BY <1>4 DEF TypeOK, BeginReverse, entryVars, setupVars

LEMMA TypeInsertReversal ==
  ASSUME TypeOK, NEW u \in Users, InsertReversal(u) PROVE TypeOK'
BY DEF InsertReversal, TypeOK, PCs, entryVars, setupVars

LEMMA YearType == ASSUME NEW p \in Periods PROVE YearOf(p) \in Years
BY DEF Periods, YearOf

\* A body that comes from the type of bodies is not the empty one
LEMMA BodyPeriod == ASSUME NEW b \in Body PROVE b.period \in Periods
BY DEF Body

\* A request in the middle of its work has a body
LEMMA BodyOfRequest ==
  ASSUME TypeOK, LockedReadsHold, NEW u \in Users,
         pc[u] \notin {"idle", "account_save", "fx_save"}
  PROVE  req[u].body \in Body /\ YearOf(req[u].body.period) \in Years
BY BodyPeriod, YearType DEF LockedReadsHold, ReadsHold

LEMMA TypeTakeNumber ==
  ASSUME TypeOK, LockedReadsHold, NEW u \in Users, TakeNumber(u) PROVE TypeOK'
<1>1. next_entry_no[YearOf(req[u].body.period)] \in Nat
  BY BodyOfRequest DEF TakeNumber, TypeOK
<1>2. req' \in [Users -> Request]  BY <1>1, ZenonT(60) DEF TakeNumber, TypeOK, Request
<1>3. pc' \in [Users -> PCs]  BY DEF TakeNumber, TypeOK, PCs
<1> QED  BY <1>2, <1>3 DEF TypeOK, TakeNumber, entryVars, setupVars

LEMMA TypeWriteDraft ==
  ASSUME TypeOK, LockedReadsHold, NEW u \in Users, WriteDraft(u) PROVE TypeOK'
<1>1. req[u].body \in Body  BY BodyOfRequest DEF WriteDraft, At
<1>2. pc' \in [Users -> PCs] /\ req' \in [Users -> Request]
  BY EndType DEF WriteDraft
<1> QED  BY <1>1, <1>2 DEF TypeOK, WriteDraft, Statuses, setupVars

LEMMA TypeWriteUpdate ==
  ASSUME TypeOK, LockedReadsHold, NEW u \in Users, WriteUpdate(u) PROVE TypeOK'
<1>1. req[u].body \in Body  BY BodyOfRequest DEF WriteUpdate, At
<1>2. pc' \in [Users -> PCs] /\ req' \in [Users -> Request]
  BY EndType DEF WriteUpdate
<1> QED  BY <1>1, <1>2 DEF TypeOK, WriteUpdate, setupVars

LEMMA TypeCommitPost ==
  ASSUME TypeOK, LockedReadsHold, NEW u \in Users, CommitPost(u) PROVE TypeOK'
<1>1. req[u].seq \in Nat  BY DEF TypeOK, Request
<1>2. pc' \in [Users -> PCs] /\ req' \in [Users -> Request]
  BY EndType DEF CommitPost
<1>3. req[u].body = body[req[u].entry] /\ req[u].body \in Body /\ req[u].entry \in Entries
  BY DEF LockedReadsHold, ReadsHold, CommitPost, At, Holding
<1>4. status' \in [Entries -> Statuses] /\ entry_no' \in [Entries -> Nat]
  BY <1>1 DEF TypeOK, CommitPost, Statuses
<1>5. next_entry_no' \in [Years -> Nat \ {0}]
  <2>1. req[u].seq + 1 \in Nat \ {0}  BY <1>1
  <2> QED  BY <2>1 DEF TypeOK, CommitPost
<1>6. \A f \in Entries : body'[f] = body[f] /\ (status'[f] # "none" => body[f] \in Body)
  BY <1>3 DEF TypeOK, CommitPost
<1> QED  BY <1>2, <1>4, <1>5, <1>6 DEF TypeOK, CommitPost, setupVars

LEMMA TypeCommitReverse ==
  ASSUME TypeOK, LockedReadsHold, NEW u \in Users, CommitReverse(u) PROVE TypeOK'
<1> DEFINE e == req[u].entry  b == req[u].body
<1>1. req[u].seq \in Nat  BY DEF TypeOK, Request
<1>2. pc' \in [Users -> PCs] /\ req' \in [Users -> Request]
  BY EndType DEF CommitReverse
<1>3. b \in Body /\ e \in Entries /\ status[e] = "posted"
  BY DEF LockedReadsHold, ReadsHold, CommitReverse, At, Holding
<1>4. PICK r \in Entries :
       /\ status' = [status EXCEPT ![r] = "posted", ![e] = "reversed"]
       /\ entry_no' = [entry_no EXCEPT ![r] = req[u].seq]
       /\ body' = [body EXCEPT ![r] = b]
       /\ reversed_by' = [reversed_by EXCEPT ![e] = r]
  BY DEF CommitReverse
<1>5. status' \in [Entries -> Statuses] /\ entry_no' \in [Entries -> Nat]
  BY <1>1, <1>4 DEF TypeOK, Statuses
<1>6. body' \in [Entries -> Body \cup {NoBody}]
      /\ \A f \in Entries : status'[f] # "none" => body'[f] \in Body
  BY <1>3, <1>4 DEF TypeOK
<1>7. reversed_by' \in [Entries -> Entries \cup {None}]  BY <1>4 DEF TypeOK
<1>8. next_entry_no' \in [Years -> Nat \ {0}]
  <2>1. req[u].seq + 1 \in Nat \ {0}  BY <1>1
  <2> QED  BY <2>1 DEF TypeOK, CommitReverse
<1> QED  BY <1>2, <1>5, <1>6, <1>7, <1>8 DEF TypeOK, CommitReverse, setupVars

\* Requests that give up
LEMMA TypeGivesUp ==
  ASSUME TypeOK, NEW u \in Users, DeadlockAbort(u) \/ Refuse(u) \/ ConnectionLost(u)
  PROVE  TypeOK'
BY EndType DEF DeadlockAbort, Refuse, ConnectionLost, TypeOK, entryVars, setupVars

\* Periods, accounts and rates
LEMMA TypePeriods ==
  ASSUME TypeOK, NEW u \in Users, CreateFiscalYear(u) \/ ClosePeriod(u) \/ ReopenPeriod(u)
  PROVE  TypeOK'
<1>1. CASE CreateFiscalYear(u)
  BY <1>1 DEF CreateFiscalYear, TypeOK, PeriodStatuses, entryVars, setupVars
<1>2. CASE ClosePeriod(u)
  BY <1>2 DEF ClosePeriod, TypeOK, PeriodStatuses, entryVars, setupVars
<1>3. CASE ReopenPeriod(u)
  BY <1>3 DEF ReopenPeriod, TypeOK, PeriodStatuses, entryVars, setupVars
<1> QED  BY <1>1, <1>2, <1>3

LEMMA TypeAccounts ==
  ASSUME TypeOK, LockedReadsHold, NEW u \in Users, BeginUpdateAccount(u) \/ SaveAccount(u)
  PROVE  TypeOK'
<1>1. CASE BeginUpdateAccount(u)
  <2>1. "account_save" \in PCs  BY DEF PCs
  <2>2. pc' \in [Users -> PCs] /\ req' \in [Users -> Request]
    BY <1>1, <2>1, StartType, RequestType, AccountsAssumption DEF BeginUpdateAccount
  <2> QED  BY <1>1, <2>2 DEF BeginUpdateAccount, TypeOK, entryVars, setupVars
<1>2. CASE SaveAccount(u)
  <2>1. pc' \in [Users -> PCs] /\ req' \in [Users -> Request]
    BY <1>2, EndType DEF SaveAccount
  <2>2. is_active' \in [Accounts -> BOOLEAN]
    BY <1>2 DEF SaveAccount, TypeOK, Request
  <2> QED  BY <1>2, <2>1, <2>2 DEF SaveAccount, TypeOK, entryVars
<1> QED  BY <1>1, <1>2

LEMMA TypeRates ==
  ASSUME TypeOK, NEW u \in Users,
         CreateFxRate(u) \/ BeginUpdateFxRate(u) \/ BeginApproveFxRate(u) \/ SaveFxRate(u)
  PROVE  TypeOK'
<1> "fx_save" \in PCs  BY DEF PCs
<1>1. CASE CreateFxRate(u)
  BY <1>1, RatesAssumption DEF CreateFxRate, TypeOK, entryVars
<1>2. CASE BeginUpdateFxRate(u)
  <2>1. pc' \in [Users -> PCs] /\ req' \in [Users -> Request]
    BY <1>2, StartType, RequestType, RatesAssumption DEF BeginUpdateFxRate
  <2> QED  BY <1>2, <2>1 DEF BeginUpdateFxRate, TypeOK, entryVars, setupVars
<1>3. CASE BeginApproveFxRate(u)
  <2>1. PICK r \in Rates :
          Start(u, "fx_save",
             [NoRequest EXCEPT !.item = r, !.rate = fx[r].rate, !.approved = TRUE])
    BY <1>3 DEF BeginApproveFxRate
  <2>2. fx[r].rate \in Nat  BY DEF TypeOK
  <2>3. pc' \in [Users -> PCs] /\ req' \in [Users -> Request]
    BY <2>1, <2>2, StartType, RequestType
  <2> QED  BY <1>3, <2>3 DEF BeginApproveFxRate, TypeOK, entryVars, setupVars
<1>4. CASE SaveFxRate(u)
  <2>1. pc' \in [Users -> PCs] /\ req' \in [Users -> Request]
    BY <1>4, EndType DEF SaveFxRate
  <2>2. fx' \in [Rates -> [rate : Nat, approved : BOOLEAN]]
    BY <1>4 DEF SaveFxRate, TypeOK, Request
  <2> QED  BY <1>4, <2>1, <2>2 DEF SaveFxRate, TypeOK, entryVars
<1> QED  BY <1>1, <1>2, <1>3, <1>4

\* Every step keeps the types
LEMMA TypeNext ==
  ASSUME TypeOK, LockedReadsHold, [Next]_vars
  PROVE  TypeOK'
<1>1. CASE Next
  <2> PICK u \in Users : Begin(u) \/ Continue(u)  BY <1>1 DEF Next
  <2>1. CASE Begin(u)
    BY <2>1, TypeBeginCreateDraft, TypeBeginUpdateDraft, TypeVoidDraft, TypeBeginPost,
       TypeBeginReverse, TypePeriods, TypeAccounts, TypeRates DEF Begin
  <2>2. CASE Continue(u)
    BY <2>2, TypeWriteDraft, TypeWriteUpdate, TypeTakeNumber, TypeCommitPost,
       TypeInsertReversal, TypeCommitReverse, TypeAccounts, TypeRates, TypeGivesUp
    DEF Continue
  <2> QED  BY <2>1, <2>2
<1>2. CASE UNCHANGED vars
  BY <1>2 DEF vars, entryVars, setupVars, TypeOK
<1> QED  BY <1>1, <1>2

----------------------------------------------------------------------------
(* Locks and what was read under them *)

\* A request that did not move, over entries and counters that did not
\* change, still knows what it read
LEMMA StillHolds ==
  ASSUME NEW v \in Users, ReadsHold(v), pc'[v] = pc[v], req'[v] = req[v],
         UNCHANGED <<status, body, next_entry_no>>
  PROVE  ReadsHold(v)'
BY DEF ReadsHold

\* Only the request that takes a step moves
LEMMA OthersStay ==
  ASSUME TypeOK, NEW u \in Users,
         End(u) \/ \E to \in PCs, r \in Request : Start(u, to, r)
  PROVE  \A v \in Users \ {u} : pc'[v] = pc[v] /\ req'[v] = req[v]
BY DEF TypeOK, End, Start

\* A request that ends lets its locks go
LEMMA EndLocks ==
  ASSUME TypeOK, LocksExclude, NEW u \in Users, End(u)
  PROVE  LocksExclude'
<1>1. pc'[u] = "idle"  BY DEF TypeOK, End
<1>2. \A v \in Users \ {u} : pc'[v] = pc[v] /\ req'[v] = req[v]  BY OthersStay
<1> QED  BY <1>1, <1>2 DEF LocksExclude, Holding, Numbering

LEMMA EndReads ==
  ASSUME TypeOK, NEW u \in Users, End(u)
  PROVE  ReadsHold(u)'
<1>1. pc'[u] = "idle"  BY DEF TypeOK, End
<1> QED  BY <1>1 DEF ReadsHold, Holding, Numbering

\* A request that starts without a lock takes none
LEMMA StartUnlocked ==
  ASSUME TypeOK, LocksExclude, NEW u \in Users,
         NEW to \in {"draft_write", "account_save", "fx_save"}, NEW r \in Request,
         Start(u, to, r)
  PROVE  LocksExclude'
<1>1. to \in PCs  BY DEF PCs
<1>2. pc'[u] = to  BY DEF TypeOK, Start
<1>3. \A v \in Users \ {u} : pc'[v] = pc[v] /\ req'[v] = req[v]  BY <1>1, OthersStay
<1> QED  BY <1>2, <1>3 DEF LocksExclude, Holding, Numbering

\* A request that starts with the lock of an entry nobody holds
LEMMA StartLocked ==
  ASSUME TypeOK, LocksExclude, NEW u \in Users,
         NEW to \in {"edit_write", "post_number", "rev_insert"}, NEW r \in Request,
         Start(u, to, r), ~EntryLocked(r.entry)
  PROVE  LocksExclude'
<1>1. to \in PCs  BY DEF PCs
<1>2. pc'[u] = to /\ req'[u] = r  BY DEF TypeOK, Start
<1>3. \A v \in Users \ {u} : pc'[v] = pc[v] /\ req'[v] = req[v]  BY <1>1, OthersStay
<1>4. \A v \in Users : pc[v] \in Holding => req[v].entry # r.entry  BY DEF EntryLocked
<1> QED  BY <1>2, <1>3, <1>4 DEF LocksExclude, Holding, Numbering

\* A step that leaves entries and counters alone leaves the ledger alone
LEMMA QuietKeepsLedger ==
  ASSUME UNCHANGED <<entryVars, next_entry_no>>,
         DraftsCancelNothing, GaplessNumbers, ReversalsPaired
  PROVE  DraftsCancelNothing' /\ GaplessNumbers' /\ ReversalsPaired'
BY DEF entryVars, DraftsCancelNothing, GaplessNumbers, ReversalsPaired, Cancels,
       LedgerOfYear, InLedger

\* ... and what the requests that did not move know
LEMMA QuietKeepsOthers ==
  ASSUME NEW u \in Users, LockedReadsHold, UNCHANGED <<entryVars, next_entry_no>>,
         \A v \in Users \ {u} : pc'[v] = pc[v] /\ req'[v] = req[v],
         ReadsHold(u)'
  PROVE  LockedReadsHold'
<1> SUFFICES ASSUME NEW v \in Users PROVE ReadsHold(v)'  BY DEF LockedReadsHold
<1>1. CASE v = u  BY <1>1
<1>2. CASE v # u  BY <1>2, StillHolds DEF LockedReadsHold, entryVars
<1> QED  BY <1>1, <1>2

\* Requests that give up, and those that save an account or a rate
LEMMA EndsKeep ==
  ASSUME IInv, NEW u \in Users, End(u), UNCHANGED <<entryVars, next_entry_no>>, TypeOK'
  PROVE  IInv'
<1>1. \A v \in Users \ {u} : pc'[v] = pc[v] /\ req'[v] = req[v]  BY OthersStay DEF IInv
<1>2. LocksExclude'  BY EndLocks DEF IInv
<1>3. LockedReadsHold'  BY <1>1, EndReads, QuietKeepsOthers DEF IInv
<1> QED  BY <1>2, <1>3, QuietKeepsLedger DEF IInv

\* Steps that move no request
LEMMA StillKeeps ==
  ASSUME IInv, UNCHANGED <<entryVars, next_entry_no, pc, req>>, TypeOK'
  PROVE  IInv'
<1>1. LocksExclude'  BY DEF IInv, LocksExclude
<1>2. LockedReadsHold'  BY StillHolds DEF IInv, LockedReadsHold, entryVars
<1> QED  BY <1>1, <1>2, QuietKeepsLedger DEF IInv

\* A request that starts: without a lock ...
LEMMA StartsUnlockedKeep ==
  ASSUME IInv, NEW u \in Users, UNCHANGED <<entryVars, next_entry_no>>, TypeOK',
         NEW to \in {"draft_write", "account_save", "fx_save"}, NEW r \in Request,
         Start(u, to, r),
         to = "draft_write" => r.body \in Body /\ r.body.reversal_of = None
  PROVE  IInv'
<1>1. to \in PCs  BY DEF PCs
<1>2. \A v \in Users \ {u} : pc'[v] = pc[v] /\ req'[v] = req[v]  BY <1>1, OthersStay DEF IInv
<1>3. LocksExclude'  BY StartUnlocked DEF IInv
<1>4. pc'[u] = to /\ req'[u] = r  BY DEF IInv, TypeOK, Start
<1>5. ReadsHold(u)'  BY <1>4 DEF ReadsHold, Holding, Numbering
<1>6. LockedReadsHold'  BY <1>2, <1>5, QuietKeepsOthers DEF IInv
<1> QED  BY <1>3, <1>6, QuietKeepsLedger DEF IInv

LEMMA KeepsBeginCreateDraft ==
  ASSUME IInv, TypeOK', NEW u \in Users, BeginCreateDraft(u) PROVE IInv'
<1>1. PICK event \in EventTypes, source \in Sources \cup {None}, p \in Periods,
           net \in LineSets, r \in Rates \cup {None} :
        Start(u, "draft_write",
              [NoRequest EXCEPT !.body = Prepared(event, source, p, net, r)])
  BY DEF BeginCreateDraft
<1> DEFINE b == Prepared(event, source, p, net, r)
<1>2. b \in Body /\ b.reversal_of = None  BY PreparedType DEF IInv, Prepared
<1>3. [NoRequest EXCEPT !.body = b] \in Request  BY <1>2, RequestType
<1>4. [NoRequest EXCEPT !.body = b].body = b  BY DEF NoRequest
<1>5. UNCHANGED <<entryVars, next_entry_no>>  BY DEF BeginCreateDraft
<1>6. Start(u, "draft_write", [NoRequest EXCEPT !.body = b])  BY <1>1
<1> HIDE DEF b
<1> QED  BY <1>2, <1>3, <1>4, <1>5, <1>6, StartsUnlockedKeep

LEMMA KeepsSetup ==
  ASSUME IInv, TypeOK', NEW u \in Users,
         \/ BeginUpdateAccount(u) \/ SaveAccount(u)
         \/ CreateFxRate(u) \/ BeginUpdateFxRate(u) \/ BeginApproveFxRate(u)
         \/ SaveFxRate(u)
         \/ CreateFiscalYear(u) \/ ClosePeriod(u) \/ ReopenPeriod(u)
         \/ DeadlockAbort(u) \/ Refuse(u) \/ ConnectionLost(u)
  PROVE  IInv'
<1>1. CASE BeginUpdateAccount(u)
  <2>1. PICK r \in Request : Start(u, "account_save", r)
    BY <1>1, RequestType, AccountsAssumption DEF BeginUpdateAccount
  <2> QED  BY <1>1, <2>1, StartsUnlockedKeep DEF BeginUpdateAccount
<1>2. CASE BeginUpdateFxRate(u)
  <2>1. PICK r \in Request : Start(u, "fx_save", r)
    BY <1>2, RequestType, RatesAssumption DEF BeginUpdateFxRate
  <2> QED  BY <1>2, <2>1, StartsUnlockedKeep DEF BeginUpdateFxRate
<1>3. CASE BeginApproveFxRate(u)
  <2>1. \A r \in Rates : fx[r].rate \in Nat  BY DEF IInv, TypeOK
  <2>2. PICK r \in Request : Start(u, "fx_save", r)
    BY <1>3, <2>1, RequestType DEF BeginApproveFxRate
  <2> QED  BY <1>3, <2>2, StartsUnlockedKeep DEF BeginApproveFxRate
<1>4. CASE SaveAccount(u) \/ SaveFxRate(u)
  BY <1>4, EndsKeep DEF SaveAccount, SaveFxRate
<1>5. CASE DeadlockAbort(u) \/ Refuse(u) \/ ConnectionLost(u)
  BY <1>5, EndsKeep DEF DeadlockAbort, Refuse, ConnectionLost
<1>6. CASE CreateFxRate(u)  BY <1>6, StillKeeps DEF CreateFxRate
<1>7. CASE CreateFiscalYear(u) \/ ClosePeriod(u) \/ ReopenPeriod(u)
  BY <1>7, StillKeeps DEF CreateFiscalYear, ClosePeriod, ReopenPeriod
<1> QED  BY <1>1, <1>2, <1>3, <1>4, <1>5, <1>6, <1>7

\* ... or with the lock of an entry
LEMMA StartsLockedKeep ==
  ASSUME IInv, NEW u \in Users, UNCHANGED <<entryVars, next_entry_no>>, TypeOK',
         NEW to \in {"edit_write", "post_number", "rev_insert"},
         NEW e \in Entries, NEW b \in Body,
         Start(u, to, [NoRequest EXCEPT !.entry = e, !.body = b]),
         ~EntryLocked(e),
         to = "edit_write" => status[e] = "draft" /\ b.reversal_of = None,
         to = "post_number" => status[e] = "draft" /\ b = body[e],
         to = "rev_insert" =>
           /\ status[e] = "posted"
           /\ b.reversal_of = e /\ b.net = Negated(body[e].net)
           /\ NotBefore(body[e].period, b.period)
  PROVE  IInv'
<1> DEFINE r == [NoRequest EXCEPT !.entry = e, !.body = b]
<1>1. to \in PCs /\ r \in Request  BY RequestType DEF PCs
<1>2. r.entry = e /\ r.body = b  BY DEF NoRequest
<1>3. Start(u, to, r)  OBVIOUS
<1> HIDE DEF r
<1>4. \A v \in Users \ {u} : pc'[v] = pc[v] /\ req'[v] = req[v]
  BY <1>1, <1>3, OthersStay DEF IInv
<1>5. LocksExclude'  BY <1>1, <1>2, <1>3, StartLocked DEF IInv
<1>6. pc'[u] = to /\ req'[u] = r  BY <1>1, <1>3 DEF IInv, TypeOK, Start
<1>7. status' = status /\ body' = body  BY DEF entryVars
<1>8. ReadsHold(u)'  BY <1>2, <1>6, <1>7 DEF ReadsHold, Holding, Numbering
<1>9. LockedReadsHold'  BY <1>4, <1>8, QuietKeepsOthers DEF IInv
<1> QED  BY <1>5, <1>9, QuietKeepsLedger DEF IInv

LEMMA KeepsBeginUpdateDraft ==
  ASSUME IInv, TypeOK', NEW u \in Users, BeginUpdateDraft(u) PROVE IInv'
<1>1. PICK e \in Entries, p \in Periods, net \in LineSets, r \in Rates \cup {None} :
        /\ status[e] = "draft" /\ ~EntryLocked(e)
        /\ Start(u, "edit_write",
                 [NoRequest EXCEPT !.entry = e,
                    !.body = Prepared(body[e].event, body[e].source, p, net, r)])
  BY DEF BeginUpdateDraft
<1> DEFINE b == Prepared(body[e].event, body[e].source, p, net, r)
<1>2. body[e].event \in EventTypes \cup {"reversal"} /\ body[e].source \in Sources \cup {None}
  BY <1>1 DEF IInv, TypeOK, Body
<1>3. b \in Body /\ b.reversal_of = None  BY <1>2, PreparedType DEF IInv, Prepared
<1>4. Start(u, "edit_write", [NoRequest EXCEPT !.entry = e, !.body = b])  BY <1>1
<1>5. UNCHANGED <<entryVars, next_entry_no>>  BY DEF BeginUpdateDraft
<1> HIDE DEF b
<1> QED  BY <1>1, <1>3, <1>4, <1>5, StartsLockedKeep

LEMMA KeepsBeginPost ==
  ASSUME IInv, TypeOK', NEW u \in Users, BeginPost(u) PROVE IInv'
<1>1. PICK e \in Entries :
        /\ status[e] = "draft" /\ ~EntryLocked(e)
        /\ Start(u, "post_number", [NoRequest EXCEPT !.entry = e, !.body = body[e]])
  BY DEF BeginPost, PostingAccepts
<1>2. body[e] \in Body  BY <1>1 DEF IInv, TypeOK
<1>3. UNCHANGED <<entryVars, next_entry_no>>  BY DEF BeginPost
<1> QED  BY <1>1, <1>2, <1>3, StartsLockedKeep

LEMMA KeepsBeginReverse ==
  ASSUME IInv, TypeOK', NEW u \in Users, BeginReverse(u) PROVE IInv'
<1>1. PICK e \in Entries, q \in Periods :
        /\ status[e] = "posted" /\ ~EntryLocked(e)
        /\ NotBefore(body[e].period, q)
        /\ Start(u, "rev_insert", [NoRequest EXCEPT !.entry = e, !.body = ReversalOf(e, q)])
  BY DEF BeginReverse
<1> DEFINE b == ReversalOf(e, q)
<1>2. body[e] \in Body  BY <1>1 DEF IInv, TypeOK
<1>3. b \in Body  BY <1>2, ReversalType DEF IInv
<1>4. b.reversal_of = e /\ b.net = Negated(body[e].net) /\ b.period = q
  BY <1>2 DEF ReversalOf, Body
<1>5. Start(u, "rev_insert", [NoRequest EXCEPT !.entry = e, !.body = b])  BY <1>1
<1>6. UNCHANGED <<entryVars, next_entry_no>>  BY DEF BeginReverse
<1> HIDE DEF b
<1> QED  BY <1>1, <1>3, <1>4, <1>5, <1>6, StartsLockedKeep

LEMMA KeepsInsertReversal ==
  ASSUME IInv, TypeOK', NEW u \in Users, InsertReversal(u) PROVE IInv'
<1>1. pc[u] = "rev_insert" /\ pc'[u] = "rev_number" /\ req' = req
  BY DEF InsertReversal, At, IInv, TypeOK
<1>2. \A v \in Users \ {u} : pc'[v] = pc[v] /\ req'[v] = req[v]
  BY DEF InsertReversal, IInv, TypeOK
<1>3. UNCHANGED <<entryVars, next_entry_no>> /\ status' = status /\ body' = body
  BY DEF InsertReversal, entryVars
<1>4. LocksExclude'  BY <1>1, <1>2 DEF IInv, LocksExclude, Holding, Numbering
<1>5. ReadsHold(u)  BY DEF IInv, LockedReadsHold
<1>6. ReadsHold(u)'  BY <1>1, <1>3, <1>5 DEF ReadsHold, Holding, Numbering
<1>7. LockedReadsHold'  BY <1>2, <1>3, <1>6, QuietKeepsOthers DEF IInv
<1> QED  BY <1>3, <1>4, <1>7, QuietKeepsLedger DEF IInv

\* The counter is read under a lock nobody else has
LEMMA KeepsTakeNumber ==
  ASSUME IInv, TypeOK', NEW u \in Users, TakeNumber(u) PROVE IInv'
<1> DEFINE y == YearOf(req[u].body.period)
<1>1. pc[u] \in {"post_number", "rev_number"}  BY DEF TakeNumber
<1>2. pc'[u] = (IF pc[u] = "post_number" THEN "post_commit" ELSE "rev_commit")
  BY DEF TakeNumber, IInv, TypeOK
<1>3. /\ req'[u].entry = req[u].entry /\ req'[u].body = req[u].body
      /\ req'[u].seq = next_entry_no[y]
  BY DEF TakeNumber, IInv, TypeOK, Request
<1>4. \A v \in Users \ {u} : pc'[v] = pc[v] /\ req'[v] = req[v]
  BY DEF TakeNumber, IInv, TypeOK
<1>5. UNCHANGED <<entryVars, next_entry_no>> /\ status' = status /\ body' = body
  BY DEF TakeNumber, entryVars
<1>6. \A v \in Users \ {u} : pc[v] \in Numbering => YearOf(req[v].body.period) # y
  BY DEF TakeNumber, YearLockable, YearLockedBy
<1>7. LocksExclude'
  BY <1>1, <1>2, <1>3, <1>4, <1>6 DEF IInv, LocksExclude, Holding, Numbering
<1>8. ReadsHold(u)  BY DEF IInv, LockedReadsHold
<1>9. ReadsHold(u)'
  BY <1>1, <1>2, <1>3, <1>5, <1>8 DEF ReadsHold, Holding, Numbering
<1>10. LockedReadsHold'  BY <1>4, <1>5, <1>9, QuietKeepsOthers DEF IInv
<1> QED  BY <1>5, <1>7, <1>10, QuietKeepsLedger DEF IInv

----------------------------------------------------------------------------
(* Steps that write entries *)

\* What a request knows holds when its own entry and counter do not change
LEMMA UntouchedHolds ==
  ASSUME NEW v \in Users, ReadsHold(v), pc'[v] = pc[v], req'[v] = req[v],
         pc[v] \in Holding => /\ status'[req[v].entry] = status[req[v].entry]
                              /\ body'[req[v].entry] = body[req[v].entry],
         pc[v] \in Numbering => next_entry_no'[YearOf(req[v].body.period)]
                                  = next_entry_no[YearOf(req[v].body.period)]
  PROVE  ReadsHold(v)'
BY DEF ReadsHold, Holding, Numbering

\* A step on one entry that is not of the ledger and does not join it
LEMMA OffLedgerKeeps ==
  ASSUME TypeOK, GaplessNumbers, ReversalsPaired, NEW d \in Entries,
         status[d] \notin {"posted", "reversed"}, status'[d] \notin {"posted", "reversed"},
         \A f \in Entries \ {d} : status'[f] = status[f] /\ body'[f] = body[f],
         UNCHANGED <<entry_no, reversed_by, next_entry_no>>
  PROVE  GaplessNumbers' /\ ReversalsPaired'
<1>1. \A f \in Entries : InLedger(f)' <=> InLedger(f)  BY DEF InLedger
<1>2. \A f \in Entries : InLedger(f) => f # d /\ body'[f] = body[f]  BY DEF InLedger
<1>3. \A y \in Years : LedgerOfYear(y)' = LedgerOfYear(y)  BY <1>1, <1>2 DEF LedgerOfYear
<1>4. GaplessNumbers'  BY <1>3 DEF GaplessNumbers
<1>5. \A f \in Entries : status'[f] = "reversed" <=> reversed_by'[f] # None
  BY DEF ReversalsPaired
<1>6. ASSUME NEW f \in Entries, reversed_by[f] # None PROVE Cancels(reversed_by[f], f)'
  <2>1. reversed_by[f] \in Entries /\ reversed_by'[f] = reversed_by[f]
    BY <1>6 DEF TypeOK
  <2>2. Cancels(reversed_by[f], f) /\ InLedger(f)
    BY <1>6 DEF ReversalsPaired, InLedger
  <2>3. body'[f] = body[f] /\ body'[reversed_by[f]] = body[reversed_by[f]]
    BY <1>2, <2>1, <2>2 DEF Cancels
  <2> QED  BY <1>1, <2>1, <2>2, <2>3 DEF Cancels
<1>7. \A r \in Entries : InLedger(r)' /\ body'[r].reversal_of # None =>
        reversed_by'[body'[r].reversal_of] = r
  BY <1>1, <1>2 DEF ReversalsPaired
<1> QED  BY <1>4, <1>5, <1>6, <1>7 DEF ReversalsPaired

LEMMA KeepsWriteDraft ==
  ASSUME IInv, TypeOK', NEW u \in Users, WriteDraft(u) PROVE IInv'
<1> DEFINE b == req[u].body
<1>1. PICK e \in Entries :
        /\ status[e] = "none"
        /\ status' = [status EXCEPT ![e] = "draft"]
        /\ body' = [body EXCEPT ![e] = b]
  BY DEF WriteDraft
<1>2. b.reversal_of = None  BY DEF IInv, LockedReadsHold, ReadsHold, WriteDraft, At
<1>3. /\ status'[e] = "draft" /\ body'[e] = b
      /\ \A f \in Entries \ {e} : status'[f] = status[f] /\ body'[f] = body[f]
  BY <1>1 DEF IInv, TypeOK
<1>4. End(u) /\ UNCHANGED <<entry_no, reversed_by, next_entry_no>>  BY DEF WriteDraft
<1>5. \A v \in Users \ {u} : pc'[v] = pc[v] /\ req'[v] = req[v]
  BY <1>4, OthersStay DEF IInv
<1>6. LocksExclude'  BY <1>4, EndLocks DEF IInv
<1>7. ASSUME NEW v \in Users \ {u} PROVE ReadsHold(v)'
  <2>1. ReadsHold(v)  BY DEF IInv, LockedReadsHold
  <2>2. pc[v] \in Holding => req[v].entry \in Entries \ {e}
    BY <1>1, <2>1 DEF ReadsHold, Holding
  <2> QED  BY <1>3, <1>4, <1>5, <2>1, <2>2, UntouchedHolds
<1>8. LockedReadsHold'  BY <1>4, <1>7, EndReads DEF IInv, LockedReadsHold
<1>9. DraftsCancelNothing'  BY <1>2, <1>3 DEF IInv, DraftsCancelNothing
<1>10. GaplessNumbers' /\ ReversalsPaired'
  BY <1>1, <1>3, <1>4, OffLedgerKeeps DEF IInv
<1> QED  BY <1>6, <1>8, <1>9, <1>10 DEF IInv

LEMMA KeepsWriteUpdate ==
  ASSUME IInv, TypeOK', NEW u \in Users, WriteUpdate(u) PROVE IInv'
<1> DEFINE e == req[u].entry  b == req[u].body
<1>1. pc[u] = "edit_write" /\ body' = [body EXCEPT ![e] = b] /\ status' = status
  BY DEF WriteUpdate, At
<1>2. e \in Entries /\ b.reversal_of = None /\ status[e] = "draft"
  BY <1>1 DEF IInv, LockedReadsHold, ReadsHold, Holding
<1>3. body'[e] = b /\ \A f \in Entries \ {e} : body'[f] = body[f]
  BY <1>1, <1>2 DEF IInv, TypeOK
<1>4. End(u) /\ UNCHANGED <<entry_no, reversed_by, next_entry_no>>  BY DEF WriteUpdate
<1>5. \A v \in Users \ {u} : pc'[v] = pc[v] /\ req'[v] = req[v]
  BY <1>4, OthersStay DEF IInv
<1>6. LocksExclude'  BY <1>4, EndLocks DEF IInv
<1>7. ASSUME NEW v \in Users \ {u} PROVE ReadsHold(v)'
  <2>1. ReadsHold(v)  BY DEF IInv, LockedReadsHold
  <2>2. pc[v] \in Holding => req[v].entry \in Entries \ {e}
    BY <1>1, <2>1 DEF IInv, LocksExclude, ReadsHold, Holding
  <2> QED  BY <1>1, <1>3, <1>4, <1>5, <2>1, <2>2, UntouchedHolds
<1>8. LockedReadsHold'  BY <1>4, <1>7, EndReads DEF IInv, LockedReadsHold
<1>9. DraftsCancelNothing'  BY <1>1, <1>2, <1>3 DEF IInv, DraftsCancelNothing
<1>10. GaplessNumbers' /\ ReversalsPaired'
  BY <1>1, <1>2, <1>3, <1>4, OffLedgerKeeps DEF IInv
<1> QED  BY <1>6, <1>8, <1>9, <1>10 DEF IInv

LEMMA KeepsVoidDraft ==
  ASSUME IInv, TypeOK', NEW u \in Users, VoidDraft(u) PROVE IInv'
<1>1. PICK e \in Entries : ~EntryLocked(e) /\ status[e] = "draft"
                           /\ status' = [status EXCEPT ![e] = "void"]
  BY DEF VoidDraft
<1>2. status'[e] = "void" /\ \A f \in Entries \ {e} : status'[f] = status[f]
  BY <1>1 DEF IInv, TypeOK
<1>3. UNCHANGED <<entry_no, reversed_by, body, next_entry_no, pc, req>>  BY DEF VoidDraft
<1>4. LocksExclude'  BY <1>3 DEF IInv, LocksExclude
<1>5. ASSUME NEW v \in Users PROVE ReadsHold(v)'
  <2>1. ReadsHold(v)  BY DEF IInv, LockedReadsHold
  <2>2. pc[v] \in Holding => req[v].entry \in Entries \ {e}
    BY <1>1, <2>1 DEF EntryLocked, ReadsHold
  <2> QED  BY <1>2, <1>3, <2>1, <2>2, UntouchedHolds
<1>6. LockedReadsHold'  BY <1>5 DEF LockedReadsHold
<1>7. DraftsCancelNothing'  BY <1>2, <1>3 DEF IInv, DraftsCancelNothing
<1>8. GaplessNumbers' /\ ReversalsPaired'
  BY <1>1, <1>2, <1>3, OffLedgerKeeps DEF IInv
<1> QED  BY <1>4, <1>6, <1>7, <1>8 DEF IInv

\* An entry that joins the ledger of a year under the year's next number
LEMMA OneMoreNumber ==
  ASSUME TypeOK, TypeOK', GaplessNumbers, NEW r \in Entries, NEW y \in Years,
         ~InLedger(r), InLedger(r)',
         \A f \in Entries \ {r} :
           /\ InLedger(f)' <=> InLedger(f)
           /\ InLedger(f) => body'[f] = body[f]
           /\ entry_no'[f] = entry_no[f],
         YearOf(body'[r].period) = y,
         entry_no'[r] = next_entry_no[y],
         next_entry_no' = [next_entry_no EXCEPT ![y] = next_entry_no[y] + 1]
  PROVE  GaplessNumbers'
<1> SUFFICES ASSUME NEW z \in Years
             PROVE  /\ \A e, f \in LedgerOfYear(z)' : entry_no'[e] = entry_no'[f] => e = f
                    /\ {entry_no'[e] : e \in LedgerOfYear(z)'} = 1 .. (next_entry_no'[z] - 1)
  BY DEF GaplessNumbers
<1>1. /\ \A e, f \in LedgerOfYear(z) : entry_no[e] = entry_no[f] => e = f
      /\ {entry_no[e] : e \in LedgerOfYear(z)} = 1 .. (next_entry_no[z] - 1)
  BY DEF GaplessNumbers
<1>2. LedgerOfYear(z) \subseteq Entries \ {r}  BY DEF LedgerOfYear
<1>3. \A e \in LedgerOfYear(z) : entry_no'[e] = entry_no[e]  BY <1>2
<1>4. CASE z # y
  <2>1. LedgerOfYear(z)' = LedgerOfYear(z)  BY <1>4 DEF LedgerOfYear
  <2>2. next_entry_no'[z] = next_entry_no[z]  BY <1>4 DEF TypeOK
  <2>3. {entry_no'[e] : e \in LedgerOfYear(z)} = {entry_no[e] : e \in LedgerOfYear(z)}
    BY <1>3
  <2> QED  BY <1>1, <1>3, <2>1, <2>2, <2>3
<1>5. CASE z = y
  <2>1. LedgerOfYear(z)' = LedgerOfYear(z) \cup {r}  BY <1>5 DEF LedgerOfYear
  <2>2. next_entry_no[z] \in Nat \ {0} /\ next_entry_no'[z] = next_entry_no[z] + 1
    BY <1>5 DEF TypeOK
  <2>3. entry_no'[r] = next_entry_no[z]  BY <1>5
  <2>4. ASSUME NEW e \in LedgerOfYear(z)
        PROVE  entry_no'[e] \in 1 .. (next_entry_no[z] - 1)
    <3>1. entry_no[e] \in {entry_no[d] : d \in LedgerOfYear(z)}  OBVIOUS
    <3> QED  BY <1>1, <1>3, <3>1
  <2>5. ASSUME NEW e \in LedgerOfYear(z)', NEW f \in LedgerOfYear(z)',
               entry_no'[e] = entry_no'[f]
        PROVE  e = f
    <3>1. CASE e = r /\ f = r  BY <3>1
    <3>2. CASE e # r /\ f # r  BY <1>1, <1>3, <2>1, <2>5, <3>2
    <3>3. CASE e = r /\ f # r  BY <2>1, <2>2, <2>3, <2>4, <2>5, <3>3
    <3>4. CASE e # r /\ f = r  BY <2>1, <2>2, <2>3, <2>4, <2>5, <3>4
    <3> QED  BY <3>1, <3>2, <3>3, <3>4
  <2>6. {entry_no'[e] : e \in LedgerOfYear(z)'}
          = {entry_no[e] : e \in LedgerOfYear(z)} \cup {next_entry_no[z]}
    BY <1>3, <2>1, <2>3
  <2>7. (1 .. (next_entry_no[z] - 1)) \cup {next_entry_no[z]} = 1 .. (next_entry_no'[z] - 1)
    BY <2>2
  <2> QED  BY <1>1, <2>5, <2>6, <2>7
<1> QED  BY <1>4, <1>5

LEMMA KeepsCommitPost ==
  ASSUME IInv, TypeOK', NEW u \in Users, CommitPost(u) PROVE IInv'
<1>1. pc[u] = "post_commit"  BY DEF CommitPost, At
<1>2. PICK e \in Entries, y \in Years :
        /\ e = req[u].entry /\ y = YearOf(req[u].body.period)
        /\ status[e] = "draft" /\ req[u].body = body[e]
        /\ req[u].seq = next_entry_no[y]
  BY <1>1, BodyOfRequest DEF IInv, LockedReadsHold, ReadsHold, Holding, Numbering
<1>3. /\ status'[e] = "posted" /\ entry_no'[e] = next_entry_no[y]
      /\ \A f \in Entries \ {e} : status'[f] = status[f] /\ entry_no'[f] = entry_no[f]
      /\ next_entry_no' = [next_entry_no EXCEPT ![y] = next_entry_no[y] + 1]
  BY <1>2 DEF CommitPost, IInv, TypeOK
<1>4. End(u) /\ body' = body /\ reversed_by' = reversed_by  BY DEF CommitPost
<1>5. \A v \in Users \ {u} : pc'[v] = pc[v] /\ req'[v] = req[v]
  BY <1>4, OthersStay DEF IInv
<1>6. LocksExclude'  BY <1>4, EndLocks DEF IInv
<1>7. ASSUME NEW v \in Users \ {u} PROVE ReadsHold(v)'
  <2>1. ReadsHold(v)  BY DEF IInv, LockedReadsHold
  <2>2. pc[v] \in Holding => req[v].entry \in Entries \ {e}
    BY <1>1, <1>2, <2>1 DEF IInv, LocksExclude, ReadsHold, Holding
  <2>3. pc[v] \in Numbering => YearOf(req[v].body.period) # y
    BY <1>1, <1>2 DEF IInv, LocksExclude, Numbering
  <2>4. pc[v] \in Numbering => YearOf(req[v].body.period) \in Years
    BY BodyOfRequest DEF IInv, Numbering
  <2>5. pc[v] \in Numbering => next_entry_no'[YearOf(req[v].body.period)]
                                = next_entry_no[YearOf(req[v].body.period)]
    BY <1>3, <2>3, <2>4 DEF IInv, TypeOK
  <2> QED  BY <1>3, <1>4, <1>5, <2>1, <2>2, <2>5, UntouchedHolds
<1>8. LockedReadsHold'  BY <1>4, <1>7, EndReads DEF IInv, LockedReadsHold
<1>9. DraftsCancelNothing'  BY <1>3, <1>4 DEF IInv, DraftsCancelNothing
<1>10. \A f \in Entries \ {e} : InLedger(f)' <=> InLedger(f)  BY <1>3 DEF InLedger
<1>11. ~InLedger(e) /\ InLedger(e)'  BY <1>2, <1>3 DEF InLedger
<1>12. GaplessNumbers'
  BY <1>2, <1>3, <1>4, <1>10, <1>11, OneMoreNumber DEF IInv
<1>13. ReversalsPaired'
  <2>1. body[e].reversal_of = None  BY <1>2 DEF IInv, DraftsCancelNothing
  <2>2. reversed_by[e] = None  BY <1>2 DEF IInv, ReversalsPaired
  <2>3. \A f \in Entries : status'[f] = "reversed" <=> reversed_by'[f] # None
    BY <1>2, <1>3, <1>4, <2>2 DEF IInv, ReversalsPaired
  <2>4. ASSUME NEW f \in Entries, reversed_by[f] # None PROVE Cancels(reversed_by[f], f)'
    <3>1. reversed_by[f] \in Entries /\ Cancels(reversed_by[f], f)
      BY <2>4 DEF IInv, TypeOK, ReversalsPaired
    <3> QED  BY <1>4, <1>10, <1>11, <3>1 DEF Cancels
  <2>5. \A r \in Entries : InLedger(r)' /\ body'[r].reversal_of # None =>
          reversed_by'[body'[r].reversal_of] = r
    BY <1>4, <1>10, <2>1 DEF IInv, ReversalsPaired
  <2> QED  BY <1>4, <2>3, <2>4, <2>5 DEF ReversalsPaired
<1> QED  BY <1>6, <1>8, <1>9, <1>12, <1>13 DEF IInv

LEMMA KeepsCommitReverse ==
  ASSUME IInv, TypeOK', NEW u \in Users, CommitReverse(u) PROVE IInv'
<1>1. pc[u] = "rev_commit" /\ Admitted(u)  BY DEF CommitReverse, At
<1>2. PICK e \in Entries, y \in Years, b \in Body :
        /\ e = req[u].entry /\ b = req[u].body /\ y = YearOf(b.period)
        /\ status[e] = "posted" /\ b.reversal_of = e
        /\ b.net = Negated(body[e].net) /\ NotBefore(body[e].period, b.period)
        /\ req[u].seq = next_entry_no[y]
  BY <1>1, BodyOfRequest DEF IInv, LockedReadsHold, ReadsHold, Holding, Numbering
<1>3. PICK r \in Entries :
        /\ status[r] = "none"
        /\ status' = [status EXCEPT ![r] = "posted", ![e] = "reversed"]
        /\ entry_no' = [entry_no EXCEPT ![r] = next_entry_no[y]]
        /\ body' = [body EXCEPT ![r] = b]
        /\ reversed_by' = [reversed_by EXCEPT ![e] = r]
  BY <1>2 DEF CommitReverse
<1>4. r # e  BY <1>2, <1>3
<1>5. /\ status'[r] = "posted" /\ status'[e] = "reversed"
      /\ \A f \in Entries \ {r, e} : status'[f] = status[f]
      /\ entry_no'[r] = next_entry_no[y] /\ body'[r] = b /\ reversed_by'[e] = r
      /\ \A f \in Entries \ {r} : entry_no'[f] = entry_no[f] /\ body'[f] = body[f]
      /\ \A f \in Entries \ {e} : reversed_by'[f] = reversed_by[f]
  BY <1>3, <1>4 DEF IInv, TypeOK
<1>6. next_entry_no' = [next_entry_no EXCEPT ![y] = next_entry_no[y] + 1]
  BY <1>2 DEF CommitReverse
<1>7. End(u)  BY DEF CommitReverse
<1>8. \A v \in Users \ {u} : pc'[v] = pc[v] /\ req'[v] = req[v]
  BY <1>7, OthersStay DEF IInv
<1>9. LocksExclude'  BY <1>7, EndLocks DEF IInv
<1>10. ASSUME NEW v \in Users \ {u} PROVE ReadsHold(v)'
  <2>1. ReadsHold(v)  BY DEF IInv, LockedReadsHold
  <2>2. pc[v] \in Holding => req[v].entry \in Entries \ {e}
    BY <1>1, <1>2, <2>1 DEF IInv, LocksExclude, ReadsHold, Holding
  <2>3. pc[v] \in Holding => req[v].entry # r
    BY <1>3, <2>1 DEF ReadsHold, Holding
  <2>4. pc[v] \in Numbering => YearOf(req[v].body.period) # y
    BY <1>1, <1>2 DEF IInv, LocksExclude, Numbering
  <2>5. pc[v] \in Numbering => YearOf(req[v].body.period) \in Years
    BY BodyOfRequest DEF IInv, Numbering
  <2>6. pc[v] \in Numbering => next_entry_no'[YearOf(req[v].body.period)]
                                = next_entry_no[YearOf(req[v].body.period)]
    BY <1>6, <2>4, <2>5 DEF IInv, TypeOK
  <2> QED  BY <1>5, <1>8, <2>1, <2>2, <2>3, <2>6, UntouchedHolds
<1>11. LockedReadsHold'  BY <1>7, <1>10, EndReads DEF IInv, LockedReadsHold
<1>12. DraftsCancelNothing'  BY <1>5 DEF IInv, DraftsCancelNothing
<1>13. \A f \in Entries \ {r} : InLedger(f)' <=> InLedger(f)
  BY <1>2, <1>5 DEF InLedger
<1>14. ~InLedger(r) /\ InLedger(r)'  BY <1>3, <1>5 DEF InLedger
<1>15. GaplessNumbers'
  BY <1>2, <1>5, <1>6, <1>13, <1>14, OneMoreNumber DEF IInv
<1>16. ReversalsPaired'
  <2>1. reversed_by[e] = None /\ reversed_by[r] = None
    BY <1>2, <1>3 DEF IInv, ReversalsPaired
  <2>2. \A f \in Entries : status'[f] = "reversed" <=> reversed_by'[f] # None
    <3>1. reversed_by'[e] # None  BY <1>5, NoneAssumption
    <3> QED  BY <1>4, <1>5, <2>1, <3>1 DEF IInv, ReversalsPaired
  <2>3. Cancels(reversed_by[e], e)'
    BY <1>2, <1>4, <1>5, <1>14 DEF Cancels
  <2>4. ASSUME NEW f \in Entries \ {e}, reversed_by[f] # None
        PROVE  Cancels(reversed_by[f], f)'
    <3>1. reversed_by[f] \in Entries /\ Cancels(reversed_by[f], f)
      BY <2>4 DEF IInv, TypeOK, ReversalsPaired
    <3>2. reversed_by[f] # r /\ f # r  BY <1>14, <2>1, <2>4, <3>1 DEF Cancels
    <3>3. reversed_by'[f] = reversed_by[f]  BY <1>5
    <3> QED  BY <1>5, <1>13, <3>1, <3>2, <3>3 DEF Cancels
  <2>5. \A f \in Entries : reversed_by'[f] # None => Cancels(reversed_by[f], f)'
    BY <1>5, <2>3, <2>4
  <2>6. ASSUME NEW f \in Entries, InLedger(f)', body'[f].reversal_of # None
        PROVE  reversed_by'[body'[f].reversal_of] = f
    <3>1. CASE f = r  BY <1>2, <1>5, <3>1
    <3>2. CASE f # r
      <4>1. InLedger(f) /\ body'[f] = body[f]  BY <1>5, <1>13, <2>6, <3>2
      <4>2. reversed_by[body[f].reversal_of] = f
        BY <2>6, <4>1 DEF IInv, ReversalsPaired
      <4>3. body[f].reversal_of \in Entries
        <5>1. body[f] \in Body  BY <4>1 DEF IInv, TypeOK, InLedger
        <5> QED  BY <2>6, <4>1, <5>1 DEF Body
      <4>4. body[f].reversal_of # e  BY <2>1, <4>2, NoneAssumption
      <4> QED  BY <1>5, <4>1, <4>2, <4>3, <4>4
    <3> QED  BY <3>1, <3>2
  <2> QED  BY <2>2, <2>5, <2>6 DEF ReversalsPaired
<1> QED  BY <1>9, <1>11, <1>12, <1>15, <1>16 DEF IInv

----------------------------------------------------------------------------
(* The invariant and what follows from it *)

LEMMA InitIInv == Init => IInv
<1> SUFFICES ASSUME Init PROVE IInv  OBVIOUS
<1>1. TypeOK  BY InitType
<1>2. LocksExclude /\ LockedReadsHold
  BY DEF Init, LocksExclude, LockedReadsHold, ReadsHold, Holding, Numbering
<1>3. DraftsCancelNothing /\ ReversalsPaired
  BY DEF Init, DraftsCancelNothing, ReversalsPaired, InLedger
<1>4. GaplessNumbers
  <2>1. \A y \in Years : LedgerOfYear(y) = {}  BY DEF Init, LedgerOfYear, InLedger
  <2>2. \A y \in Years : 1 .. (next_entry_no[y] - 1) = {}  BY DEF Init
  <2> QED  BY <2>1, <2>2 DEF GaplessNumbers
<1> QED  BY <1>1, <1>2, <1>3, <1>4 DEF IInv

LEMMA NextIInv == IInv /\ [Next]_vars => IInv'
<1> SUFFICES ASSUME IInv, [Next]_vars PROVE IInv'  OBVIOUS
<1>1. TypeOK'  BY TypeNext DEF IInv
<1>2. CASE Next
  <2> PICK u \in Users : Begin(u) \/ Continue(u)  BY <1>2 DEF Next
  <2>1. CASE Begin(u)
    BY <1>1, <2>1, KeepsBeginCreateDraft, KeepsBeginUpdateDraft, KeepsVoidDraft,
       KeepsBeginPost, KeepsBeginReverse, KeepsSetup DEF Begin
  <2>2. CASE Continue(u)
    BY <1>1, <2>2, KeepsWriteDraft, KeepsWriteUpdate, KeepsTakeNumber, KeepsCommitPost,
       KeepsInsertReversal, KeepsCommitReverse, KeepsSetup DEF Continue
  <2> QED  BY <2>1, <2>2
<1>3. CASE UNCHANGED vars
  BY <1>1, <1>3, StillKeeps DEF vars
<1> QED  BY <1>2, <1>3

\* IInv holds in every reachable state
THEOREM Invariant == Spec => []IInv
BY InitIInv, NextIInv, PTL DEF Spec

\* The entries, periods, counters and requests have their types
THEOREM TypeCorrect == Spec => []TypeOK
<1>1. IInv => TypeOK  BY DEF IInv
<1> QED  BY <1>1, Invariant, PTL

\* nextEntryNo numbers the posted entries of a year without gap or repetition,
\* however many requests post and reverse at once
THEOREM NumbersAreGapless == Spec => []GaplessNumbers
<1>1. IInv => GaplessNumbers  BY DEF IInv
<1> QED  BY <1>1, Invariant, PTL

\* reverse leaves exactly one entry that cancels the original, each pointing at
\* the other
THEOREM ReversalsArePaired == Spec => []ReversalsPaired
<1>1. IInv => ReversalsPaired  BY DEF IInv
<1> QED  BY <1>1, Invariant, PTL

\* What a request read under its locks is still so when it commits
THEOREM ReadsAreCurrent == Spec => []LockedReadsHold
<1>1. IInv => LockedReadsHold  BY DEF IInv
<1> QED  BY <1>1, Invariant, PTL

----------------------------------------------------------------------------
(* What a step may never do *)

\* The steps that write no entry
LEMMA QuietOrWriting ==
  ASSUME [Next]_vars
  PROVE  \/ UNCHANGED entryVars
         \/ \E u \in Users : \/ WriteDraft(u) \/ WriteUpdate(u) \/ VoidDraft(u)
                            \/ CommitPost(u) \/ CommitReverse(u)
<1>1. CASE UNCHANGED vars  BY <1>1 DEF vars
<1>2. CASE Next
  <2> PICK u \in Users : Begin(u) \/ Continue(u)  BY <1>2 DEF Next
  <2>1. CASE Begin(u)
    BY <2>1 DEF Begin, BeginCreateDraft, BeginUpdateDraft, BeginPost, BeginReverse,
       CreateFiscalYear, ClosePeriod, ReopenPeriod, BeginUpdateAccount, CreateFxRate,
       BeginUpdateFxRate, BeginApproveFxRate
  <2>2. CASE Continue(u)
    BY <2>2 DEF Continue, TakeNumber, InsertReversal, SaveAccount, SaveFxRate,
       DeadlockAbort, Refuse, ConnectionLost
  <2> QED  BY <2>1, <2>2
<1> QED  BY <1>1, <1>2

LEMMA PostedStepHolds ==
  ASSUME IInv, [Next]_vars PROVE PostedStep
<1>1. CASE UNCHANGED entryVars  BY <1>1 DEF entryVars, PostedStep, InLedger
<1>2. ASSUME NEW u \in Users, WriteDraft(u) PROVE PostedStep
  BY <1>2 DEF WriteDraft, PostedStep, InLedger, IInv, TypeOK
<1>3. ASSUME NEW u \in Users, WriteUpdate(u) PROVE PostedStep
  <2>1. req[u].entry \in Entries /\ status[req[u].entry] = "draft"
    BY <1>3 DEF WriteUpdate, At, IInv, LockedReadsHold, ReadsHold, Holding
  <2> QED  BY <1>3, <2>1 DEF WriteUpdate, PostedStep, InLedger, IInv, TypeOK
<1>4. ASSUME NEW u \in Users, VoidDraft(u) PROVE PostedStep
  BY <1>4 DEF VoidDraft, PostedStep, InLedger, IInv, TypeOK
<1>5. ASSUME NEW u \in Users, CommitPost(u) PROVE PostedStep
  <2>1. req[u].entry \in Entries /\ status[req[u].entry] = "draft"
    BY <1>5 DEF CommitPost, At, IInv, LockedReadsHold, ReadsHold, Holding
  <2> QED  BY <1>5, <2>1 DEF CommitPost, PostedStep, InLedger, IInv, TypeOK
<1>6. ASSUME NEW u \in Users, CommitReverse(u) PROVE PostedStep
  <2>1. req[u].entry \in Entries /\ status[req[u].entry] = "posted"
    BY <1>6 DEF CommitReverse, At, IInv, LockedReadsHold, ReadsHold, Holding
  <2>2. reversed_by[req[u].entry] = None  BY <2>1 DEF IInv, ReversalsPaired
  <2> QED  BY <1>6, <2>1, <2>2 DEF CommitReverse, PostedStep, InLedger, IInv, TypeOK
<1> QED  BY <1>1, <1>2, <1>3, <1>4, <1>5, <1>6, QuietOrWriting

\* The immutability trigger and the row locks together keep a posted entry as
\* it was posted, and a void one void
THEOREM PostedEntriesAreForever == Spec => PostedIsForever
<1>1. IInv /\ [Next]_vars => [PostedStep]_vars  BY PostedStepHolds
<1> QED  BY <1>1, Invariant, PTL DEF Spec, PostedIsForever

\* Only ClosePeriod, ReopenPeriod and CreateFiscalYear change a period, and no
\* step reopens one closed for good
LEMMA HardStaysHard ==
  ASSUME IInv, [Next]_vars, NEW p \in Periods, period_status[p] = "hard_closed"
  PROVE  period_status'[p] = "hard_closed"
<1>1. CASE UNCHANGED vars  BY <1>1 DEF vars
<1>2. CASE Next
  <2> PICK u \in Users : Begin(u) \/ Continue(u)  BY <1>2 DEF Next
  <2>1. CASE CreateFiscalYear(u)
    BY <2>1 DEF CreateFiscalYear
  <2>2. CASE ClosePeriod(u)
    BY <2>2 DEF ClosePeriod, IInv, TypeOK
  <2>3. CASE ReopenPeriod(u)
    BY <2>3 DEF ReopenPeriod, IInv, TypeOK
  <2>4. CASE Begin(u) /\ ~CreateFiscalYear(u) /\ ~ClosePeriod(u) /\ ~ReopenPeriod(u)
    BY <2>4 DEF Begin, BeginCreateDraft, BeginUpdateDraft, BeginPost, BeginReverse,
       VoidDraft, BeginUpdateAccount, CreateFxRate, BeginUpdateFxRate, BeginApproveFxRate
  <2>5. CASE Continue(u)
    BY <2>5 DEF Continue, WriteDraft, WriteUpdate, TakeNumber, CommitPost, InsertReversal,
       CommitReverse, SaveAccount, SaveFxRate, DeadlockAbort, Refuse, ConnectionLost
  <2> QED  BY <2>1, <2>2, <2>3, <2>4, <2>5
<1> QED  BY <1>1, <1>2

\* What joins the ledger passed the period trigger
LEMMA JoinsOpenPeriod ==
  ASSUME IInv, [Next]_vars, NEW e \in Entries, ~InLedger(e), InLedger(e)'
  PROVE  PeriodGuard(body'[e].period, body'[e].event)
<1>1. CASE UNCHANGED entryVars  BY <1>1 DEF entryVars, InLedger
<1>2. ASSUME NEW u \in Users, WriteDraft(u) \/ WriteUpdate(u) \/ VoidDraft(u) PROVE FALSE
  BY <1>2 DEF WriteDraft, WriteUpdate, VoidDraft, InLedger, IInv, TypeOK
<1>3. ASSUME NEW u \in Users, CommitPost(u)
      PROVE  PeriodGuard(body'[e].period, body'[e].event)
  <2>1. req[u].body = body[req[u].entry]
    BY <1>3 DEF CommitPost, At, IInv, LockedReadsHold, ReadsHold
  <2>2. req[u].entry = e  BY <1>3 DEF CommitPost, InLedger, IInv, TypeOK
  <2> QED  BY <1>3, <2>1, <2>2 DEF CommitPost, At, Admitted
<1>4. ASSUME NEW u \in Users, CommitReverse(u)
      PROVE  PeriodGuard(body'[e].period, body'[e].event)
  <2>1. InLedger(req[u].entry)
    BY <1>4 DEF CommitReverse, At, IInv, LockedReadsHold, ReadsHold, InLedger
  <2>2. body'[e] = req[u].body
    BY <1>4, <2>1 DEF CommitReverse, InLedger, IInv, TypeOK
  <2> QED  BY <1>4, <2>2 DEF CommitReverse, At, Admitted
<1> QED  BY <1>1, <1>2, <1>3, <1>4, QuietOrWriting

LEMMA PeriodStepHolds ==
  ASSUME IInv, [Next]_vars PROVE PeriodStep
<1> SUFFICES ASSUME NEW p \in Periods
             PROVE  /\ period_status[p] = "hard_closed" =>
                         /\ period_status'[p] = "hard_closed"
                         /\ LedgerOfPeriod(p)' = LedgerOfPeriod(p)
                    /\ period_status[p] = "soft_closed" =>
                         \A e \in LedgerOfPeriod(p)' \ LedgerOfPeriod(p) :
                           body'[e].event \in {"adjustment", "reversal"}
  BY DEF PeriodStep
<1>1. \A e \in Entries : InLedger(e) => InLedger(e)' /\ body'[e] = body[e]
  BY PostedStepHolds DEF PostedStep
<1>2. \A e \in LedgerOfPeriod(p)' \ LedgerOfPeriod(p) :
        PeriodGuard(p, body'[e].event)
  BY <1>1, JoinsOpenPeriod DEF LedgerOfPeriod
<1>3. LedgerOfPeriod(p) \subseteq LedgerOfPeriod(p)'  BY <1>1 DEF LedgerOfPeriod
<1> QED  BY <1>2, <1>3, HardStaysHard DEF PeriodGuard

\* The period trigger keeps the ledger of a closed period as it is, although
\* post and reverse read the period's status without a lock
THEOREM ClosedPeriodsAreClosed == Spec => PeriodsGovernPosting
<1>1. IInv /\ [Next]_vars => [PeriodStep]_vars  BY PeriodStepHolds
<1> QED  BY <1>1, Invariant, PTL DEF Spec, PeriodsGovernPosting

----------------------------------------------------------------------------
(* What post checked of the accounts, with one request at a time *)

\* A request on its way to post touches active accounts only; one on its way to
\* reverse writes a reversal
SetupRead ==
  \A u \in Users :
    /\ pc[u] \in {"post_number", "post_commit"} => AccountsUsable(body[req[u].entry].net)
    /\ pc[u] \in {"rev_insert", "rev_number", "rev_commit"} => req[u].body.event = "reversal"

\* Alone on the server, a request that posts leaves the accounts as it read them
LEMMA SetupStaysRead ==
  ASSUME IInv, SetupRead, [Next]_vars, \A u, v \in Users : u = v
  PROVE  SetupRead'
<1>1. CASE UNCHANGED vars
  BY <1>1 DEF vars, entryVars, setupVars, SetupRead, AccountsUsable
<1>2. CASE Next
  <2> PICK u \in Users : Begin(u) \/ Continue(u)
    BY <1>2 DEF Next
  <2> \A v \in Users : v = u
    OBVIOUS
  <2>1. CASE BeginPost(u)
    <3>1. PICK e \in Entries :
            /\ AccountsUsable(body[e].net)
            /\ Start(u, "post_number", [NoRequest EXCEPT !.entry = e, !.body = body[e]])
            /\ body' = body /\ is_active' = is_active
      BY <2>1 DEF BeginPost, PostingAccepts, entryVars, setupVars
    <3>2. pc'[u] = "post_number" /\ req'[u].entry = e
      BY <3>1 DEF Start, IInv, TypeOK, NoRequest
    <3> QED
      BY <3>1, <3>2 DEF SetupRead, AccountsUsable
  <2>2. CASE TakeNumber(u)
    <3>1. /\ \/ pc[u] = "post_number" /\ pc'[u] = "post_commit"
             \/ pc[u] = "rev_number" /\ pc'[u] = "rev_commit"
          /\ body' = body /\ is_active' = is_active
          /\ req'[u].entry = req[u].entry /\ req'[u].body = req[u].body
      BY <2>2 DEF TakeNumber, IInv, TypeOK, Request, entryVars, setupVars
    <3> QED
      BY <3>1 DEF SetupRead, AccountsUsable
  <2>3. CASE BeginReverse(u)
    <3>1. PICK e \in Entries, q \in Periods :
            /\ status[e] = "posted"
            /\ Start(u, "rev_insert", [NoRequest EXCEPT !.entry = e, !.body = ReversalOf(e, q)])
      BY <2>3 DEF BeginReverse
    <3>2. ReversalOf(e, q).event = "reversal"
      <4>1. body[e] \in Body
        BY <3>1 DEF IInv, TypeOK
      <4> QED
        BY <4>1 DEF ReversalOf, Body
    <3>3. pc'[u] = "rev_insert" /\ req'[u].body = ReversalOf(e, q)
      BY <3>1 DEF Start, IInv, TypeOK, NoRequest
    <3> QED
      BY <3>2, <3>3 DEF SetupRead
  <2>4. CASE InsertReversal(u)
    <3>1. pc[u] = "rev_insert" /\ pc'[u] = "rev_number" /\ req' = req
      BY <2>4 DEF InsertReversal, At, IInv, TypeOK
    <3> QED
      BY <3>1 DEF SetupRead
  <2>5. CASE UNCHANGED <<pc, req, body, is_active>>
    BY <2>5 DEF SetupRead, AccountsUsable
  <2>6. CASE pc'[u] \in {"idle", "draft_write", "edit_write", "account_save", "fx_save"}
    BY <2>6 DEF SetupRead
  <2>7. CASE Begin(u) /\ ~BeginPost(u) /\ ~BeginReverse(u)
    <3>1. \/ UNCHANGED <<pc, req, body, is_active>>
          \/ \E to \in {"draft_write", "edit_write", "account_save", "fx_save"} :
               \E r : Start(u, to, r)
      BY <2>7 DEF Begin, BeginCreateDraft, BeginUpdateDraft, VoidDraft, CreateFiscalYear,
         ClosePeriod, ReopenPeriod, BeginUpdateAccount, CreateFxRate, BeginUpdateFxRate,
         BeginApproveFxRate, entryVars, setupVars
    <3> QED
      BY <2>5, <2>6, <3>1 DEF Start, IInv, TypeOK
  <2>8. CASE Continue(u) /\ ~TakeNumber(u) /\ ~InsertReversal(u)
    <3>1. End(u)
      BY <2>8 DEF Continue, WriteDraft, WriteUpdate, CommitPost, CommitReverse,
         SaveAccount, SaveFxRate, DeadlockAbort, Refuse, ConnectionLost
    <3> QED
      BY <2>6, <3>1 DEF End, IInv, TypeOK
  <2> QED
    BY <2>1, <2>2, <2>3, <2>4, <2>7, <2>8
<1> QED
  BY <1>1, <1>2

\* What joins the ledger, and is no reversal, does so on active accounts
LEMMA JoinsOnActive ==
  ASSUME IInv, SetupRead, [Next]_vars, NEW e \in Entries, ~InLedger(e), InLedger(e)',
         body'[e].event # "reversal"
  PROVE  \A a \in Touched(body'[e].net) : is_active[a]
<1>1. CASE UNCHANGED entryVars
  BY <1>1 DEF entryVars, InLedger
<1>2. ASSUME NEW u \in Users, WriteDraft(u) \/ WriteUpdate(u) \/ VoidDraft(u)
      PROVE  FALSE
  BY <1>2 DEF WriteDraft, WriteUpdate, VoidDraft, InLedger, IInv, TypeOK
<1>3. ASSUME NEW u \in Users, CommitPost(u)
      PROVE  \A a \in Touched(body'[e].net) : is_active[a]
  <2>1. req[u].entry = e /\ body' = body
    BY <1>3 DEF CommitPost, InLedger, IInv, TypeOK
  <2>2. AccountsUsable(body[e].net)
    BY <1>3, <2>1 DEF CommitPost, At, SetupRead
  <2> QED
    BY <2>1, <2>2 DEF AccountsUsable
<1>4. ASSUME NEW u \in Users, CommitReverse(u)
      PROVE  FALSE
  <2>1. InLedger(req[u].entry)
    BY <1>4 DEF CommitReverse, At, IInv, LockedReadsHold, ReadsHold, InLedger
  <2>2. body'[e] = req[u].body
    BY <1>4, <2>1 DEF CommitReverse, InLedger, IInv, TypeOK
  <2>3. req[u].body.event = "reversal"
    BY <1>4 DEF CommitReverse, At, SetupRead
  <2> QED
    BY <2>2, <2>3
<1> QED
  BY <1>1, <1>2, <1>3, <1>4, QuietOrWriting

\* With one request at a time, post lets nothing but a reversal onto an account
\* that is not active (accounting.service.ts:516-544); with two, an account may
\* be deactivated between the check and the commit
THEOREM PostsOnActiveAccounts ==
  ASSUME \A u, v \in Users : u = v
  PROVE  Spec => PostingChecksSetup
<1>1. Init => SetupRead
  BY DEF Init, SetupRead
<1>2. IInv /\ SetupRead /\ [Next]_vars => SetupRead'
  BY SetupStaysRead
<1>3. IInv /\ SetupRead /\ [Next]_vars
        => [\A e \in Entries :
              ~InLedger(e) /\ InLedger(e)' /\ body'[e].event # "reversal" =>
                \A a \in Touched(body'[e].net) : is_active[a]]_vars
  BY JoinsOnActive
<1> QED
  BY <1>1, <1>2, <1>3, Invariant, PTL DEF Spec, PostingChecksSetup

----------------------------------------------------------------------------
(* The posted entries are the pages of LedgerBook *)

\* What stands under a number of a year is the one entry that carries it
LEMMA NumberedEntry ==
  ASSUME GaplessNumbers, NEW y \in Years, NEW n \in 1 .. (next_entry_no[y] - 1)
  PROVE  EntryAt(y, n) \in LedgerOfYear(y) /\ entry_no[EntryAt(y, n)] = n
<1>1. n \in {entry_no[e] : e \in LedgerOfYear(y)}
  BY DEF GaplessNumbers
<1>2. \E e \in Entries : e \in LedgerOfYear(y) /\ entry_no[e] = n
  BY <1>1 DEF LedgerOfYear
<1> QED
  BY <1>2 DEF EntryAt

LEMMA EntryAtItsNumber ==
  ASSUME GaplessNumbers, NEW y \in Years, NEW e \in LedgerOfYear(y)
  PROVE  entry_no[e] \in 1 .. (next_entry_no[y] - 1) /\ EntryAt(y, entry_no[e]) = e
<1>1. entry_no[e] \in 1 .. (next_entry_no[y] - 1)
  BY DEF GaplessNumbers
<1> QED
  BY <1>1, NumberedEntry DEF GaplessNumbers

\* The same of the entries a step leads to
LEMMA EntryAtItsNumberNext ==
  ASSUME GaplessNumbers', NEW y \in Years, NEW e \in Entries, e \in LedgerOfYear(y)',
         NEW n, entry_no'[e] = n
  PROVE  EntryAt(y, n)' = e
<1>1. \A d \in Entries : d \in LedgerOfYear(y)' /\ entry_no'[d] = n => d = e
  BY DEF GaplessNumbers
<1> QED
  BY <1>1 DEF EntryAt

\* What an entry of the ledger cancels is an entry of the ledger
LEMMA CancelledIsInLedger ==
  ASSUME TypeOK, ReversalsPaired, NEW r \in Entries, InLedger(r),
         body[r].reversal_of # None
  PROVE  /\ body[r].reversal_of \in Entries /\ InLedger(body[r].reversal_of)
         /\ reversed_by[body[r].reversal_of] = r
<1>1. body[r] \in Body
  BY DEF TypeOK, InLedger
<1>2. body[r].reversal_of \in Entries
  BY <1>1 DEF Body
<1>3. reversed_by[body[r].reversal_of] = r
  BY DEF ReversalsPaired
<1> QED
  BY <1>2, <1>3, NoneAssumption DEF ReversalsPaired, InLedger

\* A page, once written, stays under its number
LEMMA PageStays ==
  ASSUME IInv, IInv', PostedStep, NEW y \in Years,
         NEW n \in 1 .. (next_entry_no[y] - 1), n \in 1 .. (next_entry_no'[y] - 1)
  PROVE  PageOf(EntryAt(y, n))' = PageOf(EntryAt(y, n))
<1>1. PICK e \in Entries : e = EntryAt(y, n) /\ e \in LedgerOfYear(y) /\ entry_no[e] = n
  BY NumberedEntry DEF IInv, LedgerOfYear
<1>2. InLedger(e) /\ InLedger(e)' /\ body'[e] = body[e] /\ entry_no'[e] = n
  BY <1>1 DEF LedgerOfYear, PostedStep
<1>3. e \in LedgerOfYear(y)'
  BY <1>1, <1>2 DEF LedgerOfYear
<1>4. EntryAt(y, n)' = e
  BY <1>2, <1>3, EntryAtItsNumberNext DEF IInv
<1>5. PageOf(e)' = PageOf(e)
  <2>1. CASE body[e].reversal_of = None
    BY <1>2, <2>1 DEF PageOf
  <2>2. CASE body[e].reversal_of # None
    <3>1. body[e].reversal_of \in Entries /\ InLedger(body[e].reversal_of)
      BY <1>2, <2>2, CancelledIsInLedger DEF IInv
    <3>2. Place(body[e].reversal_of)' = Place(body[e].reversal_of)
      BY <1>2, <3>1 DEF PostedStep, Place
    <3> QED
      BY <1>2, <3>2 DEF PageOf
  <2> QED
    BY <2>1, <2>2
<1> QED
  BY <1>1, <1>4, <1>5

\* The counters not counting up, the book is what it was
LEMMA PagesStay ==
  ASSUME IInv, IInv', PostedStep, UNCHANGED next_entry_no
  PROVE  Pages' = Pages
<1>1. ASSUME NEW y \in Years
      PROVE  [n \in 1 .. (next_entry_no'[y] - 1) |-> PageOf(EntryAt(y, n))']
               = [n \in 1 .. (next_entry_no[y] - 1) |-> PageOf(EntryAt(y, n))]
  BY PageStays
<1> QED
  BY <1>1 DEF Pages

\* A function on 1 .. k is a sequence of length k
LEMMA NumberedSeq ==
  ASSUME NEW k \in Nat, NEW f, f = [n \in 1 .. k |-> f[n]]
  PROVE  f \in Seq({f[n] : n \in 1 .. k}) /\ Len(f) = k
<1>1. PICK S : S = {f[n] : n \in 1 .. k}
  OBVIOUS
<1>2. f \in [1 .. k -> S]
  BY <1>1
<1>3. f \in Seq(S)
  BY <1>2, SeqDef
<1> QED
  BY <1>1, <1>2, <1>3, LenProperties

\* The book of a year has as many pages as the counter has numbers given out
LEMMA YearLength ==
  ASSUME TypeOK, NEW y \in Years
  PROVE  Len(Pages[y]) = next_entry_no[y] - 1
<1>1. PICK k \in Nat : k = next_entry_no[y] - 1
  BY DEF TypeOK
<1>2. PICK f : f = [n \in 1 .. k |-> PageOf(EntryAt(y, n))]
  OBVIOUS
<1>3. Pages[y] = f
  BY <1>1, <1>2 DEF Pages
<1>4. f = [n \in 1 .. k |-> f[n]]
  BY <1>2
<1> QED
  BY <1>1, <1>3, <1>4, NumberedSeq

\* A sequence that is another one and one element more
LEMMA OneMore ==
  ASSUME NEW S, NEW s \in Seq(S), NEW T, NEW t \in Seq(T), Len(t) = Len(s) + 1,
         \A n \in 1 .. Len(s) : t[n] = s[n]
  PROVE  t = Append(s, t[Len(s) + 1])
<1>1. PICK U : U = S \cup T
  OBVIOUS
<1>2. s \in Seq(U) /\ t \in Seq(U)
  BY <1>1, SeqMonotonic
<1>3. Len(s) \in Nat
  BY LenProperties
<1>4. PICK x \in U : x = t[Len(s) + 1]
  BY <1>2, <1>3, ElementOfSeq
<1>5. /\ Append(s, x) \in Seq(U) /\ Len(Append(s, x)) = Len(s) + 1
      /\ \A n \in 1 .. Len(s) : Append(s, x)[n] = s[n]
      /\ Append(s, x)[Len(s) + 1] = x
  BY <1>2, <1>3, <1>4, AppendProperties
<1>6. \A n \in 1 .. Len(t) : t[n] = Append(s, x)[n]
  BY <1>3, <1>4, <1>5
<1> QED
  BY <1>2, <1>4, <1>5, <1>6, SeqEqual

\* An entry that takes a year's next number is written at the end of its book
LEMMA WritesPage ==
  ASSUME IInv, IInv', PostedStep, NEW y \in Years, NEW r \in Entries,
         next_entry_no' = [next_entry_no EXCEPT ![y] = next_entry_no[y] + 1],
         InLedger(r)', entry_no'[r] = next_entry_no[y], body'[r].period[1] = y,
         body'[r].period \in Periods \ ClosedForGood,
         UNCHANGED period_status
  PROVE  Book!Write(y) /\ Book!NewPage(y) = PageOf(r)'
<1>1. PICK k \in Nat : k = next_entry_no[y] - 1 /\ next_entry_no'[y] = k + 2
  BY DEF IInv, TypeOK
<1>2. Pages'[y][k + 1] = PageOf(r)'
  <2>1. r \in LedgerOfYear(y)'
    BY DEF LedgerOfYear, YearOf
  <2>2. EntryAt(y, k + 1)' = r
    <3>1. entry_no'[r] = k + 1
      BY <1>1 DEF IInv, TypeOK
    <3> QED
      BY <2>1, <3>1, EntryAtItsNumberNext DEF IInv
  <2>3. k + 1 \in 1 .. (next_entry_no'[y] - 1)
    BY <1>1
  <2> QED
    BY <1>1, <2>2, <2>3 DEF Pages
<1>3. PICK S, T : /\ Pages[y] \in Seq(S) /\ Len(Pages[y]) = k
                  /\ Pages'[y] \in Seq(T) /\ Len(Pages'[y]) = k + 1
                  /\ \A n \in 1 .. k : Pages'[y][n] = Pages[y][n]
  <2>1. PICK f : /\ f = Pages[y] /\ f = [n \in 1 .. k |-> f[n]]
                 /\ \A n \in 1 .. k : f[n] = PageOf(EntryAt(y, n))
    <3>1. Pages[y] = [n \in 1 .. k |-> PageOf(EntryAt(y, n))]
      BY <1>1 DEF Pages
    <3>2. PICK f : f = [n \in 1 .. k |-> PageOf(EntryAt(y, n))]
      OBVIOUS
    <3>3. \A n \in 1 .. k : f[n] = PageOf(EntryAt(y, n))
      BY <3>2
    <3>4. f = [n \in 1 .. k |-> f[n]]
      BY <3>2
    <3> QED
      BY <3>1, <3>2, <3>3, <3>4
  <2>2. PICK g : /\ g = Pages'[y] /\ g = [n \in 1 .. (k + 1) |-> g[n]]
                 /\ \A n \in 1 .. (k + 1) : g[n] = PageOf(EntryAt(y, n))'
    <3>1. PICK g : g = [n \in 1 .. (next_entry_no[y] - 1) |-> PageOf(EntryAt(y, n))]'
      OBVIOUS
    <3>2. Pages'[y] = g
      BY <3>1 DEF Pages
    <3>3. \A n \in 1 .. (k + 1) : g[n] = PageOf(EntryAt(y, n))'
      BY <1>1, <3>1
    <3>4. DOMAIN g = 1 .. (k + 1)
      BY <1>1, <3>1
    <3>5. g = [n \in 1 .. (k + 1) |-> g[n]]
      BY <3>1, <3>4
    <3> QED
      BY <3>2, <3>3, <3>5
  <2>3. \A n \in 1 .. k : PageOf(EntryAt(y, n))' = PageOf(EntryAt(y, n))
    BY <1>1, PageStays
  <2>4. f \in Seq({f[n] : n \in 1 .. k}) /\ Len(f) = k
    BY <2>1, NumberedSeq
  <2>5. g \in Seq({g[n] : n \in 1 .. (k + 1)}) /\ Len(g) = k + 1
    BY <2>2, NumberedSeq
  <2>6. \A n \in 1 .. k : g[n] = f[n]
    BY <2>1, <2>2, <2>3
  <2>7. PICK S, T : f \in Seq(S) /\ g \in Seq(T)
    BY <2>4, <2>5
  <2> QED
    BY <2>1, <2>2, <2>4, <2>5, <2>6, <2>7
<1>4. Pages'[y] = Append(Pages[y], Pages'[y][k + 1])
  BY <1>3, OneMore
<1>5. \A z \in Years \ {y} : Pages'[z] = Pages[z]
  <2>1. TAKE z \in Years \ {y}
  <2>2. next_entry_no'[z] = next_entry_no[z]
    BY DEF IInv, TypeOK
  <2>3. \A n \in 1 .. (next_entry_no[z] - 1) : PageOf(EntryAt(z, n))' = PageOf(EntryAt(z, n))
    BY <2>2, PageStays
  <2> QED
    BY <2>2, <2>3 DEF Pages
<1>6. Pages' = [Pages EXCEPT ![y] = Append(@, Pages'[y][Len(Pages[y]) + 1])]
  <2>1. Pages = [z \in Years |-> Pages[z]] /\ Pages' = [z \in Years |-> Pages'[z]]
    BY DEF Pages
  <2> QED
    BY <1>3, <1>4, <1>5, <2>1
<1>7. Book!NewPage(y) = PageOf(r)'
  BY <1>2, <1>3 DEF Book!NewPage
<1>8. UNCHANGED ClosedForGood
  BY DEF ClosedForGood
<1>9. PageOf(r)'.period = body'[r].period
  BY DEF PageOf
<1> QED
  BY <1>3, <1>6, <1>7, <1>8, <1>9 DEF Book!Write, Book!NewPage

\* post writes an ordinary page, in a period that is not closed for good
LEMMA PostEnters ==
  ASSUME IInv, IInv', [Next]_vars, NEW u \in Users, CommitPost(u)
  PROVE  \E y \in Years : Book!Enter(y)
<1>1. PICK r, y, n :
        /\ r \in Entries /\ y \in Years
        /\ r = req[u].entry /\ y = YearOf(req[u].body.period) /\ n = next_entry_no[y]
        /\ status[r] = "draft" /\ req[u].body = body[r] /\ body[r] \in Body
        /\ req[u].seq = n
  <2>1. pc[u] = "post_commit"
    BY DEF CommitPost, At
  <2> QED
    BY <2>1, BodyOfRequest DEF IInv, LockedReadsHold, ReadsHold, Holding, Numbering
<1>2. /\ status' = [status EXCEPT ![r] = "posted"]
      /\ entry_no' = [entry_no EXCEPT ![r] = n]
      /\ next_entry_no' = [next_entry_no EXCEPT ![y] = n + 1]
      /\ body' = body /\ period_status' = period_status
  BY <1>1 DEF CommitPost
<1>3. InLedger(r)' /\ entry_no'[r] = n /\ body'[r] = body[r]
  BY <1>2 DEF IInv, TypeOK, InLedger
<1>4. period_status[body[r].period] # "hard_closed"
  BY <1>1 DEF CommitPost, At, Admitted, PeriodGuard
<1>5. body[r].period \in Periods \ ClosedForGood
  BY <1>1, <1>4, BodyPeriod DEF ClosedForGood
<1>6. body[r].period[1] = y
  BY <1>1 DEF YearOf
<1>7. Book!Write(y) /\ Book!NewPage(y) = PageOf(r)'
  BY <1>1, <1>2, <1>3, <1>5, <1>6, PostedStepHolds, WritesPage
<1>8. body'[r].reversal_of = None
  BY <1>1, <1>3 DEF IInv, DraftsCancelNothing
<1>9. PageOf(r)'.cancels = None
  BY <1>8 DEF PageOf
<1> QED
  BY <1>1, <1>7, <1>9 DEF Book!Enter

\* The place of an entry of the ledger is a place of the books, with its page
LEMMA PlaceOfEntry ==
  ASSUME IInv, NEW e \in Entries, InLedger(e)
  PROVE  Place(e) \in Book!Places /\ Book!Page(Place(e)) = PageOf(e)
<1>1. PICK y, n : y \in Years /\ y = YearOf(body[e].period) /\ n = entry_no[e]
  BY BodyPeriod, YearType DEF IInv, TypeOK, InLedger
<1>2. e \in LedgerOfYear(y)
  BY <1>1 DEF LedgerOfYear
<1>3. n \in 1 .. (next_entry_no[y] - 1) /\ EntryAt(y, n) = e
  BY <1>1, <1>2, EntryAtItsNumber DEF IInv
<1>4. Pages[y][n] = PageOf(e)
  BY <1>1, <1>3 DEF Pages
<1>5. Len(Pages[y]) = next_entry_no[y] - 1
  BY <1>1, YearLength DEF IInv
<1>6. Place(e) = <<y, n>>
  BY <1>1 DEF Place
<1> QED
  BY <1>1, <1>3, <1>4, <1>5, <1>6 DEF Book!Places, Book!Page

\* No page of the books cancels that of an entry that is posted
LEMMA PostedNotCancelled ==
  ASSUME IInv, NEW e \in Entries, status[e] = "posted"
  PROVE  ~Book!IsCancelled(Place(e))
<1> SUFFICES ASSUME NEW by \in Book!Places, Book!Page(by).cancels = Place(e)
             PROVE  FALSE
  BY DEF Book!IsCancelled
<1>1. PICK y, n : y \in Years /\ by = <<y, n>> /\ n \in 1 .. Len(Pages[y])
  BY DEF Book!Places
<1>2. n \in 1 .. (next_entry_no[y] - 1)
  BY <1>1, YearLength DEF IInv
<1>3. PICK r \in Entries : r = EntryAt(y, n) /\ InLedger(r)
  BY <1>1, <1>2, NumberedEntry DEF IInv, LedgerOfYear
<1>4. Book!Page(by) = PageOf(r)
  BY <1>1, <1>2, <1>3 DEF Book!Page, Pages
<1>5. InLedger(e) /\ Place(e) \in Years \X Nat
  <2>1. InLedger(e)
    BY DEF InLedger
  <2>2. YearOf(body[e].period) \in Years /\ entry_no[e] \in Nat
    BY <2>1, BodyPeriod, YearType DEF IInv, TypeOK, InLedger
  <2> QED
    BY <2>1, <2>2 DEF Place
<1>6. body[r].reversal_of # None
  BY <1>4, <1>5, NoneAssumption DEF PageOf
<1>7. PICK o \in Entries : o = body[r].reversal_of /\ InLedger(o) /\ reversed_by[o] = r
  BY <1>3, <1>6, CancelledIsInLedger DEF IInv
<1>8. Place(o) = Place(e)
  BY <1>4, <1>6, <1>7 DEF PageOf
<1>9. o = e
  <2>1. PICK z \in Years : z = YearOf(body[e].period)
    BY <1>5, BodyPeriod, YearType DEF IInv, TypeOK, InLedger
  <2>2. o \in LedgerOfYear(z) /\ e \in LedgerOfYear(z) /\ entry_no[o] = entry_no[e]
    BY <1>5, <1>7, <1>8, <2>1 DEF Place, LedgerOfYear
  <2> QED
    BY <2>2 DEF IInv, GaplessNumbers
<1>10. reversed_by[e] = None
  BY DEF IInv, ReversalsPaired
<1> QED
  BY <1>3, <1>7, <1>9, <1>10, NoneAssumption

\* reverse writes the page that cancels the original's
LEMMA ReverseCancels ==
  ASSUME IInv, IInv', [Next]_vars, NEW u \in Users, CommitReverse(u)
  PROVE  \E y \in Years : Book!Cancel(y)
<1>1. PICK n, e, y, b :
        /\ e \in Entries /\ y \in Years /\ b \in Body
        /\ e = req[u].entry /\ b = req[u].body /\ y = YearOf(b.period)
        /\ n = next_entry_no[y] /\ req[u].seq = n
        /\ status[e] = "posted" /\ b.reversal_of = e
        /\ b.net = Negated(body[e].net) /\ NotBefore(body[e].period, b.period)
  <2>1. pc[u] = "rev_commit"
    BY DEF CommitReverse, At
  <2>2. PICK e, b : e = req[u].entry /\ b = req[u].body
    OBVIOUS
  <2>3. b \in Body /\ YearOf(b.period) \in Years
    BY <2>1, <2>2, BodyOfRequest DEF IInv
  <2>4. ReadsHold(u)
    BY DEF IInv, LockedReadsHold
  <2>5. /\ e \in Entries /\ status[e] = "posted" /\ b.reversal_of = e
        /\ b.net = Negated(body[e].net) /\ NotBefore(body[e].period, b.period)
        /\ req[u].seq = next_entry_no[YearOf(b.period)]
    BY <2>1, <2>2, <2>4 DEF ReadsHold, Holding, Numbering
  <2> QED
    BY <2>2, <2>3, <2>5
<1>2. PICK r \in Entries :
        /\ status[r] = "none"
        /\ status' = [status EXCEPT ![r] = "posted", ![e] = "reversed"]
        /\ entry_no' = [entry_no EXCEPT ![r] = n]
        /\ body' = [body EXCEPT ![r] = b]
        /\ next_entry_no' = [next_entry_no EXCEPT ![y] = n + 1]
        /\ period_status' = period_status
  BY <1>1 DEF CommitReverse
<1>3. /\ InLedger(r)' /\ entry_no'[r] = n /\ body'[r] = b
      /\ entry_no'[e] = entry_no[e] /\ body'[e] = body[e]
  BY <1>1, <1>2 DEF IInv, TypeOK, InLedger
<1>4. period_status[b.period] # "hard_closed"
  BY <1>1 DEF CommitReverse, At, Admitted, PeriodGuard
<1>5. b.period \in Periods \ ClosedForGood
  BY <1>1, <1>4, BodyPeriod DEF ClosedForGood
<1>6. b.period[1] = y
  BY <1>1 DEF YearOf
<1>7. Book!Write(y) /\ Book!NewPage(y) = PageOf(r)'
  BY <1>1, <1>2, <1>3, <1>5, <1>6, PostedStepHolds, WritesPage
<1>8. PICK at \in Book!Places : at = Place(e) /\ Book!Page(at) = PageOf(e)
  BY <1>1, PlaceOfEntry DEF InLedger
<1>9. ~Book!IsCancelled(at)
  BY <1>1, <1>8, PostedNotCancelled
<1>10. /\ PageOf(r)'.period = b.period /\ PageOf(r)'.net = Negated(body[e].net)
       /\ PageOf(r)'.cancels = at
  <2>1. e # None
    BY <1>1, NoneAssumption
  <2>2. Place(e)' = at
    BY <1>3, <1>8 DEF Place
  <2> QED
    BY <1>1, <1>3, <2>1, <2>2 DEF PageOf
<1>11. /\ PageOf(e).period = body[e].period /\ PageOf(e).net = body[e].net
       /\ at[1] = YearOf(body[e].period)
  BY <1>8 DEF PageOf, Place
<1>12. /\ at[1] <= y
       /\ at[1] = y => body[e].period[2] <= b.period[2]
  <2>1. body[e].period \in Periods /\ b.period \in Periods
    BY <1>1, BodyPeriod DEF IInv, TypeOK
  <2>2. /\ YearOf(body[e].period) \in Nat /\ y \in Nat
        /\ PeriodNo(body[e].period) \in Nat /\ PeriodNo(b.period) \in Nat
    <3>1. \A p \in Periods : YearOf(p) \in Nat /\ PeriodNo(p) \in Nat
      <4>1. TAKE p \in Periods
      <4>2. p[1] \in Years /\ p[2] \in 0 .. LastPeriod
        BY DEF Periods
      <4>3. p[1] \in Nat
        BY <4>2, YearsAssumption
      <4>4. p[2] \in Nat
        BY <4>2, PeriodAssumption
      <4> QED
        BY <4>3, <4>4 DEF YearOf, PeriodNo
    <3> QED
      BY <1>1, <2>1, <3>1
  <2> QED
    BY <1>1, <1>11, <2>2 DEF NotBefore, PeriodNo
<1>13. Book!NewPage(y).net = [a \in Accounts |-> -Book!Page(at).net[a]]
  BY <1>7, <1>8, <1>10, <1>11 DEF Negated
<1>14. at[1] = y => Book!Page(at).period[2] <= Book!NewPage(y).period[2]
  BY <1>7, <1>8, <1>10, <1>11, <1>12
<1> QED
  BY <1>1, <1>7, <1>8, <1>9, <1>10, <1>12, <1>13, <1>14 DEF Book!Cancel

\* Only post and reverse count a year's numbers up
LEMMA CountersStay ==
  ASSUME [Next]_vars, \A u \in Users : ~CommitPost(u) /\ ~CommitReverse(u)
  PROVE  UNCHANGED next_entry_no
<1>1. CASE UNCHANGED vars
  BY <1>1 DEF vars
<1>2. CASE Next
  <2> PICK u \in Users : Begin(u) \/ Continue(u)
    BY <1>2 DEF Next
  <2>1. CASE Begin(u)
    BY <2>1 DEF Begin, BeginCreateDraft, BeginUpdateDraft, VoidDraft, BeginPost,
       BeginReverse, CreateFiscalYear, ClosePeriod, ReopenPeriod, BeginUpdateAccount,
       CreateFxRate, BeginUpdateFxRate, BeginApproveFxRate
  <2>2. CASE Continue(u)
    BY <2>2 DEF Continue, WriteDraft, WriteUpdate, TakeNumber, InsertReversal,
       SaveAccount, SaveFxRate, DeadlockAbort, Refuse, ConnectionLost
  <2> QED
    BY <2>1, <2>2
<1> QED
  BY <1>1, <1>2

\* A step closes one more period for good or none
LEMMA ClosesOneOrNone ==
  ASSUME IInv, [Next]_vars
  PROVE  \/ UNCHANGED ClosedForGood
         \/ \E p \in Periods \ ClosedForGood : ClosedForGood' = ClosedForGood \cup {p}
<1>1. CASE UNCHANGED period_status
  BY <1>1 DEF ClosedForGood
<1>2. CASE \E u \in Users : CreateFiscalYear(u) \/ ReopenPeriod(u)
  BY <1>2 DEF CreateFiscalYear, ReopenPeriod, ClosedForGood, IInv, TypeOK
<1>3. CASE \E u \in Users : ClosePeriod(u)
  <2>1. PICK p \in Periods, hard \in BOOLEAN :
          /\ period_status[p] # "hard_closed"
          /\ period_status' =
               [period_status EXCEPT ![p] = IF hard THEN "hard_closed" ELSE "soft_closed"]
    BY <1>3 DEF ClosePeriod
  <2>2. /\ period_status'[p] = IF hard THEN "hard_closed" ELSE "soft_closed"
        /\ \A q \in Periods \ {p} : period_status'[q] = period_status[q]
    BY <2>1 DEF IInv, TypeOK
  <2>3. CASE hard
    <3>1. ClosedForGood' = ClosedForGood \cup {p} /\ p \notin ClosedForGood
      BY <2>1, <2>2, <2>3 DEF ClosedForGood
    <3> QED
      BY <3>1
  <2>4. CASE ~hard
    BY <2>1, <2>2, <2>4 DEF ClosedForGood
  <2> QED
    BY <2>3, <2>4
<1>4. \/ UNCHANGED period_status
      \/ \E u \in Users : CreateFiscalYear(u) \/ ClosePeriod(u) \/ ReopenPeriod(u)
  <2>1. CASE UNCHANGED vars
    BY <2>1 DEF vars
  <2>2. CASE Next
    <3> PICK u \in Users : Begin(u) \/ Continue(u)
      BY <2>2 DEF Next
    <3>1. CASE Begin(u)
      BY <3>1 DEF Begin, BeginCreateDraft, BeginUpdateDraft, VoidDraft, BeginPost,
         BeginReverse, BeginUpdateAccount, CreateFxRate, BeginUpdateFxRate,
         BeginApproveFxRate
    <3>2. CASE Continue(u)
      BY <3>2 DEF Continue, WriteDraft, WriteUpdate, TakeNumber, CommitPost,
         InsertReversal, CommitReverse, SaveAccount, SaveFxRate, DeadlockAbort, Refuse,
         ConnectionLost
    <3> QED
      BY <3>1, <3>2
  <2> QED
    BY <2>1, <2>2
<1> QED
  BY <1>1, <1>2, <1>3, <1>4

\* Every step is a step of the book or none of it
LEMMA BookStep ==
  ASSUME IInv, IInv', [Next]_vars
  PROVE  [Book!BookNext]_(Book!bookVars)
<1>1. CASE \E u \in Users : CommitPost(u)
  BY <1>1, PostEnters DEF Book!BookNext
<1>2. CASE \E u \in Users : CommitReverse(u)
  BY <1>2, ReverseCancels DEF Book!BookNext
<1>3. CASE \A u \in Users : ~CommitPost(u) /\ ~CommitReverse(u)
  <2>1. Pages' = Pages
    BY <1>3, CountersStay, PostedStepHolds, PagesStay
  <2> QED
    BY <2>1, ClosesOneOrNone DEF Book!BookNext, Book!CloseForGood, Book!bookVars
<1> QED
  BY <1>1, <1>2, <1>3

\* The books are empty before the first posting
LEMMA BookStart == Init => Book!BookInit
<1> SUFFICES ASSUME Init PROVE Book!BookInit
  OBVIOUS
<1>1. \A y \in Years : Pages[y] = <<>>
  <2>1. TAKE y \in Years
  <2>2. 1 .. (next_entry_no[y] - 1) = 1 .. 0
    BY DEF Init
  <2>3. PICK f : f = Pages[y] /\ f = [n \in 1 .. 0 |-> f[n]]
    <3>1. PICK f : f = [n \in 1 .. 0 |-> PageOf(EntryAt(y, n))]
      OBVIOUS
    <3>2. f = Pages[y]
      BY <2>2, <3>1 DEF Pages
    <3>3. f = [n \in 1 .. 0 |-> f[n]]
      BY <3>1
    <3> QED
      BY <3>2, <3>3
  <2>4. f \in Seq({f[n] : n \in 1 .. 0}) /\ Len(f) = 0
    BY <2>3, NumberedSeq
  <2> QED
    BY <2>3, <2>4, EmptySeq
<1>2. Pages = [y \in Years |-> <<>>]
  BY <1>1 DEF Pages
<1>3. ClosedForGood = {}
  BY DEF Init, ClosedForGood
<1> QED
  BY <1>2, <1>3 DEF Book!BookInit

\* What the requests, their locks, triggers and retries leave in the tables is a
\* book for each year: entered at its end only, every cancelling page the exact
\* opposite of one that no other page cancels, and no page in a period closed for
\* good (accounting.service.ts:516-645)
THEOREM LedgerImplementsBook == Spec => ImplementsBook
<1>1. Init => Book!BookInit
  BY BookStart
<1>2. IInv /\ IInv' /\ [Next]_vars => [Book!BookNext]_(Book!bookVars)
  BY BookStep
<1> QED
  BY <1>1, <1>2, Invariant, PTL DEF Spec, ImplementsBook, Book!BookSpec
=============================================================================
