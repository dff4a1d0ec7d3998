----------------------- MODULE MCGeneralLedgerProgress -----------------------
(* Requests that post and reverse at the same time, from a year in progress: *)
(* e1 and e2 are posted, e3 is a draft, the identifiers e4, e5 are free; an  *)
(* account and a rate are edited meanwhile                                   *)
EXTENDS GeneralLedger, TLC

CONSTANTS cash, cost, u1, e1, e2, e3

Purchase == (cash :> -1 @@ cost :> 1)
Purchases == {Purchase}
Entry == [period |-> <<1, 1>>, event |-> "manual", source |-> None, net |-> Purchase,
          fx |-> None, rate |-> 1, reversal_of |-> None]

InitInProgress ==
  /\ status = [e \in Entries |-> CASE e \in {e1, e2} -> "posted" [] e = e3 -> "draft"
                                   [] OTHER -> "none"]
  /\ entry_no = [e \in Entries |-> CASE e = e1 -> 1 [] e = e2 -> 2 [] OTHER -> 0]
  /\ body = [e \in Entries |-> IF e \in {e1, e2, e3} THEN Entry ELSE NoBody]
  /\ reversed_by = [e \in Entries |-> None]
  /\ period_status = [p \in Periods |-> "open"]
  /\ next_entry_no = [y \in Years |-> 3]
  /\ is_active = [a \in Accounts |-> TRUE]
  /\ fx = [r \in Rates |-> [rate |-> 1, approved |-> FALSE]]
  /\ pc = [u \in Users |-> "idle"]
  /\ req = [u \in Users |-> NoRequest]

NextPosting ==
  \E u \in Users :
    \/ BeginPost(u) \/ BeginReverse(u) \/ BeginUpdateDraft(u)
    \/ VoidDraft(u) \/ ClosePeriod(u)
    \/ u = u1 /\ (BeginUpdateAccount(u) \/ BeginApproveFxRate(u))
    \/ Continue(u)

PostingSpec == InitInProgress /\ [][NextPosting]_vars /\ Fairness
=============================================================================
