--------------------------- MODULE MCGeneralLedger ---------------------------
(* Instances of GeneralLedger for TLC *)
EXTENDS GeneralLedger, TLC

CONSTANTS cash, cost

\* A purchase paid at once
OneSet == {(cash :> -1 @@ cost :> 1)}

\* Requests and entries are interchangeable: safety runs only
Symmetric == Permutations(Users) \cup Permutations(Entries)

\* All of Next that two requests can do with three entries and no account or rate to
\* edit: two reversals cannot wait for each other (MCOffice and MCProgress have the rest)
CoreNext ==
  \E u \in Users :
    \/ Begin(u)
    \/ WriteDraft(u) \/ WriteUpdate(u) \/ TakeNumber(u) \/ CommitPost(u)
    \/ InsertReversal(u) \/ CommitReverse(u) \/ Refuse(u) \/ ConnectionLost(u)
CoreSpec == Init /\ [][CoreNext]_vars
=============================================================================
