----------------------------- MODULE MCProgress -----------------------------
(***************************************************************************)
(* What must come about in the ledger, for TLC: the requests that post and *)
(* reverse in a year in progress come to an end, and depreciation by       *)
(* schedule comes to every month.  They share no row, so a behaviour is    *)
(* about one of them, chosen at the start.                                 *)
(***************************************************************************)
EXTENDS Depreciation, TLC

CONSTANT Nothing

VARIABLES
  task,
  status, entry_no, reversed_by, body, period_status, next_entry_no, is_active, fx, pc, req

----------------------------------------------------------------------------
(* Schedules: one vessel, whose cost is more than twice what a schedule charges *)

Plan(amount, start, end) == [amount |-> amount, start |-> start, end |-> end]
MCPlans == {Plan(1, 1, 2), Plan(1, 2, 3)}

\* What is due by a schedule is charged in the end, as long as the schedule is far
\* from the cost of the vessel (catchUpDepreciation).
AttendedMonthsAreCharged ==
  \A m \in 1..(LastMonth - 1) :
    (task = "schedules" /\ schedule["v"] # NoPlan /\ m \in MonthsDue(schedule["v"]))
      ~> ChargesFor("v", m) # {}

----------------------------------------------------------------------------
(* Posting: two requests over a ledger in progress *)

Posting == INSTANCE MCGeneralLedgerProgress WITH
  Users <- {1, 2}, u1 <- 1, Entries <- 1..5, e1 <- 1, e2 <- 2, e3 <- 3,
  Years <- {1}, LastPeriod <- 1, EventTypes <- {"manual"}, Sources <- {},
  cash <- "cash", cost <- "cost", Accounts <- {"cash", "cost"},
  Managed <- {"cash"}, Nominal <- {"cost"}, LineSets <- {("cash" :> -1 @@ "cost" :> 1)},
  Rates <- {"card"}, RateValues <- {}, None <- Nothing

\* A request that began comes to its end, whatever locks the others take (post, reverse).
RequestsFinish == Posting!RequestsFinish

----------------------------------------------------------------------------
posting == <<status, entry_no, reversed_by, body, period_status, next_entry_no,
             is_active, fx, pc, req>>
progressVars == <<task, depreciationVars, posting>>

ProgressInit ==
  /\ task \in {"schedules", "posting"}
  /\ DepreciationInit /\ Posting!InitInProgress
ProgressNext ==
  /\ task' = task
  /\ \/ task = "schedules" /\ AttendedNext /\ UNCHANGED posting
     \/ task = "posting" /\ Posting!NextPosting /\ UNCHANGED depreciationVars
\* The catch-up runs again and again, and a run that begins goes on
CatchUpGoesOn(r) ==
  /\ WF_progressVars(task = "schedules" /\ BeginCatchUp(r) /\ UNCHANGED <<task, posting>>)
  /\ WF_progressVars(task = "schedules" /\ Work(r) /\ UNCHANGED <<task, posting>>)
ProgressSpec ==
  /\ ProgressInit /\ [][ProgressNext]_progressVars
  /\ CatchUpGoesOn(1) /\ CatchUpGoesOn(2) /\ Posting!Fairness
=============================================================================
