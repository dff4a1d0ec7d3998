---------------------------- MODULE Depreciation ----------------------------
(***************************************************************************)
(* Depreciation by schedule: setDepreciationSchedule, postDepreciation and *)
(* the catch-up of AccountingBridgeService, with the plans of              *)
(* depreciation.logic.ts and depreciation-catchup.logic.ts.                *)
(*                                                                         *)
(* The catch-up is called whenever the accounting screen is opened.  It    *)
(* does not ask whether a month has come, but which completed month has no *)
(* entry, so that a month that went by unattended is found later.  Every   *)
(* month is a draft of its own, in a transaction of its own; a run may die *)
(* between two, and two runs may meet.                                     *)
(*                                                                         *)
(* Months are numbered; amounts are whole cents.  A charge is an entry of  *)
(* the ledger whose source is derived from vessel and month.  Void entries *)
(* count nowhere and are forgotten.                                        *)
(***************************************************************************)
EXTENDS Integers, FiniteSets, FiniteSetsExt

CONSTANTS
  Runs,      \* concurrent requests
  Assets,    \* vessels the ledger carries at a cost
  Plans,     \* schedules a vessel may be given: [amount, start, end]
  NoPlan,
  AssetCost, \* cost of the vessels in the ledger
  LastMonth, \* bound: the clock stops
  Voids      \* bound: drafts that are voided, requests that die

VARIABLES
  schedule, \* the active row of depreciation_schedules of each vessel
  month,    \* the current month: those before it are completed
  charges,  \* rows of journal_entries of event depreciation
  charged,  \* charges written so far: their identity
  run,      \* what each request has still to do
  voided    \* drafts voided and requests dead so far

depreciationVars == <<schedule, month, charges, charged, run, voided>>

----------------------------------------------------------------------------
(* Plans *)

Sooner(a, b) == IF a < b THEN a ELSE b

\* monthsDue: from the start of the schedule to its end or the last completed month
MonthsDue(plan) == plan.start..Sooner(plan.end, month - 1)

ChargesFor(v, m) == {c \in charges : c.vessel = v /\ c.month = m}
SumCharged(S) == MapThenSumSet(LAMBDA c : c.amount, S)

\* Posted charges, less what a reversal takes back
Accumulated == SumCharged({c \in charges : c.status = "posted"})

\* assertWithinCarryingAmount: the whole range counts, what it skips included
Carries(plan, months) ==
  /\ AssetCost - Accumulated > 0
  /\ plan.amount * Cardinality(months) <= AssetCost - Accumulated

----------------------------------------------------------------------------
(* Requests *)

Resting == [step |-> "rest"]
Continue(r, now) == run' = [run EXCEPT ![r] = now]
\* What is left of a run: the vessels it has not looked at
Remaining(jobs) == IF jobs = {} THEN Resting ELSE [step |-> "vessels", jobs |-> jobs]

\* One active schedule for a vessel: the upsert replaces it
SetSchedule(r) ==
  \E v \in Assets, plan \in Plans :
    /\ run[r] = Resting
    /\ schedule' = [schedule EXCEPT ![v] = plan]
    /\ UNCHANGED <<month, charges, charged, run, voided>>

DeactivateSchedule(r) ==
  \E v \in Assets :
    /\ run[r] = Resting /\ schedule[v] # NoPlan
    /\ schedule' = [schedule EXCEPT ![v] = NoPlan]
    /\ UNCHANGED <<month, charges, charged, run, voided>>

\* catchUpDepreciation loads the active schedules and works through them
Jobs == {[vessel |-> v, plan |-> schedule[v], months |-> MonthsDue(schedule[v])] :
           v \in {w \in Assets : schedule[w] # NoPlan}}
BeginCatchUp(r) ==
  /\ run[r] = Resting
  /\ \E j \in Jobs : j.months # {}
  /\ Continue(r, Remaining({j \in Jobs : j.months # {}}))
  /\ UNCHANGED <<schedule, month, charges, charged, voided>>

\* postDepreciation by hand: any range, a month to come included
BeginDepreciation(r) ==
  \E v \in Assets, plan \in Plans :
    /\ run[r] = Resting
    /\ Continue(r, Remaining({[vessel |-> v, plan |-> plan, months |-> plan.start..plan.end]}))
    /\ UNCHANGED <<schedule, month, charges, charged, voided>>

\* The balance is read once for all the months of a vessel; a schedule that
\* fails does not stop the others
ReadBalance(r) ==
  /\ run[r].step = "vessels"
  /\ \E j \in run[r].jobs :
       Continue(r, IF Carries(j.plan, j.months)
                   THEN [step |-> "months", job |-> j, left |-> j.months,
                         jobs |-> run[r].jobs \ {j}]
                   ELSE Remaining(run[r].jobs \ {j}))
  /\ UNCHANGED <<schedule, month, charges, charged, voided>>

\* The next month, if it has no entry yet
AlwaysFree(v, m) == TRUE \* mutant: existingEntry not asked
Uncharged(v, m) == ChargesFor(v, m) = {}
NextCharge(r) ==
  /\ run[r].step = "months" /\ run[r].left # {}
  /\ LET m == Min(run[r].left)  j == run[r].job IN
     Continue(r, IF Uncharged(j.vessel, m) THEN [run[r] EXCEPT !.step = "draft"]
                 ELSE [run[r] EXCEPT !.left = @ \ {m}])
  /\ UNCHANGED <<schedule, month, charges, charged, voided>>

\* createDraft: the unique index refuses a second entry of the source, which
\* ends the work on this vessel
AnyCharge(v, m) == TRUE \* mutant: no unique index
IndexAdmits(v, m) == ChargesFor(v, m) = {}
WriteCharge(r) ==
  /\ run[r].step = "draft"
  /\ LET m == Min(run[r].left)  j == run[r].job IN
     IF IndexAdmits(j.vessel, m)
     THEN /\ charges' = charges \cup
               {[id |-> charged, vessel |-> j.vessel, month |-> m,
                 amount |-> j.plan.amount, status |-> "draft"]}
          /\ charged' = charged + 1
          /\ Continue(r, [run[r] EXCEPT !.step = "months", !.left = @ \ {m}])
     ELSE /\ Continue(r, Remaining(run[r].jobs))
          /\ UNCHANGED <<charges, charged>>
  /\ UNCHANGED <<schedule, month, voided>>

FinishVessel(r) ==
  /\ run[r].step = "months" /\ run[r].left = {}
  /\ Continue(r, Remaining(run[r].jobs))
  /\ UNCHANGED <<schedule, month, charges, charged, voided>>

\* The process is redeployed: what was written stays
Die(r) ==
  /\ run[r] # Resting
  /\ voided < Voids /\ voided' = voided + 1
  /\ Continue(r, Resting)
  /\ UNCHANGED <<schedule, month, charges, charged>>

----------------------------------------------------------------------------
(* The ledger and the clock *)

PostCharge(r) ==
  \E c \in charges :
    /\ run[r] = Resting /\ c.status = "draft"
    /\ charges' = (charges \ {c}) \cup {[c EXCEPT !.status = "posted"]}
    /\ UNCHANGED <<schedule, month, charged, run, voided>>

VoidCharge(r) ==
  \E c \in charges :
    /\ run[r] = Resting /\ c.status = "draft"
    /\ voided < Voids /\ voided' = voided + 1
    /\ charges' = charges \ {c}
    /\ UNCHANGED <<schedule, month, charged, run>>

ReverseCharge(r) ==
  \E c \in charges :
    /\ run[r] = Resting /\ c.status = "posted"
    /\ charges' = (charges \ {c}) \cup {[c EXCEPT !.status = "reversed"]}
    /\ UNCHANGED <<schedule, month, charged, run, voided>>

NextMonth ==
  /\ month < LastMonth /\ month' = month + 1
  /\ UNCHANGED <<schedule, charges, charged, run, voided>>

----------------------------------------------------------------------------
DepreciationInit ==
  /\ schedule = [v \in Assets |-> NoPlan]
  /\ month = 1 /\ charges = {} /\ charged = 0 /\ voided = 0
  /\ run = [r \in Runs |-> Resting]

Work(r) == ReadBalance(r) \/ NextCharge(r) \/ WriteCharge(r) \/ FinishVessel(r)
DepreciationNext ==
  \/ NextMonth
  \/ \E r \in Runs :
       \/ SetSchedule(r) \/ DeactivateSchedule(r)
       \/ BeginCatchUp(r) \/ BeginDepreciation(r) \/ Work(r) \/ Die(r)
       \/ PostCharge(r) \/ VoidCharge(r) \/ ReverseCharge(r)
DepreciationSpec == DepreciationInit /\ [][DepreciationNext]_depreciationVars

\* The service as it is used: schedules are set, the screen is opened again and
\* again, requests die and drafts are voided, but nobody depreciates by hand
AttendedNext ==
  \/ NextMonth
  \/ \E r \in Runs :
       \/ SetSchedule(r) /\ \E v \in Assets : schedule[v] = NoPlan /\ schedule'[v] # NoPlan
       \/ BeginCatchUp(r) \/ Work(r) \/ Die(r) \/ PostCharge(r) \/ VoidCharge(r)
Attended ==
  /\ DepreciationInit /\ [][AttendedNext]_depreciationVars
  /\ \A r \in Runs :
       WF_depreciationVars(BeginCatchUp(r)) /\ WF_depreciationVars(Work(r))

----------------------------------------------------------------------------
(* Properties *)

\* A vessel's month is charged once, whoever charges it, however often
ChargedOnce ==
  \A c, d \in charges : c.vessel = d.vessel /\ c.month = d.month => c = d

\* "No month is missed however long the service is interrupted": what is due by a
\* schedule is charged, although runs die and drafts are voided
EveryMonthIsCharged ==
  \A v \in Assets, m \in 1..LastMonth :
    (schedule[v] # NoPlan /\ m \in MonthsDue(schedule[v])) ~> ChargesFor(v, m) # {}
=============================================================================
