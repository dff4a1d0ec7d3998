------------------------------ MODULE CostImports ------------------------------
(***************************************************************************)
(* The costs of a vessel from the company's books (VesselCogsService):     *)
(* a file that repeats the whole year is imported again and again, lines   *)
(* are entered by hand, rows are classified by the owner's rules, removed, *)
(* and classified again when the rules have changed.                       *)
(*                                                                         *)
(* A file is planned by readings of its own and written later, in one      *)
(* transaction; reapplyRules saves the rows it has read, and a row that is *)
(* gone meanwhile is inserted again with its identifier.                   *)
(***************************************************************************)
EXTENDS Integers, Sequences, FiniteSets, FiniteSetsExt

CONSTANTS
  Admins,
  Files,     \* [until, lines]: what may be imported
  ByHand,    \* lines that may be entered, with the months they are spread over
  RuleBooks, \* what the rules of the program may be: code -> [category, charged]
  MaxCosts, MaxJobs, \* bounds
  Unset

ASSUME CostAssumption ==
  \A file \in Files : file.lines \in Seq({file.lines[k] : k \in DOMAIN file.lines})

VARIABLES
  costs,   \* rows of vessel_cogs_entries
  rules,   \* ACCOUNT_RULES of the running program
  admin,   \* the request of each admin
  numbers, \* identifiers given
  jobs     \* bound

costVars == <<costs, rules, admin, numbers, jobs>>

----------------------------------------------------------------------------
(* Lines *)

\* dedupeKey: what tells a line in the books.  Of the text, letters and spaces are
\* levelled; the memo, which is edited later, is not in it
KeyWithMemo(line) == <<line.code, line.doc, line.amount, line.memo>> \* mutant
dedupeKey(line) == <<line.code, line.doc, line.amount>>
rowError(line) == ~line.readable

\* classify: a code without a rule is charged and shown as unmapped
classify(line) ==
  IF line.code \notin DOMAIN rules
  THEN [category |-> "other", charged |-> TRUE, months |-> Unset, unmapped |-> TRUE]
  ELSE [category |-> rules[line.code].category, charged |-> rules[line.code].charged,
        months |-> IF rules[line.code].charged THEN line.months ELSE Unset,
        unmapped |-> FALSE]

Cost(n, line, source, c) ==
  [id |-> n, key |-> dedupeKey(line), code |-> line.code, doc |-> line.doc,
   amount |-> line.amount, date |-> line.date, source |-> source,
   category |-> c.category, charged |-> c.charged, months |-> c.months]

KeysOf(rows) == {r.key : r \in rows}
Books == {r \in costs : r.source = "quickbooks"}
\* The unique index: rows that are written together or one by one
Admits(rows) ==
  \A r, s \in costs \cup rows : r.key = s.key => r = s \/ (r.id = s.id /\ {r, s} \cap rows # {})

----------------------------------------------------------------------------
(* Requests *)

Resting(a) == admin[a] = Unset
Accept(a, r) ==
  /\ Resting(a) /\ jobs < MaxJobs
  /\ admin' = [admin EXCEPT ![a] = r]
  /\ jobs' = jobs + 1
  /\ UNCHANGED <<costs, rules, numbers>>
Done(a) == admin' = [admin EXCEPT ![a] = Unset]
Insert(a, rows) ==
  /\ costs' = IF Admits(rows) THEN costs \cup rows ELSE costs
  /\ numbers' = Max({numbers} \cup {r.id : r \in rows})
  /\ Done(a) /\ UNCHANGED <<rules, jobs>>

\* plan: which lines are new.  A line after the limit is passed over; what the file
\* lacks is shown and kept
InTime(file, line) == file.until = Unset \/ line.date <= file.until
Vanished(file) ==
  {r \in Books : r.key \notin {dedupeKey(file.lines[k]) : k \in DOMAIN file.lines}
                 /\ (file.until = Unset \/ r.date <= file.until)}
New(file) ==
  {k \in DOMAIN file.lines :
     InTime(file, file.lines[k]) /\ dedupeKey(file.lines[k]) \notin KeysOf(costs)}

\* commit plans anew; a file with a line in error is refused
BeginCommit(a) ==
  \E file \in Files :
    /\ \A k \in DOMAIN file.lines : ~rowError(file.lines[k])
    /\ Accept(a, [op |-> "commit", file |-> file, new |-> New(file), had |-> KeysOf(costs)])
Drafted(a) ==
  {Cost(numbers + k, admin[a].file.lines[k], "quickbooks", classify(admin[a].file.lines[k])) :
     k \in admin[a].new}
WriteCommit(a) ==
  /\ ~Resting(a) /\ admin[a].op = "commit"
  /\ \A k \in admin[a].new : numbers + k <= MaxCosts
  /\ Insert(a, Drafted(a))

\* addManual: looks for the same line, then saves it.  It has no account, and its
\* category stands for one in the key
BeginManual(a) ==
  \E line \in ByHand :
    /\ dedupeKey(line) \notin KeysOf(costs)
    /\ Accept(a, [op |-> "manual", line |-> line])
WriteManual(a) ==
  /\ ~Resting(a) /\ admin[a].op = "manual" /\ numbers < MaxCosts
  /\ Insert(a, {Cost(numbers + 1, admin[a].line, "manual",
                     [category |-> admin[a].line.code, charged |-> TRUE,
                      months |-> admin[a].line.months])})

\* reapplyRules: the rows of the books are read, classified, and all saved if one
\* changes; a code without a rule stays as it is
Ruled(r) == r.code \in DOMAIN rules
Reclassified(r) ==
  IF ~Ruled(r) THEN r
  ELSE [r EXCEPT !.category = rules[r.code].category, !.charged = rules[r.code].charged,
                 !.months = IF rules[r.code].charged THEN @ ELSE Unset]
BeginReapply(a) ==
  /\ \E r \in Books : Reclassified(r) # r
  /\ Accept(a, [op |-> "reapply", rows |-> {Reclassified(r) : r \in Books}])
WriteReapply(a) ==
  LET rows == admin[a].rows IN
  /\ ~Resting(a) /\ admin[a].op = "reapply"
  /\ costs' = IF Admits(rows)
              THEN {r \in costs : \A s \in rows : s.id # r.id} \cup rows ELSE costs
  /\ Done(a) /\ UNCHANGED <<rules, numbers, jobs>>

RemoveCost ==
  \E r \in costs :
    /\ jobs < MaxJobs /\ jobs' = jobs + 1
    /\ costs' = costs \ {r}
    /\ UNCHANGED <<rules, admin, numbers>>

\* A program with other rules is started; requests under way die with the old one
Deploy ==
  \E book \in RuleBooks :
    /\ book # rules /\ rules' = book
    /\ jobs < MaxJobs /\ jobs' = jobs + 1
    /\ admin' = [a \in Admins |-> Unset]
    /\ UNCHANGED <<costs, numbers>>

CostInit ==
  /\ costs = {} /\ rules \in RuleBooks
  /\ admin = [a \in Admins |-> Unset]
  /\ numbers = 0 /\ jobs = 0
CostNext ==
  \/ \E a \in Admins :
       \/ BeginCommit(a) \/ WriteCommit(a) \/ BeginManual(a) \/ WriteManual(a)
       \/ BeginReapply(a) \/ WriteReapply(a)
  \/ RemoveCost \/ Deploy
CostSpec == CostInit /\ [][CostNext]_costVars

----------------------------------------------------------------------------
Finished(a, op) == admin[a] # Unset /\ admin[a].op = op /\ admin'[a] = Unset /\ rules' = rules
Line(r) == <<r.code, r.doc, r.amount>>

\* However often a file comes, and whoever else works meanwhile: a line of the books
\* is there once.  An import adds the lines it planned, all or none, and takes none
\* away, those the file lacks among them.  After the rules are applied to what was
\* there, every row of the books follows them, and what is not charged is not spread.
\* A row's amount, date and source never change (plan, commit, reapplyRules).
CostsStandOnce ==
  [][/\ \A r, s \in costs' : Line(r) = Line(s) => r = s
     /\ \A r \in costs, s \in costs' : r.id = s.id =>
          Line(r) = Line(s) /\ r.source = s.source /\ r.date = s.date
     /\ \A a \in Admins : Finished(a, "commit") =>
          /\ costs \subseteq costs' /\ \A r \in Vanished(admin[a].file) : r \in costs'
          /\ costs' # costs =>
               \A k \in DOMAIN admin[a].file.lines :
                 LET line == admin[a].file.lines[k] IN
                 InTime(admin[a].file, line) =>
                   dedupeKey(line) \in KeysOf(costs') \cup admin[a].had
     /\ \A a \in Admins : Finished(a, "reapply") /\ costs' # costs =>
          \A r \in costs' : r.source = "quickbooks" /\ r.code \in DOMAIN rules =>
            r.category = rules[r.code].category /\ r.charged = rules[r.code].charged
     /\ \A r \in costs' : r.source = "quickbooks" /\ ~r.charged => r.months = Unset]_costVars
=============================================================================
