------------------------------ MODULE LedgerBook ------------------------------
(***************************************************************************)
(* What the accounting core promises an auditor, with no request, lock or  *)
(* draft in sight: per fiscal year one book of numbered pages.  A page is  *)
(* written at the end of the book and never again; a page may cancel one   *)
(* page of the books, exactly and once; a period closed for good takes no  *)
(* page.                                                                   *)
(***************************************************************************)
EXTENDS Integers, Sequences

CONSTANTS Years, Periods, Accounts, NoPage

VARIABLES book, \* [Years -> sequence of pages]
          final \* the periods closed for good

bookVars == <<book, final>>

\* Where a page is: its year and its number
Places == UNION {{y} \X (1 .. Len(book[y])) : y \in Years}
Page(at) == book[at[1]][at[2]]
IsCancelled(at) == \E by \in Places : Page(by).cancels = at

\* A page is its period, its net amount per account and the page it cancels
NewPage(y) == book'[y][Len(book[y]) + 1]
Write(y) ==
  /\ Len(book'[y]) = Len(book[y]) + 1
  /\ book' = [book EXCEPT ![y] = Append(@, NewPage(y))]
  /\ NewPage(y).period \in Periods \ final
  /\ NewPage(y).period[1] = y
  /\ UNCHANGED final

\* An ordinary entry
Enter(y) ==
  /\ Write(y)
  /\ NewPage(y).cancels = NoPage

\* A reversing entry: the opposite amounts, in the same period or a later one
Cancel(y) ==
  /\ Write(y)
  /\ \E at \in Places :
       /\ ~IsCancelled(at)
       /\ NewPage(y).cancels = at
       /\ NewPage(y).net = [a \in Accounts |-> -Page(at).net[a]]
       /\ at[1] <= y
       /\ at[1] = y => Page(at).period[2] <= NewPage(y).period[2]

CloseForGood ==
  /\ \E p \in Periods \ final : final' = final \cup {p}
  /\ UNCHANGED book

BookInit == book = [y \in Years |-> <<>>] /\ final = {}
BookNext == CloseForGood \/ \E y \in Years : Enter(y) \/ Cancel(y)
BookSpec == BookInit /\ [][BookNext]_bookVars
=============================================================================
