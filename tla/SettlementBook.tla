--------------------------- MODULE SettlementBook ---------------------------
(***************************************************************************)
(* What the payments service promises whoever reads an invoice's paid      *)
(* amount.  An invoice (positive total) is settled from 0 up to its total, *)
(* a credit note (negative total) from 0 down to its total.  A settlement  *)
(* is whole: all its invoices and notes move in one step, and no more      *)
(* leaves the notes than arrives on the invoices.  What is undone is one   *)
(* payment of one invoice, or one application, which gives back to the     *)
(* note what it takes from the invoice.                                    *)
(***************************************************************************)
EXTENDS Integers, FiniteSets, FiniteSetsExt

CONSTANTS Papers,  \* invoices and credit notes
          Total    \* their totals, in cents

VARIABLE settled

Bills == {i \in Papers : Total[i] > 0}
Notes == {i \in Papers : Total[i] < 0}

Within(f) ==
  /\ \A i \in Bills : 0 <= f[i] /\ f[i] <= Total[i]
  /\ \A n \in Notes : Total[n] <= f[n] /\ f[n] <= 0

Moved == [i \in Papers |-> settled'[i] - settled[i]]
Net(by) == MapThenSumSet(LAMBDA i : by[i], Papers)

\* A payment, or a batch of payments and applications of credit notes
Settle ==
  /\ Within(settled')
  /\ \A i \in Bills : settled[i] <= settled'[i]
  /\ \A n \in Notes : settled'[n] <= settled[n]
  /\ Net(Moved) >= 0

\* One payment of one invoice is deleted
TakeBack ==
  \E i \in Bills :
    /\ 0 <= settled'[i] /\ settled'[i] < settled[i]
    /\ \A j \in Papers \ {i} : settled'[j] = settled[j]

\* One application of a credit note is deleted
GiveBack ==
  \E n \in Notes, i \in Bills :
    /\ 0 <= settled'[i] /\ settled'[i] < settled[i]
    /\ settled'[n] <= 0
    /\ settled'[n] - settled[n] = settled[i] - settled'[i]
    /\ \A j \in Papers \ {n, i} : settled'[j] = settled[j]

BookInit == settled = [i \in Papers |-> 0]
BookNext == Settle \/ TakeBack \/ GiveBack
BookSpec == BookInit /\ [][BookNext]_settled
=============================================================================
