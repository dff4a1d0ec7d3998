------------------------ MODULE MCSupplierPayments ------------------------
(* Two invoices and two credit notes of one supplier, one invoice of another *)
EXTENDS InvoiceReports, TLC

CONSTANTS u1, u2

Dollars(s, n) == [supplier |-> s, ccy |-> "USD", total |-> n]
Euros(s, n) == [supplier |-> s, ccy |-> "EUR", total |-> n]

MCDocuments == {Dollars("a", 2), Dollars("a", 1), Dollars("a", -2), Euros("a", 2), Dollars("b", 2)}
FewDocuments == {Dollars("a", 2), Dollars("a", -2), Euros("a", 2)}
MCGiven == [i \in Invoices |->
  CASE i = 1 -> Dollars("a", 2) [] i = 2 -> Dollars("a", -2)
    [] i = 3 -> Dollars("a", 1) [] OTHER -> Dollars("b", 2)]
\* With an invoice closed before the system
FewGiven == [MCGiven EXCEPT ![3] = Dollars("a", 2)]

\* Cash alone, credit alone, both, two invoices at once, a note used up, and
\* the batches that no invoice or only some accept
Credit(n, i, x) == [note |-> n, invoice |-> i, amount |-> x]
Batch(cash, credits) == [supplier |-> "a", cash |-> cash, credits |-> credits]
MCBatches == {
  Batch(1 :> 0, {Credit(2, 1, 1)}),
  Batch(1 :> 0, {Credit(2, 1, 2)}),
  Batch(3 :> 0, {Credit(2, 3, 1)}),
  Batch(1 :> 1 @@ 3 :> 1, {}),
  Batch(1 :> 1 @@ 3 :> 0, {Credit(2, 1, 1), Credit(2, 3, 1)})}
FewBatches == {Batch(1 :> 0, {Credit(2, 1, 1)}), Batch(1 :> 1, {Credit(2, 1, 1)})}

Symmetry == Permutations(Users)
=============================================================================
