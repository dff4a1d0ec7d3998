---------------------------- MODULE MCDepreciation ----------------------------
(***************************************************************************)
(* Depreciation to its end, for TLC: one vessel whose schedule charges its *)
(* whole cost, in two months.                                              *)
(***************************************************************************)
EXTENDS Depreciation, TLC

MCPlans == {[amount |-> 1, start |-> 1, end |-> 2]}
=============================================================================
