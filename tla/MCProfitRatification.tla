------------------------ MODULE MCProfitRatification ------------------------
(* Two periods, two partners; figures that move between them                *)
EXTENDS ProfitRatification, TLC

CONSTANTS u1, u2, p1, p2, badawi, ittihad, stranger

Figured(b, i, all) ==
  [figures |-> (badawi :> b @@ ittihad :> i), complete |-> all]
MCInputs == {Figured(1, 2, TRUE), Figured(3, 0, TRUE), Figured(0, 0, FALSE)}
FewInputs == {Figured(1, 2, TRUE), Figured(3, 0, TRUE)}

Entry(who, n) == [partner |-> who, amount |-> n]
MCOpenings == {<<Entry(badawi, -1), Entry(stranger, 1)>>, <<>>}

Symmetry == Permutations(Users) \cup Permutations(Periods)
=============================================================================
