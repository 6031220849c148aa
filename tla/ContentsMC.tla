------------------------------ MODULE ContentsMC -------------------------------
(* Three dashboards and two files whose titles come between theirs.          *)
EXTENDS Contents

CONSTANTS t1, t2

MCTags == {t1, t2}
MCDashboards == {1, 3, 5}
MCFiles == {2, 4}
MCDashTags == [d \in 1..5 |-> IF d = 1 THEN {t1, t2} ELSE IF d \in {2, 5} THEN {t2} ELSE {}]
At(order, item) == [order |-> order, item |-> item]
MCLists ==
  { <<>>, <<At(1, <<"id", 3>>)>>, <<At(2, <<"id", 5>>), At(1, <<"tag", t2>>)>>,
    <<At(1, <<"tag", t1>>), At(3, <<"id", 1>>), At(2, <<"id", 3>>)>> }
=============================================================================
