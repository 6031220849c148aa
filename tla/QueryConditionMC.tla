-------------------------- MODULE QueryConditionMC --------------------------
(* Reducers, evaluators and data for model checking QueryCondition. *)
EXTENDS QueryCondition

AllReducers == {"avg", "sum", "min", "max", "last", "median", "diff",
                "percent_diff", "count", "count_non_null"}

AllEvaluators ==
  {[type |-> "no_value", params |-> << >>]}
    \cup [type : {"gt", "lt"}, params : {<<1>>}]
    \cup [type : {"within_range", "outside_range"}, params : {<<3, 0>>}]

Numbers == {-2, 1, 3}

\* No series, one of up to four points, or two of which one is short.
Lists ==
  LET long == BoundedSeq(Numbers \cup {Null}, 4)
      short == BoundedSeq({1, Null}, 2) IN
  {<< >>} \cup {<<s>> : s \in long}
    \cup {<<s, t>> : s \in BoundedSeq({1, Null}, 3), t \in short}
    \cup {<<s, t>> : s \in short, t \in BoundedSeq({1, Null}, 3)}
=============================================================================
