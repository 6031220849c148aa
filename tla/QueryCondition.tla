--------------------------- MODULE QueryCondition ---------------------------
(***************************************************************************)
(* The only condition there is: the series that a query returns are        *)
(* reduced to one value each, the value is held against a threshold, and   *)
(* the condition fires if any of them matches.                             *)
(*                                                                         *)
(* A point is a number or Null.  Arithmetic is exact: a reduced value is a *)
(* fraction <<num, den>>, where den = 0 stands for the infinity (<<1, 0>>) *)
(* and the NaN (<<0, 0>>) of a division by zero; NoValue is what null      *)
(* values reduce to.                                                       *)
(***************************************************************************)
EXTENDS Integers, FiniteSets, SequencesExt

CONSTANTS
  Null,
  Reducers,    \* types of reducers
  Evaluators,  \* evaluators, [type, params]
  SeriesLists, \* what the query may return: sequences of series
  MaxFloat     \* more than any number in a series

NoValue == << >>

VARIABLES
  reducer, evaluator, seriesList,  \* the condition and its data
  i,                               \* number of series done
  emptySerieCount, evalMatchCount,
  result,                          \* what Eval returned
  step                               \* "loop", "done" or "panicked"

input == <<reducer, evaluator, seriesList>>
conditionVars == <<input, i, emptySerieCount, evalMatchCount, result, step>>

(***************************************************************************)
(* SimpleReducer.                                                          *)
(***************************************************************************)
NonNull(points) == SelectSeq(points, LAMBDA p : p # Null)
LastNonNull(points) == SelectLastInSeq(points, LAMBDA p : p # Null)
Total(numbers) == FoldLeft(LAMBDA a, b : a + b, 0, numbers)

\* Defect: the smallest number so far is 0 at first.
LeastFromZero(numbers) ==
  FoldLeft(LAMBDA a, b : IF a > b THEN b ELSE a, 0, numbers)

Least(numbers) ==
  FoldLeft(LAMBDA a, b : IF a > b THEN b ELSE a, MaxFloat, numbers)
Greatest(numbers) ==
  FoldLeft(LAMBDA a, b : IF a < b THEN b ELSE a, -MaxFloat, numbers)

Median(numbers) ==
  LET s == SortSeq(numbers, LAMBDA a, b : a < b)
      half == Len(s) \div 2 IN
  IF Len(s) % 2 = 1 THEN <<s[half + 1], 1>>
  ELSE <<s[half] + s[half + 1], 2>>

\* The newest value and the one before; without one before the value is 0.
Newest(points) == points[LastNonNull(points)]
Older(points) == SubSeq(points, 1, LastNonNull(points) - 1)

Diff(points) ==
  LET k == LastNonNull(Older(points)) IN
  IF k = 0 THEN <<0, 1>> ELSE <<Newest(points) - points[k], 1>>

Magnitude(x) == IF x < 0 THEN -x ELSE x
PercentDiff(points) ==
  LET k == LastNonNull(Older(points))
      change == 100 * Magnitude(Newest(points) - points[k]) IN
  IF k = 0 THEN <<0, 1>>
  ELSE IF points[k] = 0 THEN <<IF change > 0 THEN 1 ELSE 0, 0>>
  ELSE <<change, Magnitude(points[k])>>

\* points[0:i] with i = -1, when diff finds no newest value.
ReducePanics(type, points) ==
  type \in {"diff", "percent_diff"} /\ points # << >> /\ NonNull(points) = << >>

Reduce(type, points) ==
  LET numbers == NonNull(points) IN
  IF points = << >> THEN NoValue
  ELSE IF type = "count" THEN <<Len(points), 1>>
  ELSE IF numbers = << >> THEN NoValue
  ELSE CASE type = "avg" -> <<Total(numbers), Len(numbers)>>
         [] type = "sum" -> <<Total(numbers), 1>>
         [] type = "min" -> <<Least(numbers), 1>>
         [] type = "max" -> <<Greatest(numbers), 1>>
         [] type = "last" -> <<Newest(points), 1>>
         [] type = "median" -> Median(numbers)
         [] type = "diff" -> Diff(points)
         [] type = "percent_diff" -> PercentDiff(points)
         [] type = "count_non_null" -> <<Len(numbers), 1>>

(***************************************************************************)
(* AlertEvaluator.                                                         *)
(***************************************************************************)
Above(v, t) == v[1] > t * v[2]
Below(v, t) == v[1] < t * v[2]

Matches(e, v) ==
  IF e.type = "no_value" THEN v = NoValue
  ELSE /\ v # NoValue
       /\ LET lower == e.params[1]
              upper == e.params[Len(e.params)] IN
          CASE e.type = "gt" -> Above(v, lower)
            [] e.type = "lt" -> Below(v, lower)
            [] e.type = "within_range" ->
                 \/ Above(v, lower) /\ Below(v, upper)
                 \/ Above(v, upper) /\ Below(v, lower)
            [] e.type = "outside_range" ->
                 \/ Above(v, lower) /\ Above(v, upper)
                 \/ Below(v, lower) /\ Below(v, upper)

(***************************************************************************)
(* QueryCondition.Eval.                                                    *)
(***************************************************************************)
ConditionInit ==
  /\ reducer \in Reducers /\ evaluator \in Evaluators
  /\ seriesList \in SeriesLists
  /\ i = 0 /\ emptySerieCount = 0 /\ evalMatchCount = 0
  /\ result = [firing |-> FALSE, noData |-> FALSE]
  /\ step = "loop"

One(condition) == IF condition THEN 1 ELSE 0

Series ==
  /\ step = "loop" /\ i < Len(seriesList)
  /\ LET points == seriesList[i + 1]
         v == Reduce(reducer, points) IN
     /\ ~ReducePanics(reducer, points)
     /\ emptySerieCount' = emptySerieCount + One(v = NoValue)
     /\ evalMatchCount' = evalMatchCount + One(Matches(evaluator, v))
  /\ i' = i + 1
  /\ UNCHANGED <<input, result, step>>

SeriesPanics ==
  /\ step = "loop" /\ i < Len(seriesList)
  /\ ReducePanics(reducer, seriesList[i + 1])
  /\ step' = "panicked"
  /\ UNCHANGED <<input, i, emptySerieCount, evalMatchCount, result>>

\* A query that returns no series is held against the evaluator as well.
Return ==
  /\ step = "loop" /\ i = Len(seriesList)
  /\ evalMatchCount' =
       evalMatchCount + One(i = 0 /\ Matches(evaluator, NoValue))
  /\ result' = [firing |-> evalMatchCount' > 0,
                noData |-> emptySerieCount = i]
  /\ step' = "done"
  /\ UNCHANGED <<input, i, emptySerieCount>>

ConditionNext == Series \/ SeriesPanics \/ Return

ConditionSpec == ConditionInit /\ [][ConditionNext]_conditionVars

---------------------------------------------------------------------------
ConditionTypeOK ==
  /\ reducer \in Reducers /\ evaluator \in Evaluators
  /\ seriesList \in SeriesLists
  /\ i \in 0..Len(seriesList)
  /\ emptySerieCount \in 0..i
  /\ evalMatchCount \in 0..(IF seriesList = << >> THEN 1 ELSE i)
  /\ result \in [firing : BOOLEAN, noData : BOOLEAN]
  /\ step \in {"loop", "done", "panicked"}

IsNull(points) == NonNull(points) = << >>
OnlyNulls == \A k \in DOMAIN seriesList : IsNull(seriesList[k])

\* Of queries that return no series, empty ones or only null values Eval, when
\* it returns, reports no data, and it fires only if that is what the condition
\* looks for; but count counts null points.
NullsAreNoData ==
  step = "done" /\ OnlyNulls /\ reducer # "count"
    => result.noData /\ (result.firing <=> evaluator.type = "no_value")

\* Null values are handled, as the documentation of the no data options says:
\* Eval returns with a result.
NullsAreHandled == OnlyNulls => step # "panicked"

\* Null points among others change nothing, but for count.
NullsAreIgnored ==
  reducer # "count" =>
    \A k \in DOMAIN seriesList :
      Reduce(reducer, seriesList[k]) = Reduce(reducer, NonNull(seriesList[k]))

\* avg, median and last lie between min and max, which are values of the
\* series, and at least half of the values lie on either side of the median.
ReducersAgree ==
  \A k \in DOMAIN seriesList :
    LET s == seriesList[k]
        values == NonNull(s)
        low == Reduce("min", s)[1]
        high == Reduce("max", s)[1]
        median == Reduce("median", s)
        below == {n \in DOMAIN values : ~Above(median, values[n])}
        above == {n \in DOMAIN values : ~Below(median, values[n])} IN
    ~IsNull(s) =>
      /\ \E n \in DOMAIN values : values[n] = low
      /\ \E n \in DOMAIN values : values[n] = high
      /\ \A t \in {"avg", "median", "last"} :
           ~Below(Reduce(t, s), low) /\ ~Above(Reduce(t, s), high)
      /\ 2 * Cardinality(below) >= Len(values)
      /\ 2 * Cardinality(above) >= Len(values)

\* Every reducer is right about nulls, and right beside the others.
ReducersRight == NullsAreNoData /\ NullsAreIgnored /\ ReducersAgree
=============================================================================
