\* A series of null points only.
SPECIFICATION ConditionSpec
CONSTANTS
  Null = Null
  Reducers <- AllReducers
  Evaluators <- AllEvaluators
  SeriesLists <- Lists
  MaxFloat = 1000
CHECK_DEADLOCK FALSE
INVARIANTS NullsAreHandled
