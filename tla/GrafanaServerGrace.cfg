\* A shutdown with an evaluation in flight.
SPECIFICATION Spec
CONSTANTS
  Evals = {e1, e2}
  QueueSize = 3
  MaxQueued = 3
  Requests = 1
CHECK_DEADLOCK FALSE
INVARIANTS GraceGiven
