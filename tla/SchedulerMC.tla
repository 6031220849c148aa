---------------------------- MODULE SchedulerMC ----------------------------
(* Lists of rows for model checking Scheduler. *)
EXTENDS Scheduler

CONSTANTS i1, i2, i3

ActiveRow(a, f) == [id |-> a, frequency |-> f, paused |-> FALSE]
PausedRow(a, f) == [id |-> a, frequency |-> f, paused |-> TRUE]

\* Rows are added, removed, reordered, paused and edited; a fetch fails.
Changing ==
  {<< >>,
   <<ActiveRow(i1, 4)>>,
   <<ActiveRow(i1, 4), ActiveRow(i2, 6)>>,
   <<ActiveRow(i2, 6), ActiveRow(i1, 4)>>,
   <<ActiveRow(i2, 2), PausedRow(i1, 4)>>,
   <<PausedRow(i2, 6), ActiveRow(i1, 3)>>,
   <<ActiveRow(i3, 1), ActiveRow(i2, 6), ActiveRow(i1, 6)>>}

\* As above, and one rule says "every 0 seconds".
WithZero == Changing \cup {<<ActiveRow(i1, 4), ActiveRow(i2, 0)>>}
============================================================================
