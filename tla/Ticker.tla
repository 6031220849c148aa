------------------------------- MODULE Ticker -------------------------------
(***************************************************************************)
(* The ticker of the alerting engine: a goroutine that hands the engine    *)
(* the timestamps of successive seconds through an unbuffered channel, C,  *)
(* and learns of a new offset through another, newOffset.  While it waits  *)
(* for its receiver ticks queue up, and so do callers of updateOffset.     *)
(*                                                                         *)
(* Clock and timestamps are counted in parts of a second.                  *)
(***************************************************************************)
EXTENDS Integers

CONSTANTS
  Unit,     \* parts in a second
  CreatedAt,    \* the clock when the ticker is created
  Lasts,    \* timestamps it may be created with
  Offsets,  \* offsets it may be given
  MaxTime   \* bound: where the clock stops

ASSUME TickerAssumption ==
  /\ Unit \in Nat \ {0} /\ CreatedAt \in Nat /\ MaxTime \in Nat
  /\ Lasts \subseteq Int /\ Offsets \subseteq Nat

VARIABLES
  clock,       \* t.clock
  offset,    \* t.offset
  last,      \* t.last
  stage,        \* run: "look" at the clock, "send" a tick or "sleep"
  wake,      \* when the timer run sleeps on fires
  asked,     \* offsets of the calls of updateOffset that are blocked
  receiving  \* TRUE while the engine waits for a tick

tickerVars == <<clock, offset, last, stage, wake, asked, receiving>>

next == last + Unit
diff == clock - offset - next

TickerInit ==
  /\ clock = CreatedAt
  /\ offset \in Offsets
  /\ last \in Lasts
  /\ stage = "look" /\ wake = CreatedAt
  /\ asked = {}
  /\ receiving = TRUE

\* Defect: a tick that is exactly old enough is too young.
LookTooLong ==
  /\ stage = "look"
  /\ IF diff > 0 THEN stage' = "send" /\ UNCHANGED wake
     ELSE stage' = "sleep" /\ wake' = clock - diff
  /\ UNCHANGED <<clock, offset, last, asked, receiving>>

Look ==
  /\ stage = "look"
  /\ IF diff >= 0 THEN stage' = "send" /\ UNCHANGED wake
     ELSE stage' = "sleep" /\ wake' = clock - diff
  /\ UNCHANGED <<clock, offset, last, asked, receiving>>

\* Defect: what queued up is dropped.
SendLatest ==
  /\ stage = "send" /\ receiving
  /\ last' = next + (diff \div Unit) * Unit
  /\ stage' = "look" /\ receiving' = FALSE
  /\ UNCHANGED <<clock, offset, wake, asked>>

\* The engine takes a tick.
Send ==
  /\ stage = "send" /\ receiving
  /\ last' = next
  /\ stage' = "look" /\ receiving' = FALSE
  /\ UNCHANGED <<clock, offset, wake, asked>>

TimerFires ==
  /\ stage = "sleep" /\ clock >= wake
  /\ stage' = "look"
  /\ UNCHANGED <<clock, offset, last, wake, asked, receiving>>

NewOffset(o) ==
  /\ stage = "sleep" /\ o \in asked
  /\ offset' = o /\ asked' = asked \ {o}
  /\ stage' = "look"
  /\ UNCHANGED <<clock, last, wake, receiving>>

\* The other end of the channels, and the clock.
updateOffset(o) ==
  /\ asked' = asked \cup {o}
  /\ UNCHANGED <<clock, offset, last, stage, wake, receiving>>

Receive ==
  /\ ~receiving /\ receiving' = TRUE
  /\ UNCHANGED <<clock, offset, last, stage, wake, asked>>

TimePasses ==
  /\ clock < MaxTime /\ clock' = clock + 1
  /\ UNCHANGED <<offset, last, stage, wake, asked, receiving>>

Run == Look \/ Send \/ TimerFires \/ \E o \in Offsets : NewOffset(o)

TickerNext == Run \/ Receive \/ TimePasses \/ \E o \in Offsets : updateOffset(o)

TickerSpec == TickerInit /\ [][TickerNext]_tickerVars

\* The goroutine runs, the engine comes back for the next tick, time passes.
TickerFairness == WF_tickerVars(Run) /\ WF_tickerVars(Receive) /\ WF_tickerVars(TimePasses)

TickerFairSpec == TickerSpec /\ TickerFairness

---------------------------------------------------------------------------
TickerTypeOK ==
  /\ clock \in Int /\ last \in Int /\ wake \in Int
  /\ offset \in Offsets /\ asked \subseteq Offsets
  /\ stage \in {"look", "send", "sleep"} /\ receiving \in BOOLEAN

\* A tick that waits for its receiver is old enough for the offset of now,
\* whatever was asked since run looked at the clock; and the timer wakes run
\* when the tick it sleeps on is due, not a moment later.
NotTooYoung ==
  /\ stage = "send" => diff >= 0
  /\ stage = "sleep" => wake = next + offset

\* What the receiver sees is the stream of ticks TickStream promises.
Stream ==
  INSTANCE TickStream WITH Unit <- Unit, now <- clock, offset <- offset, last <- last
IsTickStream == Stream!Spec

\* In spite of a slow receiver and of offsets that come and go the ticker
\* catches up: when offsets settle it is less than a second behind.
CatchesUp ==
  <>[](asked = {}) => <>[](diff < 0)
=============================================================================
