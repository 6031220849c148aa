----------------------------- MODULE TickStream -----------------------------
(***************************************************************************)
(* What the alerting ticker promises its receiver: the timestamps of all   *)
(* seconds since the one it was created with, each once and in order, none *)
(* before the clock, set back by the offset, has reached it.               *)
(***************************************************************************)
EXTENDS Integers

CONSTANTS Unit,   \* clock units in a second
          Lasts,  \* timestamps a ticker may be created with
          Offsets

VARIABLES now, offset, last
vars == <<now, offset, last>>

Init == now \in Int /\ offset \in Offsets /\ last \in Lasts

TimePasses == now' > now /\ UNCHANGED <<offset, last>>

Adjust(o) == offset' = o /\ UNCHANGED <<now, last>>

Give ==
  /\ last + Unit <= now - offset
  /\ last' = last + Unit
  /\ UNCHANGED <<now, offset>>

Next == TimePasses \/ Give \/ \E o \in Offsets : Adjust(o)

Spec == Init /\ [][Next]_vars
=============================================================================
