---------------------------- MODULE AlertHistory ----------------------------
(***************************************************************************)
(* What the alerting engine promises about the life of an alert, whatever  *)
(* servers, goroutines and reloads there are: users create, pause, resume  *)
(* and delete it; while it exists and is not paused an evaluation may      *)
(* change its state, which is counted; and every change is announced at    *)
(* most once, after it was saved.                                          *)
(***************************************************************************)
EXTENDS Integers

CONSTANT Alerts

RowStates == {"ok", "alerting", "no_data", "pending", "paused"}

VARIABLES state, changes, sent
vars == <<state, changes, sent>>

Init ==
  /\ state = [a \in Alerts |-> "unborn"]
  /\ changes = [a \in Alerts |-> 0]
  /\ sent = {}

Create(a) ==
  /\ state[a] = "unborn"
  /\ state' = [state EXCEPT ![a] = "pending"]
  /\ UNCHANGED <<changes, sent>>

\* A user pauses, resumes or deletes the alert.
Request(a, st) ==
  /\ state[a] \in RowStates /\ st \in {"paused", "pending", "deleted"}
  /\ state' = [state EXCEPT ![a] = st]
  /\ UNCHANGED <<changes, sent>>

Change(a, st) ==
  /\ state[a] \in RowStates \ {"paused", st}
  /\ state' = [state EXCEPT ![a] = st]
  /\ changes' = [changes EXCEPT ![a] = @ + 1]
  /\ UNCHANGED sent

Announce(a, n) ==
  /\ n \in 1..changes[a] /\ <<a, n>> \notin sent
  /\ sent' = sent \cup {<<a, n>>}
  /\ UNCHANGED <<state, changes>>

Next ==
  \E a \in Alerts :
    \/ Create(a)
    \/ \E st \in {"paused", "pending", "deleted"} : Request(a, st)
    \/ \E st \in RowStates : Change(a, st)
    \/ \E n \in 1..changes[a] : Announce(a, n)

Spec == Init /\ [][Next]_vars
=============================================================================
