------------------------------- MODULE LoginsMC --------------------------------
(* Requests are alike, and so are users.                                     *)
EXTENDS Logins, TLC

Alike == Permutations(Procs) \cup Permutations(Users)
=============================================================================
