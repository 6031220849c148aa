--------------------------- MODULE AlertEngineMC ---------------------------
(***************************************************************************)
(* Instances of AlertEngine for TLC.                                       *)
(***************************************************************************)
EXTENDS AlertEngine, TLC
CONSTANTS s1, s2, a1, w1, w2
OneServer == {s1}
TwoServers == {s1, s2}
OneAlert == {a1}
OneSlot == {w1}
TwoSlots == {w1, w2}

\* The goroutines of a server are alike, and so are the servers.
SlotSymmetry == Permutations(TwoSlots)
ServerSymmetry == SlotSymmetry \cup Permutations(TwoServers)
============================================================================
