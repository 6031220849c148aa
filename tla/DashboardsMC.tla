---------------------------- MODULE DashboardsMC ----------------------------
(***************************************************************************)
(* An instance of Dashboards for TLC.                                      *)
(***************************************************************************)
EXTENDS Dashboards, TLC
CONSTANTS r1, r2

Alert(panel, def, ok) == [panel |-> panel, def |-> def, ok |-> ok]
Json(slug, as) == [slug |-> slug, alerts |-> as, rev |-> 1]

\* The third has an alert that is invalid behind a valid one.
Dashes ==
  { Json("a", <<>>),
    Json("a", <<Alert(1, "x", TRUE)>>),
    Json("b", <<Alert(1, "y", TRUE), Alert(2, "x", FALSE)>>),
    Json("b", <<Alert(1, "y", TRUE), Alert(2, "x", TRUE)>>) }

\* The second version of the plugin drops a dashboard and changes another.
Releases ==
  << {[slug |-> "b", alerts |-> <<>>, rev |-> 1], [slug |-> "c", alerts |-> <<>>, rev |-> 1]},
     {[slug |-> "b", alerts |-> <<>>, rev |-> 2]} >>

\* Requests are alike.
SlotSymmetry == Permutations(Slots)
============================================================================
