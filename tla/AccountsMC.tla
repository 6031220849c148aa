---------------------------- MODULE AccountsMC ----------------------------
(***************************************************************************)
(* An instance of Accounts for TLC.                                        *)
(***************************************************************************)
EXTENDS Accounts, TLC
CONSTANTS r1, r2

\* "ann" is in a group of two organisations, the second of which need not
\* exist, and in two groups of the first; nobody else is in a group.
Mappings ==
  << [org |-> 1, role |-> "Viewer", names |-> {"ann"}],
     [org |-> 1, role |-> "Admin", names |-> {"ann", "bob"}],
     [org |-> 2, role |-> "Admin", names |-> {"ann"}] >>

Settings ==
  {[autoAssign |-> a, verifyEmail |-> a # s, serial |-> s,
     keyLimit |-> IF s THEN 1 ELSE 0] : a, s \in BOOLEAN}

\* Requests are alike.
SlotSymmetry == Permutations(Slots)

Row(status, o, role) == [email |-> "bob", org |-> o, role |-> role, status |-> status]
Invited ==
  {<<>>, <<Row("InvitePending", 1, "Admin")>>, <<Row("SignUpStarted", 0, NoRole)>>}
============================================================================
