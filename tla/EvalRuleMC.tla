----------------------------- MODULE EvalRuleMC -----------------------------
(* Lists of operators for model checking EvalRule. *)
EXTENDS EvalRule, SequencesExt

UpToThree == BoundedSeq(Operators, 3) \ {<< >>}
FirstAnd == {o \in UpToThree : o[1] = "and"}
=============================================================================
