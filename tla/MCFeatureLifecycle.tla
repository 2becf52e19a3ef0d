------------------------- MODULE MCFeatureLifecycle -------------------------
(***************************************************************************)
(* Instances of FeatureLifecycle for TLC.  The projects differ in whether  *)
(* a successful build has one test to run, two script probes, or nothing   *)
(* it could run, and in whether Agentic Review is on.                      *)
(***************************************************************************)
EXTENDS FeatureLifecycle, TLC

Symmetry == Permutations(Requests) \union Permutations(Reconcilers)

OneTest      == [tests |-> 1, scripts |-> FALSE, review |-> TRUE]
TwoScripts   == [tests |-> 0, scripts |-> TRUE,  review |-> TRUE]
Untestable   == [tests |-> 0, scripts |-> FALSE, review |-> TRUE]
ManualReview == [tests |-> 1, scripts |-> FALSE, review |-> FALSE]

OneTestProject      == {OneTest}
ManualReviewProject == {ManualReview}
GateProjects        == {OneTest, TwoScripts, Untestable}

\* One grill and its build; and a second build where at most one test is
\* dispatched.
Twice  == [p \in Projects |-> 2]
Thrice == [p \in Projects |-> IF p.scripts THEN 2 ELSE 3]

\* Settings change at any time, but a project that has script probes keeps
\* them: a batch of two runs beside three attempts is too large for TLC.
SameKind == project'.scripts = project.scripts
=============================================================================
