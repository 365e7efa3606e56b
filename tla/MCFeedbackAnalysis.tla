------------------------ MODULE MCFeedbackAnalysis ------------------------
(* A small instance of FeedbackAnalysis.                                   *)
EXTENDS FeedbackAnalysis, TLC

CONSTANTS r1, r2, r3, m1, m2, q1, q2

Form(items) == [useless |-> FALSE, items |-> items]
To(question, options) == [question |-> question, options |-> options]

\* Useless, nothing answered, and forms whose options have the ids that the
\* first rows of the choices get.
MCSubmissions ==
  {[useless |-> TRUE, items |-> <<>>], Form(<<>>),
   Form(<<To(q1, <<2, 1>>)>>), Form(<<To(q1, <<>>), To(q2, <<2>>)>>)}

Symmetry == Permutations({r1, r2, r3}) \cup Permutations({m1, m2})
=============================================================================
