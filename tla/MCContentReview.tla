--------------------------- MODULE MCContentReview ---------------------------
\* One content of each type, two calls at a time and two reporters.
EXTENDS ContentReview, TLC

\* Calls and reporters are interchangeable.
Symmetry == Permutations(Calls) \cup Permutations(Reporters)
=============================================================================
