SPECIFICATION Spec
CONSTANTS
  Types = {"publication", "message", "review"}
  Calls = {q1, q2}
  Reporters = {u1, u2}
  MaxReports = 2
SYMMETRY Symmetry
INVARIANTS
  TypeOK
  OneDecisionPerCase
  NoticesAreTrue
  RemovalsAreReal
PROPERTIES
  OnlyStaleWritesRepublish
\* When the content is deleted and every case is closed nothing is left to do.
CHECK_DEADLOCK FALSE
