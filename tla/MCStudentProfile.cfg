SPECIFICATION Spec
CONSTANTS
  Pages = {"profile", "slots"}
  Calls = {q1, q2}
  Names = {n1, n2}
  Offers <- MCOffers
  Days = {d1, d2}
  Latest = 2
  Ids = {i1, i2, i3}
  None = None
SYMMETRY Symmetry
INVARIANTS
  TypeOK
PROPERTIES
  ProfileChangesTogether
  OnlyRacesOverlap
