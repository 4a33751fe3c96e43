SPECIFICATION Spec
CONSTANTS
  Users = {u1, u2, u3}
  Groups = {g1}
  Requests = {r1, r2}
  Txns = {t1, t2}
  Capacities = {2}
  MaxUnavailable = 1
  NoUser = NoUser
  NoGroup = NoGroup
  NoRequest = NoRequest
  NoTxn = NoTxn
SYMMETRY Symmetry
INVARIANTS
  TypeOK
  CapacityRespected
  OneSeatedLeader
  PendingAreOutsiders
