SPECIFICATION FairSpec
CONSTANTS
  Users = {u1, u2}
  Groups = {g1, g2}
  Requests = {r1}
  Txns = {t1, t2}
  Capacities = {2}
  MaxUnavailable = 0
  NoUser = NoUser
  NoGroup = NoGroup
  NoRequest = NoRequest
  NoTxn = NoTxn
PROPERTIES
  SeatNeedsApproval
  DecisionsAreFinal
  RemovalIsAuthorised
  EveryCallEnds
  ImplementsStudyGroup
