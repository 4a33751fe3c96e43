SPECIFICATION FairSpec
CONSTANTS
  Users = {u1}
  Sockets = {s1, s2}
  Messages = {m1}
  Traffic = {"join", "leave", "sweep"}
  Calls = {c1}
  Sweeper = Sweeper
  MaxTroubles = 1
  NoUser = NoUser
  NoSocket = NoSocket
  NoMessage = NoMessage
PROPERTIES OutsidersLeave OnlyLateJoinsLinger
