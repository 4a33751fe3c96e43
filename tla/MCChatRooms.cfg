SPECIFICATION Spec
CONSTANTS
  Users = {u1, u2}
  Sockets = {s1, s2}
  Messages = {m1}
  Traffic = {"join", "leave", "send", "typing", "act", "event", "sweep"}
  Calls = {c1}
  Sweeper = Sweeper
  MaxTroubles = 1
  NoUser = NoUser
  NoSocket = NoSocket
  NoMessage = NoMessage
SYMMETRY Symmetry
INVARIANTS TypeOK RecordsAgree ScreensAreCurrent AnnouncedOnce
PROPERTY OutsidersHearNothing
