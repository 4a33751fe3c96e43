SPECIFICATION Spec
CONSTANTS
  Requests = {q1, q2}
  Passwords = {w1, w2}
  MaxClock = 3
  TicksPerSecond = 2
  TokenLife = 1
  MaxCodes = 2
  MaxTokens = 2
  MaxSessions = 1
  ClockStops = TRUE
  NoAccount = NoAccount
  NoPassword = NoPassword
SYMMETRY Symmetry
INVARIANTS
  TypeOK
  ActiveMeansVerified
  ClosedSessionsRejected
  SessionsCut
PROPERTIES
  ImplementsAccountLifecycle
  OnlyStaleSavesRestore
  CodesSpentOnce
  PasswordsAreAuthorised
