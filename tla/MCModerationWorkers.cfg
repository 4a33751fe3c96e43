SPECIFICATION Spec
CONSTANTS
  NoContent = NoContent
  NoEdit = NoEdit
  NoLog = NoLog
  NoProcess = NoProcess
  m1 = m1
  p1 = p1
  p2 = p2
  p3 = p3
  Messages = {m1}
  Reviews = {}
  Publications = {}
  Processes = {p1, p2, p3}
  Texts = {"clean", "banned", "abusive"}
  Answers = {"answer", "recoverable"}
  MaxAttempts = 3
  BatchSize = 10
  SweepLimit = 20
  MaxCrashes = 1
  MaxFaults = 1
  MaxEdits = 0
SYMMETRY Symmetry
INVARIANTS TypeOK VerdictsMatchTasks MessagesScreened DegradedAfterRetries
PROPERTY VerdictIsFinal
CHECK_DEADLOCK FALSE
