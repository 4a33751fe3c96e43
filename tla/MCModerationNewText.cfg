SPECIFICATION Spec
CONSTANTS
  NoContent = NoContent
  NoEdit = NoEdit
  NoLog = NoLog
  NoProcess = NoProcess
  p1 = p1
  r1 = r1
  Messages = {}
  Reviews = {r1}
  Publications = {}
  Processes = {p1}
  Texts = {"clean", "banned", "abusive"}
  Answers = {"answer"}
  MaxAttempts = 3
  BatchSize = 10
  SweepLimit = 20
  MaxCrashes = 0
  MaxFaults = 0
  MaxEdits = 1
INVARIANT NewTextIsReviewed
CHECK_DEADLOCK FALSE
