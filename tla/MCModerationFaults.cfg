SPECIFICATION Spec
CONSTANTS
  NoContent = NoContent
  NoEdit = NoEdit
  NoLog = NoLog
  NoProcess = NoProcess
  d1 = d1
  p1 = p1
  r1 = r1
  Messages = {}
  Reviews = {r1}
  Publications = {d1}
  Processes = {p1}
  Texts = {"clean", "banned"}
  Answers = {"answer"}
  MaxAttempts = 2
  BatchSize = 1
  SweepLimit = 1
  MaxCrashes = 1
  MaxFaults = 1
  MaxEdits = 1
PROPERTY ImplementsContentScreening
CHECK_DEADLOCK FALSE
