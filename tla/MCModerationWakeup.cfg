SPECIFICATION FairSpec
CONSTANTS
  NoContent = NoContent
  NoEdit = NoEdit
  NoLog = NoLog
  NoProcess = NoProcess
  m1 = m1
  m2 = m2
  p1 = p1
  Messages = {m1, m2}
  Reviews = {}
  Publications = {}
  Processes = {p1}
  Texts = {"clean", "banned", "abusive"}
  Answers = {"answer"}
  MaxAttempts = 3
  BatchSize = 10
  SweepLimit = 20
  MaxCrashes = 0
  MaxFaults = 0
  MaxEdits = 0
PROPERTY EveryTaskJudged
CHECK_DEADLOCK FALSE
