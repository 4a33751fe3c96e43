SPECIFICATION FairSpec
CONSTANTS
  NoContent = NoContent
  NoEdit = NoEdit
  NoLog = NoLog
  NoProcess = NoProcess
  m1 = m1
  p1 = p1
  r1 = r1
  Messages = {m1}
  Reviews = {r1}
  Publications = {}
  Processes = {p1}
  Texts = {"clean", "banned"}
  Answers = {"answer", "noKey", "permanent", "recoverable"}
  MaxAttempts = 2
  BatchSize = 2
  SweepLimit = 20
  MaxCrashes = 1
  MaxFaults = 1
  MaxEdits = 0
PROPERTIES EveryContentQueued ClaimsAreReleased
CHECK_DEADLOCK FALSE
