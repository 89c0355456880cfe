\* A log that is written while it is read, ids that rotate, answers that are
\* lost, and peers that take any time over /Discover.
SPECIFICATION Spec
CONSTANTS
  d1 = d1
  d2 = d2
  Devices = {d1, d2}
  Discoverable = {d1, d2}
  Tos <- MCTos
  None = None
  AfLog = TRUE
  Attempts = 2
  OpTimeout = 2
  Timeout = 4
  Resolve = 3
  Ops = 2
  MaxSession = 1
  MaxLost = 2
  MaxFrames = 2
INVARIANTS RightReceiver AnswersAreHeard EndsInTime
