\* Windows end, however often they are opened again, and however starts fail; the
\* watcher may have to run off inside itself.
SPECIFICATION FairSpec
CONSTANTS
  Ons = {n1, n2}
  Offs = {}
  None = None
  Scenarios = {{"crash", "repeat"}, {"arm", "receiver", "radio", "crash"}}
PROPERTY WindowsEnd
