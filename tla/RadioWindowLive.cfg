\* Termination and expiry under fairness; the children do not matter to them.
SPECIFICATION FairSpec
CONSTANTS
  Starts = {s1, s2}
  Stops = {t1}
  Tags = {}
  None = None
  Serial = TRUE
  Scenarios = {{}}
PROPERTIES CommandsReturn DeadlineEnds
