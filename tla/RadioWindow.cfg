\* Two starts and a stop: with no fault but the stop's signal; with supervisors
\* that crash and starts that are interrupted; and with every wait running out.
SPECIFICATION Spec
CONSTANTS
  Starts = {s1, s2}
  Stops = {t1}
  Tags = {mdns}
  None = None
  Serial = TRUE
  Scenarios = {{}, {"crash", "interrupt"}, {"crash", "interrupt", "hang"}}
SYMMETRY Symmetry
INVARIANTS OneSupervisor RadioAlone AllQuiet
PROPERTIES NoLostExtension FailedStartCleans
