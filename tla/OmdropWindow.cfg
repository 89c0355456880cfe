\* Three ons, an off and the timers: repeated at will with nothing failing but the
\* receiver; one window at a time with starts that fail; and with all of it.
SPECIFICATION Spec
CONSTANTS
  Ons = {n1, n2, n3}
  Offs = {f1}
  None = None
  Scenarios = {{"crash", "repeat"}, {"arm", "receiver", "radio", "crash"},
               {"arm", "receiver", "radio", "crash", "stop", "repeat"}}
SYMMETRY Symmetry
VIEW View
INVARIANTS WindowsBounded ClosedIsClosed IdentityHeld
PROPERTY TurnsKept
